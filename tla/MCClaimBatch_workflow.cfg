\* A workflow in a queue with a concurrency cap.
SPECIFICATION Spec
CONSTANTS
    up = up
    down = down
    free = free
    x = x
    y = y
    c1 = c1
    c2 = c2
    NoCap = NoCap
    AnyShard = AnyShard
    Job <- TwoJobs
    Queue <- Queues
    Claimer <- Claimers
    QueueOf <- TwoQueueOf
    DependsOn <- TwoDependsOn
    Subscribed <- AllSubscribed
    Pinned <- OnePinned
    ShardOf <- OneShardEach
    Limit = 2
    InitialCap <- SecondCapped
    Caps <- NeverRecapped
    Pausable <- Queues
INVARIANT
    DependenciesFirst
