\* Two claimers after the jobs of one uncapped queue; a capped queue whose cap is
\* moved; an uncapped one that only the first claimer serves.
SPECIFICATION Spec
CONSTANTS
    up = up
    down = down
    free = free
    x = x
    y = y
    c1 = c1
    c2 = c2
    NoCap = NoCap
    AnyShard = AnyShard
    Job <- FiveJobs
    Queue <- Queues
    Claimer <- Claimers
    QueueOf <- FiveQueueOf
    DependsOn <- FiveDependsOn
    Subscribed <- AllSubscribed
    Pinned <- OnePinned
    ShardOf <- OneShardEach
    Limit = 2
    InitialCap <- SecondCapped
    Caps <- SecondRecapped
    Pausable <- FirstTwo
INVARIANTS
    ClaimsAreExclusive
    TakenIsEntitled
PROPERTIES
    ImplementsAtomicClaims
SYMMETRY Alike
