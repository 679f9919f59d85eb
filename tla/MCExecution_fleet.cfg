\* w1 heartbeats in time; w2 may stall and come back, drain and crash.
SPECIFICATION FairSpec
CONSTANTS
    NoWorker = NoWorker
    Job = {j1, j2}
    Worker = {w1, w2}
    MaxAttempts = 2
    Concurrency = 1
    Lease = 2
    HeartbeatEvery = 1
    OfflineAfter = 1
    MaxBackoff = 0
    ReapLimit = 1
    MaxRows = 3
    Mortal = {w2}
    Stallable = {w2}
    Requeueable = {}
    DbMayFail = FALSE
    HandlerMayCancel = FALSE
INVARIANTS
    RunningIsAudited
    PromptTasksOwnTheirAttempt
PROPERTIES
    OnlyHolderOrReaper
    VerdictsAreImmutable
    RunningSettles
    BacklogConverges
