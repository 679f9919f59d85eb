\* A finalizing transaction fails on a worker that keeps heartbeating.
SPECIFICATION FairSpec
CONSTANTS
    NoWorker = NoWorker
    Job = {j1}
    Worker = {w1}
    MaxAttempts = 1
    Concurrency = 1
    Lease = 2
    HeartbeatEvery = 1
    OfflineAfter = 1
    MaxBackoff = 0
    ReapLimit = 1
    MaxRows = 2
    Mortal = {}
    Stallable = {}
    Requeueable = {}
    DbMayFail = TRUE
    HandlerMayCancel = FALSE
PROPERTY
    RunningSettles
