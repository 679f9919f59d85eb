\* Every live worker heartbeats in time; both may crash or drain.
SPECIFICATION Spec
CONSTANTS
    NoWorker = NoWorker
    Job = {j1}
    Worker = {w1, w2}
    MaxAttempts = 2
    Concurrency = 1
    Lease = 2
    HeartbeatEvery = 1
    OfflineAfter = 1
    MaxBackoff = 1
    ReapLimit = 2
    MaxRows = 4
    Mortal = {w1, w2}
    Stallable = {}
    Requeueable = {j1}
    DbMayFail = TRUE
    HandlerMayCancel = TRUE
INVARIANTS
    TypeOK
    NoTwoTasksForOneJob
    OpenRowsAreCurrent
    BudgetMatchesLog
    LastRowExplainsStatus
    PromptWorkersAreListed
PROPERTIES
    ImplementsLifecycle
