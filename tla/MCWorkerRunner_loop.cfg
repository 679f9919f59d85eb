\* Three jobs, two slots, a database and a wake channel that may fail, a signal.
\* The process may end: then nothing is left to do.
SPECIFICATION FairSpec
CONSTANTS
    Job = {j1, j2, j3}
    Concurrency = 2
    DbMayFail = TRUE
    RedisMayFail = TRUE
    MayShutDown = TRUE
INVARIANTS
    JobsAreAccountedFor
    HeartbeatsCoverTasks
    FreedSlotWakes
PROPERTIES
    ReadyJobsAreTaken
    ShutdownCompletes
CHECK_DEADLOCK FALSE
