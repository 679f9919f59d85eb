\* Two hosts sweep one schedule while one request edits it and another deletes it.
SPECIFICATION FairSpec
CONSTANTS
    NoHost = NoHost
    NoRequest = NoRequest
    Never = Never
    Unset = Unset
    Schedule = {s1}
    Host = {h1, h2}
    Patcher = {p}
    Deleter = {d}
    Cron = {1, 2}
    Edits <- SomeEdits
    BatchLimit = 1
    MaxTime = 3
INVARIANTS
    CursorAndJobsAgree
PROPERTIES
    MissedTicksCollapse
    DueSchedulesFire
    OnlyLiveSchedulesFire
