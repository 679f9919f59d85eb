\* A standing backlog of high-priority jobs, each of which waits for an interval.
SPECIFICATION Spec
CONSTANTS
    low = low
    high = high
    high2 = high2
    capped = capped
    capped2 = capped2
    Job = {low, high, high2}
    Recurring = {high, high2}
    Failing = {}
    Priority <- Priorities
    Capped = {}
    MaxConcurrency = 1
    Slots = 1
    Interval = 2
    MaxBoost = 2
    Strategy <- Strategies
    Base = 2
    Factor = 2
    BackoffMax = 3
    MaxAttempts = 3
    Horizon = 6
PROPERTY
    ReadyJobsAreClaimed
CHECK_DEADLOCK FALSE
