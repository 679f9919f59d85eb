\* A stream of high-priority jobs, none of which waits for an interval.
SPECIFICATION Spec
CONSTANTS
    low = low
    high = high
    high2 = high2
    capped = capped
    capped2 = capped2
    Job = {low, high, capped, capped2}
    Recurring = {high}
    Failing = {low}
    Priority <- Priorities
    Capped = {capped, capped2}
    MaxConcurrency = 1
    Slots = 2
    Interval = 2
    MaxBoost = 2
    Strategy <- Strategies
    Base = 2
    Factor = 2
    BackoffMax = 3
    MaxAttempts = 3
    Horizon = 6
INVARIANTS
    StartsAreBounded
PROPERTIES
    JobsComeToAnEnd
    CappedQueueFollows
CHECK_DEADLOCK FALSE
