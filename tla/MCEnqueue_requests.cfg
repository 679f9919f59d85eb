\* Three requests from every pairing of plans, any of which may break off.
SPECIFICATION FairSpec
CONSTANTS
    r1 = r1
    r2 = r2
    r3 = r3
    k1 = k1
    k2 = k2
    NoKey = NoKey
    NotSent = NotSent
    Standard = "standard"
    Patched = "patched"
    Request = {r1, r2, r3}
    Plans <- PlansOf
    MayFail = TRUE
\* Every request ends, and then nothing is left to do.
CHECK_DEADLOCK FALSE
INVARIANTS
    OneJobPerKey
    AllOrNothing
    JobsHaveQueuePolicy
    WorkflowsAreDags
PROPERTIES
    RequestsEnd
