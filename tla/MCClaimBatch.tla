---------------------------- MODULE MCClaimBatch ----------------------------
(* Instances of ClaimBatch for the model checker.  In the larger one both    *)
(* claimers serve queue 1, which has no cap and two jobs, one of them        *)
(* blocked by the job of queue 3; queue 2 has a cap and two jobs.            *)
EXTENDS ClaimBatch, TLC

CONSTANTS up, down, free, x, y,   \* jobs
          c1, c2                  \* claimers

TwoJobs == {up, down}

FiveJobs == {up, down, free, x, y}

Claimers == {c1, c2}

Queues == {1, 2, 3}

FiveQueueOf ==
    [j \in FiveJobs |-> CASE j \in {down, free} -> 1 [] j \in {x, y} -> 2 [] j = up -> 3]

FiveDependsOn == [j \in FiveJobs |-> IF j = down THEN {up} ELSE {}]

\* c1 serves every shard, c2 is pinned to the shard of queue 1.
OnePinned == [c \in Claimers |-> IF c = c1 THEN AnyShard ELSE 1]

OneShardEach == [q \in Queues |-> q]

AllSubscribed == [c \in Claimers |-> Queues]

SecondCapped == [q \in Queues |-> IF q = 2 THEN 1 ELSE NoCap]

FirstTwo == {1, 2}

SecondRecapped == [q \in Queues |-> IF q = 2 THEN {1, 2} ELSE {}]

\* The jobs of queue 2 depend on nothing and nothing depends on them.
Alike == Permutations({x, y})

\* Both jobs of the workflow in the capped queue.
TwoQueueOf == [j \in TwoJobs |-> 2]

TwoDependsOn == [j \in TwoJobs |-> IF j = down THEN {up} ELSE {}]

NeverRecapped == [q \in Queues |-> {}]
=============================================================================
