-------------------------- MODULE MCFailureSummary --------------------------
(* Instances of FailureSummary for the model checker.                        *)
EXTENDS FailureSummary

CONSTANTS j1, j2, s1, s2, s3, e1, e2, code

\* Two tasks.
TaskOf == [j \in Job |-> j]

\* The jobs are alike: one of them is requeued, once.
OneOnce == [j \in Job |-> IF j = j1 THEN 1 ELSE 0]
=============================================================================
