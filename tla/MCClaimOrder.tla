---------------------------- MODULE MCClaimOrder ----------------------------
(* Instances of ClaimOrder for the model checker.                            *)
EXTENDS ClaimOrder

CONSTANTS low, high, high2, capped, capped2

\* The largest difference of priorities is 2, and so is MaxBoost: as with
\* the defaults, where it is 200 for both.
Priorities == [j \in Job |-> IF j \in {high, high2} THEN 2 ELSE 0]

Strategies == [j \in Job |-> IF j = low THEN "linear" ELSE "exponential"]
=============================================================================
