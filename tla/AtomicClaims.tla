---------------------------- MODULE AtomicClaims ----------------------------
(***************************************************************************)
(* What JobRepository.claim_batch promises the rest of the system: a claim *)
(* is one step.  Nobody sees half of one, what it starts is there to be    *)
(* started, and the operators' caps and pauses hold at that very moment.   *)
(* It says nothing of statements, snapshots or row locks; module           *)
(* ClaimBatch does, and implements this one.                               *)
(*                                                                         *)
(* The promise depends on the queue.  Where the operators only move a cap, *)
(* cap and pause hold; where there is none, dependencies and shards do,    *)
(* and a pause from the next claim on, which a claim as one step cannot    *)
(* say.  A queue that is given its first cap or loses it is promised       *)
(* neither: claims that began before take no notice.                       *)
(***************************************************************************)
EXTENDS Integers, FiniteSets

CONSTANTS Job, Queue, Claimer, NoCap, QueueOf, DependsOn, Subscribed, AnyShard, Pinned, ShardOf,
          Limit, InitialCap, Caps, Pausable     \* as in ClaimBatch

VARIABLES status, paused, cap

vars == <<status, paused, cap>>

Init ==
    /\ status = [j \in Job |-> "PENDING"]
    /\ paused = [q \in Queue |-> FALSE]
    /\ cap = InitialCap

\* By what its operators may set, a queue has a cap always or never.
AlwaysCapped == {q \in Queue : InitialCap[q] # NoCap /\ NoCap \notin Caps[q]}

NeverCapped == {q \in Queue : InitialCap[q] = NoCap /\ Caps[q] \subseteq {NoCap}}

\* With S started, queue q is within the cap it has now.
WithinCap(q, S) ==
    Cardinality({j \in Job : QueueOf[j] = q /\ (status[j] = "RUNNING" \/ j \in S)}) <= cap[q]

Startable(c) == {j \in Job : status[j] = "PENDING" /\ QueueOf[j] \in Subscribed[c]}

\* What the worker may start at once.
MayStart(c, S) ==
    /\ Cardinality(S) <= Limit
    /\ \A q \in AlwaysCapped : (\E j \in S : QueueOf[j] = q) => ~paused[q] /\ WithinCap(q, S)
    /\ \A j \in S : QueueOf[j] \in NeverCapped =>
            /\ \A d \in DependsOn[j] : status[d] = "SUCCEEDED"
            /\ Pinned[c] \in {AnyShard, ShardOf[QueueOf[j]]}

Claim(c, S) ==
    /\ MayStart(c, S)
    /\ status' = [j \in Job |-> IF j \in S THEN "RUNNING" ELSE status[j]]
    /\ UNCHANGED <<paused, cap>>

\* A worker finishes a job, the reaper reclaims it, or its owner cancels it
\* or puts it back.
Move(j) ==
    /\ \/ status[j] = "RUNNING" /\ status'[j] \in {"SUCCEEDED", "PENDING", "DEAD"}
       \/ status[j] = "PENDING" /\ status'[j] = "CANCELLED"
       \/ status[j] \in {"DEAD", "CANCELLED"} /\ status'[j] = "PENDING"
    /\ status' = [status EXCEPT ![j] = status'[j]]
    /\ UNCHANGED <<paused, cap>>

SetPaused(q) ==
    /\ paused' = [paused EXCEPT ![q] = ~@]
    /\ UNCHANGED <<status, cap>>

SetCap(q) ==
    /\ \E n \in Caps[q] : cap' = [cap EXCEPT ![q] = n]
    /\ UNCHANGED <<status, paused>>

Next ==
    \/ \E j \in Job : Move(j)
    \/ \E c \in Claimer : \E S \in SUBSET Startable(c) : Claim(c, S)
    \/ \E q \in Pausable : SetPaused(q)
    \/ \E q \in Queue : SetCap(q)

Spec == Init /\ [][Next]_vars
=============================================================================
