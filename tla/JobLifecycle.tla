---------------------------- MODULE JobLifecycle ----------------------------
(***************************************************************************)
(* What the job table promises its clients: the state machine of           *)
(* models/job.py (JobStatus), the lease column that goes with it, and the  *)
(* attempt budget.  It says nothing of workers that crash, of heartbeats,  *)
(* of the reaper or of the attempt log; module Execution does, and is      *)
(* shown to implement this one when every live worker heartbeats in time.  *)
(*                                                                         *)
(* One transaction may move many jobs (a batch claim, a reaper sweep), so  *)
(* a step lets every job take one allowed transition or stay put.          *)
(***************************************************************************)
EXTENDS Naturals

CONSTANTS Job,          \* rows of the jobs table
          Worker,       \* worker identities (one uuid per process)
          NoWorker,     \* NULL in jobs.locked_by
          MaxAttempts   \* jobs.max_attempts

VARIABLES status,       \* jobs.status
          holder,       \* jobs.locked_by
          attempts      \* jobs.attempt_count

vars == <<status, holder, attempts>>

JobStatus == {"PENDING", "RUNNING", "SUCCEEDED", "CANCELLED", "DEAD"}

Terminal == {"SUCCEEDED", "CANCELLED", "DEAD"}

Init ==
    /\ status = [j \in Job |-> "PENDING"]
    /\ holder = [j \in Job |-> NoWorker]
    /\ attempts = [j \in Job |-> 0]

-----------------------------------------------------------------------------

Stays(j) ==
    /\ status'[j] = status[j]
    /\ holder'[j] = holder[j]
    /\ attempts'[j] = attempts[j]

\* A claim charges one attempt of the budget and names the holder.
Claim(j) ==
    /\ status[j] = "PENDING"
    /\ attempts[j] < MaxAttempts
    /\ status'[j] = "RUNNING"
    /\ holder'[j] \in Worker
    /\ attempts'[j] = attempts[j] + 1

Succeed(j) ==
    /\ status[j] = "RUNNING"
    /\ status'[j] = "SUCCEEDED"
    /\ holder'[j] = NoWorker
    /\ attempts'[j] = attempts[j]

\* A failed or lost attempt goes back to the queue while budget is left...
Retry(j) ==
    /\ status[j] = "RUNNING"
    /\ attempts[j] < MaxAttempts
    /\ status'[j] = "PENDING"
    /\ holder'[j] = NoWorker
    /\ attempts'[j] = attempts[j]

\* ... and to the dead letter queue exactly when there is none.
Bury(j) ==
    /\ status[j] = "RUNNING"
    /\ attempts[j] = MaxAttempts
    /\ status'[j] = "DEAD"
    /\ holder'[j] = NoWorker
    /\ attempts'[j] = attempts[j]

\* An attempt the worker gave back unfinished is refunded.
Refund(j) ==
    /\ status[j] = "RUNNING"
    /\ status'[j] = "PENDING"
    /\ holder'[j] = NoWorker
    /\ attempts'[j] = attempts[j] - 1

Cancel(j) ==
    /\ status[j] = "PENDING"
    /\ status'[j] = "CANCELLED"
    /\ holder'[j] = holder[j]
    /\ attempts'[j] = attempts[j]

Requeue(j) ==
    /\ status[j] \in {"DEAD", "CANCELLED"}
    /\ status'[j] = "PENDING"
    /\ holder'[j] = NoWorker
    /\ attempts'[j] = 0

Transition(j) ==
    \/ Claim(j)
    \/ Succeed(j)
    \/ Retry(j)
    \/ Bury(j)
    \/ Refund(j)
    \/ Cancel(j)
    \/ Requeue(j)

Next == \A j \in Job : Stays(j) \/ Transition(j)

Spec == Init /\ [][Next]_vars
=============================================================================
