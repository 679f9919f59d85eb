----------------------------- MODULE ClaimOrder -----------------------------
(***************************************************************************)
(* Who is claimed next: the ORDER BY of JobRepository.claim_batch          *)
(* (repositories/jobs.py) with its priority aging, and the delays of       *)
(* domain/retry.py, which decide when a job is ready.                      *)
(*                                                                         *)
(* ClaimBatch has the statements of a claim and their locks and takes any  *)
(* order; here a claim is one step and the order is the code's.  A job     *)
(* that has ended may be enqueued again under its name, which makes a few  *)
(* names a stream that never dries up.                                     *)
(*                                                                         *)
(* wait is now() - run_at in ticks, negative while a job is not due yet.   *)
(* It is the only clock.  It stops at Horizon, which lies beyond every     *)
(* wait that makes a difference to the properties.                         *)
(*                                                                         *)
(* Load: while jobs are ready the fleet claims at least once per tick, and *)
(* handlers that hold the slots end.  The starvation properties are about  *)
(* who is served by such a fleet, not about fleets that serve nobody.      *)
(*                                                                         *)
(* Operators named for a mistake (EffectiveWithoutAge, ...) are slips of   *)
(* the operator after them and are used by nothing.                        *)
(***************************************************************************)
EXTENDS Integers, FiniteSets, FiniteSetsExt

CONSTANTS
    Job,            \* names under which jobs are enqueued
    Recurring,      \* bound: those enqueued again when they have ended
    Failing,        \* jobs whose handler may fail
    Priority,       \* jobs.priority
    Capped,         \* jobs of the one queue that has max_concurrency
    MaxConcurrency, \* its cap
    Slots,          \* worker_concurrency, over the fleet
    Interval,       \* settings.priority_aging_interval_seconds
    MaxBoost,       \* settings.priority_aging_max_boost
    Strategy,       \* jobs.backoff_strategy
    Base,           \* jobs.backoff_base_seconds
    Factor,         \* jobs.backoff_factor
    BackoffMax,     \* jobs.backoff_max_seconds
    MaxAttempts,    \* jobs.max_attempts
    Horizon         \* bound: where waits stop counting

ASSUME OrderAssumption ==
    /\ IsFiniteSet(Job)
    /\ Recurring \subseteq Job /\ Failing \subseteq Job /\ Capped \subseteq Job
    /\ Priority \in [Job -> Int]
    /\ Strategy \in [Job -> {"fixed", "linear", "exponential"}]
    /\ {MaxConcurrency, Slots, Factor, BackoffMax, MaxAttempts} \subseteq Nat \ {0}
    /\ {Interval, MaxBoost, Base, Horizon} \subseteq Nat

\* So it is for every Factor; said because the provers know no more of ^ than
\* that it is a number.
ASSUME PowerAssumption == \A n \in 0..MaxAttempts : Factor ^ n \in Nat

VARIABLES
    status,         \* jobs.status; SUCCEEDED and DEAD are both over
    wait,           \* now() - jobs.run_at
    attempt_count,  \* jobs.attempt_count
    served          \* something was claimed since the last tick

vars == <<status, wait, attempt_count, served>>

Over == {"absent", "SUCCEEDED", "DEAD"}

-----------------------------------------------------------------------------
(* domain/retry.py *)

\* The delay before the cap.
Raw(j, n) ==
    CASE Strategy[j] = "fixed"       -> Base
      [] Strategy[j] = "linear"      -> Base * n
      [] Strategy[j] = "exponential" -> Base * Factor ^ (n - 1)

\* compute_backoff_seconds before the jitter.
Backoff(j, n) == Min({Raw(j, n), BackoffMax})

\* The tick from which a job is due after a delay of capped seconds and up
\* to a fifth of jitter on top.
Jittered(d) == d..(d + (d + 4) \div 5)

\* decide_failure
Retries(n) == n < MaxAttempts

-----------------------------------------------------------------------------
(* The order of claim_batch *)

RunningIn(S) == {j \in S : status[j] = "RUNNING"}

FreeSlots == Slots - Cardinality(RunningIn(Job))

Ready == {j \in Job : status[j] = "PENDING" /\ wait[j] >= 0}

AgeBoost(j) ==
    IF Interval > 0 THEN Min({wait[j] \div Interval, MaxBoost}) ELSE 0

EffectiveWithoutAge(j) == Priority[j]

\* _priority_key
Effective(j) == Priority[j] + AgeBoost(j)

OutranksByKeyOnly(a, b) == Effective(a) > Effective(b)

\* ORDER BY effective priority DESC, run_at; what created_at decides after
\* that is left open.
Outranks(a, b) ==
    \/ Effective(a) > Effective(b)
    \/ Effective(a) = Effective(b) /\ wait[a] > wait[b]

\* What LIMIT n of S in that order may return.
Firsts(S, n) ==
    {T \in kSubset(Min({n, Cardinality(S)}), S) :
        \A a \in T, b \in S \ T : ~Outranks(b, a)}

RoomWithoutStatusFilter(remaining) ==
    Min({MaxConcurrency - Cardinality(Capped), remaining})

\* capacity = min(cap - running, remaining)
Room(remaining) ==
    Min({MaxConcurrency - Cardinality(RunningIn(Capped)), remaining})

\* The second pass: what is left of the limit goes to the capped queue.
CappedBatches(remaining) ==
    IF Room(remaining) <= 0 THEN {{}} ELSE Firsts(Ready \cap Capped, Room(remaining))

-----------------------------------------------------------------------------
Init ==
    /\ status = [j \in Job |-> "absent"]
    /\ wait = [j \in Job |-> 0]
    /\ attempt_count = [j \in Job |-> 0]
    /\ served = FALSE

\* JobService.enqueue and requeue: run_at is now, no attempt is charged.
Enqueue(j) ==
    /\ status[j] \in IF j \in Recurring THEN Over ELSE {"absent"}
    /\ status' = [status EXCEPT ![j] = "PENDING"]
    /\ wait' = [wait EXCEPT ![j] = 0]
    /\ attempt_count' = [attempt_count EXCEPT ![j] = 0]
    /\ UNCHANGED served

\* claim_batch with limit n: first the uncapped queues, then the capped one.
Claim(n) ==
    /\ n \in 1..FreeSlots
    /\ \E U \in Firsts(Ready \ Capped, n) : \E C \in CappedBatches(n - Cardinality(U)) :
          LET batch == U \cup C IN
          /\ batch # {}
          /\ status' = [j \in Job |-> IF j \in batch THEN "RUNNING" ELSE status[j]]
          /\ attempt_count' = [j \in Job |-> IF j \in batch THEN attempt_count[j] + 1
                                                            ELSE attempt_count[j]]
          /\ wait' = [j \in Job |-> IF j \in batch THEN 0 ELSE wait[j]]
    /\ served' = TRUE

\* complete_success
Succeed(j) ==
    /\ status[j] = "RUNNING"
    /\ status' = [status EXCEPT ![j] = "SUCCEEDED"]
    /\ UNCHANGED <<wait, attempt_count, served>>

\* complete_failure, the job to be tried again: its age starts afresh.
FailAndRetry(j) ==
    /\ j \in Failing
    /\ status[j] = "RUNNING"
    /\ Retries(attempt_count[j])
    /\ \E d \in Jittered(Backoff(j, attempt_count[j])) : wait' = [wait EXCEPT ![j] = -d]
    /\ status' = [status EXCEPT ![j] = "PENDING"]
    /\ UNCHANGED <<attempt_count, served>>

\* complete_failure, the budget being used up
FailAndBury(j) ==
    /\ j \in Failing
    /\ status[j] = "RUNNING"
    /\ ~Retries(attempt_count[j])
    /\ status' = [status EXCEPT ![j] = "DEAD"]
    /\ UNCHANGED <<wait, attempt_count, served>>

\* Time passes, unless the fleet owes a claim (see Load above).
Tick ==
    /\ served \/ Ready = {}
    /\ wait' = [j \in Job |-> IF status[j] = "PENDING" THEN Min({wait[j] + 1, Horizon})
                                                       ELSE wait[j]]
    /\ served' = FALSE
    /\ UNCHANGED <<status, attempt_count>>

Finish(j) == Succeed(j) \/ FailAndRetry(j) \/ FailAndBury(j)

Next ==
    \/ \E j \in Job : Enqueue(j) \/ Finish(j)
    \/ \E n \in 1..Slots : Claim(n)
    \/ Tick

\* Workers poll, handlers have a deadline, time passes; nobody need enqueue.
Fairness ==
    /\ WF_vars(Tick)
    /\ WF_vars(\E n \in 1..Slots : Claim(n))
    /\ \A j \in Job : WF_vars(Finish(j))

Spec == Init /\ [][Next]_vars /\ Fairness

-----------------------------------------------------------------------------
(* Properties *)

TypeOK ==
    /\ status \in [Job -> Over \cup {"PENDING", "RUNNING"}]
    /\ wait \in [Job -> Int]
    /\ \A j \in Job : wait[j] <= Horizon
    /\ attempt_count \in [Job -> 0..MaxAttempts]
    /\ served \in BOOLEAN

\* compute_backoff_seconds: a retry holds a job back for at most
\* backoff_max_seconds and the jitter of a fifth on top.
DelaysAreBounded ==
    \A j \in Job : status[j] = "PENDING" => -wait[j] <= BackoffMax + (BackoffMax + 4) \div 5

\* PRIORITY_AGING_MAX_BOOST "bounds starvation at interval x boost": then a
\* job of an uncapped queue gives way to nothing that came since, though it
\* may have to let pass, once each, the others that have waited with it, of
\* which one has just been served.
WaitsAreBounded ==
    \A j \in Job \ Capped : status[j] = "PENDING" =>
        wait[j] <= Interval * MaxBoost + Cardinality(Job \ Capped) - 2

StartsAreBounded == DelaysAreBounded /\ WaitsAreBounded

\* Aging, retries and budget together: whatever the stream does, and though
\* every retry starts with no age at all, a job of an uncapped queue comes
\* to its end.
JobsComeToAnEnd ==
    \A j \in Job \ Capped : status[j] = "PENDING" ~> status[j] \in Over

\* _claim_capped: a capped queue gets what the uncapped ones leave, and when
\* these have nothing ready any more all of its jobs get their turn.
CappedQueueFollows ==
    <>[](Ready \subseteq Capped) =>
        \A j \in Capped : status[j] = "PENDING" ~> status[j] \in Over

\* ARCHITECTURE.md on the claim order: delayed, "never forever".
ReadyJobsAreClaimed ==
    \A j \in Job \ Capped : j \in Ready ~> status[j] = "RUNNING"
=============================================================================
