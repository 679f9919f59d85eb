------------------------------ MODULE Execution ------------------------------
(***************************************************************************)
(* The lease protocol of the worker fleet: services/execution_service.py   *)
(* over repositories/jobs.py, attempts.py and workers.py, driven by the    *)
(* loops of worker/runner.py.                                              *)
(*                                                                         *)
(* Every operation of ExecutionService is one short transaction of guarded *)
(* UPDATEs, so it is one action here.  What interleaves is everything      *)
(* between transactions: handlers that run while the database moves on,    *)
(* heartbeats that come late or never, workers that die, the reaper, and   *)
(* the owners who cancel and requeue.                                      *)
(*                                                                         *)
(* Time is the database clock and is kept as distances from now(): ticks a *)
(* lease has left, ticks until a job is due, ticks since a heartbeat.  A   *)
(* tick stands for one heartbeat interval.                                 *)
(*                                                                         *)
(* Which jobs a claim may see (queue, pause, cap, dependencies, priority)  *)
(* is not decided here: a claim takes any set of due jobs.                 *)
(*                                                                         *)
(* A definition whose body is a slip of the next one (ExpiredEarly before  *)
(* Expired) is used by no action: it is there to be put in the place of    *)
(* the real one, to show which property notices.                           *)
(***************************************************************************)
EXTENDS Naturals, FiniteSets

CONSTANTS
    Job,              \* rows of the jobs table
    Worker,           \* worker identities, a fresh uuid4 for every process
    NoWorker,         \* NULL in jobs.locked_by
    MaxAttempts,      \* jobs.max_attempts, the same for every job
    Concurrency,      \* settings.worker_concurrency
    Lease,            \* settings.lease_seconds, in ticks
    HeartbeatEvery,   \* settings.heartbeat_seconds, in ticks
    OfflineAfter,     \* settings.worker_offline_after_seconds, in ticks
    MaxBackoff,       \* longest retry backoff, in ticks
    ReapLimit,        \* LIMIT of the reaper's scan
    MaxRows           \* bound: attempt rows one job may accumulate

CONSTANTS
    Mortal,           \* workers whose process may crash or be told to stop
    Stallable,        \* workers that may miss heartbeats while they live
    Requeueable,      \* jobs their owner may requeue
    DbMayFail,        \* a transaction may fail on a worker that lives on
    HandlerMayCancel  \* a handler may raise CancelledError by itself

ASSUME CountsAssumption ==
    /\ MaxAttempts \in Nat \ {0}
    /\ Concurrency \in Nat \ {0}
    /\ MaxBackoff \in Nat
    /\ ReapLimit \in Nat
    /\ MaxRows \in Nat

\* The tuning rule of core/config.py and DESIGN_DOC 7.1: a lease outlives a
\* heartbeat interval, and so does the fleet's patience with a worker.
ASSUME LeaseAssumption ==
    /\ HeartbeatEvery \in Nat
    /\ Lease \in Nat
    /\ OfflineAfter \in Nat
    /\ HeartbeatEvery < Lease
    /\ HeartbeatEvery <= OfflineAfter

ASSUME ActorsAssumption ==
    /\ NoWorker \notin Worker
    /\ Mortal \subseteq Worker
    /\ Stallable \subseteq Worker
    /\ Requeueable \subseteq Job
    /\ DbMayFail \in BOOLEAN
    /\ HandlerMayCancel \in BOOLEAN

VARIABLES
    status,         \* jobs.status
    attempt_count,  \* jobs.attempt_count
    locked_by,      \* jobs.locked_by
    lease_left,     \* ticks until lease_expires_at; 0 once it is past or NULL
    run_in,         \* ticks until run_at; 0 once the job is due
    finished,       \* jobs.finished_at is set
    rows,           \* job_attempts, per job, in the order they were opened
    opened,         \* how many attempt rows each job has
    epoch,          \* history: rows the job had when it was last requeued
    wstatus,        \* workers.status, "absent" before registration
    hb_age,         \* ticks since workers.last_heartbeat_at
    proc,           \* where a worker process is in WorkerRunner.run
    inflight        \* WorkerRunner._inflight

jobVars == <<status, attempt_count, locked_by, lease_left, run_in, finished>>
attemptVars == <<rows, opened, epoch>>
workerVars == <<wstatus, hb_age>>
processVars == <<proc, inflight>>
vars == <<jobVars, attemptVars, workerVars, processVars>>

-----------------------------------------------------------------------------
(* Types *)

JobStatus == {"PENDING", "RUNNING", "SUCCEEDED", "CANCELLED", "DEAD"}

Terminal == {"SUCCEEDED", "CANCELLED", "DEAD"}

AttemptStatus == {"RUNNING", "SUCCEEDED", "FAILED", "LOST", "ABORTED"}

WorkerStatus == {"ONLINE", "DRAINING", "OFFLINE"}

\* "cancelling" is _shutdown past its grace window; "unwinding" a process that
\* could not announce DRAINING and is cancelling all its tasks; "crashed" one
\* that is gone without signing off.
ProcState == {"new", "running", "draining", "cancelling", "unwinding",
              "stopped", "crashed"}

RowId == 1..MaxRows

Row == [status : AttemptStatus \cup {"none"},
        attempt_number : Nat,
        worker_id : Worker \cup {NoWorker}]

NoRow == [status |-> "none", attempt_number |-> 0, worker_id |-> NoWorker]

\* A task of _execute holds the Job object the claim returned.  The row it
\* opened is remembered as the identity of the task; no action reads it.
Execution == [job : Job, attempt_number : Nat, row : RowId]

TypeOK ==
    /\ status \in [Job -> JobStatus]
    /\ attempt_count \in [Job -> Nat]
    /\ locked_by \in [Job -> Worker \cup {NoWorker}]
    /\ lease_left \in [Job -> 0..Lease]
    /\ run_in \in [Job -> 0..MaxBackoff]
    /\ finished \in [Job -> BOOLEAN]
    /\ rows \in [Job -> [RowId -> Row]]
    /\ opened \in [Job -> 0..MaxRows]
    /\ epoch \in [Job -> 0..MaxRows]
    /\ wstatus \in [Worker -> WorkerStatus \cup {"absent"}]
    /\ hb_age \in [Worker -> 0..(OfflineAfter + 1)]
    /\ proc \in [Worker -> ProcState]
    /\ inflight \in [Worker -> SUBSET Execution]

-----------------------------------------------------------------------------
(* Helpers *)

\* UPDATE ... SET f = v WHERE the key is in S.
Assign(f, S, v) == [x \in DOMAIN f |-> IF x \in S THEN v ELSE f[x]]

\* A deadline that has passed stays passed.
Less1(n) == IF n = 0 THEN 0 ELSE n - 1

Alive(w) == proc[w] \in {"running", "draining", "cancelling", "unwinding"}

\* The heartbeat and reaper loops: _shutdown stops them last, but a process
\* that unwinds has them cancelled with everything else.
MaintenanceRuns(w) == proc[w] \in {"running", "draining", "cancelling"}

\* The guard of every transition out of RUNNING: it compares the status and
\* the holder, not the attempt.
HoldsIgnoringHolder(w, j) == status[j] = "RUNNING"

Holds(w, j) ==
    /\ status[j] = "RUNNING"
    /\ locked_by[j] = w

\* decide_failure: another attempt, or the dead letter queue.
RetriesForever(n) == TRUE

RetriesOnceMore(n) == n <= MaxAttempts

Retries(n) == n < MaxAttempts

\* AttemptRepository.start and finish.
OpenRowBeforeIncrement(w, n) ==
    [status |-> "RUNNING", attempt_number |-> n - 1, worker_id |-> w]

OpenRow(w, n) ==
    [status |-> "RUNNING", attempt_number |-> n, worker_id |-> w]

CloseRowsUnguarded(log, n, verdict) ==
    [i \in RowId |-> IF log[i].attempt_number = n /\ log[i].status # "none"
                     THEN [log[i] EXCEPT !.status = verdict]
                     ELSE log[i]]

CloseRows(log, n, verdict) ==
    [i \in RowId |-> IF log[i].attempt_number = n /\ log[i].status = "RUNNING"
                     THEN [log[i] EXCEPT !.status = verdict]
                     ELSE log[i]]

Due(j) == status[j] = "PENDING" /\ run_in[j] = 0

FreeSlots(w) == Concurrency - Cardinality(inflight[w])

\* select_expired_for_update.
ExpiredEarly == {j \in Job : status[j] = "RUNNING" /\ lease_left[j] <= 1}

ExpiredOfListedWorkers ==
    {j \in Job : /\ status[j] = "RUNNING"
                 /\ lease_left[j] = 0
                 /\ \E w \in Worker : locked_by[j] = w /\ wstatus[w] # "OFFLINE"}

Expired == {j \in Job : status[j] = "RUNNING" /\ lease_left[j] = 0}

\* mark_stale_offline.
NotOffline == {w \in Worker : wstatus[w] \in {"ONLINE", "DRAINING"}}

Stale == {w \in NotOffline : hb_age[w] > OfflineAfter}

-----------------------------------------------------------------------------
(* Initial state: a backlog, some of it scheduled for later; no workers. *)

Init ==
    /\ status = [j \in Job |-> "PENDING"]
    /\ attempt_count = [j \in Job |-> 0]
    /\ locked_by = [j \in Job |-> NoWorker]
    /\ lease_left = [j \in Job |-> 0]
    /\ run_in \in [Job -> 0..MaxBackoff]
    /\ finished = [j \in Job |-> FALSE]
    /\ rows = [j \in Job |-> [i \in RowId |-> NoRow]]
    /\ opened = [j \in Job |-> 0]
    /\ epoch = [j \in Job |-> 0]
    /\ wstatus = [w \in Worker |-> "absent"]
    /\ hb_age = [w \in Worker |-> 0]
    /\ proc = [w \in Worker |-> "new"]
    /\ inflight = [w \in Worker |-> {}]

-----------------------------------------------------------------------------
(* Worker registry and lifecycle *)

\* run: register_worker, then the loops start.
Register(w) ==
    /\ proc[w] = "new"
    /\ proc' = [proc EXCEPT ![w] = "running"]
    /\ wstatus' = [wstatus EXCEPT ![w] = "ONLINE"]
    /\ hb_age' = [hb_age EXCEPT ![w] = 0]
    /\ UNCHANGED <<jobVars, attemptVars, inflight>>

\* extend_leases: every job the row says this worker holds, whether or not
\* the process still runs it.
NothingExtended(w) == {}

Extended(w) == {j \in Job : Holds(w, j)}

\* A worker that heartbeats is not dead, whatever the reaper took it for; one
\* that drains goes on draining.
AlwaysOnline(s) == "ONLINE"

Resurrected(s) == IF s = "OFFLINE" THEN "ONLINE" ELSE s

\* heartbeat: liveness, resurrection from OFFLINE and leases, one commit.
Heartbeat(w) ==
    /\ MaintenanceRuns(w)
    /\ hb_age' = [hb_age EXCEPT ![w] = 0]
    /\ wstatus' = [wstatus EXCEPT ![w] = Resurrected(@)]
    /\ lease_left' = Assign(lease_left, Extended(w), Lease)
    /\ UNCHANGED <<status, attempt_count, locked_by, run_in, finished,
                   attemptVars, processVars>>

\* The consume loop sees the shutdown event; _shutdown announces DRAINING.
BeginDrain(w) ==
    /\ w \in Mortal
    /\ proc[w] = "running"
    /\ proc' = [proc EXCEPT ![w] = "draining"]
    /\ wstatus' = [wstatus EXCEPT ![w] = "DRAINING"]
    /\ UNCHANGED <<jobVars, attemptVars, hb_age, inflight>>

\* The announcement cannot be written: run raises out of _shutdown, and
\* asyncio.run cancels tasks and maintenance loops.  The row says ONLINE.
AnnounceFails(w) ==
    /\ DbMayFail
    /\ w \in Mortal
    /\ proc[w] = "running"
    /\ proc' = [proc EXCEPT ![w] = "unwinding"]
    /\ UNCHANGED <<jobVars, attemptVars, workerVars, inflight>>

\* The cancelled tasks have ended, and with them the process.
Unwound(w) ==
    /\ proc[w] = "unwinding"
    /\ inflight[w] = {}
    /\ proc' = [proc EXCEPT ![w] = "crashed"]
    /\ UNCHANGED <<jobVars, attemptVars, workerVars, inflight>>

\* shutdown_grace_seconds ran out with tasks left: they are cancelled.
GraceExpires(w) ==
    /\ proc[w] = "draining"
    /\ inflight[w] # {}
    /\ proc' = [proc EXCEPT ![w] = "cancelling"]
    /\ UNCHANGED <<jobVars, attemptVars, workerVars, inflight>>

\* Nothing is left in flight: maintenance loops stop, the worker signs off.
Stop(w) ==
    /\ proc[w] \in {"draining", "cancelling"}
    /\ inflight[w] = {}
    /\ proc' = [proc EXCEPT ![w] = "stopped"]
    /\ wstatus' = [wstatus EXCEPT ![w] = "OFFLINE"]
    /\ UNCHANGED <<jobVars, attemptVars, hb_age, inflight>>

\* The process dies and with it every task it ran.  With nothing in flight it
\* may be a sign-off that failed.
Crash(w) ==
    /\ w \in Mortal
    /\ Alive(w)
    /\ proc' = [proc EXCEPT ![w] = "crashed"]
    /\ inflight' = [inflight EXCEPT ![w] = {}]
    /\ UNCHANGED <<jobVars, attemptVars, workerVars>>

-----------------------------------------------------------------------------
(* Claim *)

NextNumber(j) == attempt_count[j] + 1

\* claim_jobs: the guarded UPDATE and the attempt rows, in one transaction.
ClaimRows(w, S) ==
    /\ status' = Assign(status, S, "RUNNING")
    /\ locked_by' = Assign(locked_by, S, w)
    /\ attempt_count' =
         [j \in Job |-> IF j \in S THEN NextNumber(j) ELSE attempt_count[j]]
    /\ lease_left' = Assign(lease_left, S, Lease)
    /\ opened' = [j \in Job |-> IF j \in S THEN opened[j] + 1 ELSE opened[j]]
    /\ rows' =
         [j \in Job |->
            IF j \in S
            THEN [rows[j] EXCEPT ![opened[j] + 1] = OpenRow(w, NextNumber(j))]
            ELSE rows[j]]
    /\ UNCHANGED <<run_in, finished, epoch>>

MayClaim(w, S) ==
    /\ proc[w] = "running"
    /\ S # {}
    /\ \A j \in S : Due(j) /\ opened[j] < MaxRows
    /\ Cardinality(S) <= FreeSlots(w)

StartedBeforeIncrement(j) ==
    [job |-> j, attempt_number |-> attempt_count[j], row |-> opened[j] + 1]

Started(j) == [job |-> j, attempt_number |-> NextNumber(j), row |-> opened[j] + 1]

Claim(w, S) ==
    /\ MayClaim(w, S)
    /\ ClaimRows(w, S)
    /\ inflight' = [inflight EXCEPT ![w] = @ \cup {Started(j) : j \in S}]
    /\ UNCHANGED <<workerVars, proc>>

\* The commit went through and its acknowledgement did not: the consume loop
\* logs claim_failed and starts no task for the jobs it now holds.
ClaimUnacknowledged(w, S) ==
    /\ DbMayFail
    /\ MayClaim(w, S)
    /\ ClaimRows(w, S)
    /\ UNCHANGED <<workerVars, processVars>>

-----------------------------------------------------------------------------
(* Finishing an execution *)

Drop(w, e) ==
    /\ Alive(w)
    /\ e \in inflight[w]
    /\ inflight' = [inflight EXCEPT ![w] = @ \ {e}]

\* The guarded UPDATE out of RUNNING and the verdict on attempt number n.
Settle(j, next, n, verdict) ==
    /\ status' = [status EXCEPT ![j] = next]
    /\ locked_by' = [locked_by EXCEPT ![j] = NoWorker]
    /\ lease_left' = [lease_left EXCEPT ![j] = 0]
    /\ finished' = [finished EXCEPT ![j] = @ \/ next \in Terminal]
    /\ rows' = [rows EXCEPT ![j] = CloseRows(@, n, verdict)]
    /\ UNCHANGED <<opened, epoch, workerVars, proc>>

CompleteSuccess(w, e) ==
    /\ Drop(w, e)
    /\ Holds(w, e.job)
    /\ Settle(e.job, "SUCCEEDED", e.attempt_number, "SUCCEEDED")
    /\ UNCHANGED <<attempt_count, run_in>>

\* The decision rests on the attempt number of the claim, not of the row.
CompleteFailureRetry(w, e) ==
    /\ Drop(w, e)
    /\ Holds(w, e.job)
    /\ Retries(e.attempt_number)
    /\ Settle(e.job, "PENDING", e.attempt_number, "FAILED")
    /\ \E d \in 0..MaxBackoff : run_in' = [run_in EXCEPT ![e.job] = d]
    /\ UNCHANGED attempt_count

CompleteFailureDead(w, e) ==
    /\ Drop(w, e)
    /\ Holds(w, e.job)
    /\ ~Retries(e.attempt_number)
    /\ Settle(e.job, "DEAD", e.attempt_number, "FAILED")
    /\ UNCHANGED <<attempt_count, run_in>>

NotRefunded(n) == n

RefundedTwice(n) == n - 2

Refunded(n) == n - 1

\* release_job: shutdown cancelled the task.  A handler that raises
\* CancelledError on its own takes the same branch of _execute.
ReleaseJob(w, e) ==
    /\ proc[w] \in {"cancelling", "unwinding"} \/ HandlerMayCancel
    /\ Drop(w, e)
    /\ Holds(w, e.job)
    /\ Settle(e.job, "PENDING", e.attempt_number, "ABORTED")
    /\ attempt_count' = [attempt_count EXCEPT ![e.job] = Refunded(@)]
    /\ run_in' = [run_in EXCEPT ![e.job] = 0]

\* Success, failure or release matched no row: the lease was reclaimed.
LeaseLost(w, e) ==
    /\ Drop(w, e)
    /\ ~Holds(w, e.job)
    /\ UNCHANGED <<jobVars, attemptVars, workerVars, proc>>

\* The finalizing transaction rolls back and its task ends: the database
\* failed, or shutdown cancelled the task while it was finalizing.
FinalizeRollsBack(w, e) ==
    /\ DbMayFail \/ proc[w] \in {"cancelling", "unwinding"}
    /\ Drop(w, e)
    /\ UNCHANGED <<jobVars, attemptVars, workerVars, proc>>

-----------------------------------------------------------------------------
(* The reaper, hosted by every worker, one sweep at a time *)

\* S is what the scan returned: rows other transactions hold are skipped.
Reap(h, S) ==
    /\ MaintenanceRuns(h)
    /\ S \subseteq Expired
    /\ Cardinality(S) <= ReapLimit
    /\ status' =
         [j \in Job |-> IF j \notin S THEN status[j]
                        ELSE IF Retries(attempt_count[j]) THEN "PENDING" ELSE "DEAD"]
    /\ \E delay \in [S -> 0..MaxBackoff] :
         run_in' = [j \in Job |-> IF j \in S /\ Retries(attempt_count[j])
                                  THEN delay[j] ELSE run_in[j]]
    /\ finished' =
         [j \in Job |-> finished[j] \/ (j \in S /\ ~Retries(attempt_count[j]))]
    /\ locked_by' = Assign(locked_by, S, NoWorker)
    /\ lease_left' = Assign(lease_left, S, 0)
    /\ rows' = [j \in Job |-> IF j \in S
                              THEN CloseRows(rows[j], attempt_count[j], "LOST")
                              ELSE rows[j]]
    /\ wstatus' = Assign(wstatus, Stale, "OFFLINE")
    /\ UNCHANGED <<attempt_count, opened, epoch, hb_age, processVars>>

-----------------------------------------------------------------------------
(* The owner *)

Cancel(j) ==
    /\ status[j] = "PENDING"
    /\ status' = [status EXCEPT ![j] = "CANCELLED"]
    /\ finished' = [finished EXCEPT ![j] = TRUE]
    /\ UNCHANGED <<attempt_count, locked_by, lease_left, run_in,
                   attemptVars, workerVars, processVars>>

\* A fresh budget.  The attempt log keeps its rows, so numbers restart.
Requeue(j) ==
    /\ j \in Requeueable
    /\ status[j] \in {"DEAD", "CANCELLED"}
    /\ opened[j] < MaxRows
    /\ status' = [status EXCEPT ![j] = "PENDING"]
    /\ attempt_count' = [attempt_count EXCEPT ![j] = 0]
    /\ run_in' = [run_in EXCEPT ![j] = 0]
    /\ finished' = [finished EXCEPT ![j] = FALSE]
    /\ locked_by' = [locked_by EXCEPT ![j] = NoWorker]
    /\ lease_left' = [lease_left EXCEPT ![j] = 0]
    /\ epoch' = [epoch EXCEPT ![j] = opened[j]]
    /\ UNCHANGED <<rows, opened, workerVars, processVars>>

-----------------------------------------------------------------------------
(* The database clock.  A worker that is not Stallable heartbeats before    *)
(* the clock passes its interval; one that unwinds is gone by the time its  *)
(* next heartbeat would have been due.                                      *)

Tick ==
    /\ \A w \in Worker \ Stallable : Alive(w) => hb_age[w] < HeartbeatEvery
    /\ lease_left' = [j \in Job |-> Less1(lease_left[j])]
    /\ run_in' = [j \in Job |-> Less1(run_in[j])]
    /\ hb_age' = [w \in Worker |->
                    IF wstatus[w] = "absent" \/ hb_age[w] > OfflineAfter
                    THEN hb_age[w] ELSE hb_age[w] + 1]
    /\ UNCHANGED <<status, attempt_count, locked_by, finished, attemptVars,
                   wstatus, processVars>>

-----------------------------------------------------------------------------

FinishExecution(w, e) ==
    \/ CompleteSuccess(w, e)
    \/ CompleteFailureRetry(w, e)
    \/ CompleteFailureDead(w, e)
    \/ ReleaseJob(w, e)
    \/ LeaseLost(w, e)
    \/ FinalizeRollsBack(w, e)

WorkerStep(w) ==
    \/ Register(w)
    \/ Heartbeat(w)
    \/ BeginDrain(w)
    \/ AnnounceFails(w)
    \/ Unwound(w)
    \/ GraceExpires(w)
    \/ Stop(w)
    \/ Crash(w)
    \/ \E S \in SUBSET Job : Claim(w, S)
    \/ \E S \in SUBSET Job : ClaimUnacknowledged(w, S)
    \/ \E e \in inflight[w] : FinishExecution(w, e)
    \/ \E S \in SUBSET Expired : Reap(w, S)

OwnerStep(j) ==
    \/ Cancel(j)
    \/ Requeue(j)

Next ==
    \/ \E w \in Worker : WorkerStep(w)
    \/ \E j \in Job : OwnerStep(j)
    \/ Tick

Spec == Init /\ [][Next]_vars

-----------------------------------------------------------------------------
(* Properties *)

Live(j, i) == rows[j][i].status = "RUNNING"

\* Row i of job j records the claim under which the job runs right now.
Current(j, i) ==
    /\ status[j] = "RUNNING"
    /\ locked_by[j] = rows[j][i].worker_id
    /\ attempt_count[j] = rows[j][i].attempt_number
    /\ i = opened[j]

\* claim_jobs: "a claim without an audit row cannot exist", whatever the
\* workers, the reaper and the owners do between transactions.
RunningIsAudited ==
    \A j \in Job : status[j] = "RUNNING" =>
        \E i \in RowId :
            /\ Live(j, i)
            /\ rows[j][i].attempt_number = attempt_count[j]
            /\ rows[j][i].worker_id = locked_by[j]

\* DESIGN_DOC 15, invariant 2: a job leaves RUNNING only through a task of
\* the worker its row names, or after its lease has run out.
OnlyHolderOrReaper ==
    [][\A j \in Job : status[j] = "RUNNING" /\ status'[j] # "RUNNING" =>
          \/ lease_left[j] = 0
          \/ \E e \in inflight[locked_by[j]] :
                e.job = j /\ e \notin inflight'[locked_by[j]]]_vars

\* AttemptRepository.finish: a verdict, once written, is immutable, through
\* retries, refunds that reuse an attempt number and requeues that restart
\* the numbering; and no row is ever removed.
VerdictsAreImmutable ==
    [][\A j \in Job, i \in RowId :
          rows[j][i].status \notin {"none", "RUNNING"} => rows'[j][i] = rows[j][i]]_vars

\* What _execute assumes of a worker that heartbeats in time: every task it
\* runs still owns its job, under the very attempt the claim returned.
PromptTasksOwnTheirAttempt ==
    \A w \in Worker \ Stallable : \A e \in inflight[w] :
        /\ Holds(w, e.job)
        /\ attempt_count[e.job] = e.attempt_number
        /\ opened[e.job] = e.row
        /\ Live(e.job, e.row)

\* The fleet view tells the truth about workers that heartbeat in time: they
\* are never declared dead, and one that drains never looks available.  The
\* exception is a worker that could not write its announcement: until it is
\* gone, and the reaper notices, it looks available.
PromptWorkersAreListed ==
    \A w \in Worker \ Stallable :
        /\ proc[w] \in {"running", "unwinding"} => wstatus[w] = "ONLINE"
        /\ proc[w] \in {"draining", "cancelling"} => wstatus[w] = "DRAINING"

\* DESIGN_DOC N2: no job is executed by two tasks that both believe they
\* own it.
NoTwoTasksForOneJob ==
    \A w1, w2 \in Worker : \A e1 \in inflight[w1], e2 \in inflight[w2] :
        e1.job = e2.job => w1 = w2 /\ e1 = e2

\* DESIGN_DOC 5.1 and 5.3: attempt rows are closed exactly once and old ones
\* are terminal, so a row still open is the one of the current claim.
OpenRowsAreCurrent ==
    \A j \in Job, i \in RowId : Live(j, i) => Current(j, i)

ChargedRows(j) ==
    {i \in (epoch[j] + 1)..opened[j] : rows[j][i].status # "ABORTED"}

\* The budget is the audit log: every claim since the last requeue costs one
\* attempt, except those given back on shutdown.
BudgetMatchesLog ==
    \A j \in Job : attempt_count[j] = Cardinality(ChargedRows(j))

\* The last row of a job's log says how it got where it is.
LastRowExplainsStatus ==
    \A j \in Job :
        LET last == rows[j][opened[j]].status
            fresh == opened[j] = epoch[j]
        IN  /\ status[j] = "RUNNING" => ~fresh /\ last = "RUNNING"
            /\ status[j] = "SUCCEEDED" => ~fresh /\ last = "SUCCEEDED"
            /\ status[j] = "DEAD" => ~fresh /\ last \in {"FAILED", "LOST"}
            /\ status[j] = "PENDING" => fresh \/ last \in {"FAILED", "LOST", "ABORTED"}

\* The job table, seen by its clients, is the state machine of models/job.py.
Lifecycle == INSTANCE JobLifecycle WITH
    holder <- locked_by,
    attempts <- attempt_count

ImplementsLifecycle == Lifecycle!Spec

-----------------------------------------------------------------------------
(* Fairness: the maintenance loops never die, handlers end by their          *)
(* timeout, time passes, and workers outside Mortal keep polling.            *)

FinishJob(w, j) == \E e \in inflight[w] : e.job = j /\ FinishExecution(w, e)

ReapJob(j) ==
    \E w \in Worker : \E S \in SUBSET Expired : j \in S /\ Reap(w, S)

ClaimJob(w, j) == \E S \in SUBSET Job : j \in S /\ Claim(w, S)

Fairness ==
    /\ WF_vars(Tick)
    /\ \A w \in Worker : WF_vars(Heartbeat(w)) /\ WF_vars(Stop(w) \/ Unwound(w))
    /\ \A w \in Worker, j \in Job : WF_vars(FinishJob(w, j))
    /\ \A j \in Job : WF_vars(ReapJob(j))
    /\ \A w \in Worker \ Mortal : WF_vars(Register(w))
    /\ \A w \in Worker \ Mortal, j \in Job : WF_vars(ClaimJob(w, j))

FairSpec == Spec /\ Fairness

\* DESIGN_DOC 15, invariant 3: a claimed job never stays claimed for good.
RunningSettles ==
    \A j \in Job : status[j] = "RUNNING" ~> status[j] # "RUNNING"

\* retry.py, decide_failure: every job converges to a terminal state, also
\* one whose every execution takes its worker down.
BacklogConverges ==
    \A j \in Job : status[j] = "PENDING" ~> status[j] \in Terminal
=============================================================================
