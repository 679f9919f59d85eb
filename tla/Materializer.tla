---------------------------- MODULE Materializer ----------------------------
(***************************************************************************)
(* Recurring schedules: ExecutionService.materialize_schedules_once, which *)
(* every worker hosts, against the edits of services/schedule_service.py.  *)
(*                                                                         *)
(* A sweep locks and loads the due rows in one statement, looks up for     *)
(* each whether its tick has fired, and commits jobs and cursors together, *)
(* all of it worked out on the rows as it loaded them.  An edit reads the  *)
(* row without a lock, works on the ORM's copy of it, and writes at commit *)
(* the columns whose value differs from the copy; the others keep what a   *)
(* sweep or another edit committed in the meantime.  now() is the start of *)
(* the transaction, not of the statement.                                  *)
(*                                                                         *)
(* A cron expression is modelled by its period: it fires at its multiples. *)
(*                                                                         *)
(* A few operators come with a slip of themselves, named for what it       *)
(* forgets.  Nothing in the specification uses the slips; the properties   *)
(* are shown to notice them.                                               *)
(***************************************************************************)
EXTENDS Integers, FiniteSets, Sequences

CONSTANTS
    Schedule,   \* rows of the schedules table
    Host,       \* workers, each with a scheduler loop
    Patcher,    \* API requests that edit a schedule, each with a transaction
    Deleter,    \* API requests that delete one
    Cron,       \* expressions a schedule may have, as periods
    NoHost,     \* nobody holds the advisory lock
    NoRequest,  \* no request is open
    Never,      \* NULL in schedules.last_run_at
    Unset,      \* a field a PATCH does not have
    Edits,      \* bound: the bodies that PATCH requests have
    BatchLimit, \* select_due_for_update(limit=100)
    MaxTime     \* bound: the clock stops there

ASSUME ScheduleAssumption ==
    /\ Cron # {} /\ Cron \subseteq Nat \ {0}
    /\ BatchLimit \in Nat \ {0}
    /\ MaxTime \in Nat
    /\ Never \notin Nat
    /\ NoHost \notin Host
    /\ Patcher \cap Deleter = {}

VARIABLES
    clock,      \* the database clock
    row,        \* the schedules table
    jobs,       \* jobs materialized from each schedule, as they were inserted
    swept,      \* history: now() of the last firing, until an edit restarts the cursor
    hpc,        \* where each host is in its sweep
    began,      \* now() of its transaction
    advisory,   \* who holds SCHEDULER_ADVISORY_LOCK_KEY
    selected,   \* rows a sweep holds FOR UPDATE
    loaded,     \* the rows as its SELECT returned them
    checked,    \* those whose tick it has looked up
    fresh,      \* those it found no job for
    request     \* PATCH and DELETE requests between their read and commit

sweepVars == <<hpc, began, advisory, selected, loaded, checked, fresh>>
vars == <<clock, row, jobs, swept, sweepVars, request>>

Time == 0..MaxTime

Row == [state : {"new", "live", "deleted"}, paused : BOOLEAN, cron_expr : Cron,
        next_run_at : Nat, last_run_at : Nat \cup {Never}]

\* The columns of jobs that matter here.
JobRow == [idempotency_key : Nat, run_at : Time]

Patch == [cron_expr : Cron \cup {Unset}, paused : BOOLEAN \cup {Unset}]

ASSUME EditsAssumption == Edits \subseteq Patch

\* What a request has read: a PATCH works on its copy of the row.
OpenPatch == [schedule : Schedule, patch : Patch, now : Time, loaded : Row]

OpenDelete == [schedule : Schedule]

TypeOK ==
    /\ clock \in Time
    /\ row \in [Schedule -> Row]
    /\ jobs \in [Schedule -> Seq(JobRow)]
    /\ swept \in [Schedule -> Time \cup {Never}]
    /\ hpc \in [Host -> {"idle", "begun", "selected"}]
    /\ began \in [Host -> Time]
    /\ advisory \in Host \cup {NoHost}
    /\ selected \in [Host -> SUBSET Schedule]
    /\ DOMAIN loaded = Host /\ \A h \in Host : loaded[h] \in [selected[h] -> Row]
    /\ checked \in [Host -> SUBSET Schedule]
    /\ fresh \in [Host -> SUBSET Schedule]
    /\ DOMAIN request = Patcher \cup Deleter
    /\ \A r \in Patcher : request[r] \in OpenPatch \cup {NoRequest}
    /\ \A r \in Deleter : request[r] \in OpenDelete \cup {NoRequest}

-----------------------------------------------------------------------------

\* next_run_after: the first fire time strictly after t.
NextRunAfter(cron, t) == cron * (t \div cron + 1)

Latest(a, b) == IF a >= b THEN a ELSE b

Live(s) == row[s].state = "live"

LockedIgnored(s) == FALSE

Locked(s) == \E h \in Host : s \in selected[h]

\* select_due_for_update, at the now() of the sweep.
Due(s, now) == Live(s) /\ ~row[s].paused /\ row[s].next_run_at <= now

\* "schedule:<id>:<fire time>", from the row as the sweep loaded it.
FireKeyOfSweep(r, now) == now

FireKey(r, now) == r.next_run_at

\* get_by_idempotency_key.
FiredNever(s, key) == FALSE

AlreadyFired(s, key) == \E i \in DOMAIN jobs[s] : jobs[s][i].idempotency_key = key

\* The job a sweep makes of a row.
Firing(r, now) == [idempotency_key |-> FireKey(r, now), run_at |-> r.next_run_at]

\* The cursor jumps past the sweep, over every tick that was missed.
AdvancedByOneTick(current, r, now) ==
    [current EXCEPT !.last_run_at = r.next_run_at,
                    !.next_run_at = NextRunAfter(r.cron_expr, r.next_run_at)]

Advanced(current, r, now) ==
    [current EXCEPT !.last_run_at = r.next_run_at,
                    !.next_run_at = NextRunAfter(r.cron_expr, Latest(r.next_run_at, now))]

-----------------------------------------------------------------------------

Init ==
    /\ clock = 0
    /\ \E c \in Cron :
         row = [s \in Schedule |-> [state |-> "new", paused |-> FALSE, cron_expr |-> c,
                                    next_run_at |-> 0, last_run_at |-> Never]]
    /\ jobs = [s \in Schedule |-> <<>>]
    /\ swept = [s \in Schedule |-> Never]
    /\ hpc = [h \in Host |-> "idle"]
    /\ began = [h \in Host |-> 0]
    /\ advisory = NoHost
    /\ selected = [h \in Host |-> {}]
    /\ loaded = [h \in Host |-> [s \in {} |-> row[s]]]
    /\ checked = [h \in Host |-> {}]
    /\ fresh = [h \in Host |-> {}]
    /\ request = [r \in Patcher \cup Deleter |-> NoRequest]

Tick ==
    /\ clock < MaxTime
    /\ clock' = clock + 1
    /\ UNCHANGED <<row, jobs, swept, sweepVars, request>>

-----------------------------------------------------------------------------
(* The sweep *)

BeginSweep(h) ==
    /\ hpc[h] = "idle"
    /\ hpc' = [hpc EXCEPT ![h] = "begun"]
    /\ began' = [began EXCEPT ![h] = clock]
    /\ UNCHANGED <<clock, row, jobs, swept, advisory, selected, loaded, checked, fresh,
                   request>>

\* The advisory lock is taken, or nothing is due.
EndSweepEarly(h) ==
    /\ hpc[h] = "begun"
    /\ \/ advisory # NoHost
       \/ \A s \in Schedule : Locked(s) \/ ~Due(s, began[h])
    /\ hpc' = [hpc EXCEPT ![h] = "idle"]
    /\ began' = [began EXCEPT ![h] = 0]
    /\ UNCHANGED <<clock, row, jobs, swept, advisory, selected, loaded, checked, fresh,
                   request>>

\* ORDER BY next_run_at LIMIT BatchLimit FOR UPDATE SKIP LOCKED.
SelectDue(h) ==
    /\ hpc[h] = "begun"
    /\ advisory = NoHost
    /\ \E S \in SUBSET {s \in Schedule : Due(s, began[h]) /\ ~Locked(s)} :
         /\ S # {}
         /\ Cardinality(S) <= BatchLimit
         /\ \A s \in Schedule \ S : Due(s, began[h]) /\ ~Locked(s) =>
               /\ Cardinality(S) = BatchLimit
               /\ \A t \in S : row[t].next_run_at <= row[s].next_run_at
         /\ selected' = [selected EXCEPT ![h] = S]
         /\ loaded' = [loaded EXCEPT ![h] = [s \in S |-> row[s]]]
    /\ advisory' = h
    /\ hpc' = [hpc EXCEPT ![h] = "selected"]
    /\ UNCHANGED <<clock, row, jobs, swept, began, checked, fresh, request>>

\* One lookup of the loop over the rows.
CheckKey(h, s) ==
    /\ s \in selected[h] \ checked[h]
    /\ checked' = [checked EXCEPT ![h] = @ \cup {s}]
    /\ fresh' = [fresh EXCEPT ![h] =
                    IF AlreadyFired(s, FireKey(loaded[h][s], began[h])) THEN @ ELSE @ \cup {s}]
    /\ UNCHANGED <<clock, row, jobs, swept, hpc, began, advisory, selected, loaded, request>>

ReleaseLocks(h) ==
    /\ hpc' = [hpc EXCEPT ![h] = "idle"]
    /\ began' = [began EXCEPT ![h] = 0]
    /\ selected' = [selected EXCEPT ![h] = {}]
    /\ loaded' = [loaded EXCEPT ![h] = [s \in {} |-> row[s]]]
    /\ checked' = [checked EXCEPT ![h] = {}]
    /\ fresh' = [fresh EXCEPT ![h] = {}]
    /\ advisory' = NoHost

\* uq_jobs_owner_idempotency: an insert of a key that is there raises.
KeysAreFree(h) ==
    \A s \in fresh[h] : \A i \in DOMAIN jobs[s] :
        jobs[s][i].idempotency_key # FireKey(loaded[h][s], began[h])

\* Jobs and cursors, in one commit.
CommitSweep(h) ==
    /\ hpc[h] = "selected"
    /\ checked[h] = selected[h]
    /\ KeysAreFree(h)
    /\ jobs' = [s \in Schedule |->
                  IF s \in fresh[h] THEN Append(jobs[s], Firing(loaded[h][s], began[h]))
                                    ELSE jobs[s]]
    /\ row' = [s \in Schedule |->
                 IF s \in selected[h] THEN Advanced(row[s], loaded[h][s], began[h])
                                      ELSE row[s]]
    /\ swept' = [s \in Schedule |-> IF s \in selected[h] THEN began[h] ELSE swept[s]]
    /\ ReleaseLocks(h)
    /\ UNCHANGED <<clock, request>>

\* The host dies or its transaction fails: nothing of the sweep stays.
AbortSweep(h) ==
    /\ hpc[h] = "selected"
    /\ ReleaseLocks(h)
    /\ UNCHANGED <<clock, row, jobs, swept, request>>

-----------------------------------------------------------------------------
(* The owner.  A request's transaction begins with its authentication,      *)
(* which may be a tick before it reads the schedule.                        *)

RequestStart == {clock, clock - 1} \cap Time

Create(s) ==
    /\ row[s].state = "new"
    /\ \E c \in Cron, now \in RequestStart :
         row' = [row EXCEPT ![s] = [state |-> "live", paused |-> FALSE, cron_expr |-> c,
                                    next_run_at |-> NextRunAfter(c, now),
                                    last_run_at |-> Never]]
    /\ UNCHANGED <<clock, jobs, swept, sweepVars, request>>

\* update and delete start with get, an unlocked read.
ReadForPatch(r, s) ==
    /\ request[r] = NoRequest
    /\ Live(s)
    /\ \E p \in Edits, now \in RequestStart :
         request' = [request EXCEPT ![r] = [schedule |-> s, patch |-> p,
                                            now |-> now, loaded |-> row[s]]]
    /\ UNCHANGED <<clock, row, jobs, swept, sweepVars>>

ReadForDelete(r, s) ==
    /\ request[r] = NoRequest
    /\ Live(s)
    /\ request' = [request EXCEPT ![r] = [schedule |-> s]]
    /\ UNCHANGED <<clock, row, jobs, swept, sweepVars>>

\* What the ORM's copy becomes: a new expression, or a resume, restarts the
\* cursor from the next tick of the expression the copy has.
Restarts(patch) == patch.cron_expr # Unset \/ patch.paused = FALSE

Patched(patch, field, old) == IF patch[field] = Unset THEN old ELSE patch[field]

Edited(q) ==
    LET cron == Patched(q.patch, "cron_expr", q.loaded.cron_expr)
    IN  [q.loaded EXCEPT
           !.cron_expr = cron,
           !.paused = Patched(q.patch, "paused", @),
           !.next_run_at = IF Restarts(q.patch) THEN NextRunAfter(cron, q.now) ELSE @]

\* The flush writes the columns in which the copy differs from what it read.
Flushed(q, current) ==
    [c \in DOMAIN current |->
        IF Edited(q)[c] = q.loaded[c] THEN current[c] ELSE Edited(q)[c]]

Close(r) == request' = [request EXCEPT ![r] = NoRequest]

\* The UPDATE waits for a sweep that has the row locked.
CommitPatch(r) ==
    /\ request[r] # NoRequest
    /\ LET q == request[r] s == q.schedule IN
         /\ Live(s)
         /\ ~Locked(s)
         /\ row' = [row EXCEPT ![s] = Flushed(q, @)]
         /\ swept' = [swept EXCEPT ![s] = IF Restarts(q.patch) THEN Never ELSE @]
    /\ Close(r)
    /\ UNCHANGED <<clock, jobs, sweepVars>>

CommitDelete(r) ==
    /\ request[r] # NoRequest
    /\ LET s == request[r].schedule IN
         /\ Live(s)
         /\ ~Locked(s)
         /\ row' = [row EXCEPT ![s].state = "deleted"]
    /\ Close(r)
    /\ UNCHANGED <<clock, jobs, swept, sweepVars>>

\* Another request deleted the row: the statement matches nothing.
RowIsGone(r) ==
    /\ request[r] # NoRequest
    /\ ~Live(request[r].schedule)
    /\ Close(r)
    /\ UNCHANGED <<clock, row, jobs, swept, sweepVars>>

-----------------------------------------------------------------------------

HostStep(h) ==
    \/ BeginSweep(h)
    \/ EndSweepEarly(h)
    \/ SelectDue(h)
    \/ \E s \in Schedule : CheckKey(h, s)
    \/ CommitSweep(h)
    \/ AbortSweep(h)

PatchStep(r) ==
    \/ \E s \in Schedule : ReadForPatch(r, s)
    \/ CommitPatch(r)
    \/ RowIsGone(r)

DeleteStep(r) ==
    \/ \E s \in Schedule : ReadForDelete(r, s)
    \/ CommitDelete(r)
    \/ RowIsGone(r)

Next ==
    \/ Tick
    \/ \E h \in Host : HostStep(h)
    \/ \E s \in Schedule : Create(s)
    \/ \E r \in Patcher : PatchStep(r)
    \/ \E r \in Deleter : DeleteStep(r)

Spec == Init /\ [][Next]_vars

-----------------------------------------------------------------------------
(* Properties *)

\* materialize_schedules_once: "even a replayed sweep cannot double-fire a
\* tick", nor can an edit that sets the cursor back to one that has fired.
TicksFireOnce ==
    \A s \in Schedule : \A i, k \in DOMAIN jobs[s] :
        jobs[s][i].run_at = jobs[s][k].run_at => i = k

\* "Missed ticks collapse into a single firing": unless an edit restarts the
\* cursor, what fires next is a tick after the sweep that fired last.
MissedTicksCollapse ==
    [][\A s \in Schedule : \A i \in DOMAIN jobs'[s] \ DOMAIN jobs[s] :
         swept[s] # Never => jobs'[s][i].run_at > swept[s]]_vars

\* test_paused_schedule_never_fires: once a pause or a deletion is committed
\* no job comes of the schedule, not even from a sweep in progress.
OnlyLiveSchedulesFire ==
    [][\A s \in Schedule : ~Live(s) \/ row[s].paused => jobs'[s] = jobs[s]]_vars

\* The job insert and the cursor advance commit together.
LastRunIsMaterialized ==
    \A s \in Schedule : row[s].last_run_at # Never =>
        \E i \in DOMAIN jobs[s] : jobs[s][i].run_at = row[s].last_run_at

\* What a sweep works on is what there is, until it commits: nobody edits,
\* deletes or sweeps a row it has loaded, and no other job comes of a tick it
\* has looked up, so its commit never runs into the unique index.
SweepsAreUndisturbed ==
    \A h \in Host : \A s \in selected[h] :
        /\ loaded[h][s] = row[s]
        /\ s \in checked[h] =>
              (s \in fresh[h] <=> \A i \in DOMAIN jobs[s] : jobs[s][i].run_at # row[s].next_run_at)

\* materialize_schedules_once and ScheduleService.update, with hosts that die,
\* sweeps that overlap and edits made on stale copies: the cursor and the jobs
\* tell one story.
CursorAndJobsAgree == TicksFireOnce /\ LastRunIsMaterialized /\ SweepsAreUndisturbed

\* PATCH /schedules: "Changing cron_expr recomputes the next fire time": the
\* cursor is a tick of the expression the schedule has.
CursorIsATick ==
    \A s \in Schedule : Live(s) => row[s].next_run_at % row[s].cron_expr = 0

\* The loops never die and the advisory lock goes with its holder; edits are
\* not obliged to come.
Fairness ==
    /\ WF_vars(Tick)
    /\ \A h \in Host : /\ WF_vars(BeginSweep(h) \/ EndSweepEarly(h) \/ SelectDue(h))
                       /\ \A s \in Schedule : SF_vars(CheckKey(h, s))
                       /\ SF_vars(CommitSweep(h))

FairSpec == Spec /\ Fairness

\* A due schedule fires, or its owner gets in the way.
DueSchedulesFire ==
    \A s \in Schedule : Due(s, clock) ~> ~Due(s, clock)
=============================================================================
