---------------------------- MODULE WorkerRunner ----------------------------
(***************************************************************************)
(* The inside of one worker process (worker/runner.py): the consume loop,  *)
(* the tasks it starts, the event of a freed slot, the wake channel        *)
(* (events.py) and the shutdown.                                           *)
(*                                                                         *)
(* One event loop runs all of it, so nothing interleaves between two       *)
(* awaits and everything does at one; a step here runs from one await to   *)
(* the next.  The worker heartbeats in time: leases, the reaper and what   *)
(* other workers see are in module Execution.                              *)
(*                                                                         *)
(* A few operators come with a slip of themselves, named for what it       *)
(* forgets.  Nothing in the specification uses the slips; the properties   *)
(* are shown to notice them.                                               *)
(***************************************************************************)
EXTENDS Naturals, FiniteSets

CONSTANTS
    Job,            \* jobs of the queues this worker consumes
    Concurrency,    \* settings.worker_concurrency
    DbMayFail,      \* a transaction may fail
    RedisMayFail,   \* the wake channel may fail or lose a message
    MayShutDown     \* a signal may arrive

ASSUME RunnerAssumption ==
    /\ IsFiniteSet(Job)
    /\ Concurrency \in Nat \ {0}
    /\ DbMayFail \in BOOLEAN
    /\ RedisMayFail \in BOOLEAN
    /\ MayShutDown \in BOOLEAN

VARIABLES
    pc,         \* the await the main coroutine is at
    draining,   \* _draining
    slot_freed, \* _slot_freed
    task,       \* _inflight: where the task of each job is
    asked,      \* free_slots of this round of the loop
    answer,     \* jobs a claim has committed and not yet returned
    beats,      \* the maintenance loops run
    listed,     \* workers.status of this worker
    bus,        \* its subscription: none, quiet, or with a message to read
    db,         \* jobs in the database
    orphans     \* history: jobs it holds and will not finish

loopVars == <<pc, draining, slot_freed, asked, answer>>
vars == <<loopVars, task, beats, listed, bus, db, orphans>>

\* "head" stands for the code from the top of the loop to its first await.
Place == {"head", "claiming", "claimed", "backoff", "waiting",
          "announce", "grace", "gather", "sign_off", "unwinding", "done"}

TaskState == {"none", "handler", "finalizing", "releasing", "ended"}

TypeOK ==
    /\ pc \in Place
    /\ draining \in BOOLEAN
    /\ slot_freed \in BOOLEAN
    /\ task \in [Job -> TaskState]
    /\ asked \in 0..Concurrency
    /\ answer \subseteq Job
    /\ beats \in BOOLEAN
    /\ listed \in {"ONLINE", "DRAINING", "OFFLINE"}
    /\ bus \in {"none", "quiet", "message"}
    /\ db \in [Job -> {"absent", "ready", "held", "gone"}]
    /\ orphans \subseteq Job

-----------------------------------------------------------------------------

\* A task is in _inflight until its done callback has run.
RunningTasks == {j \in Job : task[j] \in {"handler", "finalizing", "releasing"}}

Inflight == {j \in Job : task[j] # "none"}

FreeSlots == Concurrency - Cardinality(Inflight)

Ready == {j \in Job : db[j] = "ready"}

Init ==
    /\ pc = "head"
    /\ draining = FALSE
    /\ slot_freed = FALSE
    /\ task = [j \in Job |-> "none"]
    /\ asked = 0
    /\ answer = {}
    /\ beats = TRUE
    /\ listed = "ONLINE"
    /\ bus = "none"
    /\ db \in [Job -> {"absent", "ready"}]
    /\ orphans = {}

-----------------------------------------------------------------------------
(* The consume loop *)

\* _wait_for_work: the event is cleared first, then the subscription is made.
StartWait ==
    /\ pc' = "waiting"
    /\ slot_freed' = FALSE
    /\ bus' \in IF bus # "none" THEN {bus}
                ELSE IF RedisMayFail THEN {"none", "quiet"} ELSE {"quiet"}

Head ==
    /\ pc = "head"
    /\ asked' = IF draining THEN 0 ELSE FreeSlots
    /\ \/ draining /\ pc' = "announce" /\ UNCHANGED <<slot_freed, bus>>
       \/ ~draining /\ FreeSlots > 0 /\ pc' = "claiming" /\ UNCHANGED <<slot_freed, bus>>
       \/ ~draining /\ FreeSlots = 0 /\ StartWait
    /\ UNCHANGED <<draining, answer, task, beats, listed, db, orphans>>

\* claim_jobs takes as many ready jobs as it was asked for.
ClaimCommits(S) ==
    /\ pc = "claiming"
    /\ S \subseteq Ready
    /\ Cardinality(S) = asked \/ (S = Ready /\ Cardinality(S) < asked)
    /\ db' = [j \in Job |-> IF j \in S THEN "held" ELSE db[j]]
    /\ answer' = S
    /\ pc' = "claimed"
    /\ UNCHANGED <<draining, slot_freed, asked, task, beats, listed, bus, orphans>>

\* Tasks are started even when the signal came during the claim.
ToStartUnlessDraining == IF draining THEN {} ELSE answer

ToStart == answer

ClaimReturns ==
    /\ pc = "claimed"
    /\ task' = [j \in Job |-> IF j \in ToStart THEN "handler" ELSE task[j]]
    /\ answer' = {}
    /\ IF answer # {} THEN pc' = "head" /\ UNCHANGED <<slot_freed, bus>> ELSE StartWait
    /\ UNCHANGED <<draining, asked, beats, listed, db, orphans>>

\* Before the commit, or after it: then the worker holds what it does not run.
ClaimFails ==
    /\ DbMayFail
    /\ pc \in {"claiming", "claimed"}
    /\ orphans' = orphans \cup answer
    /\ answer' = {}
    /\ pc' = "backoff"
    /\ UNCHANGED <<draining, slot_freed, asked, task, beats, listed, bus, db>>

BackoffEnds ==
    /\ pc = "backoff"
    /\ pc' = "head"
    /\ UNCHANGED <<draining, slot_freed, asked, answer, task, beats, listed, bus, db, orphans>>

EndWait ==
    /\ pc = "waiting"
    /\ pc' = "head"
    /\ UNCHANGED <<draining, slot_freed, asked, answer, task, beats, listed, db, orphans>>

\* The poll interval runs out, with Redis or without.
IntervalOverWhileBusy == Inflight # {}

IntervalOver == TRUE

WaitTimesOut ==
    /\ IntervalOver
    /\ EndWait
    /\ bus' \in IF RedisMayFail THEN {bus, "none"} ELSE {bus}

WaitWoken ==
    /\ bus = "message"
    /\ EndWait
    /\ bus' = "quiet"

\* The reader of the channel is cancelled, maybe with a message in hand.
WaitSlotFreed ==
    /\ slot_freed
    /\ EndWait
    /\ bus' \in IF bus = "message" THEN {"message", "quiet"} ELSE {bus}

-----------------------------------------------------------------------------
(* The task of a job: _execute *)

\* It returns, raises or times out; CancelledError of its own is a release.
HandlerEnds(j) ==
    /\ task[j] = "handler"
    /\ \E next \in {"finalizing", "releasing"} : task' = [task EXCEPT ![j] = next]
    /\ UNCHANGED <<loopVars, beats, listed, bus, db, orphans>>

Settled(j) == IF task[j] = "finalizing" THEN {"gone", "ready"} ELSE {"ready"}

\* complete_success, complete_failure or release_job commits...
TaskCommits(j) ==
    /\ task[j] \in {"finalizing", "releasing"}
    /\ \E next \in Settled(j) : db' = [db EXCEPT ![j] = next]
    /\ task' = [task EXCEPT ![j] = "ended"]
    /\ UNCHANGED <<loopVars, beats, listed, bus, orphans>>

\* ... or it raises, and nobody tries again.
TaskRaises(j) ==
    /\ DbMayFail
    /\ task[j] \in {"finalizing", "releasing"}
    /\ task' = [task EXCEPT ![j] = "ended"]
    /\ orphans' = orphans \cup {j}
    /\ UNCHANGED <<loopVars, beats, listed, bus, db>>

\* _on_task_done.
SlotNotSignalled(freed) == freed

SlotSignalled(freed) == TRUE

TaskDone(j) ==
    /\ task[j] = "ended"
    /\ task' = [task EXCEPT ![j] = "none"]
    /\ slot_freed' = SlotSignalled(slot_freed)
    /\ UNCHANGED <<pc, draining, asked, answer, beats, listed, bus, db, orphans>>

-----------------------------------------------------------------------------
(* Shutdown *)

RequestShutdown ==
    /\ MayShutDown
    /\ ~draining
    /\ draining' = TRUE
    /\ UNCHANGED <<pc, slot_freed, asked, answer, task, beats, listed, bus, db, orphans>>

\* set_worker_status(DRAINING); the grace window is for what is in flight.
Announce ==
    /\ pc = "announce"
    /\ listed' = "DRAINING"
    /\ pc' = "grace"
    /\ UNCHANGED <<draining, slot_freed, asked, answer, task, beats, bus, db, orphans>>

\* Cancelled tasks: a handler is released; what was finalizing either got its
\* commit through (C) or rolls back.  So does a release already under way,
\* whose shielded half goes on alone: its outcome is folded into this step.
Interrupted(C) ==
    /\ C \subseteq {j \in Job : task[j] \in {"finalizing", "releasing"}}
    /\ task' = [j \in Job |-> CASE task[j] = "handler" -> "releasing"
                                [] task[j] = "none" -> "none"
                                [] OTHER -> "ended"]
    /\ db' \in [Job -> {"absent", "ready", "held", "gone"}]
    /\ \A j \in Job : IF j \in C THEN db'[j] \in Settled(j) ELSE db'[j] = db[j]
    /\ orphans' = orphans \cup {j \in RunningTasks : task[j] # "handler" /\ j \notin C}

\* Nothing is left, or the window is over.
GraceEnds ==
    /\ pc = "grace"
    /\ \E C \in SUBSET RunningTasks : Interrupted(C)
    /\ pc' = "gather"
    /\ UNCHANGED <<draining, slot_freed, asked, answer, beats, listed, bus>>

\* The heartbeat goes last.
GatheredAtOnce == TRUE

Gathered == RunningTasks = {}

StopMaintenance ==
    /\ pc = "gather"
    /\ Gathered
    /\ beats' = FALSE
    /\ pc' = "sign_off"
    /\ UNCHANGED <<draining, slot_freed, asked, answer, task, listed, bus, db, orphans>>

SignOff ==
    /\ pc = "sign_off"
    /\ pc' = "done"
    /\ \/ listed' = "OFFLINE"
       \/ DbMayFail /\ UNCHANGED listed
    /\ UNCHANGED <<draining, slot_freed, asked, answer, task, beats, bus, db, orphans>>

\* DRAINING cannot be written: run raises, and asyncio.run cancels every
\* task, the maintenance loops among them, and waits for them.
AnnounceFails ==
    /\ DbMayFail
    /\ pc = "announce"
    /\ \E C \in SUBSET RunningTasks : Interrupted(C)
    /\ beats' = FALSE
    /\ pc' = "unwinding"
    /\ UNCHANGED <<draining, slot_freed, asked, answer, listed, bus>>

Unwound ==
    /\ pc = "unwinding"
    /\ RunningTasks = {}
    /\ pc' = "done"
    /\ UNCHANGED <<draining, slot_freed, asked, answer, task, beats, listed, bus, db, orphans>>

-----------------------------------------------------------------------------
(* The rest of the system *)

Published == IF bus = "none" THEN {"none"}
             ELSE IF RedisMayFail THEN {bus, "message"} ELSE {"message"}

\* enqueue commits, then publishes.
Enqueue(j) ==
    /\ db[j] = "absent"
    /\ db' = [db EXCEPT ![j] = "ready"]
    /\ bus' \in Published
    /\ UNCHANGED <<loopVars, task, beats, listed, orphans>>

\* Another worker claims the job first, or its owner cancels it.
TakenElsewhere(j) ==
    /\ db[j] = "ready"
    /\ db' = [db EXCEPT ![j] = "gone"]
    /\ UNCHANGED <<loopVars, task, beats, listed, bus, orphans>>

-----------------------------------------------------------------------------

ShutdownStep ==
    \/ RequestShutdown
    \/ Announce
    \/ AnnounceFails
    \/ GraceEnds
    \/ StopMaintenance
    \/ SignOff
    \/ Unwound

LoopStep ==
    \/ Head
    \/ \E S \in SUBSET Ready : ClaimCommits(S)
    \/ ClaimReturns
    \/ ClaimFails
    \/ BackoffEnds
    \/ WaitTimesOut
    \/ WaitWoken
    \/ WaitSlotFreed

TaskStep(j) ==
    \/ HandlerEnds(j)
    \/ TaskCommits(j)
    \/ TaskRaises(j)
    \/ TaskDone(j)

Next ==
    \/ LoopStep
    \/ ShutdownStep
    \/ \E j \in Job : TaskStep(j) \/ Enqueue(j) \/ TakenElsewhere(j)

Spec == Init /\ [][Next]_vars

-----------------------------------------------------------------------------
(* Properties *)

\* A worker never runs more handlers than its concurrency, though tasks end
\* while a claim asks for as many jobs as there were free slots.
SlotsHold == Cardinality(Inflight \cup answer) <= Concurrency

\* The jobs the database says this worker holds and the ones it works on are
\* the same, but for those a failed transaction left behind.
HeldJobsHaveTasks ==
    {j \in Job : db[j] = "held"} \ orphans = RunningTasks \cup (answer \ orphans)

\* DESIGN_DOC 9.3: the heartbeat runs through the grace window, so no lease
\* runs out under a handler, nor under the release of a cancelled one.
HeartbeatsCoverTasks ==
    /\ \A j \in Job : task[j] = "handler" => beats
    /\ RunningTasks # {} /\ pc # "unwinding" => beats

\* The comment on _slot_freed: a worker that found all its slots taken does
\* not wait out the poll interval once one of them is free.
FreedSlotWakes ==
    pc = "waiting" /\ asked = 0 /\ FreeSlots > 0 => slot_freed

\* DESIGN_DOC 9.1 and 9.3: a worker that signed off has given back every job
\* but those whose last transaction failed or was interrupted.
SignedOffHoldsOnlyOrphans ==
    listed = "OFFLINE" => RunningTasks = {} /\ {j \in Job : db[j] = "held"} \subseteq orphans

\* _consume_loop and _shutdown: from the claim to the sign-off every job the
\* database gave this worker has a slot and a task, or has been given back.
JobsAreAccountedFor == SlotsHold /\ HeldJobsHaveTasks /\ SignedOffHoldsOnlyOrphans

\* Timeouts, grace windows and handlers' deadlines come, transactions end, and
\* a claim that finds something does not fail every time.  Which jobs it takes
\* is not a matter of fairness.
Fairness ==
    /\ WF_vars(Head) /\ WF_vars(ClaimReturns) /\ WF_vars(BackoffEnds)
    /\ WF_vars(WaitTimesOut)
    /\ SF_vars(\E S \in SUBSET Ready : S # {} /\ ClaimCommits(S))
    /\ WF_vars(\E S \in SUBSET Ready : ClaimCommits(S))
    /\ \A j \in Job : WF_vars(TaskStep(j))
    /\ WF_vars(Announce \/ AnnounceFails) /\ WF_vars(GraceEnds)
    /\ WF_vars(StopMaintenance) /\ WF_vars(SignOff) /\ WF_vars(Unwound)

FairSpec == Spec /\ Fairness

\* A claim prefers others to j.
PassedOver(j) ==
    /\ db[j] = "ready" /\ db'[j] = "ready"
    /\ \E k \in Job : db[k] = "ready" /\ db'[k] = "held"

\* Losing Redis costs latency, never correctness: a ready job leaves the
\* queue, woken or not, unless the worker shuts down or keeps taking others.
\* Whether it is passed over for ever is a matter of the ORDER BY: ClaimOrder.
ReadyJobsAreTaken ==
    \A j \in Job : \/ db[j] = "ready" ~> db[j] # "ready" \/ draining
                   \/ []<><<PassedOver(j)>>_vars

\* A signal ends the process, whatever the loop was waiting for.
ShutdownCompletes == draining ~> pc = "done"
=============================================================================
