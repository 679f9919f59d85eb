------------------------- MODULE WorkerRunner_proofs -------------------------
(***************************************************************************)
(* Theorems about WorkerRunner, for every number of jobs, every            *)
(* concurrency, and whether or not the database, Redis and the process     *)
(* fail.                                                                   *)
(***************************************************************************)
EXTENDS WorkerRunner, FiniteSetTheorems, TLAPS

-----------------------------------------------------------------------------
(* The inductive invariant *)

\* A job is held exactly by its task, by the claim that is about to start it,
\* or by nobody.
HeldOnce ==
    \A j \in Job : db[j] = "held" <=> \/ j \in RunningTasks
                                      \/ j \in answer
                                      \/ j \in orphans

\* ... and by only one of the three.
HoldersApart ==
    /\ answer \cap RunningTasks = {}
    /\ orphans \cap (answer \cup RunningTasks) = {}

\* Tasks in flight, and those a claim may still start, have their slots.
SlotsAreOwed ==
    /\ Cardinality(Inflight) <= Concurrency
    /\ pc = "claiming" => Cardinality(Inflight) + asked <= Concurrency
    /\ pc = "claimed" => Cardinality(Inflight) + Cardinality(answer) <= Concurrency

\* Only a claim has an answer, and only one that asked for something.
ClaimsAsk ==
    /\ pc # "claimed" => answer = {}
    /\ pc \in {"claiming", "claimed"} => asked > 0

\* The order of the shutdown: handlers first, then their last transactions,
\* then the heartbeat, then the sign-off.
ShutdownInOrder ==
    /\ pc = "unwinding" => \A j \in Job : task[j] # "handler"
    /\ pc \in {"sign_off", "done"} => RunningTasks = {}
    /\ ~beats => pc \in {"unwinding", "sign_off", "done"}
    /\ listed = "OFFLINE" => pc = "done"

RunnerInv ==
    /\ TypeOK
    /\ HeldOnce
    /\ HoldersApart
    /\ SlotsAreOwed
    /\ ClaimsAsk
    /\ ShutdownInOrder
    /\ FreedSlotWakes

-----------------------------------------------------------------------------
(* Lemmas *)

\* Sets of jobs are finite, and a part of one is no larger.
LEMMA JobSets ==
    ASSUME NEW S \in SUBSET Job
    PROVE  /\ IsFiniteSet(S) /\ Cardinality(S) \in Nat
           /\ \A T \in SUBSET S : Cardinality(T) \in Nat /\ Cardinality(T) <= Cardinality(S)
  <1>1. IsFiniteSet(S)
    BY RunnerAssumption, FS_Subset
  <1>2. \A T \in SUBSET S : IsFiniteSet(T) /\ Cardinality(T) <= Cardinality(S)
    BY <1>1, FS_Subset
  <1> QED
    BY <1>1, <1>2, FS_CardinalityType

\* A union has at most the members of both.
LEMMA UnionSize ==
    ASSUME NEW S \in SUBSET Job, NEW T \in SUBSET Job
    PROVE  Cardinality(S \cup T) <= Cardinality(S) + Cardinality(T)
  <1>1. IsFiniteSet(S) /\ IsFiniteSet(T) /\ IsFiniteSet(S \cap T)
    BY JobSets
  <1>2. Cardinality(S \cup T) = Cardinality(S) + Cardinality(T) - Cardinality(S \cap T)
    BY <1>1, FS_Union
  <1>3. /\ Cardinality(S) \in Nat /\ Cardinality(T) \in Nat
        /\ Cardinality(S \cap T) \in Nat
    BY <1>1, FS_CardinalityType
  <1> QED
    BY <1>2, <1>3

\* What is in flight is a number of slots.
LEMMA Slots ==
    /\ Inflight \in SUBSET Job /\ Cardinality(Inflight) \in Nat
    /\ RunningTasks \in SUBSET Inflight
    /\ RunnerInv => FreeSlots \in 0..Concurrency
  <1>1. Inflight \in SUBSET Job /\ RunningTasks \in SUBSET Inflight
    BY DEF Inflight, RunningTasks
  <1>2. Cardinality(Inflight) \in Nat
    BY <1>1, JobSets
  <1> QED
    BY <1>1, <1>2, RunnerAssumption DEF RunnerInv, SlotsAreOwed, FreeSlots

\* Tasks that stay where they are keep their jobs and their slots.
LEMMA TasksFrame ==
    ASSUME RunnerInv, UNCHANGED <<task, db, answer, orphans>>
    PROVE  /\ HeldOnce' /\ HoldersApart'
           /\ Inflight' = Inflight /\ RunningTasks' = RunningTasks /\ FreeSlots' = FreeSlots
  <1>1. Inflight' = Inflight /\ RunningTasks' = RunningTasks
    BY DEF Inflight, RunningTasks
  <1> QED
    BY <1>1 DEF RunnerInv, HeldOnce, HoldersApart, FreeSlots

-----------------------------------------------------------------------------
(* The consume loop *)

\* The top of the loop asks for what is free.
LEMMA HeadStep ==
    ASSUME RunnerInv, Head
    PROVE  RunnerInv'
  <1>1. /\ pc = "head" /\ UNCHANGED <<draining, answer, task, beats, listed, db, orphans>>
        /\ pc' \in {"announce", "claiming", "waiting"}
        /\ pc' = "claiming" => FreeSlots > 0 /\ asked' = FreeSlots
        /\ pc' = "waiting" => FreeSlots = 0
        /\ asked' \in {0, FreeSlots}
        /\ slot_freed' \in BOOLEAN /\ bus' \in {"none", "quiet", "message"}
    BY DEF Head, StartWait, RunnerInv, TypeOK
  <1>2. /\ HeldOnce' /\ HoldersApart' /\ Inflight' = Inflight /\ FreeSlots' = FreeSlots
    BY <1>1, TasksFrame
  <1>3. FreeSlots \in 0..Concurrency /\ Cardinality(Inflight) \in Nat
    BY Slots
  <1>4. TypeOK'
    <2>1. asked' \in 0..Concurrency
      BY <1>1, <1>3, RunnerAssumption
    <2> QED
      BY <1>1, <2>1 DEF RunnerInv, TypeOK, Place
  <1>5. SlotsAreOwed'
    BY <1>1, <1>2, <1>3, RunnerAssumption DEF RunnerInv, SlotsAreOwed, FreeSlots
  <1>6. ClaimsAsk' /\ ShutdownInOrder' /\ FreedSlotWakes'
    BY <1>1, <1>2 DEF RunnerInv, ClaimsAsk, ShutdownInOrder, FreedSlotWakes
  <1> QED
    BY <1>2, <1>4, <1>5, <1>6 DEF RunnerInv

\* A claim takes ready jobs, which no task, claim or failure holds, and no
\* more of them than it asked for.
LEMMA ClaimCommitsStep ==
    ASSUME RunnerInv, NEW S \in SUBSET Ready, ClaimCommits(S)
    PROVE  RunnerInv'
  <1>1. /\ pc = "claiming" /\ pc' = "claimed" /\ answer' = S /\ answer = {}
        /\ UNCHANGED <<draining, slot_freed, asked, task, beats, listed, bus, orphans>>
        /\ db' = [j \in Job |-> IF j \in S THEN "held" ELSE db[j]]
    BY DEF ClaimCommits, RunnerInv, ClaimsAsk
  <1>2. S \in SUBSET Job /\ \A j \in S : db[j] = "ready"
    BY DEF Ready
  <1>3. Inflight' = Inflight /\ RunningTasks' = RunningTasks /\ RunningTasks \in SUBSET Job
    BY <1>1 DEF Inflight, RunningTasks
  <1>4. Cardinality(S) <= asked
    <2>1. Cardinality(S) \in Nat /\ asked \in 0..Concurrency
      BY <1>2, JobSets DEF RunnerInv, TypeOK
    <2> QED
      BY <2>1, RunnerAssumption DEF ClaimCommits
  <1>5. TypeOK'
    BY <1>1, <1>2 DEF RunnerInv, TypeOK, Place
  <1>6. HeldOnce' /\ HoldersApart'
    BY <1>1, <1>2, <1>3 DEF RunnerInv, TypeOK, HeldOnce, HoldersApart
  <1>7. SlotsAreOwed'
    <2>1. Cardinality(S) \in Nat /\ Cardinality(Inflight) \in Nat /\ asked \in Nat
      BY <1>2, JobSets, Slots, RunnerAssumption DEF RunnerInv, TypeOK
    <2> QED
      BY <1>1, <1>3, <1>4, <2>1, RunnerAssumption DEF RunnerInv, SlotsAreOwed
  <1>8. ClaimsAsk' /\ ShutdownInOrder' /\ FreedSlotWakes'
    BY <1>1, <1>3 DEF RunnerInv, ClaimsAsk, ShutdownInOrder, FreedSlotWakes
  <1> QED
    BY <1>5, <1>6, <1>7, <1>8 DEF RunnerInv

\* The tasks of the answer take the slots it was asked for with, whether or
\* not the signal came meanwhile.
LEMMA ClaimReturnsStep ==
    ASSUME RunnerInv, ClaimReturns
    PROVE  RunnerInv'
  <1>1. /\ pc = "claimed" /\ answer' = {} /\ asked > 0
        /\ task' = [j \in Job |-> IF j \in answer THEN "handler" ELSE task[j]]
        /\ UNCHANGED <<draining, asked, beats, listed, db, orphans>>
        /\ pc' \in {"head", "waiting"}
        /\ slot_freed' \in BOOLEAN /\ bus' \in {"none", "quiet", "message"}
    BY DEF ClaimReturns, ToStart, StartWait, RunnerInv, ClaimsAsk, TypeOK
  <1>2. answer \in SUBSET Job
    BY DEF RunnerInv, TypeOK
  <1>3. Inflight' = Inflight \cup answer /\ RunningTasks' = RunningTasks \cup answer
    BY <1>1, <1>2 DEF Inflight, RunningTasks
  <1>4. TypeOK'
    BY <1>1 DEF RunnerInv, TypeOK, Place, TaskState
  <1>5. HeldOnce' /\ HoldersApart'
    BY <1>1, <1>3 DEF RunnerInv, HeldOnce, HoldersApart
  <1>6. SlotsAreOwed'
    <2>1. Cardinality(Inflight \cup answer) <= Cardinality(Inflight) + Cardinality(answer)
      BY <1>2, Slots, UnionSize
    <2>2. /\ Cardinality(Inflight) \in Nat /\ Cardinality(answer) \in Nat
          /\ Cardinality(Inflight \cup answer) \in Nat
      BY <1>2, Slots, JobSets
    <2> QED
      BY <1>1, <1>3, <2>1, <2>2, RunnerAssumption DEF RunnerInv, SlotsAreOwed
  <1>7. ClaimsAsk' /\ ShutdownInOrder' /\ FreedSlotWakes'
    BY <1>1 DEF RunnerInv, ClaimsAsk, ShutdownInOrder, FreedSlotWakes, TypeOK
  <1> QED
    BY <1>4, <1>5, <1>6, <1>7 DEF RunnerInv

\* A claim that fails after its commit leaves its jobs to nobody.
LEMMA ClaimFailsStep ==
    ASSUME RunnerInv, ClaimFails
    PROVE  RunnerInv'
  <1>1. /\ pc \in {"claiming", "claimed"} /\ pc' = "backoff" /\ answer' = {}
        /\ orphans' = orphans \cup answer
        /\ UNCHANGED <<draining, slot_freed, asked, task, beats, listed, bus, db>>
    BY DEF ClaimFails
  <1>2. Inflight' = Inflight /\ RunningTasks' = RunningTasks
    BY <1>1 DEF Inflight, RunningTasks
  <1>3. TypeOK' /\ HeldOnce' /\ HoldersApart'
    BY <1>1, <1>2 DEF RunnerInv, TypeOK, Place, HeldOnce, HoldersApart
  <1> QED
    BY <1>1, <1>2, <1>3 DEF RunnerInv, SlotsAreOwed, ClaimsAsk, ShutdownInOrder, FreedSlotWakes

\* Waiting, backing off, the signal and the orderly steps of the shutdown
\* move no task.
LEMMA CalmStep ==
    ASSUME RunnerInv,
           \/ BackoffEnds \/ WaitTimesOut \/ WaitWoken \/ WaitSlotFreed
           \/ RequestShutdown \/ Announce \/ StopMaintenance \/ SignOff \/ Unwound
    PROVE  RunnerInv'
  <1>1. UNCHANGED <<task, db, answer, orphans, slot_freed, asked>>
    BY DEF BackoffEnds, WaitTimesOut, WaitWoken, WaitSlotFreed, EndWait, RequestShutdown, Announce,
           StopMaintenance, SignOff, Unwound
  <1>2. /\ HeldOnce' /\ HoldersApart' /\ Inflight' = Inflight
        /\ RunningTasks' = RunningTasks /\ FreeSlots' = FreeSlots
    BY <1>1, TasksFrame
  <1>3. /\ pc' \notin {"claiming", "claimed", "waiting"} \/ pc' = pc
        /\ pc' \in Place
        /\ pc \in {"claiming", "claimed"} => pc' = pc
    BY DEF BackoffEnds, WaitTimesOut, WaitWoken, WaitSlotFreed, EndWait, RequestShutdown, Announce,
           StopMaintenance, SignOff, Unwound, RunnerInv, TypeOK, Place
  <1>4. TypeOK'
    BY <1>1, <1>3 DEF BackoffEnds, WaitTimesOut, WaitWoken, WaitSlotFreed, EndWait,
           RequestShutdown, Announce, StopMaintenance, SignOff, Unwound, RunnerInv, TypeOK
  <1>5. SlotsAreOwed' /\ ClaimsAsk' /\ FreedSlotWakes'
    BY <1>1, <1>2, <1>3 DEF RunnerInv, SlotsAreOwed, ClaimsAsk, FreedSlotWakes
  <1>6. ShutdownInOrder'
    BY <1>1, <1>2 DEF BackoffEnds, WaitTimesOut, WaitWoken, WaitSlotFreed, EndWait,
           RequestShutdown, Announce, StopMaintenance, Gathered, SignOff, Unwound, RunnerInv,
           TypeOK, ShutdownInOrder
  <1> QED
    BY <1>2, <1>4, <1>5, <1>6 DEF RunnerInv

-----------------------------------------------------------------------------
(* Tasks *)

\* Slots are only given back here.
LEMMA FewerTasks ==
    ASSUME RunnerInv, Inflight' \in SUBSET Inflight, UNCHANGED asked,
           pc' \in {"claiming", "claimed"} => pc' = pc /\ answer' = answer
    PROVE  SlotsAreOwed'
  <1>1. /\ Cardinality(Inflight') <= Cardinality(Inflight)
        /\ Cardinality(Inflight') \in Nat /\ Cardinality(Inflight) \in Nat
    BY Slots, JobSets
  <1>2. asked \in Nat /\ answer \in SUBSET Job
    BY RunnerAssumption DEF RunnerInv, TypeOK
  <1>3. Cardinality(answer) \in Nat
    BY <1>2, JobSets
  <1> QED
    BY <1>1, <1>2, <1>3, RunnerAssumption DEF RunnerInv, SlotsAreOwed

\* A handler that ends keeps its job and its slot until its last transaction.
LEMMA HandlerEndsStep ==
    ASSUME RunnerInv, NEW j \in Job, HandlerEnds(j)
    PROVE  RunnerInv'
  <1>1. PICK next \in {"finalizing", "releasing"} : task' = [task EXCEPT ![j] = next]
    BY DEF HandlerEnds
  <1>2. task[j] = "handler" /\ UNCHANGED <<loopVars, beats, listed, bus, db, orphans>>
    BY DEF HandlerEnds
  <1>3. Inflight' = Inflight /\ RunningTasks' = RunningTasks
    BY <1>1, <1>2 DEF Inflight, RunningTasks, RunnerInv, TypeOK
  <1>4. TypeOK'
    BY <1>1, <1>2 DEF RunnerInv, TypeOK, TaskState, loopVars
  <1>5. HeldOnce' /\ HoldersApart'
    BY <1>2, <1>3 DEF RunnerInv, HeldOnce, HoldersApart, loopVars
  <1>6. SlotsAreOwed' /\ ClaimsAsk' /\ FreedSlotWakes'
    BY <1>2, <1>3 DEF RunnerInv, SlotsAreOwed, ClaimsAsk, FreedSlotWakes, FreeSlots, loopVars
  <1>7. ShutdownInOrder'
    BY <1>1, <1>2, <1>3 DEF RunnerInv, TypeOK, ShutdownInOrder, loopVars
  <1> QED
    BY <1>4, <1>5, <1>6, <1>7 DEF RunnerInv

\* The last transaction of a task gives the job back, or leaves it to nobody.
LEMMA TaskEndsStep ==
    ASSUME RunnerInv, NEW j \in Job, TaskCommits(j) \/ TaskRaises(j)
    PROVE  RunnerInv'
  <1>1. /\ task[j] \in {"finalizing", "releasing"} /\ task' = [task EXCEPT ![j] = "ended"]
        /\ UNCHANGED <<loopVars, beats, listed, bus>>
    BY DEF TaskCommits, TaskRaises
  <1>2. /\ Inflight' = Inflight /\ RunningTasks' = RunningTasks \ {j}
        /\ j \in RunningTasks
    BY <1>1 DEF Inflight, RunningTasks, RunnerInv, TypeOK
  <1>3. \/ /\ UNCHANGED orphans
           /\ db' \in [Job -> {"absent", "ready", "held", "gone"}]
           /\ db'[j] # "held" /\ \A i \in Job \ {j} : db'[i] = db[i]
        \/ UNCHANGED db /\ orphans' = orphans \cup {j}
    BY DEF TaskCommits, TaskRaises, Settled, RunnerInv, TypeOK
  <1>4. TypeOK'
    BY <1>1, <1>3 DEF RunnerInv, TypeOK, TaskState, loopVars
  <1>5. HeldOnce' /\ HoldersApart'
    BY <1>1, <1>2, <1>3 DEF RunnerInv, HeldOnce, HoldersApart, loopVars
  <1>6. SlotsAreOwed' /\ ClaimsAsk' /\ FreedSlotWakes'
    BY <1>1, <1>2 DEF RunnerInv, SlotsAreOwed, ClaimsAsk, FreedSlotWakes, FreeSlots, loopVars
  <1>7. ShutdownInOrder'
    BY <1>1, <1>2 DEF RunnerInv, TypeOK, ShutdownInOrder, loopVars
  <1> QED
    BY <1>4, <1>5, <1>6, <1>7 DEF RunnerInv

\* The done callback frees the slot and says so.
LEMMA TaskDoneStep ==
    ASSUME RunnerInv, NEW j \in Job, TaskDone(j)
    PROVE  RunnerInv'
  <1>1. /\ task[j] = "ended" /\ task' = [task EXCEPT ![j] = "none"] /\ slot_freed' = TRUE
        /\ UNCHANGED <<pc, draining, asked, answer, beats, listed, bus, db, orphans>>
    BY DEF TaskDone, SlotSignalled
  <1>2. Inflight' \in SUBSET Inflight /\ RunningTasks' = RunningTasks
    BY <1>1 DEF Inflight, RunningTasks, RunnerInv, TypeOK
  <1>3. TypeOK' /\ HeldOnce' /\ HoldersApart'
    BY <1>1, <1>2 DEF RunnerInv, TypeOK, TaskState, HeldOnce, HoldersApart
  <1>4. SlotsAreOwed'
    BY <1>1, <1>2, FewerTasks
  <1>5. ClaimsAsk' /\ ShutdownInOrder' /\ FreedSlotWakes'
    BY <1>1, <1>2 DEF RunnerInv, TypeOK, ClaimsAsk, ShutdownInOrder, FreedSlotWakes
  <1> QED
    BY <1>3, <1>4, <1>5 DEF RunnerInv

\* What is cancelled is released, was settled just in time, or is left to
\* nobody.
LEMMA InterruptedStep ==
    ASSUME RunnerInv, GraceEnds \/ AnnounceFails
    PROVE  RunnerInv'
  <1>1. PICK C \in SUBSET RunningTasks : Interrupted(C)
    BY DEF GraceEnds, AnnounceFails
  <1>2. /\ UNCHANGED <<draining, slot_freed, asked, answer, listed, bus>>
        /\ \/ pc = "grace" /\ pc' = "gather" /\ UNCHANGED beats
           \/ pc = "announce" /\ pc' = "unwinding" /\ beats' = FALSE
    BY DEF GraceEnds, AnnounceFails
  <1>3. \A j \in Job :
          /\ task[j] = "handler" => task'[j] = "releasing"
          /\ task[j] = "none" => task'[j] = "none"
          /\ task[j] \in {"finalizing", "releasing", "ended"} => task'[j] = "ended"
    BY <1>1 DEF Interrupted
  <1>4. task' \in [Job -> TaskState]
    BY <1>1 DEF Interrupted, TaskState
  <1>5. \A j \in Job : task[j] \in {"none", "handler", "finalizing", "releasing", "ended"}
    BY DEF RunnerInv, TypeOK, TaskState
  <1>6. /\ Inflight' = Inflight
        /\ RunningTasks' = {j \in Job : task[j] = "handler"}
        /\ \A j \in Job : task'[j] # "handler"
    BY <1>3, <1>5 DEF Inflight, RunningTasks
  <1>7. /\ C \subseteq {j \in Job : task[j] \in {"finalizing", "releasing"}}
        /\ \A j \in Job : IF j \in C THEN db'[j] # "held" ELSE db'[j] = db[j]
        /\ orphans' = orphans \cup {j \in RunningTasks : task[j] # "handler" /\ j \notin C}
    BY <1>1 DEF Interrupted, Settled
  <1>8. TypeOK'
    <2>1. db' \in [Job -> {"absent", "ready", "held", "gone"}] /\ orphans' \subseteq Job
      BY <1>1, <1>7 DEF Interrupted, RunnerInv, TypeOK, RunningTasks
    <2> QED
      BY <1>2, <1>4, <2>1 DEF RunnerInv, TypeOK, Place
  <1>9. HeldOnce' /\ HoldersApart'
    BY <1>2, <1>6, <1>7 DEF RunnerInv, HeldOnce, HoldersApart, RunningTasks
  <1>10. SlotsAreOwed' /\ ClaimsAsk' /\ FreedSlotWakes'
    BY <1>2, <1>6 DEF RunnerInv, SlotsAreOwed, ClaimsAsk, FreedSlotWakes
  <1>11. ShutdownInOrder'
    BY <1>2, <1>6 DEF RunnerInv, ShutdownInOrder
  <1> QED
    BY <1>8, <1>9, <1>10, <1>11 DEF RunnerInv

\* Jobs that this worker does not hold come and go.
LEMMA OutsideStep ==
    ASSUME RunnerInv, NEW j \in Job, Enqueue(j) \/ TakenElsewhere(j)
    PROVE  RunnerInv'
  <1>1. /\ db[j] \in {"absent", "ready"} /\ UNCHANGED <<loopVars, task, beats, listed, orphans>>
        /\ \E d \in {"ready", "gone"} : db' = [db EXCEPT ![j] = d]
        /\ bus' \in {"none", "quiet", "message"}
    BY DEF Enqueue, TakenElsewhere, Published, RunnerInv, TypeOK
  <1>2. Inflight' = Inflight /\ RunningTasks' = RunningTasks
    BY <1>1 DEF Inflight, RunningTasks
  <1>3. TypeOK'
    BY <1>1 DEF RunnerInv, TypeOK, loopVars
  <1>4. HeldOnce' /\ HoldersApart'
    BY <1>1, <1>2 DEF RunnerInv, TypeOK, HeldOnce, HoldersApart, loopVars
  <1> QED
    BY <1>1, <1>2, <1>3, <1>4 DEF RunnerInv, SlotsAreOwed, ClaimsAsk, ShutdownInOrder,
                                  FreedSlotWakes, FreeSlots, loopVars

-----------------------------------------------------------------------------
(* Theorems *)

\* The invariant is inductive.
LEMMA RunnerInvInductive ==
    /\ Init => RunnerInv
    /\ RunnerInv /\ [Next]_vars => RunnerInv'
  <1>1. ASSUME Init PROVE RunnerInv
    <2>1. Inflight = {} /\ RunningTasks = {}
      BY <1>1 DEF Init, Inflight, RunningTasks
    <2>2. TypeOK
      <3>1. asked \in 0..Concurrency
        BY <1>1, RunnerAssumption DEF Init
      <3>2. task \in [Job -> TaskState] /\ db \in [Job -> {"absent", "ready", "held", "gone"}]
        BY <1>1 DEF Init, TaskState
      <3> QED
        BY <1>1, <3>1, <3>2 DEF Init, TypeOK, Place
    <2>3. SlotsAreOwed
      BY <1>1, <2>1, FS_EmptySet, RunnerAssumption DEF Init, SlotsAreOwed
    <2> QED
      BY <1>1, <2>1, <2>2, <2>3 DEF Init, RunnerInv, HeldOnce, HoldersApart, ClaimsAsk,
                                    ShutdownInOrder, FreedSlotWakes
  <1>2. ASSUME RunnerInv, [Next]_vars PROVE RunnerInv'
    <2>1. CASE UNCHANGED vars
      BY <1>2, <2>1, TasksFrame DEF vars, loopVars, RunnerInv, TypeOK, SlotsAreOwed, ClaimsAsk,
                                    ShutdownInOrder, FreedSlotWakes
    <2>2. CASE LoopStep
      BY <1>2, <2>2, HeadStep, ClaimCommitsStep, ClaimReturnsStep, ClaimFailsStep, CalmStep
      DEF LoopStep
    <2>3. CASE ShutdownStep
      BY <1>2, <2>3, CalmStep, InterruptedStep DEF ShutdownStep
    <2>4. ASSUME NEW j \in Job, TaskStep(j) PROVE RunnerInv'
      BY <1>2, <2>4, HandlerEndsStep, TaskEndsStep, TaskDoneStep DEF TaskStep
    <2> QED
      BY <1>2, <2>1, <2>2, <2>3, <2>4, OutsideStep DEF Next
  <1> QED
    BY <1>1, <1>2

\* The types of the variables hold throughout.
THEOREM RunnerTypesAlways == Spec => []TypeOK
  <1>1. RunnerInv => TypeOK
    BY DEF RunnerInv
  <1> QED
    BY RunnerInvInductive, <1>1, PTL DEF Spec

\* _consume_loop and _shutdown, whatever fails and whenever the signal comes:
\* every job the database gave this worker has one of its slots and a task,
\* or is being given one, or its last transaction failed; and a worker that
\* signed off holds no other.
THEOREM JobsAccountedForAlways == Spec => []JobsAreAccountedFor
  <1>1. RunnerInv => JobsAreAccountedFor
    <2> SUFFICES ASSUME RunnerInv PROVE JobsAreAccountedFor
      OBVIOUS
    <2>1. SlotsHold
      <3>1. answer \in SUBSET Job /\ Cardinality(Inflight) \in Nat /\ Inflight \in SUBSET Job
        BY Slots DEF RunnerInv, TypeOK
      <3>2. CASE pc = "claimed"
        <4>1. /\ Cardinality(Inflight \cup answer) <= Cardinality(Inflight) + Cardinality(answer)
              /\ Cardinality(Inflight \cup answer) \in Nat /\ Cardinality(answer) \in Nat
          BY <3>1, UnionSize, JobSets
        <4> QED
          BY <3>1, <3>2, <4>1, RunnerAssumption DEF RunnerInv, SlotsAreOwed, SlotsHold
      <3>3. CASE pc # "claimed"
        <4>1. Inflight \cup answer = Inflight
          BY <3>3 DEF RunnerInv, ClaimsAsk
        <4> QED
          BY <4>1 DEF RunnerInv, SlotsAreOwed, SlotsHold
      <3> QED
        BY <3>2, <3>3
    <2>2. HeldJobsHaveTasks
      BY DEF HeldJobsHaveTasks, RunnerInv, TypeOK, HeldOnce, HoldersApart, RunningTasks
    <2>3. SignedOffHoldsOnlyOrphans
      BY DEF SignedOffHoldsOnlyOrphans, RunnerInv, HeldOnce, ShutdownInOrder, ClaimsAsk
    <2> QED
      BY <2>1, <2>2, <2>3 DEF JobsAreAccountedFor
  <1> QED
    BY RunnerInvInductive, <1>1, PTL DEF Spec

\* DESIGN_DOC 9.3: whenever the signal comes and whatever fails after it,
\* no handler runs without a heartbeat, nor does the release of a cancelled
\* one, unless the shutdown itself could not be announced.
THEOREM HeartbeatsCoverAlways == Spec => []HeartbeatsCoverTasks
  <1>1. RunnerInv => HeartbeatsCoverTasks
    BY DEF RunnerInv, HeartbeatsCoverTasks, ShutdownInOrder, RunningTasks
  <1> QED
    BY RunnerInvInductive, <1>1, PTL DEF Spec

\* _slot_freed is cleared before the wait and set by every task that ends: no
\* slot that becomes free while the loop waits for one is missed.
THEOREM FreedSlotAlwaysWakes == Spec => []FreedSlotWakes
  <1>1. RunnerInv => FreedSlotWakes
    BY DEF RunnerInv
  <1> QED
    BY RunnerInvInductive, <1>1, PTL DEF Spec
=============================================================================
