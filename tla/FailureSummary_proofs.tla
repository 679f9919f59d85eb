------------------------ MODULE FailureSummary_proofs ------------------------
(***************************************************************************)
(* Theorems about FailureSummary, for every number of jobs, workers and    *)
(* errors, every set of categories and every bound on requeues.            *)
(***************************************************************************)
EXTENDS FailureSummary, TLAPS

-----------------------------------------------------------------------------
(* What a slot knows between two awaits *)

Categories == Category \cup {"transient"}

\* The agents that have answered when the task is at a given point of the
\* graph, by the category triage chose.
AnsweredAt(at, category) ==
    CASE at = "diagnose"             -> {"triage"}
      [] at = "remediate"            -> RouteOf(category) \ {"remediate", "compose"}
      [] at = "compose"              -> RouteOf(category) \ {"compose"}
      [] at \in {"publish", "store"} -> RouteOf(category)
      [] OTHER                       -> {}

\* A task that is at something has its job.
BusyHasJob == \A s \in Slot : slot[s].at # "idle" => slot[s].job \in Job

\* Some job buried with that error is what the text says of a job.
OfSomeJob(error, about, burials) ==
    \E b \in burials : b.error = error /\ about = AboutOf[b.job]

\* The error a note is being made of is the one of its burial, and what the
\* note says of a job is of one buried with it.
NotingOwnError ==
    \A s \in Slot : Noting(s) =>
        /\ slot[s].burial \in buried
        /\ slot[s].burial.job = slot[s].job /\ slot[s].burial.error = slot[s].error
        /\ slot[s].error \in Error /\ slot[s].about \in About
        /\ OfSomeJob(slot[s].error, slot[s].about, buried)

\* Nobody on the route was passed over so far.
NobodySkipped ==
    \A s \in Slot :
        /\ slot[s].answered = AnsweredAt(slot[s].at, slot[s].category)
        /\ slot[s].at = "diagnose" => slot[s].category # "transient"
        /\ slot[s].at \in {"diagnose", "remediate", "compose", "publish", "store"}
             => slot[s].category \in Categories

\* What is cached under an error text is about that error, and complete.
CacheIsOfItsKey ==
    \A e \in Error : cache[e] # None =>
        /\ cache[e] \in Notes
        /\ cache[e].error = e
        /\ OfSomeJob(e, cache[e].about, buried)
        /\ cache[e].answered = RouteOf(cache[e].category)

\* What is on a job is about an error of that job, and complete.
JobNotesEarned ==
    \A j \in Job : ai_summary[j] # None =>
        /\ \E b \in buried : b.error = ai_summary[j].error /\ b.job = j
        /\ OfSomeJob(ai_summary[j].error, ai_summary[j].about, buried)
        /\ ai_summary[j].answered = RouteOf(ai_summary[j].category)

NotesInv ==
    /\ TypeOK
    /\ BusyHasJob
    /\ NotingOwnError
    /\ NobodySkipped
    /\ CacheIsOfItsKey
    /\ JobNotesEarned
    /\ BurialsAreAccountedFor

Points == Agents \cup {"idle", "run", "lookup", "publish", "store"}

SlotState == [at : Points, job : Job \cup {None}, burial : Burials \cup {None},
              error : Error \cup {None}, about : About \cup {None},
              category : Category \cup {"transient", None}, answered : SUBSET Agents]

\* What the invariant says of one slot, given the burials.
SlotOK(t, burials) ==
    /\ t \in SlotState
    /\ t.at # "idle" => t.job \in Job
    /\ t.at \in Agents \cup {"lookup", "publish", "store"}
         => /\ t.burial \in burials /\ t.burial.job = t.job /\ t.burial.error = t.error
            /\ t.error \in Error /\ t.about \in About
            /\ OfSomeJob(t.error, t.about, burials)
    /\ t.answered = AnsweredAt(t.at, t.category)
    /\ t.at = "diagnose" => t.category # "transient"
    /\ t.at \in {"diagnose", "remediate", "compose", "publish", "store"}
         => t.category \in Categories

-----------------------------------------------------------------------------
(* Lemmas *)

\* The parts of the invariant that speak of slots, slot by slot.
LEMMA SlotBySlot ==
    ASSUME slot \in [Slot -> SlotState]
    PROVE  (BusyHasJob /\ NotingOwnError /\ NobodySkipped)
             <=> \A s \in Slot : SlotOK(slot[s], buried)
  BY DEF BusyHasJob, NotingOwnError, NobodySkipped, SlotOK, Noting

\* An idle slot knows nothing.
LEMMA IdleOK ==
    ASSUME NEW burials
    PROVE  SlotOK(Idle, burials) /\ Idle \in SlotState /\ Idle.at = "idle"
  BY DEF SlotOK, Idle, SlotState, Points, Agents, AnsweredAt

\* A task that runs a job has asked nobody yet.
LEMMA RunOK ==
    ASSUME NEW j \in Job, NEW burials
    PROVE  SlotOK([Idle EXCEPT !.at = "run", !.job = j], burials)
  BY DEF SlotOK, Idle, SlotState, Points, Agents, AnsweredAt

\* The edges of the graph lead from what one agent leaves to what the next
\* one finds: nobody on the route of a category is passed over.
LEMMA AnswerOK ==
    ASSUME NEW t, NEW burials, SlotOK(t, burials), t.at \in Agents,
           NEW c \in IF t.at = "triage" THEN Categories ELSE {t.category}
    PROVE  SlotOK([t EXCEPT !.at = AfterAnswer(@, c), !.category = c,
                            !.answered = @ \cup {t.at}], burials)
  <1> DEFINE u == [t EXCEPT !.at = AfterAnswer(@, c), !.category = c,
                            !.answered = @ \cup {t.at}]
  <1>1. /\ u.at = AfterAnswer(t.at, c) /\ u.category = c
        /\ u.answered = t.answered \cup {t.at}
        /\ u.job = t.job /\ u.error = t.error /\ u.burial = t.burial /\ u.about = t.about
        /\ c \in Categories
    BY DEF SlotOK, SlotState, Agents, Categories
  <1>2. u.at \in Points \ {"idle", "run", "lookup", "triage"}
    BY <1>1 DEF AfterAnswer, Route, Agents, Points
  <1>3. u \in SlotState
    BY <1>1, <1>2 DEF SlotOK, SlotState, Categories, Agents
  <1>4. u.answered = AnsweredAt(u.at, u.category)
    <2>1. CASE t.at = "triage"
      BY <1>1, <2>1 DEF SlotOK, AnsweredAt, AfterAnswer, Route, RouteOf, Agents
    <2>2. CASE t.at = "diagnose"
      BY <1>1, <2>2 DEF SlotOK, AnsweredAt, AfterAnswer, Route, RouteOf, Agents
    <2>3. CASE t.at = "remediate"
      BY <1>1, <2>3 DEF SlotOK, AnsweredAt, AfterAnswer, Route, RouteOf, Agents
    <2>4. CASE t.at = "compose"
      BY <1>1, <2>4 DEF SlotOK, AnsweredAt, AfterAnswer, Route, RouteOf, Agents
    <2> QED
      BY <2>1, <2>2, <2>3, <2>4 DEF Agents
  <1>5. u.at = "diagnose" => u.category # "transient"
    BY <1>1 DEF AfterAnswer, Route, Agents
  <1>6. /\ t.job \in Job
        /\ t.burial \in burials /\ t.burial.job = t.job /\ t.burial.error = t.error
        /\ t.error \in Error /\ t.about \in About
        /\ OfSomeJob(t.error, t.about, burials)
    BY DEF SlotOK, Agents
  <1> HIDE DEF u
  <1> QED
    BY <1>1, <1>2, <1>3, <1>4, <1>5, <1>6 DEF SlotOK, u

\* What was true of burials stays true when there are more of them.
LEMMA MoreBurials ==
    ASSUME NEW B, NEW C, B \subseteq C
    PROVE  /\ \A e, a : OfSomeJob(e, a, B) => OfSomeJob(e, a, C)
           /\ \A t : SlotOK(t, B) => SlotOK(t, C)
  <1>1. \A e, a : OfSomeJob(e, a, B) => OfSomeJob(e, a, C)
    BY DEF OfSomeJob
  <1> QED
    BY <1>1 DEF SlotOK

\* A step of one slot to a state the invariant allows leaves all slots in
\* such states, as long as what was buried stays buried.
LEMMA SlotStep ==
    ASSUME NotesInv, NEW s \in Slot, NEW t,
           SlotOK(t, buried'), slot' = [slot EXCEPT ![s] = t], buried \subseteq buried'
    PROVE  /\ slot' \in [Slot -> SlotState]
           /\ BusyHasJob' /\ NotingOwnError' /\ NobodySkipped'
  <1>1. slot \in [Slot -> SlotState]
    BY DEF NotesInv, TypeOK, SlotState, Points
  <1>2. \A r \in Slot : SlotOK(slot[r], buried)
    BY <1>1, SlotBySlot DEF NotesInv
  <1>3. \A r \in Slot : SlotOK(slot[r], buried')
    BY <1>2, MoreBurials
  <1>4. /\ slot' \in [Slot -> SlotState]
        /\ \A r \in Slot : SlotOK(slot'[r], buried')
    BY <1>1, <1>3 DEF SlotOK
  <1> QED
    BY <1>4 DEF BusyHasJob, NotingOwnError, NobodySkipped, SlotOK, Noting

\* What the invariant says of a slot, as the actions need it.
LEMMA SlotFacts ==
    ASSUME NotesInv, NEW s \in Slot
    PROVE  /\ SlotOK(slot[s], buried)
           /\ slot \in [Slot -> SlotState]
           /\ slot[s].at # "idle" => slot[s].job \in Job
           /\ Noting(s) => slot[s].burial \in buried /\ slot[s].burial.job = slot[s].job
  <1>1. slot \in [Slot -> SlotState]
    BY DEF NotesInv, TypeOK, SlotState, Points
  <1> QED
    BY <1>1, SlotBySlot DEF NotesInv, BusyHasJob, NotingOwnError

\* The parts of the invariant that no step of an empty slot concerns.
LEMMA Untouched ==
    ASSUME NotesInv, UNCHANGED <<ai_summary, cache, buried>>
    PROVE  /\ CacheIsOfItsKey' /\ JobNotesEarned'
           /\ ai_summary' \in [Job -> Notes \cup {None}]
           /\ cache' \in [Error -> Notes \cup {None}]
           /\ buried' \subseteq Burials
  BY DEF NotesInv, TypeOK, CacheIsOfItsKey, JobNotesEarned

\* A step may take a slot off a note only where it leaves the note, or a
\* failure, behind; a burial that is due a note starts one.
LEMMA BurialStep ==
    ASSUME NotesInv, NEW s \in Slot, NEW t, slot' = [slot EXCEPT ![s] = t],
           noted \subseteq noted', lost \subseteq lost',
           \A b \in noted' : ai_summary'[b.job] # None,
           \A b \in buried' : b.due => b \in buried \/ (Noting(s)' /\ t.burial = b),
           Noting(s) => \/ Noting(s)' /\ t.burial = slot[s].burial
                        \/ slot[s].burial \in noted' \cup lost'
    PROVE  BurialsAreAccountedFor'
  <1> SUFFICES ASSUME NEW b \in buried', b.due, b \notin noted', b \notin lost'
               PROVE  \E r \in Slot : Noting(r)' /\ slot'[r].burial = b
    BY DEF BurialsAreAccountedFor
  <1>1. slot \in [Slot -> SlotState]
    BY SlotFacts
  <1>2. slot'[s] = t /\ \A r \in Slot \ {s} : slot'[r] = slot[r]
    BY <1>1
  <1>3. CASE Noting(s)' /\ t.burial = b
    BY <1>2, <1>3
  <1>4. CASE ~(Noting(s)' /\ t.burial = b)
    <2>1. b \in buried /\ b \notin noted /\ b \notin lost
      BY <1>4
    <2>2. PICK r \in Slot : Noting(r) /\ slot[r].burial = b
      BY <2>1 DEF NotesInv, BurialsAreAccountedFor
    <2>3. r # s
      BY <2>2, <1>4
    <2> QED
      BY <2>2, <2>3, <1>2 DEF Noting
  <1> QED
    BY <1>3, <1>4

\* So does a step that neither buries nor stores.
LEMMA QuietBurialStep ==
    ASSUME NotesInv, NEW s \in Slot, NEW t, slot' = [slot EXCEPT ![s] = t],
           UNCHANGED <<ai_summary, buried, noted>>, lost \subseteq lost',
           Noting(s) => \/ Noting(s)' /\ t.burial = slot[s].burial
                        \/ slot[s].burial \in lost'
    PROVE  BurialsAreAccountedFor'
  <1>1. \A b \in noted' : ai_summary'[b.job] # None
    BY DEF NotesInv, BurialsAreAccountedFor
  <1> QED
    BY <1>1, BurialStep

-----------------------------------------------------------------------------
(* One lemma per action *)

\* The columns no task but claim, the settling transactions and the owners
\* write keep their types.
LEMMA ClaimStep ==
    ASSUME NotesInv, NEW s \in Slot, NEW j \in Job, Claim(s, j)
    PROVE  NotesInv'
  <1> DEFINE t == [Idle EXCEPT !.at = "run", !.job = j]
  <1>1. slot' = [slot EXCEPT ![s] = t] /\ UNCHANGED <<ai_summary, cache, buried, noted, lost>>
    BY DEF Claim
  <1>2. SlotOK(t, buried')
    BY RunOK
  <1>3. /\ slot' \in [Slot -> SlotState]
        /\ BusyHasJob' /\ NotingOwnError' /\ NobodySkipped'
    BY <1>1, <1>2, SlotStep
  <1>4. BurialsAreAccountedFor'
    BY <1>1, QuietBurialStep DEF Claim, Noting, Agents
  <1>5. TypeOK'
    BY <1>1, <1>3, Untouched DEF Claim, NotesInv, TypeOK, SlotState, Points
  <1> QED
    BY <1>1, <1>3, <1>4, <1>5, Untouched DEF NotesInv

\* A slot that has nothing to say any more is empty.
LEMMA GoneStep ==
    ASSUME NotesInv, NEW s \in Slot, Goto(s, "idle"),
           UNCHANGED <<ai_summary, cache, buried, noted>>, lost \subseteq lost',
           Noting(s) => slot[s].burial \in lost'
    PROVE  /\ slot' \in [Slot -> SlotState]
           /\ BusyHasJob' /\ NotingOwnError' /\ NobodySkipped'
           /\ CacheIsOfItsKey' /\ JobNotesEarned' /\ BurialsAreAccountedFor'
  <1>1. slot' = [slot EXCEPT ![s] = Idle]
    BY DEF Goto
  <1>2. SlotOK(Idle, buried')
    BY IdleOK
  <1>3. /\ slot' \in [Slot -> SlotState]
        /\ BusyHasJob' /\ NotingOwnError' /\ NobodySkipped'
    BY <1>1, <1>2, SlotStep
  <1>4. BurialsAreAccountedFor'
    BY <1>1, QuietBurialStep
  <1> QED
    BY <1>3, <1>4, Untouched

\* complete_success leaves no note behind.
LEMMA SucceedStep ==
    ASSUME NotesInv, NEW s \in Slot, Succeed(s)
    PROVE  NotesInv'
  <1>1. Goto(s, "idle") /\ UNCHANGED <<ai_summary, cache, buried, noted, lost>> /\ ~Noting(s)
    BY DEF Succeed, Holds, Noting, Agents
  <1>2. TypeOK'
    BY <1>1, GoneStep DEF Succeed, NotesInv, TypeOK, SlotState, Points
  <1> QED
    BY <1>1, <1>2, GoneStep DEF NotesInv

\* complete_failure's transaction buries the job and, where the feature is on,
\* the note is started.
LEMMA BuryStep ==
    ASSUME NotesInv, NEW s \in Slot, NEW e \in Error, Bury(s, e)
    PROVE  NotesInv'
  <1> DEFINE j == slot[s].job
             b == [job |-> j, error |-> e, due |-> s \in Noters, requeues |-> requeues[j]]
             t == [slot[s] EXCEPT !.at = "lookup", !.burial = b, !.error = e,
                                  !.about = AboutOf[b.job]]
             u == IF s \in Noters THEN t ELSE Idle
  <1>1. /\ SlotOK(slot[s], buried) /\ slot[s].at = "run" /\ j \in Job
        /\ slot \in [Slot -> SlotState]
    BY SlotFacts DEF Bury, Holds
  <1>2. /\ b \in Burials /\ b.job = j /\ b.error = e /\ b.due = (s \in Noters)
        /\ AboutOf[j] \in About
    BY <1>1, SummaryAssumption DEF Burials, NotesInv, TypeOK
  <1>3. slot' = [slot EXCEPT ![s] = u] /\ buried' = buried \cup {b}
    BY DEF Bury
  <1>4. UNCHANGED <<ai_summary, cache, noted, lost>> /\ ~Noting(s)
    BY <1>1 DEF Bury, Noting, Agents
  <1>5. /\ t \in SlotState /\ t.at = "lookup" /\ t.burial = b /\ t.job = j
        /\ t.error = e /\ t.about = AboutOf[j] /\ t.answered = slot[s].answered
    BY <1>1, <1>2 DEF SlotState, Points
  <1> HIDE DEF b, t
  <1>6. OfSomeJob(e, AboutOf[j], buried')
    BY <1>2, <1>3 DEF OfSomeJob
  <1>7. SlotOK(t, buried')
    BY <1>1, <1>2, <1>3, <1>5, <1>6 DEF SlotOK, AnsweredAt, Agents
  <1>8. SlotOK(u, buried')
    BY <1>7, IdleOK
  <1>9. /\ slot' \in [Slot -> SlotState]
        /\ BusyHasJob' /\ NotingOwnError' /\ NobodySkipped'
    BY <1>3, <1>8, SlotStep
  <1>10. CacheIsOfItsKey' /\ JobNotesEarned'
    <2>1. \A x, a : OfSomeJob(x, a, buried) => OfSomeJob(x, a, buried')
      BY <1>3, MoreBurials
    <2> QED
      BY <1>3, <1>4, <2>1 DEF NotesInv, CacheIsOfItsKey, JobNotesEarned
  <1>11. BurialsAreAccountedFor'
    <2>1. slot'[s] = u
      BY <1>1, <1>3
    <2>2. \A c \in buried' : c.due => c \in buried \/ (Noting(s)' /\ u.burial = c)
      BY <1>2, <1>3, <1>5, <2>1 DEF Noting
    <2>3. \A c \in noted' : ai_summary'[c.job] # None
      BY <1>4 DEF NotesInv, BurialsAreAccountedFor
    <2> HIDE DEF u
    <2> QED
      BY <1>3, <1>4, <2>2, <2>3, BurialStep
  <1>12. TypeOK'
    <2>1. buried' \subseteq Burials /\ noted' \subseteq buried' /\ lost' \subseteq buried'
      BY <1>2, <1>3, <1>4 DEF NotesInv, TypeOK
    <2> QED
      BY <1>9, <2>1 DEF Bury, NotesInv, TypeOK, SlotState, Points
  <1> QED
    BY <1>9, <1>10, <1>11, <1>12 DEF NotesInv

\* A task whose job was lost makes no note.
LEMMA LoseLeaseStep ==
    ASSUME NotesInv, NEW s \in Slot, LoseLease(s)
    PROVE  NotesInv'
  <1>1. Goto(s, "idle") /\ UNCHANGED <<ai_summary, cache, buried, noted, lost>> /\ ~Noting(s)
    BY DEF LoseLease, Noting, Agents
  <1>2. TypeOK'
    BY <1>1, GoneStep DEF LoseLease, NotesInv, TypeOK, SlotState, Points
  <1> QED
    BY <1>1, <1>2, GoneStep DEF NotesInv

\* A hit in the cache is about the slot's own error, and is complete; the job
\* it tells of is one buried with that error.
LEMMA LookupStep ==
    ASSUME NotesInv, NEW s \in Slot, Lookup(s)
    PROVE  NotesInv'
  <1> DEFINE hit == cache[CacheKey(slot[s].error)]
             t == [slot[s] EXCEPT !.at = "store", !.error = hit.error, !.about = hit.about,
                                  !.category = hit.category, !.answered = hit.answered]
             u == [slot[s] EXCEPT !.at = "triage"]
  <1>1. /\ SlotOK(slot[s], buried) /\ slot[s].at = "lookup" /\ slot[s].job \in Job
        /\ slot \in [Slot -> SlotState] /\ Noting(s)
        /\ slot[s].error \in Error
    BY SlotFacts DEF Lookup, SlotOK, Noting
  <1>2. UNCHANGED <<status, locked_by, ai_summary, cache, requeues, buried, noted, lost>>
    BY DEF Lookup
  <1>3. PICK v : slot' = [slot EXCEPT ![s] = v] /\ (v = u \/ (hit # None /\ v = t))
    BY DEF Lookup, Goto, OnHit
  <1>4. SlotOK(v, buried') /\ v.burial = slot[s].burial /\ v.at \in {"triage", "store"}
    <2>1. CASE v = u
      <3>1. /\ u \in SlotState /\ u.at = "triage" /\ u.job = slot[s].job
            /\ u.burial = slot[s].burial /\ u.about = slot[s].about
            /\ u.error = slot[s].error /\ u.answered = slot[s].answered
        BY <1>1 DEF SlotState, Points, Agents
      <3> HIDE DEF u
      <3> QED
        BY <2>1, <3>1, <1>1, <1>2 DEF SlotOK, AnsweredAt, Agents
    <2>2. CASE hit # None /\ v = t
      <3>1. /\ hit \in Notes /\ hit.error = slot[s].error
            /\ OfSomeJob(slot[s].error, hit.about, buried)
            /\ hit.answered = RouteOf(hit.category)
        BY <1>1, <2>2 DEF NotesInv, CacheIsOfItsKey, CacheKey
      <3>2. /\ t \in SlotState /\ t.at = "store" /\ t.job = slot[s].job
            /\ t.burial = slot[s].burial /\ t.about = hit.about /\ t.about \in About
            /\ t.error = slot[s].error /\ t.category = hit.category
            /\ t.answered = RouteOf(t.category) /\ t.category \in Categories
        BY <1>1, <3>1 DEF SlotState, Points, Notes, Categories
      <3> HIDE DEF t, hit
      <3> QED
        BY <2>2, <3>1, <3>2, <1>1, <1>2 DEF SlotOK, AnsweredAt, Agents
    <2> QED
      BY <1>3, <2>1, <2>2
  <1> HIDE DEF hit, t, u
  <1>5. /\ slot' \in [Slot -> SlotState]
        /\ BusyHasJob' /\ NotingOwnError' /\ NobodySkipped'
    BY <1>2, <1>3, <1>4, SlotStep
  <1>6. BurialsAreAccountedFor'
    <2>1. Noting(s)'
      BY <1>1, <1>3, <1>4 DEF Noting, Agents
    <2> QED
      BY <2>1, <1>2, <1>3, <1>4, QuietBurialStep
  <1>7. TypeOK'
    BY <1>2, <1>5 DEF NotesInv, TypeOK, SlotState, Points
  <1> QED
    BY <1>2, <1>5, <1>6, <1>7, Untouched DEF NotesInv

\* An answer takes a slot along an edge of the graph.
LEMMA AnswerStep ==
    ASSUME NotesInv, NEW s \in Slot, Answer(s)
    PROVE  NotesInv'
  <1>1. /\ SlotOK(slot[s], buried) /\ slot[s].at \in Agents
        /\ slot \in [Slot -> SlotState] /\ Noting(s)
    BY SlotFacts DEF Answer, Noting
  <1>2. UNCHANGED <<status, locked_by, ai_summary, cache, requeues, buried, noted, lost>>
    BY DEF Answer
  <1>3. PICK c \in IF slot[s].at = "triage" THEN Categories ELSE {slot[s].category} :
          slot' = [slot EXCEPT ![s].at = AfterAnswer(@, c), ![s].category = c,
                               ![s].answered = @ \cup {slot[s].at}]
    BY DEF Answer, Categories
  <1> DEFINE t == [slot[s] EXCEPT !.at = AfterAnswer(@, c), !.category = c,
                                  !.answered = @ \cup {slot[s].at}]
  <1>4. slot' = [slot EXCEPT ![s] = t]
    BY <1>1, <1>3
  <1>5. SlotOK(t, buried)
    BY <1>1, AnswerOK
  <1>6. t.burial = slot[s].burial /\ t.at \in Agents \cup {"publish"}
    BY <1>1 DEF AfterAnswer, Route, Agents, SlotState
  <1> HIDE DEF t
  <1>7. /\ slot' \in [Slot -> SlotState]
        /\ BusyHasJob' /\ NotingOwnError' /\ NobodySkipped'
    BY <1>2, <1>4, <1>5, SlotStep
  <1>8. BurialsAreAccountedFor'
    <2>1. Noting(s)'
      BY <1>1, <1>4, <1>6 DEF Noting
    <2> QED
      BY <2>1, <1>2, <1>4, <1>6, QuietBurialStep
  <1>9. TypeOK'
    BY <1>2, <1>7 DEF NotesInv, TypeOK, SlotState, Points
  <1> QED
    BY <1>2, <1>7, <1>8, <1>9, Untouched DEF NotesInv

\* AgentFails, StoreFails and Crash: the task goes, with its note if it was
\* at one.
LEMMA GivenUpStep ==
    ASSUME NotesInv, NEW s \in Slot, AgentFails(s) \/ StoreFails(s) \/ Crash(s)
    PROVE  NotesInv'
  <1>1. /\ slot[s].at # "idle" /\ GiveUp(s) /\ Goto(s, "idle")
        /\ UNCHANGED <<status, locked_by, ai_summary, cache, requeues, buried, noted>>
    BY DEF AgentFails, StoreFails, Crash, AfterError, Agents
  <1>2. /\ lost \subseteq lost' /\ lost' \subseteq buried
        /\ Noting(s) => slot[s].burial \in lost'
    BY <1>1, SlotFacts DEF GiveUp, NotesInv, TypeOK
  <1>3. TypeOK'
    BY <1>1, <1>2, GoneStep DEF NotesInv, TypeOK, SlotState, Points
  <1> QED
    BY <1>1, <1>2, <1>3, GoneStep DEF NotesInv

\* Only a finished text is published, under its own error.
LEMMA PublishStep ==
    ASSUME NotesInv, NEW s \in Slot, Publish(s)
    PROVE  NotesInv'
  <1> DEFINE t == [slot[s] EXCEPT !.at = "store"]
  <1>1. /\ SlotOK(slot[s], buried) /\ slot[s].at = "publish" /\ slot[s].job \in Job
        /\ slot \in [Slot -> SlotState] /\ Noting(s)
    BY SlotFacts DEF Publish, Noting
  <1>2. UNCHANGED <<status, locked_by, ai_summary, requeues, buried, noted, lost>>
    BY DEF Publish
  <1>3. /\ slot' = [slot EXCEPT ![s] = t] /\ t \in SlotState
        /\ t.at = "store" /\ t.job = slot[s].job /\ t.error = slot[s].error
        /\ t.burial = slot[s].burial /\ t.about = slot[s].about
        /\ t.answered = slot[s].answered /\ t.category = slot[s].category
    BY <1>1 DEF Publish, Goto, SlotState, Points
  <1> HIDE DEF t
  <1>4. SlotOK(t, buried')
    BY <1>1, <1>2, <1>3 DEF SlotOK, AnsweredAt, Agents
  <1>5. /\ slot' \in [Slot -> SlotState]
        /\ BusyHasJob' /\ NotingOwnError' /\ NobodySkipped'
    BY <1>2, <1>3, <1>4, SlotStep
  <1>6. CacheIsOfItsKey' /\ cache' \in [Error -> Notes \cup {None}]
    <2> DEFINE note == NoteOf(slot[s])
    <2>1. /\ note \in Notes /\ note.error = slot[s].error
          /\ OfSomeJob(slot[s].error, note.about, buried)
          /\ note.answered = RouteOf(note.category)
      BY <1>1 DEF SlotOK, SlotState, NoteOf, Notes, Categories, AnsweredAt, Agents
    <2>2. \/ cache' = [cache EXCEPT ![slot[s].error] = note]
          \/ cache' = cache
      BY DEF Publish, CacheKey
    <2> HIDE DEF note
    <2> QED
      BY <1>2, <2>1, <2>2 DEF NotesInv, TypeOK, CacheIsOfItsKey
  <1>7. BurialsAreAccountedFor'
    <2>1. Noting(s)'
      BY <1>1, <1>3 DEF Noting
    <2> QED
      BY <2>1, <1>2, <1>3, QuietBurialStep
  <1>8. TypeOK' /\ JobNotesEarned'
    BY <1>2, <1>5, <1>6 DEF NotesInv, TypeOK, SlotState, Points, JobNotesEarned
  <1> QED
    BY <1>5, <1>6, <1>7, <1>8 DEF NotesInv

\* set_ai_summary writes a finished text about an error of this job.
LEMMA StoreStep ==
    ASSUME NotesInv, NEW s \in Slot, Store(s)
    PROVE  NotesInv'
  <1> DEFINE note == NoteOf(slot[s])
             j == slot[s].job
             b == slot[s].burial
  <1>1. /\ SlotOK(slot[s], buried) /\ slot[s].at = "store" /\ j \in Job
        /\ slot \in [Slot -> SlotState] /\ Noting(s) /\ b \in buried /\ b.job = j
    BY SlotFacts DEF Store, Noting
  <1>2. /\ UNCHANGED <<locked_by, cache, requeues, buried, lost>>
        /\ slot' = [slot EXCEPT ![s] = Idle] /\ noted' = noted \cup {b}
    BY DEF Store, Goto
  <1>3. /\ note \in Notes /\ note # None
        /\ b.error = note.error /\ OfSomeJob(note.error, note.about, buried)
        /\ note.answered = RouteOf(note.category)
    BY <1>1, NoteAssumption DEF SlotOK, SlotState, NoteOf, Notes, Categories, AnsweredAt, Agents
  <1>4. ai_summary' = [ai_summary EXCEPT ![j] = note] /\ status' = status
    BY <1>1 DEF Store, StatusAfterNote, NotesInv, TypeOK
  <1> HIDE DEF note, j, b
  <1>5. /\ ai_summary' \in [Job -> Notes \cup {None}] /\ ai_summary'[j] = note
        /\ \A i \in Job \ {j} : ai_summary'[i] = ai_summary[i]
    BY <1>1, <1>3, <1>4 DEF NotesInv, TypeOK
  <1>6. JobNotesEarned'
    <2> SUFFICES ASSUME NEW i \in Job, ai_summary'[i] # None
                 PROVE  /\ \E c \in buried : c.error = ai_summary'[i].error /\ c.job = i
                        /\ OfSomeJob(ai_summary'[i].error, ai_summary'[i].about, buried)
                        /\ ai_summary'[i].answered = RouteOf(ai_summary'[i].category)
      BY <1>2 DEF JobNotesEarned
    <2>1. CASE i = j
      BY <1>1, <1>3, <1>5, <2>1
    <2>2. CASE i # j
      BY <1>5, <2>2 DEF NotesInv, JobNotesEarned
    <2> QED
      BY <2>1, <2>2
  <1>7. SlotOK(Idle, buried')
    BY IdleOK
  <1>8. /\ slot' \in [Slot -> SlotState]
        /\ BusyHasJob' /\ NotingOwnError' /\ NobodySkipped'
    BY <1>2, <1>7, SlotStep
  <1>9. BurialsAreAccountedFor'
    <2>1. \A c \in noted' : ai_summary'[c.job] # None
      <3> SUFFICES ASSUME NEW c \in noted' PROVE ai_summary'[c.job] # None
        OBVIOUS
      <3>1. CASE c.job = j
        BY <1>3, <1>5, <3>1
      <3>2. CASE c.job # j
        <4>1. c \in noted /\ c \in buried
          BY <1>1, <1>2, <3>2 DEF NotesInv, TypeOK
        <4>2. c.job \in Job
          BY <4>1 DEF NotesInv, TypeOK, Burials
        <4> QED
          BY <1>5, <3>2, <4>1, <4>2 DEF NotesInv, BurialsAreAccountedFor
      <3> QED
        BY <3>1, <3>2
    <2> QED
      BY <2>1, <1>2, BurialStep DEF b
  <1>10. TypeOK' /\ CacheIsOfItsKey'
    BY <1>1, <1>2, <1>4, <1>5, <1>8 DEF NotesInv, TypeOK, SlotState, Points, CacheIsOfItsKey
  <1> QED
    BY <1>6, <1>8, <1>9, <1>10 DEF NotesInv

\* What the reaper and the owners of jobs do leaves notes and tasks alone.
LEMMA OutsideStep ==
    ASSUME NotesInv, NEW j \in Job, Reap(j) \/ Cancel(j) \/ Requeue(j)
    PROVE  NotesInv'
  <1>1. UNCHANGED <<ai_summary, cache, slot, buried, noted, lost>>
    BY DEF Reap, Cancel, Requeue
  <1>2. TypeOK'
    <2>1. /\ status' \in [Job -> {"PENDING", "RUNNING", "SUCCEEDED", "DEAD", "CANCELLED"}]
          /\ locked_by' \in [Job -> Slot \cup {None}]
      BY DEF NotesInv, TypeOK, Reap, Cancel, Requeue
    <2>2. requeues' \in [Job -> Nat] /\ \A i \in Job : requeues'[i] <= MaxRequeues[i]
      BY SummaryAssumption DEF NotesInv, TypeOK, Reap, Cancel, Requeue
    <2> QED
      BY <1>1, <2>1, <2>2 DEF NotesInv, TypeOK
  <1> QED
    BY <1>1, <1>2 DEF NotesInv, BusyHasJob, NotingOwnError, NobodySkipped, CacheIsOfItsKey,
                      JobNotesEarned, BurialsAreAccountedFor, Noting

\* An entry of the cache that expires takes nothing else with it.
LEMMA ExpireStep ==
    ASSUME NotesInv, NEW e \in Error, Expire(e)
    PROVE  NotesInv'
  <1>1. UNCHANGED <<status, locked_by, ai_summary, slot, requeues, buried, noted, lost>>
    BY DEF Expire
  <1>2. cache' \in [Error -> Notes \cup {None}] /\ CacheIsOfItsKey'
    BY DEF Expire, NotesInv, TypeOK, CacheIsOfItsKey
  <1> QED
    BY <1>1, <1>2 DEF NotesInv, TypeOK, BusyHasJob, NotingOwnError, NobodySkipped,
                      JobNotesEarned, BurialsAreAccountedFor, Noting

-----------------------------------------------------------------------------
(* Theorems *)

\* The invariant is inductive.
LEMMA NotesInvInductive ==
    /\ Init => NotesInv
    /\ NotesInv /\ [Next]_vars => NotesInv'
  <1>1. ASSUME Init PROVE NotesInv
    <2>1. /\ TypeOK /\ BusyHasJob /\ NotingOwnError /\ NobodySkipped
      BY <1>1, IdleOK, SummaryAssumption
      DEF Init, TypeOK, BusyHasJob, NotingOwnError, NobodySkipped, Noting, SlotOK, SlotState,
          Points, Agents
    <2>2. CacheIsOfItsKey /\ JobNotesEarned /\ BurialsAreAccountedFor
      BY <1>1 DEF Init, CacheIsOfItsKey, JobNotesEarned, BurialsAreAccountedFor
    <2> QED
      BY <2>1, <2>2 DEF NotesInv
  <1>2. ASSUME NotesInv, [Next]_vars PROVE NotesInv'
    <2>1. CASE UNCHANGED vars
      BY <1>2, <2>1 DEF vars, NotesInv, TypeOK, BusyHasJob, NotingOwnError, NobodySkipped,
                        CacheIsOfItsKey, JobNotesEarned, BurialsAreAccountedFor, Noting
    <2>2. ASSUME NEW s \in Slot, Run(s) \/ MakeNote(s) \/ Crash(s)
          PROVE  NotesInv'
      BY <1>2, <2>2, SucceedStep, BuryStep, LoseLeaseStep, LookupStep, AnswerStep, GivenUpStep,
         PublishStep, StoreStep DEF Run, MakeNote
    <2>3. ASSUME NEW s \in Slot, NEW j \in Job, Claim(s, j)
          PROVE  NotesInv'
      BY <1>2, <2>3, ClaimStep
    <2> QED
      BY <1>2, <2>1, <2>2, <2>3, OutsideStep, ExpireStep DEF Next
  <1> QED
    BY <1>1, <1>2

\* The types of the variables hold throughout.
THEOREM TypesAlways == Spec => []TypeOK
  <1>1. NotesInv => TypeOK
    BY DEF NotesInv
  <1> QED
    BY NotesInvInductive, <1>1, PTL DEF Spec

\* AISummaryService, shared cache and late stores included: a note on a job
\* is the whole analysis its category calls for, and of an error this job was
\* buried with, whatever fails on the way and whatever became of the job; the
\* task and the attempts it tells of are those of a job buried with that error,
\* which need not be this one.
THEOREM NotesEarnedAlways == Spec => []NotesAreEarned
  <1>1. ASSUME NotesInv PROVE NotesAreOfOwnErrors
    <2> SUFFICES ASSUME NEW j \in Job, ai_summary[j] # None
                 PROVE  /\ \E b \in buried : b.error = ai_summary[j].error /\ b.job = j
                        /\ \E b \in buried : /\ b.error = ai_summary[j].error
                                              /\ ai_summary[j].about = AboutOf[b.job]
      BY DEF NotesAreOfOwnErrors
    <2> QED
      BY <1>1 DEF NotesInv, JobNotesEarned, OfSomeJob
  <1>2. ASSUME NotesInv PROVE NotesAreComplete
    BY <1>2 DEF NotesInv, NotesAreComplete, JobNotesEarned, CacheIsOfItsKey
  <1>3. NotesInv => NotesAreEarned
    BY <1>1, <1>2 DEF NotesAreEarned
  <1> QED
    BY NotesInvInductive, <1>3, PTL DEF Spec

\* complete_failure: no burial by a worker that makes notes, a second one of
\* the same job included, loses its note silently: the note was stored, it is
\* being made, or a failure took it.
THEOREM BurialsAccountedForAlways == Spec => []BurialsAreAccountedFor
  <1>1. NotesInv => BurialsAreAccountedFor
    BY DEF NotesInv
  <1> QED
    BY NotesInvInductive, <1>1, PTL DEF Spec

\* set_ai_summary never puts a job back among the dead: a requeue, a claim or
\* a cancel that came before a late note stands.
THEOREM RequeuesStickAlways == Spec => RequeuesStick
  <1>1. ASSUME NotesInv, [Next]_vars, NEW j \in Job, status[j] # "DEAD", status'[j] = "DEAD"
        PROVE  status[j] = "RUNNING"
    <2>1. status \in [Job -> {"PENDING", "RUNNING", "SUCCEEDED", "DEAD", "CANCELLED"}]
      BY <1>1 DEF NotesInv, TypeOK
    <2>2. ASSUME NEW s \in Slot, Run(s) PROVE status[j] = "RUNNING"
      BY <1>1, <2>1, <2>2 DEF Run, Succeed, Bury, LoseLease, Holds
    <2>3. ASSUME NEW s \in Slot, MakeNote(s) PROVE FALSE
      BY <1>1, <2>1, <2>3 DEF MakeNote, Lookup, Answer, AgentFails, Publish, Store, StoreFails,
                              StatusAfterNote
    <2>4. ASSUME NEW s \in Slot, NEW i \in Job, Claim(s, i) PROVE FALSE
      BY <1>1, <2>1, <2>4 DEF Claim
    <2>5. ASSUME NEW s \in Slot, Crash(s) PROVE FALSE
      BY <1>1, <2>5 DEF Crash
    <2>6. ASSUME NEW i \in Job, Reap(i) \/ Cancel(i) \/ Requeue(i) PROVE status[j] = "RUNNING"
      BY <1>1, <2>1, <2>6 DEF Reap, Cancel, Requeue
    <2>7. ASSUME NEW e \in Error, Expire(e) PROVE FALSE
      BY <1>1, <2>7 DEF Expire
    <2> QED
      BY <1>1, <2>2, <2>3, <2>4, <2>5, <2>6, <2>7 DEF Next, vars
  <1>2. NotesInv /\ [Next]_vars =>
          [\A j \in Job : status[j] # "DEAD" /\ status'[j] = "DEAD" => status[j] = "RUNNING"]_vars
    BY <1>1
  <1> QED
    BY NotesInvInductive, <1>2, PTL DEF Spec, RequeuesStick
=============================================================================
