-------------------------- MODULE ClaimBatch_proofs --------------------------
(***************************************************************************)
(* Theorems about ClaimBatch, for every number of jobs, queues and         *)
(* claimers, every limit, every set of caps and every operator.            *)
(***************************************************************************)
EXTENDS ClaimBatch, FiniteSetTheorems, WellFoundedInduction, TLAPS

-----------------------------------------------------------------------------
(* The inductive invariant *)

\* FOR UPDATE: neither a job nor a queue row has two holders.
NothingHeldTwice ==
    \A c, d \in Claimer : c # d => /\ taken[c] \cap taken[d] = {}
                                   /\ locked[c] \cap locked[d] = {}

\* Operators stay within the caps a queue may have.
CapsStayInClass ==
    /\ \A q \in AlwaysCapped : cap[q] # NoCap
    /\ \A q \in NeverCapped : cap[q] = NoCap

\* What runs of the queues without a cap had its dependencies met, and has.
RunningIsMet ==
    \A j \in Job : QueueOf[j] \in NeverCapped /\ status[j] = "RUNNING" => DependenciesMet(j)

(* Of one claimer *)

\* What it has taken nobody else has moved, and was its to take.
TakenFits(c) ==
    \A j \in taken[c] :
        /\ status[j] = "PENDING"
        /\ QueueOf[j] \in Subscribed[c] \ held_off[c]
        /\ QueueOf[j] \in NeverCapped => DependenciesMet(j) /\ InShard(c, QueueOf[j])

\* While a queue row is held, what its locking statement returned stays true:
\* neither set_paused nor update gets past the lock.
LockedStands(c) ==
    \A q \in locked[c] : /\ q \in Subscribed[c] /\ ~paused[q]
                         /\ cap[q] # NoCap /\ caps[c][q] = cap[q]

\* The queues of the loop are held, and none is before the second pass.
LoopFits(c) ==
    /\ todo[c] \subseteq locked[c]
    /\ pc[c] \in {"uncapped", "lock", "commit"} => locked[c] = {}
    /\ pc[c] = "uncapped" => taken[c] = {}
    /\ pc[c] = "admit" => todo[c] # {}

\* What is taken and what may still be taken make up the limit.
RoomFits(c) ==
    /\ Cardinality(taken[c]) + room[c] <= Limit
    /\ capacity[c] <= room[c]
    /\ pc[c] # "admit" => capacity[c] = 0

\* The count it is about to act on leaves it the capacity it computed: nobody
\* starts a job of a queue that always has a cap past the holder of its row.
CountFits(c) ==
    pc[c] = "admit" /\ InHand(c) \in AlwaysCapped =>
        capacity[c] + Cardinality(RunningSeen(c, InHand(c))) <= cap[InHand(c)]

\* A queue that always has a cap is taken from under its lock, and within it.
AdmittedFits(c) ==
    \A q \in AlwaysCapped : taken[c] \cap JobsIn(q) # {} =>
        q \in locked[c] /\ Cardinality(RunningSeen(c, q)) <= cap[q]

\* History: what is held off is paused.
HeldOffFits(c) == \A q \in held_off[c] : paused[q]

OwnInv(c) ==
    /\ TakenFits(c)
    /\ LockedStands(c)
    /\ LoopFits(c)
    /\ RoomFits(c)
    /\ CountFits(c)
    /\ AdmittedFits(c)
    /\ HeldOffFits(c)

ClaimInv ==
    /\ TypeOK
    /\ NothingHeldTwice
    /\ CapsStayInClass
    /\ RunningIsMet
    /\ \A c \in Claimer : OwnInv(c)

-----------------------------------------------------------------------------
(* Lemmas about numbers and sets *)

\* Row ids are numbers, so the queues left to visit have a first one.
LEMMA FirstOfNat ==
    ASSUME NEW T \in SUBSET Nat, T # {}
    PROVE  \E x \in T : \A y \in T : x <= y
  <1> DEFINE R == OpToRel(<, Nat)
  <1>1. IsWellFoundedOn(R, Nat)
    BY NatLessThanWellFounded
  <1>2. \A a, b \in Nat : a < b => <<a, b>> \in R
    BY DEF OpToRel
  <1> HIDE DEF R
  <1>3. PICK x \in T : \A y \in T : ~(<<y, x>> \in R)
    BY <1>1, WFMin, Zenon
  <1>4. \A y \in T : ~(y < x)
    BY <1>2, <1>3
  <1> QED
    BY <1>3, <1>4

\* The queue in hand is one of those left to visit.
LEMMA InHandIsTodo ==
    ASSUME TypeOK, NEW c \in Claimer, todo[c] # {}
    PROVE  InHand(c) \in todo[c]
  <1>1. todo[c] \in SUBSET Nat
    BY ClaimAssumption DEF TypeOK
  <1>2. \E q \in todo[c] : \A r \in todo[c] : q <= r
    BY <1>1, FirstOfNat
  <1> QED
    BY <1>2 DEF InHand

\* Sets of jobs are finite, and a part of one is no larger.
LEMMA JobSets ==
    ASSUME NEW S \in SUBSET Job
    PROVE  /\ IsFiniteSet(S) /\ Cardinality(S) \in Nat
           /\ \A T \in SUBSET S : Cardinality(T) \in Nat /\ Cardinality(T) <= Cardinality(S)
  <1>1. IsFiniteSet(S)
    BY ClaimAssumption, FS_Subset
  <1>2. \A T \in SUBSET S : IsFiniteSet(T) /\ Cardinality(T) <= Cardinality(S)
    BY <1>1, FS_Subset
  <1> QED
    BY <1>1, <1>2, FS_CardinalityType

\* A union has at most the members of both.
LEMMA UnionSize ==
    ASSUME NEW S \in SUBSET Job, NEW T \in SUBSET Job
    PROVE  Cardinality(S \cup T) <= Cardinality(S) + Cardinality(T)
  <1>1. IsFiniteSet(S) /\ IsFiniteSet(T) /\ IsFiniteSet(S \cap T)
    BY JobSets
  <1>2. Cardinality(S \cup T) = Cardinality(S) + Cardinality(T) - Cardinality(S \cap T)
    BY <1>1, FS_Union
  <1>3. /\ Cardinality(S) \in Nat /\ Cardinality(T) \in Nat
        /\ Cardinality(S \cap T) \in Nat
    BY <1>1, FS_CardinalityType
  <1> QED
    BY <1>2, <1>3

\* A statement's LIMIT bounds what it returns.
LEMMA TakesFew ==
    ASSUME NEW S, NEW C \in SUBSET Job, NEW n \in Nat, TakesUpTo(S, C, n)
    PROVE  S \in SUBSET C /\ S \in SUBSET Job /\ Cardinality(S) \in 0..n
  <1>1. S \in SUBSET C
    BY DEF TakesUpTo
  <1>2. Cardinality(C) \in Nat
    BY JobSets
  <1> QED
    BY <1>1, <1>2 DEF TakesUpTo, Least

\* What a transaction counts in a queue is the committed rows and its own.
LEMMA SeenIsJobs ==
    ASSUME NEW c \in Claimer, NEW q
    PROVE  RunningSeen(c, q) \in SUBSET Job /\ Cardinality(RunningSeen(c, q)) \in Nat
  <1>1. RunningSeen(c, q) \in SUBSET Job
    BY DEF RunningSeen, JobsIn
  <1> QED
    BY <1>1, JobSets

-----------------------------------------------------------------------------
(* Claimers that stand still *)

\* The queue in hand is that of the queues left to visit.
LEMMA InHandFrame ==
    ASSUME NEW c, todo'[c] = todo[c]
    PROVE  InHand(c)' = InHand(c)
  BY Zenon DEF InHand

\* Nothing of a claimer's changes while another one takes a step that leaves
\* the tables alone.
LEMMA OwnFrame ==
    ASSUME NEW c \in Claimer, OwnInv(c), UNCHANGED tableVars,
           taken'[c] = taken[c], locked'[c] = locked[c], caps'[c] = caps[c],
           todo'[c] = todo[c], room'[c] = room[c], capacity'[c] = capacity[c],
           pc'[c] = pc[c], held_off'[c] = held_off[c]
    PROVE  OwnInv(c)'
  <1>1. InHand(c)' = InHand(c)
    BY InHandFrame
  <1>2. \A q : RunningSeen(c, q)' = RunningSeen(c, q)
    BY DEF RunningSeen, tableVars
  <1>3. TakenFits(c)'
    BY DEF OwnInv, TakenFits, DependenciesMet, tableVars
  <1>4. LockedStands(c)' /\ LoopFits(c)' /\ RoomFits(c)' /\ HeldOffFits(c)'
    BY DEF OwnInv, LockedStands, LoopFits, RoomFits, HeldOffFits, tableVars
  <1>5. CountFits(c)' /\ AdmittedFits(c)'
    BY <1>1, <1>2 DEF OwnInv, CountFits, AdmittedFits, tableVars
  <1> QED
    BY <1>3, <1>4, <1>5 DEF OwnInv

\* Only the entries of claimer c change.
OnlyOf(c) ==
    \A d \in Claimer \ {c} :
        /\ taken'[d] = taken[d] /\ locked'[d] = locked[d] /\ caps'[d] = caps[d]
        /\ todo'[d] = todo[d] /\ room'[d] = room[d] /\ capacity'[d] = capacity[d]
        /\ pc'[d] = pc[d] /\ held_off'[d] = held_off[d]

\* A statement of one transaction: it is enough to look at that one, and at
\* the rows it locks.
LEMMA ClaimerFrame ==
    ASSUME ClaimInv, NEW c \in Claimer, UNCHANGED tableVars, OnlyOf(c), TypeOK', OwnInv(c)',
           \A d \in Claimer \ {c} : /\ taken'[c] \cap taken[d] = {}
                                    /\ locked'[c] \cap locked[d] = {}
    PROVE  ClaimInv'
  <1>1. NothingHeldTwice'
    BY DEF ClaimInv, NothingHeldTwice, OnlyOf
  <1>2. CapsStayInClass' /\ RunningIsMet'
    BY DEF ClaimInv, CapsStayInClass, RunningIsMet, DependenciesMet, tableVars
  <1>3. \A d \in Claimer : OwnInv(d)'
    <2> SUFFICES ASSUME NEW d \in Claimer, d # c PROVE OwnInv(d)'
      OBVIOUS
    <2>1. OwnInv(d)
      BY DEF ClaimInv
    <2> QED
      BY <2>1, OwnFrame DEF OnlyOf
  <1> QED
    BY <1>1, <1>2, <1>3 DEF ClaimInv

-----------------------------------------------------------------------------
(* One lemma per statement of the transaction *)

\* The first pass takes due, unblocked jobs of unpaused queues without a cap.
LEMMA ClaimUncappedStep ==
    ASSUME ClaimInv, NEW c \in Claimer, ClaimUncapped(c)
    PROVE  ClaimInv'
  <1>1. PICK S \in SUBSET UncappedCandidates(c) :
          /\ TakesUpTo(S, UncappedCandidates(c), Limit)
          /\ taken' = [taken EXCEPT ![c] = S]
          /\ room' = [room EXCEPT ![c] = Limit - Cardinality(S)]
          /\ pc' = [pc EXCEPT ![c] = IF Cardinality(S) < Limit THEN "lock" ELSE "commit"]
    BY DEF ClaimUncapped
  <1>2. /\ UNCHANGED <<tableVars, locked, caps, todo, capacity>>
        /\ held_off' = [held_off EXCEPT ![c] = {q \in Queue : paused[q]}]
        /\ pc[c] = "uncapped"
    BY DEF ClaimUncapped
  <1>3. OwnInv(c) /\ TypeOK
    BY DEF ClaimInv
  <1>4. S \in SUBSET Job /\ Cardinality(S) \in 0..Limit
    <2>1. UncappedCandidates(c) \in SUBSET Job
      BY DEF UncappedCandidates
    <2> QED
      BY <1>1, <2>1, TakesFew, ClaimAssumption
  <1>5. TypeOK'
    BY <1>1, <1>2, <1>3, <1>4, ClaimAssumption DEF TypeOK, tableVars
  <1>6. /\ taken'[c] = S /\ room'[c] = Limit - Cardinality(S)
        /\ pc'[c] \in {"lock", "commit"} /\ held_off'[c] = {q \in Queue : paused[q]}
        /\ locked[c] = {} /\ todo[c] = {} /\ capacity[c] = 0
    BY <1>1, <1>2, <1>3 DEF TypeOK, OwnInv, LoopFits, RoomFits
  <1>7. OnlyOf(c)
    BY <1>1, <1>2, <1>3 DEF TypeOK, OnlyOf
  <1>8. \A j \in S : /\ status[j] = "PENDING" /\ ~JobLocked(j)
                     /\ QueueOf[j] \in Subscribed[c] /\ ~paused[QueueOf[j]]
                     /\ DependenciesMet(j) /\ InShard(c, QueueOf[j]) /\ cap[QueueOf[j]] = NoCap
    BY <1>1 DEF UncappedCandidates
  <1>9. TakenFits(c)' /\ HeldOffFits(c)'
    BY <1>2, <1>6, <1>8 DEF TakenFits, HeldOffFits, DependenciesMet, tableVars
  <1>10. LockedStands(c)' /\ LoopFits(c)' /\ RoomFits(c)' /\ CountFits(c)'
    BY <1>2, <1>4, <1>6, ClaimAssumption DEF LockedStands, LoopFits, RoomFits, CountFits, tableVars
  <1>11. AdmittedFits(c)'
    BY <1>2, <1>6, <1>8 DEF AdmittedFits, JobsIn, ClaimInv, CapsStayInClass, AlwaysCapped, tableVars
  <1>12. \A d \in Claimer \ {c} : taken'[c] \cap taken[d] = {} /\ locked'[c] \cap locked[d] = {}
    BY <1>2, <1>6, <1>8 DEF JobLocked
  <1> QED
    BY <1>2, <1>5, <1>7, <1>9, <1>10, <1>11, <1>12, ClaimerFrame DEF OwnInv

\* The second pass locks queue rows nobody holds, and remembers their caps.
LEMMA LockQueuesStep ==
    ASSUME ClaimInv, NEW c \in Claimer, LockQueues(c)
    PROVE  ClaimInv'
  <1>1. OwnInv(c) /\ TypeOK /\ pc[c] = "lock" /\ UNCHANGED <<tableVars, taken, room, capacity, held_off>>
    BY DEF ClaimInv, LockQueues
  <1>2. /\ CappedQueues(c) \in SUBSET Queue
        /\ \A q \in CappedQueues(c) : /\ q \in Subscribed[c] /\ ~paused[q]
                                     /\ cap[q] # NoCap /\ ~QueueLocked(q)
    BY ClaimAssumption DEF CappedQueues
  <1>3. /\ locked'[c] = CappedQueues(c) /\ todo'[c] = CappedQueues(c) /\ pc'[c] = "count"
        /\ \A q \in CappedQueues(c) : caps'[c][q] = cap[q]
    BY <1>1, <1>2 DEF LockQueues, TypeOK
  <1>4. TypeOK'
    BY <1>1, <1>2 DEF LockQueues, TypeOK, CapValue, tableVars
  <1>5. OnlyOf(c)
    BY <1>1 DEF LockQueues, TypeOK, OnlyOf
  <1>6. TakenFits(c)' /\ HeldOffFits(c)'
    BY <1>1 DEF OwnInv, TakenFits, HeldOffFits, DependenciesMet, tableVars
  <1>7. LockedStands(c)' /\ LoopFits(c)' /\ RoomFits(c)' /\ CountFits(c)'
    BY <1>1, <1>2, <1>3 DEF OwnInv, LockedStands, LoopFits, RoomFits, CountFits, tableVars
  <1>8. AdmittedFits(c)'
    <2>1. \A q \in AlwaysCapped : taken[c] \cap JobsIn(q) = {}
      BY <1>1 DEF OwnInv, AdmittedFits, LoopFits
    <2> QED
      BY <1>1, <2>1 DEF AdmittedFits
  <1>9. \A d \in Claimer \ {c} : taken'[c] \cap taken[d] = {} /\ locked'[c] \cap locked[d] = {}
    BY <1>1, <1>2, <1>3 DEF QueueLocked, ClaimInv, NothingHeldTwice
  <1> QED
    BY <1>1, <1>4, <1>5, <1>6, <1>7, <1>8, <1>9, ClaimerFrame DEF OwnInv

\* A queue without room is passed over.
LEMMA CountFullStep ==
    ASSUME ClaimInv, NEW c \in Claimer, CountFull(c)
    PROVE  ClaimInv'
  <1>1. /\ OwnInv(c) /\ TypeOK /\ pc[c] = "count"
        /\ UNCHANGED <<tableVars, pc, taken, locked, caps, room, capacity, held_off>>
        /\ todo' = [todo EXCEPT ![c] = @ \ {InHand(c)}]
    BY DEF ClaimInv, CountFull
  <1>2. TypeOK' /\ OnlyOf(c) /\ todo'[c] \subseteq todo[c]
    BY <1>1 DEF TypeOK, OnlyOf, tableVars
  <1>3. TakenFits(c)' /\ HeldOffFits(c)'
    BY <1>1 DEF OwnInv, TakenFits, HeldOffFits, DependenciesMet, tableVars
  <1>4. LockedStands(c)' /\ LoopFits(c)' /\ RoomFits(c)' /\ CountFits(c)'
    BY <1>1, <1>2 DEF OwnInv, LockedStands, LoopFits, RoomFits, CountFits, tableVars
  <1>5. AdmittedFits(c)'
    BY <1>1 DEF OwnInv, AdmittedFits, RunningSeen, tableVars
  <1> QED
    BY <1>1, <1>2, <1>3, <1>4, <1>5, ClaimerFrame DEF OwnInv, ClaimInv, NothingHeldTwice

\* The count is taken under the lock, so the cap it is compared with is the
\* queue's.
LEMMA CountRoomStep ==
    ASSUME ClaimInv, NEW c \in Claimer, CountRoom(c)
    PROVE  ClaimInv'
  <1> DEFINE q == InHand(c)
             n == Cardinality(RunningSeen(c, q))
  <1>1. /\ OwnInv(c) /\ TypeOK /\ pc[c] = "count" /\ todo[c] # {}
        /\ UNCHANGED <<tableVars, taken, locked, caps, todo, room, held_off>>
        /\ capacity' = [capacity EXCEPT ![c] = Capacity(c, q)]
        /\ pc' = [pc EXCEPT ![c] = "admit"] /\ Capacity(c, q) > 0
    BY DEF ClaimInv, CountRoom
  <1>2. q \in locked[c] /\ q \in Queue /\ caps[c][q] = cap[q] /\ cap[q] \in Nat
    <2>1. q \in todo[c]
      BY <1>1, InHandIsTodo
    <2>2. q \in locked[c] /\ q \in Queue
      BY <1>1, <2>1 DEF OwnInv, LoopFits, TypeOK
    <2> QED
      BY <1>1, <2>2 DEF OwnInv, LockedStands, TypeOK, CapValue
  <1>3. n \in Nat
    BY SeenIsJobs
  <1>4. Capacity(c, q) <= room[c] /\ Capacity(c, q) + n <= cap[q] /\ Capacity(c, q) \in 0..Limit
    <2> HIDE DEF q, n
    <2>1. Capacity(c, q) = Least(cap[q] - n, room[c])
      BY <1>2 DEF Capacity, n
    <2>2. room[c] \in 0..Limit
      BY <1>1 DEF TypeOK
    <2> QED
      BY <1>1, <1>2, <1>3, <2>1, <2>2, ClaimAssumption DEF Least
  <1>5. InHand(c)' = InHand(c) /\ \A r : RunningSeen(c, r)' = RunningSeen(c, r)
    <2>1. InHand(c)' = InHand(c)
      BY <1>1, InHandFrame
    <2>2. \A r : RunningSeen(c, r)' = RunningSeen(c, r)
      BY <1>1 DEF RunningSeen, tableVars
    <2> QED
      BY <2>1, <2>2
  <1> HIDE DEF q, n
  <1>6. TypeOK' /\ OnlyOf(c) /\ capacity'[c] = Capacity(c, q) /\ pc'[c] = "admit"
    BY <1>1, <1>4 DEF TypeOK, OnlyOf, tableVars
  <1>7. TakenFits(c)' /\ HeldOffFits(c)' /\ LockedStands(c)' /\ LoopFits(c)' /\ RoomFits(c)'
    BY <1>1, <1>4, <1>6 DEF OwnInv, TakenFits, HeldOffFits, DependenciesMet, LockedStands,
                           LoopFits, RoomFits, tableVars
  <1>8. CountFits(c)'
    BY <1>1, <1>4, <1>5, <1>6 DEF CountFits, tableVars, n, q
  <1>9. AdmittedFits(c)'
    BY <1>1 DEF OwnInv, AdmittedFits, RunningSeen, tableVars
  <1> QED
    BY <1>1, <1>6, <1>7, <1>8, <1>9, ClaimerFrame DEF OwnInv, ClaimInv, NothingHeldTwice

\* What a transaction takes of the queue in hand fits the capacity it counted:
\* nobody else has started a job of that queue since.
LEMMA AdmitStep ==
    ASSUME ClaimInv, NEW c \in Claimer, Admit(c)
    PROVE  ClaimInv'
  <1>1. PICK S \in SUBSET CappedCandidates(InHand(c)) :
          /\ TakesUpTo(S, CappedCandidates(InHand(c)), capacity[c])
          /\ taken' = [taken EXCEPT ![c] = @ \cup S]
          /\ room' = [room EXCEPT ![c] = @ - Cardinality(S)]
    BY DEF Admit
  <1>2. PICK q : q = InHand(c)
    OBVIOUS
  <1>3. /\ OwnInv(c) /\ TypeOK /\ pc[c] = "admit" /\ todo[c] # {}
        /\ UNCHANGED <<tableVars, locked, caps, held_off>>
        /\ todo' = [todo EXCEPT ![c] = @ \ {q}]
        /\ capacity' = [capacity EXCEPT ![c] = 0]
        /\ pc' = [pc EXCEPT ![c] = "count"]
    BY <1>2 DEF ClaimInv, Admit, OwnInv, LoopFits
  <1>4. /\ q \in locked[c] /\ q \in Queue /\ ~paused[q] /\ cap[q] # NoCap /\ cap[q] \in Nat
        /\ q \in AlwaysCapped => capacity[c] + Cardinality(RunningSeen(c, q)) <= cap[q]
        /\ capacity[c] <= room[c] /\ capacity[c] \in 0..Limit /\ room[c] \in 0..Limit
    <2>1. q \in todo[c]
      BY <1>2, <1>3, InHandIsTodo
    <2>2. q \in locked[c] /\ q \in Queue
      BY <1>3, <2>1 DEF OwnInv, LoopFits, TypeOK
    <2> QED
      BY <1>2, <1>3, <2>2 DEF OwnInv, LockedStands, TypeOK, CapValue, CountFits, RoomFits
  <1>5. /\ S \in SUBSET Job /\ Cardinality(S) \in 0..capacity[c]
        /\ \A j \in S : QueueOf[j] = q /\ status[j] = "PENDING" /\ ~JobLocked(j)
    <2>1. CappedCandidates(q) \in SUBSET Job /\ capacity[c] \in Nat
      BY <1>4, ClaimAssumption DEF CappedCandidates, JobsIn
    <2>2. Cardinality(S) \in 0..capacity[c] /\ S \in SUBSET Job
      BY <1>1, <1>2, <2>1, TakesFew
    <2> QED
      BY <1>1, <1>2, <2>2 DEF CappedCandidates, JobsIn
  <1>6. /\ taken'[c] = taken[c] \cup S /\ room'[c] = room[c] - Cardinality(S)
        /\ capacity'[c] = 0 /\ pc'[c] = "count" /\ todo'[c] \subseteq todo[c]
        /\ taken[c] \in SUBSET Job
    BY <1>1, <1>3 DEF TypeOK
  <1>7. TypeOK' /\ OnlyOf(c)
    <2>1. room[c] - Cardinality(S) \in 0..Limit
      BY <1>4, <1>5, ClaimAssumption
    <2>2. taken' \in [Claimer -> SUBSET Job] /\ room' \in [Claimer -> 0..Limit]
      BY <1>1, <1>3, <1>5, <2>1 DEF TypeOK
    <2>3. 0 \in 0..Limit
      BY ClaimAssumption
    <2> QED
      BY <1>1, <1>3, <2>2, <2>3 DEF TypeOK, OnlyOf, tableVars
  <1>8. TakenFits(c)' /\ HeldOffFits(c)'
    <2>1. q \in Subscribed[c] \ held_off[c] /\ q \notin NeverCapped
      BY <1>3, <1>4 DEF OwnInv, LockedStands, HeldOffFits, ClaimInv, CapsStayInClass
    <2> QED
      BY <1>3, <1>5, <1>6, <2>1 DEF OwnInv, TakenFits, HeldOffFits, DependenciesMet, tableVars
  <1>9. LockedStands(c)' /\ LoopFits(c)' /\ CountFits(c)'
    BY <1>3, <1>6 DEF OwnInv, LockedStands, LoopFits, CountFits, tableVars
  <1>10. RoomFits(c)'
    <2>1. Cardinality(taken[c] \cup S) <= Cardinality(taken[c]) + Cardinality(S)
      BY <1>5, <1>6, UnionSize
    <2>2. /\ Cardinality(taken[c] \cup S) \in Nat /\ Cardinality(taken[c]) \in Nat
          /\ Cardinality(taken[c]) + room[c] <= Limit
      BY <1>3, <1>5, <1>6, JobSets DEF OwnInv, RoomFits
    <2> QED
      BY <1>4, <1>5, <1>6, <2>1, <2>2, ClaimAssumption DEF RoomFits
  <1>11. AdmittedFits(c)'
    <2> SUFFICES ASSUME NEW r \in AlwaysCapped, taken'[c] \cap JobsIn(r) # {}
                 PROVE  r \in locked[c] /\ Cardinality(RunningSeen(c, r)') <= cap[r]
      BY <1>3 DEF AdmittedFits, tableVars, JobsIn
    <2>1. CASE r = q
      <3>1. RunningSeen(c, r)' = RunningSeen(c, r) \cup S
        BY <1>3, <1>5, <1>6, <2>1 DEF RunningSeen, JobsIn, tableVars
      <3>2. Cardinality(RunningSeen(c, r) \cup S) <= Cardinality(RunningSeen(c, r)) + Cardinality(S)
        BY <1>5, SeenIsJobs, UnionSize
      <3>3. Cardinality(RunningSeen(c, r)) \in Nat /\ Cardinality(RunningSeen(c, r) \cup S) \in Nat
        BY <1>5, SeenIsJobs, JobSets
      <3> QED
        BY <1>4, <1>5, <2>1, <3>1, <3>2, <3>3, ClaimAssumption
    <2>2. CASE r # q
      <3>1. /\ RunningSeen(c, r)' = RunningSeen(c, r)
            /\ taken'[c] \cap JobsIn(r) = taken[c] \cap JobsIn(r)
        BY <1>3, <1>5, <1>6, <2>2 DEF RunningSeen, JobsIn, tableVars
      <3> QED
        BY <1>3, <3>1 DEF OwnInv, AdmittedFits
    <2> QED
      BY <2>1, <2>2
  <1>12. \A d \in Claimer \ {c} : taken'[c] \cap taken[d] = {} /\ locked'[c] \cap locked[d] = {}
    BY <1>3, <1>5, <1>6 DEF JobLocked, ClaimInv, NothingHeldTwice
  <1> QED
    BY <1>3, <1>7, <1>8, <1>9, <1>10, <1>11, <1>12, ClaimerFrame DEF OwnInv

\* The end of a transaction leaves a claimer with nothing.
LEMMA EndsFacts ==
    ASSUME TypeOK, NEW c \in Claimer, Ends(c)
    PROVE  /\ OnlyOf(c)
           /\ pc' \in [Claimer -> {"uncapped", "lock", "count", "admit", "commit"}]
           /\ taken' \in [Claimer -> SUBSET Job] /\ locked' \in [Claimer -> SUBSET Queue]
           /\ caps' \in [Claimer -> [Queue -> CapValue]] /\ todo' \in [Claimer -> SUBSET Queue]
           /\ room' \in [Claimer -> 0..Limit] /\ capacity' \in [Claimer -> 0..Limit]
           /\ held_off' \in [Claimer -> SUBSET Queue]
           /\ taken'[c] = {} /\ locked'[c] = {} /\ OwnInv(c)'
  <1>1. 0 \in 0..Limit /\ Limit \in 0..Limit /\ Limit \in Nat
    BY ClaimAssumption
  <1>2. /\ OnlyOf(c)
        /\ pc' \in [Claimer -> {"uncapped", "lock", "count", "admit", "commit"}]
        /\ taken' \in [Claimer -> SUBSET Job] /\ locked' \in [Claimer -> SUBSET Queue]
        /\ caps' \in [Claimer -> [Queue -> CapValue]] /\ todo' \in [Claimer -> SUBSET Queue]
        /\ room' \in [Claimer -> 0..Limit] /\ capacity' \in [Claimer -> 0..Limit]
        /\ held_off' \in [Claimer -> SUBSET Queue]
    BY <1>1 DEF TypeOK, Ends, OnlyOf, CapValue
  <1>3. /\ taken'[c] = {} /\ locked'[c] = {} /\ todo'[c] = {} /\ pc'[c] = "uncapped"
        /\ room'[c] = Limit /\ capacity'[c] = 0 /\ held_off'[c] = {}
    BY DEF TypeOK, Ends
  <1>4. TakenFits(c)' /\ LockedStands(c)' /\ LoopFits(c)' /\ CountFits(c)' /\ HeldOffFits(c)'
        /\ AdmittedFits(c)'
    BY <1>3 DEF TakenFits, LockedStands, LoopFits, CountFits, HeldOffFits, AdmittedFits
  <1>5. RoomFits(c)'
    BY <1>1, <1>3, FS_EmptySet DEF RoomFits
  <1> QED
    BY <1>2, <1>3, <1>4, <1>5 DEF OwnInv

\* Whatever a transaction did, a rollback undoes.
LEMMA RollbackStep ==
    ASSUME ClaimInv, NEW c \in Claimer, Rollback(c)
    PROVE  ClaimInv'
  <1>1. Ends(c) /\ UNCHANGED tableVars /\ TypeOK
    BY DEF Rollback, ClaimInv
  <1>2. TypeOK'
    BY <1>1, EndsFacts DEF TypeOK, tableVars
  <1>3. \A d \in Claimer \ {c} : taken'[c] \cap taken[d] = {} /\ locked'[c] \cap locked[d] = {}
    BY <1>1, EndsFacts
  <1> QED
    BY <1>1, <1>2, <1>3, EndsFacts, ClaimerFrame

-----------------------------------------------------------------------------
(* The steps that change the tables *)

OwnStands(d) ==
    /\ taken'[d] = taken[d] /\ locked'[d] = locked[d] /\ caps'[d] = caps[d]
    /\ todo'[d] = todo[d] /\ room'[d] = room[d] /\ capacity'[d] = capacity[d]
    /\ pc'[d] = pc[d] /\ held_off'[d] = held_off[d]

\* What was met stays met: no step of the system takes SUCCEEDED back.
LEMMA MetStays ==
    ASSUME \A j \in Job : status[j] = "SUCCEEDED" => status'[j] = "SUCCEEDED",
           NEW j \in Job, DependenciesMet(j)
    PROVE  DependenciesMet(j)'
  BY ClaimAssumption DEF DependenciesMet

\* A claimer is not disturbed by a change of statuses that spares what it has
\* taken and starts nothing in the capped queues it holds.
LEMMA StatusFrame ==
    ASSUME TypeOK, NEW d \in Claimer, OwnInv(d), OwnStands(d), UNCHANGED <<paused, cap>>,
           \A j \in Job : status[j] = "SUCCEEDED" => status'[j] = "SUCCEEDED",
           \A j \in taken[d] : status'[j] = status[j],
           \A q \in AlwaysCapped \cap locked[d] : \A j \in JobsIn(q) :
               status'[j] = "RUNNING" => status[j] = "RUNNING"
    PROVE  OwnInv(d)'
  <1>1. TakenFits(d)'
    BY MetStays DEF OwnInv, OwnStands, TakenFits, TypeOK
  <1>2. LockedStands(d)' /\ LoopFits(d)' /\ RoomFits(d)' /\ HeldOffFits(d)'
    BY DEF OwnInv, OwnStands, LockedStands, LoopFits, RoomFits, HeldOffFits
  <1>3. \A q \in AlwaysCapped \cap locked[d] :
          /\ Cardinality(RunningSeen(d, q)') <= Cardinality(RunningSeen(d, q))
          /\ Cardinality(RunningSeen(d, q)') \in Nat /\ Cardinality(RunningSeen(d, q)) \in Nat
    <2> SUFFICES ASSUME NEW q \in AlwaysCapped \cap locked[d]
                 PROVE  /\ RunningSeen(d, q)' \in SUBSET RunningSeen(d, q)
                        /\ RunningSeen(d, q) \in SUBSET Job
      BY JobSets
    <2> QED
      BY DEF OwnStands, RunningSeen, JobsIn
  <1>4. InHand(d)' = InHand(d)
    BY InHandFrame DEF OwnStands
  <1>5. CountFits(d)'
    <2>1. PICK r : r = InHand(d) /\ r = InHand(d)'
      BY <1>4
    <2> SUFFICES ASSUME pc[d] = "admit", r \in AlwaysCapped
                 PROVE  capacity[d] + Cardinality(RunningSeen(d, r)') <= cap[r]
      BY <2>1 DEF CountFits, OwnStands
    <2>2. r \in AlwaysCapped \cap locked[d]
      BY <2>1, InHandIsTodo DEF OwnInv, LoopFits
    <2>3. capacity[d] \in Nat /\ cap[r] \in Nat
      BY <2>2, ClaimAssumption DEF TypeOK, OwnInv, LockedStands, CapValue, AlwaysCapped
    <2>4. capacity[d] + Cardinality(RunningSeen(d, r)) <= cap[r]
      BY <2>1 DEF OwnInv, CountFits
    <2> QED
      BY <1>3, <2>2, <2>3, <2>4
  <1>6. AdmittedFits(d)'
    <2> SUFFICES ASSUME NEW q \in AlwaysCapped, taken[d] \cap JobsIn(q) # {}
                 PROVE  q \in locked[d] /\ Cardinality(RunningSeen(d, q)') <= cap[q]
      BY DEF AdmittedFits, OwnStands, JobsIn
    <2>1. q \in locked[d] /\ Cardinality(RunningSeen(d, q)) <= cap[q]
      BY DEF OwnInv, AdmittedFits
    <2>2. cap[q] \in Nat
      BY <2>1, ClaimAssumption DEF TypeOK, OwnInv, LockedStands, CapValue, AlwaysCapped
    <2> QED
      BY <1>3, <2>1, <2>2
  <1> QED
    BY <1>1, <1>2, <1>5, <1>6 DEF OwnInv

\* A commit starts what was taken, in queues whose rows nobody else holds.
LEMMA CommitStep ==
    ASSUME ClaimInv, NEW c \in Claimer, Commit(c)
    PROVE  ClaimInv'
  <1>1. /\ TypeOK /\ OwnInv(c) /\ Ends(c) /\ UNCHANGED <<paused, cap>>
        /\ status' = [j \in Job |-> IF j \in taken[c] THEN "RUNNING" ELSE status[j]]
    BY DEF Commit, ClaimInv
  <1>2. /\ OnlyOf(c) /\ taken'[c] = {} /\ locked'[c] = {} /\ OwnInv(c)'
    BY <1>1, EndsFacts
  <1>3. TypeOK'
    BY <1>1, EndsFacts DEF TypeOK, Status
  <1>4. \A j \in Job : status[j] = "SUCCEEDED" => status'[j] = "SUCCEEDED"
    BY <1>1 DEF OwnInv, TakenFits
  <1>5. NothingHeldTwice' /\ CapsStayInClass'
    BY <1>1, <1>2 DEF ClaimInv, NothingHeldTwice, CapsStayInClass, OnlyOf
  <1>6. RunningIsMet'
    BY <1>1, <1>4, MetStays DEF ClaimInv, RunningIsMet, OwnInv, TakenFits
  <1>7. ASSUME NEW d \in Claimer \ {c} PROVE OwnInv(d)'
    <2>1. OwnInv(d) /\ OwnStands(d) /\ taken[d] \cap taken[c] = {} /\ locked[d] \cap locked[c] = {}
      BY <1>2 DEF ClaimInv, NothingHeldTwice, OnlyOf, OwnStands
    <2>2. \A j \in taken[d] : status'[j] = status[j]
      BY <1>1, <2>1 DEF TypeOK
    <2>3. \A q \in AlwaysCapped \cap locked[d] : \A j \in JobsIn(q) :
            status'[j] = "RUNNING" => status[j] = "RUNNING"
      BY <1>1, <2>1 DEF OwnInv, AdmittedFits, JobsIn
    <2> QED
      BY <1>1, <1>4, <2>1, <2>2, <2>3, StatusFrame
  <1> QED
    BY <1>2, <1>3, <1>5, <1>6, <1>7 DEF ClaimInv

\* The worker, the reaper and the owner move jobs no claim has taken, and
\* start none.
LEMMA JobStep ==
    ASSUME ClaimInv, NEW j \in Job, Settle(j) \/ Cancel(j) \/ Requeue(j)
    PROVE  ClaimInv'
  <1>1. PICK s \in Status \ {"RUNNING"} : status' = [status EXCEPT ![j] = s]
    BY DEF Settle, Cancel, Requeue, Status
  <1>2. /\ UNCHANGED <<paused, cap, txnVars, held_off>> /\ TypeOK
        /\ status[j] # "SUCCEEDED" /\ ~JobLocked(j)
    <2>1. Settle(j) => ~JobLocked(j)
      BY DEF Settle, ClaimInv, OwnInv, TakenFits, JobLocked
    <2>2. Requeue(j) => ~JobLocked(j)
      BY DEF Requeue, ClaimInv, OwnInv, TakenFits, JobLocked
    <2> QED
      BY <2>1, <2>2 DEF Settle, Cancel, Requeue, ClaimInv
  <1>3. TypeOK' /\ NothingHeldTwice' /\ CapsStayInClass'
    BY <1>1, <1>2 DEF ClaimInv, TypeOK, NothingHeldTwice, CapsStayInClass, txnVars
  <1>4. /\ \A i \in Job : status[i] = "SUCCEEDED" => status'[i] = "SUCCEEDED"
        /\ \A i \in Job : status'[i] = "RUNNING" => status[i] = "RUNNING"
    BY <1>1, <1>2 DEF TypeOK
  <1>5. RunningIsMet'
    BY <1>4, MetStays DEF ClaimInv, RunningIsMet
  <1>6. ASSUME NEW d \in Claimer PROVE OwnInv(d)'
    <2>1. OwnInv(d) /\ OwnStands(d)
      BY <1>2 DEF ClaimInv, OwnStands, txnVars
    <2>2. \A i \in taken[d] : status'[i] = status[i]
      BY <1>1, <1>2 DEF TypeOK, JobLocked
    <2>3. \A q \in AlwaysCapped \cap locked[d] : \A i \in JobsIn(q) :
            status'[i] = "RUNNING" => status[i] = "RUNNING"
      BY <1>4 DEF JobsIn
    <2> QED
      BY <1>2, <1>4, <2>1, <2>2, <2>3, StatusFrame
  <1> QED
    BY <1>3, <1>5, <1>6 DEF ClaimInv

\* An operator's change of a queue waits for whoever holds the row.
LEMMA OperatorStepKeeps ==
    ASSUME ClaimInv, NEW q \in Queue, OperatorStep(q)
    PROVE  ClaimInv'
  <1>1. ~QueueLocked(q) /\ UNCHANGED <<status, txnVars>> /\ TypeOK
    BY DEF OperatorStep, SetPaused, SetCap, ClaimInv
  <1>2. /\ \A r \in Queue \ {q} : paused'[r] = paused[r] /\ cap'[r] = cap[r]
        /\ \A c \in Claimer : /\ held_off'[c] \subseteq held_off[c]
                              /\ \A r \in held_off'[c] : paused'[r]
        /\ cap'[q] # cap[q] => cap'[q] \in Caps[q]
        /\ TypeOK'
    <2>1. CASE \E b \in BOOLEAN : SetPaused(q, b)
      <3>1. PICK b \in BOOLEAN : SetPaused(q, b)
        BY <2>1
      <3>2. paused' \in [Queue -> BOOLEAN] /\ paused'[q] = b
            /\ \A r \in Queue \ {q} : paused'[r] = paused[r]
        BY <1>1, <3>1, Zenon DEF SetPaused, TypeOK
      <3>3. /\ \A c \in Claimer : held_off'[c] = IF b THEN held_off[c] ELSE held_off[c] \ {q}
            /\ held_off' \in [Claimer -> SUBSET Queue]
        BY <1>1, <3>1 DEF SetPaused, TypeOK
      <3>4. \A c \in Claimer : \A r \in held_off'[c] : paused'[r]
        <4>1. \A c \in Claimer : \A r \in held_off[c] : r \in Queue /\ paused[r]
          BY DEF ClaimInv, OwnInv, HeldOffFits, TypeOK
        <4>2. CASE b = TRUE
          BY <3>2, <3>3, <4>1, <4>2
        <4>3. CASE b = FALSE
          BY <3>2, <3>3, <4>1, <4>3
        <4> QED
          BY <4>2, <4>3
      <3>5. cap' = cap /\ TypeOK'
        <4>1. cap' = cap
          BY <3>1 DEF SetPaused
        <4> QED
          BY <1>1, <3>2, <3>3, <4>1 DEF TypeOK, txnVars
      <3> QED
        BY <3>2, <3>3, <3>4, <3>5, Zenon
    <2>2. CASE \E n \in Caps[q] : SetCap(q, n)
      <3>1. PICK n \in Caps[q] : SetCap(q, n)
        BY <2>2
      <3>2. /\ n \in CapValue /\ cap' = [cap EXCEPT ![q] = n]
            /\ UNCHANGED <<status, paused, txnVars, held_off>>
        BY <3>1, ClaimAssumption DEF SetCap, CapValue
      <3>3. TypeOK' /\ cap'[q] = n /\ \A r \in Queue \ {q} : cap'[r] = cap[r]
        BY <1>1, <3>2 DEF TypeOK, txnVars
      <3>4. \A c \in Claimer : \A r \in held_off'[c] : paused'[r]
        BY <3>2 DEF ClaimInv, OwnInv, HeldOffFits
      <3> QED
        BY <3>2, <3>3, <3>4
    <2> QED
      BY <2>1, <2>2 DEF OperatorStep
  <1>3. \A r \in AlwaysCapped \cup NeverCapped : r \in Queue
    BY DEF AlwaysCapped, NeverCapped
  <1>4. NothingHeldTwice' /\ CapsStayInClass' /\ RunningIsMet'
    <2>1. CapsStayInClass'
      BY <1>2 DEF ClaimInv, CapsStayInClass, AlwaysCapped, NeverCapped
    <2> QED
      BY <1>1, <2>1 DEF ClaimInv, NothingHeldTwice, RunningIsMet, DependenciesMet, txnVars
  <1>5. ASSUME NEW c \in Claimer PROVE OwnInv(c)'
    <2>1. OwnInv(c) /\ UNCHANGED txnVars /\ q \notin locked[c]
      BY <1>1 DEF ClaimInv, QueueLocked
    <2>2. \A r \in locked[c] : r \in Queue \ {q}
      BY <1>1, <2>1 DEF TypeOK
    <2>3. /\ InHand(c)' = InHand(c)
          /\ \A r : RunningSeen(c, r)' = RunningSeen(c, r)
      BY <1>1, InHandFrame DEF txnVars, RunningSeen
    <2>4. TakenFits(c)' /\ HeldOffFits(c)'
      BY <1>1, <1>2, <2>1 DEF OwnInv, TakenFits, HeldOffFits, DependenciesMet, txnVars
    <2>5. LockedStands(c)' /\ LoopFits(c)' /\ RoomFits(c)'
      BY <1>2, <2>1, <2>2 DEF OwnInv, LockedStands, LoopFits, RoomFits, txnVars
    <2>6. CountFits(c)'
      <3> SUFFICES ASSUME pc[c] = "admit", InHand(c) \in AlwaysCapped
                   PROVE  capacity[c] + Cardinality(RunningSeen(c, InHand(c))) <= cap'[InHand(c)]
        BY <2>1, <2>3 DEF CountFits, txnVars
      <3>1. InHand(c) \in locked[c]
        BY <1>1, <2>1, InHandIsTodo DEF OwnInv, LoopFits
      <3> QED
        BY <1>2, <2>1, <2>2, <3>1 DEF OwnInv, CountFits
    <2>7. AdmittedFits(c)'
      BY <1>2, <2>1, <2>2, <2>3 DEF OwnInv, AdmittedFits, JobsIn, txnVars
    <2> QED
      BY <2>4, <2>5, <2>6, <2>7 DEF OwnInv
  <1> QED
    BY <1>2, <1>4, <1>5 DEF ClaimInv

-----------------------------------------------------------------------------
(* Theorems *)

\* The invariant is inductive.
LEMMA ClaimInvInductive ==
    /\ Init => ClaimInv
    /\ ClaimInv /\ [Next]_vars => ClaimInv'
  <1>1. ASSUME Init PROVE ClaimInv
    <2>1. 0 \in 0..Limit /\ Limit \in 0..Limit
      BY ClaimAssumption
    <2>2. TypeOK
      BY <1>1, <2>1, ClaimAssumption DEF Init, TypeOK, Status, CapValue
    <2>3. NothingHeldTwice /\ CapsStayInClass /\ RunningIsMet
      BY <1>1 DEF Init, NothingHeldTwice, CapsStayInClass, RunningIsMet, AlwaysCapped, NeverCapped
    <2>4. ASSUME NEW c \in Claimer PROVE OwnInv(c)
      <3>1. RoomFits(c)
        BY <1>1, FS_EmptySet, ClaimAssumption DEF Init, RoomFits
      <3> QED
        BY <1>1, <3>1 DEF Init, OwnInv, TakenFits, LockedStands, LoopFits, CountFits,
                          AdmittedFits, HeldOffFits
    <2> QED
      BY <2>2, <2>3, <2>4 DEF ClaimInv
  <1>2. ASSUME ClaimInv, [Next]_vars PROVE ClaimInv'
    <2>1. ASSUME NEW c \in Claimer, ClaimerStep(c)
          PROVE  ClaimInv'
      BY <1>2, <2>1, ClaimUncappedStep, LockQueuesStep, CountFullStep, CountRoomStep, AdmitStep,
         CommitStep, RollbackStep DEF ClaimerStep
    <2>2. CASE UNCHANGED vars
      <3>1. /\ TypeOK' /\ NothingHeldTwice' /\ CapsStayInClass' /\ RunningIsMet'
        BY <1>2, <2>2 DEF vars, tableVars, txnVars, ClaimInv, TypeOK, NothingHeldTwice,
                          CapsStayInClass, RunningIsMet, DependenciesMet
      <3>2. \A c \in Claimer : OwnInv(c)'
        BY <1>2, <2>2, OwnFrame DEF vars, tableVars, txnVars, ClaimInv
      <3> QED
        BY <3>1, <3>2 DEF ClaimInv
    <2> QED
      BY <1>2, <2>1, <2>2, JobStep, OperatorStepKeeps DEF Next, OwnerStep
  <1> QED
    BY <1>1, <1>2

\* The types of the variables hold throughout.
THEOREM ClaimTypesAlways == Spec => []TypeOK
  <1>1. ClaimInv => TypeOK
    BY DEF ClaimInv
  <1> QED
    BY ClaimInvInductive, <1>1, PTL DEF Spec

\* FOR UPDATE SKIP LOCKED, however many claimers run however many passes: a
\* ready job is in the hands of at most one of them, and stays PENDING for
\* everybody else until that one commits.
THEOREM ClaimsExclusiveAlways == Spec => []ClaimsAreExclusive
  <1>1. ClaimInv => ClaimsAreExclusive
    BY DEF ClaimInv, ClaimsAreExclusive, OwnInv, TakenFits, NothingHeldTwice
  <1> QED
    BY ClaimInvInductive, <1>1, PTL DEF Spec

\* What the transaction's own invariant says of the statement it checks.
LEMMA InvEntitles == ClaimInv => TakenIsEntitled
  <1> SUFFICES ASSUME ClaimInv PROVE TakenIsEntitled
    OBVIOUS
  <1>1. LimitHolds
    <2> SUFFICES ASSUME NEW c \in Claimer PROVE Cardinality(taken[c]) <= Limit
      BY DEF LimitHolds
    <2>1. /\ Cardinality(taken[c]) + room[c] <= Limit /\ room[c] \in 0..Limit
          /\ taken[c] \in SUBSET Job
      BY DEF ClaimInv, OwnInv, RoomFits, TypeOK
    <2>2. Cardinality(taken[c]) \in Nat
      BY <2>1, JobSets
    <2> QED
      BY <2>1, <2>2, ClaimAssumption
  <1>2. PauseHolds
    BY DEF PauseHolds, ClaimInv, OwnInv, TakenFits
  <1>3. UncappedHonourFilters
    BY DEF UncappedHonourFilters, ClaimInv, RunningIsMet, OwnInv, TakenFits
  <1> QED
    BY <1>1, <1>2, <1>3 DEF TakenIsEntitled

\* claim_batch: whatever moves between its statements, a transaction holds no
\* more than the free slots, nothing of a queue paused before it began, and
\* in the queues without a cap nothing blocked and nothing of another shard.
THEOREM EntitledAlways == Spec => []TakenIsEntitled
  BY ClaimInvInductive, InvEntitles, PTL DEF Spec

\* "The cap cannot be exceeded, ever": of a queue that always has one, for
\* any caps its operators set and whoever claims meanwhile, no step starts
\* jobs beyond the cap in force, and none starts anything once it is paused.
LEMMA CappedQueueStep ==
    ASSUME ClaimInv, [Next]_vars, NEW q \in AlwaysCapped, ~(Running(q)' \subseteq Running(q))
    PROVE  Cardinality(Running(q)') <= cap[q] /\ ~paused[q]
  <1>1. PICK c \in Claimer : Commit(c)
    <2>1. (status' = status) => FALSE
      BY DEF Running, JobsIn
    <2>2. ASSUME NEW j \in Job, Settle(j) \/ OwnerStep(j) PROVE FALSE
      BY <2>2 DEF Settle, OwnerStep, Cancel, Requeue, Running, JobsIn, ClaimInv, TypeOK
    <2>3. ASSUME NEW r \in Queue, OperatorStep(r) PROVE FALSE
      BY <2>1, <2>3 DEF OperatorStep, SetPaused, SetCap
    <2>4. ASSUME NEW c \in Claimer, ClaimerStep(c) PROVE Commit(c)
      BY <2>1, <2>4 DEF ClaimerStep, ClaimUncapped, LockQueues, CountFull, CountRoom, Admit,
                        Rollback, tableVars
    <2> QED
      BY <2>1, <2>2, <2>3, <2>4 DEF Next, vars, tableVars
  <1>2. status' = [j \in Job |-> IF j \in taken[c] THEN "RUNNING" ELSE status[j]]
    BY <1>1 DEF Commit
  <1>3. taken[c] \cap JobsIn(q) # {}
    BY <1>2 DEF Running, JobsIn
  <1>4. q \in locked[c] /\ Cardinality(RunningSeen(c, q)) <= cap[q] /\ ~paused[q]
    BY <1>3 DEF ClaimInv, OwnInv, AdmittedFits, LockedStands
  <1>5. Running(q)' = RunningSeen(c, q)
    BY <1>2 DEF Running, RunningSeen, JobsIn
  <1> QED
    BY <1>4, <1>5

\* The same as a property of behaviours.
THEOREM CappedQueuesAlwaysObey ==
    Spec => [][\A q \in AlwaysCapped : ~(Running(q)' \subseteq Running(q)) =>
                  Cardinality(Running(q)') <= cap[q] /\ ~paused[q]]_vars
  <1>1. ClaimInv /\ [Next]_vars =>
          [\A q \in AlwaysCapped : ~(Running(q)' \subseteq Running(q)) =>
              Cardinality(Running(q)') <= cap[q] /\ ~paused[q]]_vars
    BY CappedQueueStep
  <1> QED
    BY ClaimInvInductive, <1>1, PTL DEF Spec

-----------------------------------------------------------------------------
(* Refinement: the transaction amounts to one step *)

\* The two modules count alike.
LEMMA SameCardinality == \A S : Atomic!Cardinality(S) = Cardinality(S)
  BY Zenon DEF Cardinality, Atomic!Cardinality, IsFiniteSet, Atomic!IsFiniteSet

\* A commit is the claim, of all that was taken.  What the two passes found
\* statements ago still stands when it commits.
LEMMA CommitIsClaim ==
    ASSUME ClaimInv, NEW c \in Claimer, Commit(c)
    PROVE  taken[c] \in SUBSET Atomic!Startable(c) /\ Atomic!Claim(c, taken[c])
  <1>1. OwnInv(c) /\ TypeOK
    BY DEF ClaimInv
  <1>2. taken[c] \in SUBSET Atomic!Startable(c)
    BY <1>1 DEF OwnInv, TakenFits, TypeOK, Atomic!Startable
  <1>3. Cardinality(taken[c]) <= Limit
    BY InvEntitles DEF TakenIsEntitled, LimitHolds
  <1>4. ASSUME NEW q \in Atomic!AlwaysCapped, \E j \in taken[c] : QueueOf[j] = q
        PROVE  ~paused[q] /\ Atomic!WithinCap(q, taken[c])
    <2>1. q \in AlwaysCapped /\ taken[c] \cap JobsIn(q) # {}
      BY <1>1, <1>4 DEF AlwaysCapped, Atomic!AlwaysCapped, JobsIn, TypeOK
    <2>2. ~paused[q] /\ Cardinality(RunningSeen(c, q)) <= cap[q]
      BY <1>1, <2>1 DEF OwnInv, AdmittedFits, LockedStands
    <2>3. RunningSeen(c, q) =
            {j \in Job : QueueOf[j] = q /\ (status[j] = "RUNNING" \/ j \in taken[c])}
      BY DEF RunningSeen, JobsIn
    <2> QED
      BY <2>2, <2>3, SameCardinality DEF Atomic!WithinCap
  <1>5. ASSUME NEW j \in taken[c], QueueOf[j] \in Atomic!NeverCapped
        PROVE  /\ \A d \in DependsOn[j] : status[d] = "SUCCEEDED"
               /\ Pinned[c] \in {AnyShard, ShardOf[QueueOf[j]]}
    BY <1>1, <1>5 DEF NeverCapped, Atomic!NeverCapped, OwnInv, TakenFits, DependenciesMet, InShard
  <1>6. Atomic!MayStart(c, taken[c])
    BY <1>3, <1>4, <1>5, SameCardinality DEF Atomic!MayStart
  <1> QED
    BY <1>2, <1>6 DEF Atomic!Claim, Commit

\* Every step is a claim, somebody else's step, or nothing to be seen.
LEMMA StepIsAtomic ==
    ClaimInv /\ [Next]_vars => [Atomic!Next]_(Atomic!vars)
  <1> SUFFICES ASSUME ClaimInv, [Next]_vars PROVE [Atomic!Next]_(Atomic!vars)
    OBVIOUS
  <1>1. ASSUME NEW c \in Claimer, ClaimerStep(c) PROVE [Atomic!Next]_(Atomic!vars)
    <2>1. CASE Commit(c)
      BY <2>1, CommitIsClaim DEF Atomic!Next
    <2>2. CASE ~Commit(c)
      BY <1>1, <2>2 DEF ClaimerStep, ClaimUncapped, LockQueues, CountFull, CountRoom, Admit,
                        Rollback, tableVars, Atomic!vars
    <2> QED
      BY <2>1, <2>2
  <1>2. ASSUME NEW j \in Job, Settle(j) \/ OwnerStep(j) PROVE Atomic!Next
    <2>1. status \in [Job -> Status]
      BY DEF ClaimInv, TypeOK
    <2>2. Atomic!Move(j)
      BY <1>2, <2>1 DEF Settle, OwnerStep, Cancel, Requeue, Atomic!Move
    <2> QED
      BY <2>2 DEF Atomic!Next
  <1>3. ASSUME NEW q \in Queue, OperatorStep(q) PROVE Atomic!Next
    <2>1. paused \in [Queue -> BOOLEAN]
      BY DEF ClaimInv, TypeOK
    <2>2. ASSUME NEW b \in BOOLEAN, q \in Pausable, SetPaused(q, b) PROVE Atomic!SetPaused(q)
      <3>1. b = ~paused[q]
        BY <2>1, <2>2, Zenon DEF SetPaused
      <3> QED
        BY <2>2, <3>1, Zenon DEF SetPaused, Atomic!SetPaused
    <2>3. ASSUME NEW n \in Caps[q], SetCap(q, n) PROVE Atomic!SetCap(q)
      BY <2>3 DEF SetCap, Atomic!SetCap
    <2> QED
      BY <1>3, <2>2, <2>3 DEF OperatorStep, Atomic!Next
  <1>4. CASE UNCHANGED vars
    BY <1>4 DEF vars, tableVars, Atomic!vars
  <1> QED
    BY <1>1, <1>2, <1>3, <1>4 DEF Next

\* claim_batch under READ COMMITTED, with the row locks it takes, implements a
\* claim in one step: for any number of claimers, jobs and queues, and with
\* every statement of others between its own.
THEOREM ClaimsAreAtomic == Spec => ImplementsAtomicClaims
  <1>1. Init => Atomic!Init
    BY DEF Init, Atomic!Init
  <1> QED
    BY ClaimInvInductive, StepIsAtomic, <1>1, PTL DEF Spec, ImplementsAtomicClaims, Atomic!Spec
=============================================================================
