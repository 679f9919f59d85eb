-------------------------- MODULE ClaimOrder_proofs --------------------------
(***************************************************************************)
(* Theorems about ClaimOrder, for every set of jobs, every priorities,     *)
(* every retry policy and every capacity.  How long a job waits depends on *)
(* the load; the hypotheses of WaitsAlwaysBounded say on what.             *)
(***************************************************************************)
EXTENDS ClaimOrder, FiniteSetTheorems, TLAPS

-----------------------------------------------------------------------------
(* Lemmas about numbers and sets *)

\* The smaller of two numbers.
LEMMA MinOfTwo ==
    ASSUME NEW a \in Int, NEW b \in Int
    PROVE  Min({a, b}) \in {a, b} /\ Min({a, b}) <= a /\ Min({a, b}) <= b
  BY DEF Min

\* Whole intervals: fewer than one is none, M intervals are at least M.
LEMMA WholeIntervals ==
    ASSUME NEW I \in Nat \ {0}, NEW M \in Nat, NEW n \in Nat
    PROVE  /\ n \div I \in Nat
           /\ n < I => n \div I = 0
           /\ n >= I * M => n \div I >= M
  OBVIOUS

\* More delay, more jitter.
LEMMA JitterGrows ==
    ASSUME NEW c \in Int, NEW d \in Int, c <= d
    PROVE  c + (c + 4) \div 5 <= d + (d + 4) \div 5
  OBVIOUS

\* Sets of jobs are finite, and a part of one is no larger.
LEMMA JobSets ==
    ASSUME NEW S \in SUBSET Job
    PROVE  /\ IsFiniteSet(S) /\ Cardinality(S) \in Nat
           /\ \A T \in SUBSET S : Cardinality(T) \in Nat /\ Cardinality(T) <= Cardinality(S)
           /\ \A T \in SUBSET S : T # S => Cardinality(T) < Cardinality(S)
           /\ S # {} => Cardinality(S) >= 1
  <1>1. IsFiniteSet(S)
    BY OrderAssumption, FS_Subset
  <1>2. \A T \in SUBSET S : /\ IsFiniteSet(T) /\ Cardinality(T) <= Cardinality(S)
                            /\ Cardinality(S) = Cardinality(T) => S = T
    BY <1>1, FS_Subset
  <1>3. Cardinality({}) = 0
    BY FS_EmptySet
  <1>4. Cardinality(S) \in Nat /\ \A T \in SUBSET S : Cardinality(T) \in Nat
    BY <1>1, <1>2, FS_CardinalityType
  <1>5. \A T \in SUBSET S : T # S => Cardinality(T) < Cardinality(S)
    BY <1>2, <1>4
  <1>6. S # {} => Cardinality(S) >= 1
    BY <1>3, <1>4, <1>5
  <1> QED
    BY <1>1, <1>2, <1>4, <1>5, <1>6

\* A union has at most the members of both.
LEMMA UnionSize ==
    ASSUME NEW S \in SUBSET Job, NEW T \in SUBSET Job
    PROVE  Cardinality(S \cup T) <= Cardinality(S) + Cardinality(T)
  <1>1. IsFiniteSet(S) /\ IsFiniteSet(T) /\ IsFiniteSet(S \cap T)
    BY JobSets
  <1>2. Cardinality(S \cup T) = Cardinality(S) + Cardinality(T) - Cardinality(S \cap T)
    BY <1>1, FS_Union
  <1>3. /\ Cardinality(S) \in Nat /\ Cardinality(T) \in Nat
        /\ Cardinality(S \cap T) \in Nat
    BY <1>1, FS_CardinalityType
  <1> QED
    BY <1>2, <1>3

\* What a LIMIT in the order of the claim returns: as many as there are, up to
\* the limit, and nothing that a row left out outranks.
LEMMA FirstsFacts ==
    ASSUME NEW S \in SUBSET Job, NEW n \in Nat, NEW T \in Firsts(S, n)
    PROVE  /\ T \in SUBSET S /\ Cardinality(T) \in Nat /\ Cardinality(T) <= n
           /\ S # {} /\ n > 0 => T # {}
           /\ \A a \in T, b \in S \ T : ~Outranks(b, a)
  <1>1. /\ T \in SUBSET S /\ Cardinality(T) = Min({n, Cardinality(S)})
        /\ \A a \in T, b \in S \ T : ~Outranks(b, a)
    BY DEF Firsts, kSubset
  <1>2. Cardinality(S) \in Nat /\ (S # {} => Cardinality(S) >= 1) /\ Cardinality({}) = 0
    BY JobSets, FS_EmptySet
  <1>3. Min({n, Cardinality(S)}) \in {n, Cardinality(S)} /\ Min({n, Cardinality(S)}) <= n
    <2>1. n \in Int /\ Cardinality(S) \in Int
      BY <1>2
    <2> QED
      BY <2>1, MinOfTwo, Zenon
  <1> QED
    BY <1>1, <1>2, <1>3

-----------------------------------------------------------------------------
(* The inductive invariant *)

\* What runs has been charged an attempt, what waits has one to spare.
AttemptsFit ==
    \A j \in Job : /\ status[j] = "RUNNING" => attempt_count[j] >= 1
                   /\ status[j] = "PENDING" => attempt_count[j] < MaxAttempts

\* No more jobs run than there are slots, nor more of the capped queue than
\* its cap.
CapacityFits ==
    /\ Cardinality(RunningIn(Job)) <= Slots
    /\ Cardinality(RunningIn(Capped)) <= MaxConcurrency

OrderInv == TypeOK /\ AttemptsFit /\ DelaysAreBounded /\ CapacityFits

\* A claim as its two passes.
Takes(n, U, C) ==
    /\ U \in SUBSET (Ready \ Capped) /\ C \in SUBSET (Ready \cap Capped)
    /\ Cardinality(U) + Cardinality(C) <= n
    /\ C # {} => Cardinality(RunningIn(Capped)) + Cardinality(C) <= MaxConcurrency
    /\ Ready \ Capped # {} => U # {}
    /\ \A a \in U, b \in (Ready \ Capped) \ U : ~Outranks(b, a)
    /\ status' = [j \in Job |-> IF j \in U \cup C THEN "RUNNING" ELSE status[j]]
    /\ attempt_count' = [j \in Job |-> IF j \in U \cup C THEN attempt_count[j] + 1
                                                        ELSE attempt_count[j]]
    /\ wait' = [j \in Job |-> IF j \in U \cup C THEN 0 ELSE wait[j]]
    /\ served' = TRUE

\* Both passes together keep to the limit, the second one to the cap.
LEMMA ClaimFacts ==
    ASSUME OrderInv, NEW n \in 1..Slots, Claim(n)
    PROVE  n <= FreeSlots /\ \E U, C : Takes(n, U, C)
  <1> DEFINE Batch(U, C) ==
          /\ status' = [j \in Job |-> IF j \in U \cup C THEN "RUNNING" ELSE status[j]]
          /\ attempt_count' = [j \in Job |-> IF j \in U \cup C THEN attempt_count[j] + 1
                                                              ELSE attempt_count[j]]
          /\ wait' = [j \in Job |-> IF j \in U \cup C THEN 0 ELSE wait[j]]
  <1>0. PICK U \in Firsts(Ready \ Capped, n) : \E C \in CappedBatches(n - Cardinality(U)) :
          Batch(U, C)
    BY DEF Claim
  <1>1. PICK C \in CappedBatches(n - Cardinality(U)) : Batch(U, C)
    BY <1>0
  <1>2. /\ Ready \in SUBSET Job /\ Slots \in Nat /\ MaxConcurrency \in Nat
        /\ RunningIn(Capped) \in SUBSET Job
    BY OrderAssumption DEF Ready, RunningIn
  <1>3. /\ U \in SUBSET (Ready \ Capped) /\ Cardinality(U) \in 0..n
        /\ Ready \ Capped # {} => U # {}
        /\ \A a \in U, b \in (Ready \ Capped) \ U : ~Outranks(b, a)
    <2>1. Ready \ Capped \in SUBSET Job /\ n \in Nat /\ n > 0
      BY <1>2
    <2>2. PICK S \in SUBSET Job : S = Ready \ Capped
      BY <2>1
    <2>3. U \in Firsts(S, n)
      BY <1>0, <2>2
    <2>4. /\ U \in SUBSET S /\ Cardinality(U) \in Nat /\ Cardinality(U) <= n
          /\ S # {} => U # {}
          /\ \A a \in U, b \in S \ U : ~Outranks(b, a)
      BY <2>1, <2>3, FirstsFacts
    <2> QED
      BY <2>1, <2>2, <2>4
  <1>4. PICK m : m = n - Cardinality(U)
    OBVIOUS
  <1>5. PICK r : r = Cardinality(RunningIn(Capped))
    OBVIOUS
  <1>6. m \in Nat /\ r \in Nat
    BY <1>2, <1>3, <1>4, <1>5, JobSets
  <1>7. Room(m) \in Int /\ Room(m) <= m /\ Room(m) + r <= MaxConcurrency
    <2>1. MaxConcurrency - r \in Int /\ m \in Int
      BY <1>2, <1>6
    <2>2. Room(m) = Min({MaxConcurrency - r, m})
      BY <1>5 DEF Room
    <2>3. /\ Room(m) \in {MaxConcurrency - r, m}
          /\ Room(m) <= MaxConcurrency - r /\ Room(m) <= m
      BY <2>1, <2>2, MinOfTwo, Zenon
    <2> QED
      BY <1>2, <1>6, <2>1, <2>3
  <1>8. /\ C \in SUBSET (Ready \cap Capped) /\ Cardinality(C) \in Nat /\ Cardinality(C) <= m
        /\ C # {} => r + Cardinality(C) <= MaxConcurrency
    <2>1. CASE Room(m) <= 0
      <3>1. C = {}
        BY <1>1, <1>4, <2>1 DEF CappedBatches
      <3> QED
        BY <1>6, <3>1, FS_EmptySet
    <2>2. CASE ~(Room(m) <= 0)
      <3>1. C \in Firsts(Ready \cap Capped, Room(m)) /\ Room(m) \in Nat
        BY <1>1, <1>4, <1>7, <2>2 DEF CappedBatches
      <3>2. C \in SUBSET (Ready \cap Capped) /\ Cardinality(C) \in Nat /\ Cardinality(C) <= Room(m)
        <4>1. PICK S \in SUBSET Job, k \in Nat : S = Ready \cap Capped /\ k = Room(m)
          BY <1>2, <3>1
        <4>2. C \in Firsts(S, k)
          BY <3>1, <4>1
        <4> QED
          BY <4>1, <4>2, FirstsFacts
      <3> QED
        BY <1>2, <1>6, <1>7, <3>2
    <2> QED
      BY <2>1, <2>2
  <1>9. n <= FreeSlots /\ served' = TRUE
    BY DEF Claim, FreeSlots
  <1>10. Cardinality(U) + Cardinality(C) <= n
    BY <1>3, <1>4, <1>8
  <1> QED
    BY <1>1, <1>3, <1>5, <1>8, <1>9, <1>10 DEF Takes

-----------------------------------------------------------------------------
(* One lemma per family of actions *)

\* Who starts nothing leaves no more running than before.
LEMMA CapacityStays ==
    ASSUME CapacityFits, \A j \in Job : status'[j] = "RUNNING" => status[j] = "RUNNING"
    PROVE  CapacityFits'
  <1>1. /\ RunningIn(Job)' \in SUBSET RunningIn(Job) /\ RunningIn(Job) \in SUBSET Job
        /\ RunningIn(Capped)' \in SUBSET RunningIn(Capped) /\ RunningIn(Capped) \in SUBSET Job
    BY OrderAssumption DEF RunningIn
  <1>2. /\ Cardinality(RunningIn(Job)') <= Cardinality(RunningIn(Job))
        /\ Cardinality(RunningIn(Job)') \in Nat /\ Cardinality(RunningIn(Job)) \in Nat
        /\ Cardinality(RunningIn(Capped)') <= Cardinality(RunningIn(Capped))
        /\ Cardinality(RunningIn(Capped)') \in Nat /\ Cardinality(RunningIn(Capped)) \in Nat
    BY <1>1, JobSets
  <1> QED
    BY <1>2, OrderAssumption DEF CapacityFits

\* The delay of a retry lies between none and the cap with its jitter.
LEMMA DelayFacts ==
    ASSUME NEW j \in Job, NEW n \in 1..MaxAttempts, NEW d \in Jittered(Backoff(j, n))
    PROVE  d \in Nat /\ d <= BackoffMax + (BackoffMax + 4) \div 5
  <1>1. Base \in Nat /\ BackoffMax \in Nat /\ MaxAttempts \in Nat
    BY OrderAssumption
  <1>2. Raw(j, n) \in Nat
    <2>1. Strategy[j] \in {"fixed", "linear", "exponential"}
      BY OrderAssumption
    <2>2. CASE Strategy[j] = "fixed"
      BY <1>1, <2>2 DEF Raw
    <2>3. CASE Strategy[j] = "linear"
      <3>1. Base * n \in Nat
        BY <1>1
      <3> QED
        BY <2>3, <3>1 DEF Raw
    <2>4. CASE Strategy[j] = "exponential"
      <3>1. n - 1 \in 0..MaxAttempts
        BY <1>1
      <3>2. Factor ^ (n - 1) \in Nat
        BY <3>1, PowerAssumption
      <3>3. Base * Factor ^ (n - 1) \in Nat
        BY <1>1, <3>2
      <3> QED
        BY <2>4, <3>3 DEF Raw
    <2> QED
      BY <2>1, <2>2, <2>3, <2>4
  <1>3. Backoff(j, n) \in Nat /\ Backoff(j, n) <= BackoffMax
    BY <1>1, <1>2, MinOfTwo DEF Backoff
  <1>4. PICK c : c = Backoff(j, n)
    OBVIOUS
  <1>5. d \in c..(c + (c + 4) \div 5) /\ c \in Nat /\ c <= BackoffMax
    BY <1>3, <1>4 DEF Jittered
  <1>6. c + (c + 4) \div 5 <= BackoffMax + (BackoffMax + 4) \div 5
    BY <1>1, <1>5, JitterGrows
  <1> QED
    BY <1>1, <1>5, <1>6

\* An enqueue or the end of a run: what is known of the job afterwards.
OneJobMoved(j) ==
    /\ status' \in [Job -> Over \cup {"PENDING", "RUNNING"}]
    /\ wait' \in [Job -> Int] /\ attempt_count' \in [Job -> 0..MaxAttempts]
    /\ served' = served
    /\ \A i \in Job \ {j} : /\ status'[i] = status[i] /\ wait'[i] = wait[i]
                            /\ attempt_count'[i] = attempt_count[i]
    /\ status'[j] # "RUNNING" /\ wait'[j] <= Horizon
    /\ status'[j] = "PENDING" =>
          /\ wait'[j] <= 0 /\ -wait'[j] <= BackoffMax + (BackoffMax + 4) \div 5
          /\ attempt_count'[j] < MaxAttempts

\* So it is after each of these actions.
LEMMA OneJobFacts ==
    ASSUME OrderInv, NEW j \in Job, Enqueue(j) \/ Finish(j)
    PROVE  OneJobMoved(j)
  <1>1. /\ 0 \in 0..MaxAttempts /\ 0 < MaxAttempts /\ BackoffMax \in Nat /\ Horizon \in Nat
        /\ 0 <= BackoffMax + (BackoffMax + 4) \div 5
    BY OrderAssumption
  <1>2. TypeOK
    BY DEF OrderInv
  <1>3. CASE Enqueue(j)
    BY <1>1, <1>2, <1>3 DEF Enqueue, OneJobMoved, TypeOK
  <1>4. CASE Succeed(j)
    BY <1>2, <1>4 DEF Succeed, OneJobMoved, TypeOK, Over
  <1>5. CASE FailAndBury(j)
    BY <1>2, <1>5 DEF FailAndBury, OneJobMoved, TypeOK, Over
  <1>6. CASE FailAndRetry(j)
    <2>1. attempt_count[j] \in 1..MaxAttempts /\ attempt_count[j] < MaxAttempts
      BY <1>1, <1>2, <1>6, OrderAssumption DEF FailAndRetry, Retries, OrderInv, AttemptsFit, TypeOK
    <2>2. PICK d \in Jittered(Backoff(j, attempt_count[j])) : wait' = [wait EXCEPT ![j] = -d]
      BY <1>6 DEF FailAndRetry
    <2>3. d \in Nat /\ d <= BackoffMax + (BackoffMax + 4) \div 5
      BY <2>1, <2>2, DelayFacts
    <2>4. /\ -d \in Int /\ -d <= 0 /\ -d <= Horizon
          /\ -(-d) <= BackoffMax + (BackoffMax + 4) \div 5
      BY <1>1, <2>3
    <2>5. status' = [status EXCEPT ![j] = "PENDING"] /\ UNCHANGED <<attempt_count, served>>
      BY <1>6 DEF FailAndRetry
    <2> QED
      BY <1>2, <2>1, <2>2, <2>4, <2>5 DEF OneJobMoved, TypeOK
  <1> QED
    BY <1>3, <1>4, <1>5, <1>6 DEF Finish

\* Enqueues and ends keep the invariant.
LEMMA OneJobStep ==
    ASSUME OrderInv, NEW j \in Job, Enqueue(j) \/ Finish(j)
    PROVE  OrderInv'
  <1>1. OneJobMoved(j)
    BY OneJobFacts
  <1>2. TypeOK'
    BY <1>1 DEF OrderInv, TypeOK, OneJobMoved
  <1>3. AttemptsFit'
    BY <1>1 DEF OrderInv, AttemptsFit, OneJobMoved
  <1>4. DelaysAreBounded'
    BY <1>1 DEF OrderInv, DelaysAreBounded, OneJobMoved
  <1>5. CapacityFits'
    BY <1>1, CapacityStays DEF OrderInv, OneJobMoved
  <1> QED
    BY <1>2, <1>3, <1>4, <1>5 DEF OrderInv

\* A claim charges an attempt of jobs that have one to spare, within slots and
\* cap.
LEMMA ClaimStep ==
    ASSUME OrderInv, NEW n \in 1..Slots, Claim(n)
    PROVE  OrderInv'
  <1>1. PICK U, C : Takes(n, U, C)
    BY ClaimFacts
  <1>2. PICK B : B = U \cup C
    OBVIOUS
  <1>3. /\ status' = [j \in Job |-> IF j \in B THEN "RUNNING" ELSE status[j]]
        /\ attempt_count' = [j \in Job |-> IF j \in B THEN attempt_count[j] + 1
                                                     ELSE attempt_count[j]]
        /\ wait' = [j \in Job |-> IF j \in B THEN 0 ELSE wait[j]]
        /\ served' = TRUE
    BY <1>1, <1>2 DEF Takes
  <1>4. /\ U \in SUBSET Job /\ C \in SUBSET Job /\ B \in SUBSET Job /\ B \in SUBSET Ready
        /\ B \cap Capped = C
    BY <1>1, <1>2 DEF Takes, Ready
  <1>5. \A j \in B : status[j] = "PENDING" /\ attempt_count[j] + 1 \in 1..MaxAttempts
    BY <1>4, OrderAssumption DEF Ready, OrderInv, TypeOK, AttemptsFit
  <1>6. TypeOK'
    <2>1. status' \in [Job -> Over \cup {"PENDING", "RUNNING"}] /\ served' \in BOOLEAN
      BY <1>3 DEF OrderInv, TypeOK
    <2>2. wait' \in [Job -> Int] /\ \A j \in Job : wait'[j] <= Horizon
      BY <1>3, OrderAssumption DEF OrderInv, TypeOK
    <2>3. attempt_count' \in [Job -> 0..MaxAttempts]
      BY <1>3, <1>5, OrderAssumption DEF OrderInv, TypeOK
    <2> QED
      BY <2>1, <2>2, <2>3 DEF TypeOK
  <1>7. AttemptsFit'
    BY <1>3, <1>5 DEF OrderInv, TypeOK, AttemptsFit
  <1>8. DelaysAreBounded'
    BY <1>3 DEF OrderInv, TypeOK, DelaysAreBounded
  <1>9. Cardinality(RunningIn(Job)') <= Slots
    <2>1. RunningIn(Job)' = RunningIn(Job) \cup B /\ RunningIn(Job) \in SUBSET Job
      BY <1>3, <1>4 DEF RunningIn
    <2>2. Cardinality(B) <= Cardinality(U) + Cardinality(C)
      BY <1>2, <1>4, UnionSize
    <2>3. Cardinality(RunningIn(Job) \cup B) <= Cardinality(RunningIn(Job)) + Cardinality(B)
      BY <1>4, <2>1, UnionSize
    <2>4. Cardinality(U) + Cardinality(C) <= n /\ n <= Slots - Cardinality(RunningIn(Job))
      BY <1>1, ClaimFacts DEF Takes, FreeSlots
    <2>5. /\ Cardinality(U) \in Nat /\ Cardinality(C) \in Nat /\ Cardinality(B) \in Nat
          /\ Cardinality(RunningIn(Job)) \in Nat /\ Cardinality(RunningIn(Job) \cup B) \in Nat
          /\ Slots \in Nat
      BY <1>4, <2>1, JobSets, OrderAssumption
    <2> QED
      BY <2>1, <2>2, <2>3, <2>4, <2>5
  <1>10. Cardinality(RunningIn(Capped)') <= MaxConcurrency
    <2>1. RunningIn(Capped)' = RunningIn(Capped) \cup C /\ RunningIn(Capped) \in SUBSET Job
      BY <1>3, <1>4, OrderAssumption DEF RunningIn
    <2>2. Cardinality(RunningIn(Capped) \cup C) <= Cardinality(RunningIn(Capped)) + Cardinality(C)
      BY <1>4, <2>1, UnionSize
    <2>3. /\ Cardinality(C) \in Nat /\ Cardinality(RunningIn(Capped)) \in Nat
          /\ Cardinality(RunningIn(Capped) \cup C) \in Nat /\ MaxConcurrency \in Nat
      BY <1>4, <2>1, JobSets, OrderAssumption
    <2>4. CASE C = {}
      BY <2>1, <2>4 DEF OrderInv, CapacityFits
    <2>5. CASE C # {}
      BY <1>1, <2>1, <2>2, <2>3, <2>5 DEF Takes
    <2> QED
      BY <2>4, <2>5
  <1> QED
    BY <1>6, <1>7, <1>8, <1>9, <1>10 DEF OrderInv, CapacityFits

\* Waiting jobs grow older by a tick, and nobody else.
LEMMA TickFacts ==
    ASSUME OrderInv, Tick
    PROVE  /\ UNCHANGED <<status, attempt_count>> /\ served' = FALSE
           /\ wait' \in [Job -> Int]
           /\ \A j \in Job : /\ wait'[j] <= wait[j] + 1 /\ wait'[j] <= Horizon
                             /\ wait'[j] >= wait[j]
  <1>1. wait \in [Job -> Int] /\ Horizon \in Nat /\ \A j \in Job : wait[j] <= Horizon
    BY OrderAssumption DEF OrderInv, TypeOK
  <1>2. \A j \in Job : /\ Min({wait[j] + 1, Horizon}) \in Int
                       /\ Min({wait[j] + 1, Horizon}) <= wait[j] + 1
                       /\ Min({wait[j] + 1, Horizon}) <= Horizon
                       /\ Min({wait[j] + 1, Horizon}) >= wait[j]
    <2> SUFFICES ASSUME NEW j \in Job
                 PROVE  /\ Min({wait[j] + 1, Horizon}) \in Int
                        /\ Min({wait[j] + 1, Horizon}) <= wait[j] + 1
                        /\ Min({wait[j] + 1, Horizon}) <= Horizon
                        /\ Min({wait[j] + 1, Horizon}) >= wait[j]
      OBVIOUS
    <2>1. wait[j] + 1 \in Int /\ Horizon \in Int /\ wait[j] <= Horizon /\ wait[j] \in Int
      BY <1>1
    <2>2. PICK m : m = Min({wait[j] + 1, Horizon})
      OBVIOUS
    <2>3. m \in {wait[j] + 1, Horizon} /\ m <= wait[j] + 1 /\ m <= Horizon
      BY <2>1, <2>2, MinOfTwo, Zenon
    <2> QED
      BY <2>1, <2>2, <2>3
  <1>3. /\ wait' = [j \in Job |-> IF status[j] = "PENDING" THEN Min({wait[j] + 1, Horizon})
                                                           ELSE wait[j]]
        /\ served' = FALSE /\ UNCHANGED <<status, attempt_count>>
    BY DEF Tick
  <1> QED
    BY <1>1, <1>2, <1>3

\* Time brings no job further from its turn.
LEMMA TickStep ==
    ASSUME OrderInv, Tick
    PROVE  OrderInv'
  <1>1. TypeOK'
    BY TickFacts DEF OrderInv, TypeOK
  <1>2. AttemptsFit' /\ CapacityFits'
    BY TickFacts, CapacityStays DEF OrderInv, AttemptsFit
  <1>3. DelaysAreBounded'
    <2>1. PICK most \in Int : most = BackoffMax + (BackoffMax + 4) \div 5
      BY OrderAssumption
    <2>2. \A j \in Job : wait[j] \in Int /\ wait'[j] \in Int /\ wait'[j] >= wait[j]
      BY TickFacts DEF OrderInv, TypeOK
    <2>3. \A j \in Job : status[j] = "PENDING" => -wait[j] <= most
      BY <2>1 DEF OrderInv, DelaysAreBounded
    <2>4. \A j \in Job : status'[j] = "PENDING" => -wait'[j] <= most
      BY <2>2, <2>3, TickFacts
    <2> QED
      BY <2>1, <2>4 DEF DelaysAreBounded
  <1> QED
    BY <1>1, <1>2, <1>3 DEF OrderInv

\* The invariant is inductive.
LEMMA OrderInvInductive ==
    /\ Init => OrderInv
    /\ OrderInv /\ [Next]_vars => OrderInv'
  <1>1. ASSUME Init PROVE OrderInv
    <2>1. TypeOK /\ AttemptsFit /\ DelaysAreBounded
      <3>1. 0 \in 0..MaxAttempts /\ Horizon \in Nat
        BY OrderAssumption
      <3>2. /\ status = [j \in Job |-> "absent"] /\ wait = [j \in Job |-> 0]
            /\ attempt_count = [j \in Job |-> 0] /\ served = FALSE
        BY <1>1 DEF Init
      <3>3. TypeOK
        <4>1. status \in [Job -> Over \cup {"PENDING", "RUNNING"}] /\ served \in BOOLEAN
          BY <3>2 DEF Over
        <4>2. attempt_count \in [Job -> 0..MaxAttempts]
          BY <3>1, <3>2
        <4>3. wait \in [Job -> Int] /\ \A j \in Job : wait[j] <= Horizon
          BY <3>1, <3>2
        <4> QED
          BY <4>1, <4>2, <4>3 DEF TypeOK
      <3> QED
        BY <3>2, <3>3 DEF AttemptsFit, DelaysAreBounded
    <2>2. RunningIn(Job) = {} /\ RunningIn(Capped) = {}
      BY <1>1, OrderAssumption DEF Init, RunningIn
    <2>3. CapacityFits
      BY <2>2, FS_EmptySet, OrderAssumption DEF CapacityFits
    <2> QED
      BY <2>1, <2>3 DEF OrderInv
  <1>2. ASSUME OrderInv, [Next]_vars PROVE OrderInv'
    <2>1. CASE UNCHANGED vars
      BY <1>2, <2>1 DEF vars, OrderInv, TypeOK, AttemptsFit, DelaysAreBounded, CapacityFits,
                        RunningIn
    <2> QED
      BY <1>2, <2>1, OneJobStep, ClaimStep, TickStep DEF Next
  <1> QED
    BY <1>1, <1>2

\* The types of the variables hold throughout; no wait is longer than the
\* clock goes and no job is started more often than its budget.
THEOREM OrderTypesAlways == Spec => []TypeOK
  <1>1. OrderInv => TypeOK
    BY DEF OrderInv
  <1> QED
    BY OrderInvInductive, <1>1, PTL DEF Spec

\* claim_batch: both passes of a claim share one limit, so the fleet never
\* runs more than it has slots for, nor the capped queue more than its cap.
THEOREM CapacityAlways ==
    Spec => [](/\ Cardinality(RunningIn(Job)) <= Slots
               /\ Cardinality(RunningIn(Capped)) <= MaxConcurrency)
  <1>1. OrderInv => /\ Cardinality(RunningIn(Job)) <= Slots
                    /\ Cardinality(RunningIn(Capped)) <= MaxConcurrency
    BY DEF OrderInv, CapacityFits
  <1> QED
    BY OrderInvInductive, <1>1, PTL DEF Spec

\* compute_backoff_seconds, with whatever strategy, base and factor: no retry
\* is due later than the cap and a fifth of it from now.
THEOREM DelaysAlwaysBounded == Spec => []DelaysAreBounded
  <1>1. OrderInv => DelaysAreBounded
    BY DEF OrderInv
  <1> QED
    BY OrderInvInductive, <1>1, PTL DEF Spec

-----------------------------------------------------------------------------
(* Aging *)

\* No job is born further behind than aging can make up for: the largest
\* difference of priorities is within the largest boost.
BoostCoversPriorities ==
    /\ Interval > 0 /\ MaxBoost > 0
    /\ \A i, j \in Job \ Capped : Priority[i] - Priority[j] <= MaxBoost

\* The order of the claim: a job that has its full boost is not outranked by
\* one that has no boost at all.
LEMMA FullBoostWins ==
    ASSUME OrderInv, BoostCoversPriorities, NEW a \in Job \ Capped, NEW b \in Job \ Capped,
           wait[a] >= Interval * MaxBoost, wait[b] >= 0, wait[b] < Interval
    PROVE  Outranks(a, b)
  <1>1. /\ Interval \in Nat \ {0} /\ MaxBoost \in Nat \ {0}
        /\ Interval * MaxBoost \in Nat /\ Interval * MaxBoost >= Interval
        /\ wait[a] \in Nat /\ wait[b] \in Nat /\ Priority[a] \in Int /\ Priority[b] \in Int
    <2>1. /\ Interval \in Nat \ {0} /\ MaxBoost \in Nat \ {0}
          /\ wait[a] \in Int /\ wait[b] \in Int /\ Priority[a] \in Int /\ Priority[b] \in Int
      BY OrderAssumption DEF BoostCoversPriorities, OrderInv, TypeOK
    <2>2. Interval * MaxBoost \in Nat /\ Interval * MaxBoost >= Interval
      BY <2>1
    <2> QED
      BY <2>1, <2>2
  <1>2. PICK x \in Nat, y \in Nat : x = wait[a] \div Interval /\ y = wait[b] \div Interval
    BY <1>1, WholeIntervals
  <1>3. x >= MaxBoost /\ y = 0
    BY <1>1, <1>2, WholeIntervals
  <1>4. AgeBoost(a) = MaxBoost
    <2>1. PICK m : m = Min({x, MaxBoost})
      OBVIOUS
    <2>2. m \in {x, MaxBoost} /\ m <= x /\ m <= MaxBoost
      <3>1. x \in Int /\ MaxBoost \in Int
        BY <1>1, <1>2
      <3> QED
        BY <2>1, <3>1, MinOfTwo, Zenon
    <2>3. m = MaxBoost
      BY <1>1, <1>2, <1>3, <2>2
    <2>4. AgeBoost(a) = Min({wait[a] \div Interval, MaxBoost})
      <3>1. Interval > 0
        BY DEF BoostCoversPriorities
      <3> QED
        BY <3>1, Zenon DEF AgeBoost
    <2> QED
      BY <1>2, <2>1, <2>3, <2>4
  <1>5. AgeBoost(b) = 0
    <2>1. PICK m : m = Min({y, MaxBoost})
      OBVIOUS
    <2>2. m \in {y, MaxBoost} /\ m <= y /\ m <= MaxBoost
      <3>1. y \in Int /\ MaxBoost \in Int
        BY <1>1, <1>2
      <3> QED
        BY <2>1, <3>1, MinOfTwo, Zenon
    <2> QED
      BY <1>1, <1>2, <1>3, <2>1, <2>2 DEF AgeBoost
  <1>6. Effective(a) = Priority[a] + MaxBoost /\ Effective(b) = Priority[b]
    BY <1>1, <1>4, <1>5 DEF Effective
  <1>7. Priority[b] - Priority[a] <= MaxBoost /\ wait[a] > wait[b]
    BY <1>1 DEF BoostCoversPriorities
  <1> QED
    BY <1>1, <1>6, <1>7 DEF Outranks

\* What passes over a job that has its full boost has itself waited for an
\* interval.
LEMMA PassedOverByAged ==
    ASSUME OrderInv, BoostCoversPriorities, NEW n, NEW U, NEW C, Takes(n, U, C),
           NEW a \in (Ready \ Capped) \ U, wait[a] >= Interval * MaxBoost, NEW b \in U
    PROVE  wait[b] >= Interval
  <1>1. b \in Job \ Capped /\ a \in Job \ Capped /\ wait[b] \in Int /\ wait[b] >= 0 /\ Interval \in Nat
    BY OrderAssumption DEF Takes, Ready, OrderInv, TypeOK
  <1>2. ~Outranks(a, b)
    BY DEF Takes
  <1> QED
    BY <1>1, <1>2, FullBoostWins

\* ARCHITECTURE.md on the claim order, and what is behind its "never forever":
\* under any load, once a job has its full boost, the only jobs of queues
\* without a cap that a claim starts before it have themselves waited for an
\* interval.  A stream whose jobs wait less cannot hold it back any longer;
\* one whose jobs all wait that long can, which is what starvation shows.
THEOREM OnlyAgedJobsPass ==
    ASSUME BoostCoversPriorities
    PROVE  Spec => [][\A a, b \in Job \ Capped :
                        /\ a \in Ready /\ wait[a] >= Interval * MaxBoost
                        /\ status'[a] # "RUNNING"
                        /\ b \in Ready /\ status'[b] = "RUNNING"
                        => wait[b] >= Interval]_vars
  <1>1. ASSUME OrderInv, [Next]_vars, NEW a \in Job \ Capped, NEW b \in Job \ Capped,
               a \in Ready, wait[a] >= Interval * MaxBoost, status'[a] # "RUNNING",
               b \in Ready, status'[b] = "RUNNING"
        PROVE  wait[b] >= Interval
    <2>1. status' # status
      BY <1>1 DEF Ready
    <2>2. ASSUME NEW j \in Job, Enqueue(j) \/ Finish(j) PROVE FALSE
      <3>1. OneJobMoved(j)
        BY <1>1, <2>2, OneJobFacts
      <3> QED
        BY <1>1, <3>1 DEF OneJobMoved, Ready
    <2>3. PICK n \in 1..Slots : Claim(n)
      BY <1>1, <2>1, <2>2 DEF Next, Tick, vars
    <2>4. PICK U, C : Takes(n, U, C)
      BY <1>1, <2>3, ClaimFacts
    <2>5. b \in U /\ a \in (Ready \ Capped) \ U
      BY <1>1, <2>4 DEF Takes, Ready
    <2> QED
      BY <1>1, <2>4, <2>5, PassedOverByAged
  <1>2. OrderInv /\ [Next]_vars =>
          [\A a, b \in Job \ Capped :
              /\ a \in Ready /\ wait[a] >= Interval * MaxBoost
              /\ status'[a] # "RUNNING"
              /\ b \in Ready /\ status'[b] = "RUNNING"
              => wait[b] >= Interval]_vars
    BY <1>1
  <1> QED
    BY OrderInvInductive, <1>2, PTL DEF Spec

-----------------------------------------------------------------------------
(* How long a job waits *)

\* The load under which waits are bounded: aging makes up for any priority,
\* and there are fewer jobs to serve than ticks in an interval, in each of
\* which the fleet serves one.  The clock of the model reaches beyond.
LoadIsLight ==
    /\ BoostCoversPriorities
    /\ Cardinality(Job \ Capped) \in 2..Interval
    /\ Horizon >= Interval * MaxBoost + Cardinality(Job \ Capped) - 1

\* Those who may still pass job a once it has its full boost: the ones who
\* have waited since a tick after it got there.  It is one of them.
Rivals(a) ==
    {b \in Job \ Capped : status[b] = "PENDING" /\ wait[b] > wait[a] - Interval * MaxBoost + 1}

\* From a claim to the next tick, one job is running or has only just come.
ServedShows ==
    served => \E b \in Job \ Capped : ~(status[b] = "PENDING" /\ wait[b] > 0)

\* With every tick a job waits beyond its full boost it has a rival less.
LateFits ==
    \A a \in Job \ Capped : status[a] = "PENDING" /\ wait[a] >= Interval * MaxBoost =>
        wait[a] + Cardinality(Rivals(a)) + (IF served THEN 1 ELSE 0)
            <= Interval * MaxBoost + Cardinality(Job \ Capped) - 1

LoadInv == OrderInv /\ ServedShows /\ LateFits

\* The constants, as numbers.
LEMMA LoadNumbers ==
    ASSUME LoadIsLight
    PROVE  /\ Interval * MaxBoost \in Nat /\ Interval * MaxBoost >= 2
           /\ Interval \in Nat /\ Horizon \in Nat /\ Cardinality(Job \ Capped) \in Nat
           /\ Cardinality(Job \ Capped) >= 2 /\ Cardinality(Job \ Capped) <= Interval
           /\ Horizon >= Interval * MaxBoost + Cardinality(Job \ Capped) - 1
           /\ Job \ Capped # {}
  <1>1. /\ Interval \in Nat /\ MaxBoost \in Nat /\ Horizon \in Nat /\ MaxBoost >= 1
        /\ Cardinality(Job \ Capped) \in 2..Interval
        /\ Horizon >= Interval * MaxBoost + Cardinality(Job \ Capped) - 1
    BY OrderAssumption DEF LoadIsLight, BoostCoversPriorities
  <1>2. Interval >= 2
    BY <1>1
  <1>3. Interval * MaxBoost \in Nat /\ Interval * MaxBoost >= 2
    BY <1>1, <1>2
  <1>4. Job \ Capped # {}
    BY <1>1, FS_EmptySet
  <1> QED
    BY <1>1, <1>3, <1>4

\* A job that waits beyond its full boost waits for fewer ticks than it has
\* rivals.
LEMMA LateIsBounded ==
    ASSUME LoadInv, LoadIsLight, NEW a \in Job \ Capped, status[a] = "PENDING",
           wait[a] >= Interval * MaxBoost
    PROVE  /\ Rivals(a) \in SUBSET Job /\ a \in Rivals(a)
           /\ wait[a] <= Interval * MaxBoost + Cardinality(Job \ Capped) - 2
  <1>1. wait[a] \in Int
    BY DEF LoadInv, OrderInv, TypeOK
  <1>2. Rivals(a) \in SUBSET Job /\ a \in Rivals(a)
    BY <1>1, LoadNumbers DEF Rivals
  <1>3. PICK r \in Nat : r = Cardinality(Rivals(a)) /\ r >= 1
    BY <1>2, JobSets
  <1>4. PICK s \in {0, 1} : s = IF served THEN 1 ELSE 0
    OBVIOUS
  <1>5. wait[a] + r + s <= Interval * MaxBoost + Cardinality(Job \ Capped) - 1
    BY <1>3, <1>4 DEF LoadInv, LateFits
  <1> QED
    BY <1>1, <1>2, <1>3, <1>4, <1>5, LoadNumbers

\* A late job that gets no new rival stays within its bound, if nothing was
\* served but what was served before, or if a rival was.
LEMMA LateStays ==
    ASSUME LoadInv, LoadIsLight, NEW a \in Job \ Capped, status[a] = "PENDING",
           wait[a] >= Interval * MaxBoost, wait'[a] = wait[a],
           Rivals(a)' \in SUBSET Rivals(a), served \in BOOLEAN,
           served' = served \/ (served' = TRUE /\ Rivals(a)' # Rivals(a))
    PROVE  wait'[a] + Cardinality(Rivals(a)') + (IF served' THEN 1 ELSE 0)
               <= Interval * MaxBoost + Cardinality(Job \ Capped) - 1
  <1>1. wait[a] \in Int
    BY DEF LoadInv, OrderInv, TypeOK
  <1>2. Rivals(a) \in SUBSET Job
    BY LateIsBounded
  <1>3. PICK r \in Nat, r2 \in Nat : /\ r = Cardinality(Rivals(a)) /\ r2 = Cardinality(Rivals(a)')
                                     /\ r2 <= r /\ (Rivals(a)' # Rivals(a) => r2 < r)
    BY <1>2, JobSets
  <1>4. PICK s \in {0, 1}, s2 \in {0, 1} :
          s = (IF served THEN 1 ELSE 0) /\ s2 = (IF served' THEN 1 ELSE 0)
    OBVIOUS
  <1>5. r2 + s2 <= r + s
    BY <1>3, <1>4
  <1>6. wait[a] + r + s <= Interval * MaxBoost + Cardinality(Job \ Capped) - 1
    BY <1>3, <1>4 DEF LoadInv, LateFits
  <1>7. wait[a] + r2 + s2 <= Interval * MaxBoost + Cardinality(Job \ Capped) - 1
    BY <1>1, <1>5, <1>6, LoadNumbers
  <1> QED
    BY <1>3, <1>4, <1>7

\* What is enqueued or retried is no rival of a job that has its full boost.
LEMMA OneJobLoad ==
    ASSUME LoadInv, LoadIsLight, NEW j \in Job, Enqueue(j) \/ Finish(j)
    PROVE  ServedShows' /\ LateFits'
  <1>1. OneJobMoved(j) /\ TypeOK
    BY OneJobFacts DEF LoadInv, OrderInv
  <1>2. ServedShows'
    <2> SUFFICES ASSUME served' PROVE \E b \in Job \ Capped : ~(status'[b] = "PENDING" /\ wait'[b] > 0)
      BY DEF ServedShows
    <2>1. PICK b \in Job \ Capped : ~(status[b] = "PENDING" /\ wait[b] > 0)
      BY <1>1 DEF OneJobMoved, LoadInv, ServedShows
    <2>2. ~(status'[b] = "PENDING" /\ wait'[b] > 0)
      BY <1>1, <2>1 DEF OneJobMoved
    <2> QED
      BY <2>2
  <1>3. LateFits'
    <2> SUFFICES ASSUME NEW a \in Job \ Capped, status'[a] = "PENDING",
                        wait'[a] >= Interval * MaxBoost
                 PROVE  wait'[a] + Cardinality(Rivals(a)') + (IF served' THEN 1 ELSE 0)
                            <= Interval * MaxBoost + Cardinality(Job \ Capped) - 1
      BY DEF LateFits
    <2>1. a # j /\ status[a] = "PENDING" /\ wait'[a] = wait[a] /\ wait[a] \in Int
      BY <1>1, LoadNumbers DEF OneJobMoved, TypeOK
    <2>2. Rivals(a)' \in SUBSET Rivals(a)
      BY <1>1, <2>1, LoadNumbers DEF OneJobMoved, Rivals
    <2> QED
      BY <1>1, <2>1, <2>2, LateStays DEF OneJobMoved, TypeOK
  <1> QED
    BY <1>2, <1>3

\* A claim that leaves a job behind which has its full boost starts one of its
\* rivals: whoever passes it has waited for an interval.
LEMMA ClaimLoad ==
    ASSUME LoadInv, LoadIsLight, NEW n \in 1..Slots, Claim(n)
    PROVE  ServedShows' /\ LateFits'
  <1>1. PICK U, C : Takes(n, U, C)
    BY ClaimFacts DEF LoadInv
  <1>2. PICK B : B = U \cup C
    OBVIOUS
  <1>3. /\ B \in SUBSET Ready /\ U \in SUBSET (Ready \ Capped) /\ C \in SUBSET Capped
        /\ Ready \ Capped # {} => U # {}
        /\ status' = [i \in Job |-> IF i \in B THEN "RUNNING" ELSE status[i]]
        /\ wait' = [i \in Job |-> IF i \in B THEN 0 ELSE wait[i]]
        /\ served' = TRUE
    BY <1>1, <1>2 DEF Takes
  <1>4. TypeOK
    BY DEF LoadInv, OrderInv
  <1>5. ServedShows'
    <2>1. CASE U = {}
      <3>1. PICK b : b \in Job \ Capped
        BY LoadNumbers
      <3>2. b \notin Ready /\ b \notin B
        BY <1>3, <2>1, <3>1
      <3>3. status'[b] = status[b] /\ wait'[b] = wait[b] /\ wait[b] \in Int
        BY <1>3, <1>4, <3>1, <3>2 DEF TypeOK
      <3>4. ~(status'[b] = "PENDING" /\ wait'[b] > 0)
        BY <3>1, <3>2, <3>3 DEF Ready
      <3> QED
        BY <3>1, <3>4 DEF ServedShows
    <2>2. CASE U # {}
      <3>1. PICK b \in U : status'[b] = "RUNNING" /\ b \in Job \ Capped
        BY <1>2, <1>3, <2>2 DEF Ready
      <3> QED
        BY <3>1 DEF ServedShows
    <2> QED
      BY <2>1, <2>2
  <1>6. LateFits'
    <2> SUFFICES ASSUME NEW a \in Job \ Capped, status'[a] = "PENDING",
                        wait'[a] >= Interval * MaxBoost
                 PROVE  wait'[a] + Cardinality(Rivals(a)') + (IF served' THEN 1 ELSE 0)
                            <= Interval * MaxBoost + Cardinality(Job \ Capped) - 1
      BY DEF LateFits
    <2>1. /\ a \notin B /\ status[a] = "PENDING" /\ wait'[a] = wait[a] /\ wait[a] \in Int
          /\ wait[a] >= Interval * MaxBoost
      BY <1>3, <1>4 DEF TypeOK
    <2>2. a \in (Ready \ Capped) \ U
      BY <1>2, <2>1, LoadNumbers DEF Ready
    <2>3. PICK b : b \in U
      BY <1>3, <2>2
    <2>4. wait[b] >= Interval
      BY <1>1, <2>1, <2>2, <2>3, PassedOverByAged DEF LoadInv, LoadIsLight
    <2>5. b \in Rivals(a)
      <3>1. wait[a] <= Interval * MaxBoost + Cardinality(Job \ Capped) - 2
        BY <2>1, LateIsBounded
      <3>2. b \in Job \ Capped /\ status[b] = "PENDING" /\ wait[b] \in Int
        BY <1>3, <1>4, <2>3 DEF Ready, TypeOK
      <3>3. wait[b] > wait[a] - Interval * MaxBoost + 1
        BY <2>1, <2>4, <3>1, <3>2, LoadNumbers
      <3> QED
        BY <3>2, <3>3 DEF Rivals
    <2>6. Rivals(a)' \in SUBSET Rivals(a) /\ b \notin Rivals(a)'
      BY <1>2, <1>3, <2>1, <2>3 DEF Rivals, Ready
    <2> QED
      BY <1>3, <1>4, <2>1, <2>5, <2>6, LateStays DEF TypeOK
  <1> QED
    BY <1>5, <1>6

\* Between two ticks somebody was served, which is the rival less.
LEMMA TickLoad ==
    ASSUME LoadInv, LoadIsLight, Tick
    PROVE  ServedShows' /\ LateFits'
  <1> DEFINE full == Interval * MaxBoost
             size == Cardinality(Job \ Capped)
  <1>1. /\ OrderInv /\ TypeOK /\ UNCHANGED status /\ served' = FALSE
        /\ \A i \in Job : /\ wait[i] \in Int /\ wait'[i] \in Int
                          /\ wait'[i] <= wait[i] + 1 /\ wait'[i] >= wait[i]
    BY TickFacts DEF LoadInv, OrderInv, TypeOK
  <1>2. full \in Nat /\ full >= 2 /\ size \in Nat /\ Horizon \in Nat /\ Horizon >= full + size - 1
    BY LoadNumbers
  <1>3. ServedShows'
    BY <1>1 DEF ServedShows
  <1>4. ASSUME NEW a \in Job \ Capped, status'[a] = "PENDING", wait'[a] >= full
        PROVE  wait'[a] + Cardinality(Rivals(a)') + (IF served' THEN 1 ELSE 0) <= full + size - 1
    <2> HIDE DEF full, size
    <2>1. status[a] = "PENDING" /\ wait[a] >= full - 1 /\ a \in Ready
      BY <1>1, <1>2, <1>4 DEF Ready
    <2>2. served = TRUE
      BY <1>1, <2>1 DEF Tick, TypeOK
    <2>3. Rivals(a)' = {b \in Job \ Capped : status[b] = "PENDING" /\ wait'[b] > wait'[a] - full + 1}
      BY <1>1 DEF Rivals, full
    <2>4. Rivals(a)' \in SUBSET (Job \ Capped) /\ Job \ Capped \in SUBSET Job
      BY <2>3
    <2>5. CASE wait[a] < full
      <3>1. wait'[a] = full
        BY <1>1, <1>2, <1>4, <2>5
      <3>2. PICK b \in Job \ Capped : ~(status[b] = "PENDING" /\ wait[b] > 0)
        BY <2>2 DEF LoadInv, ServedShows
      <3>3. b \notin Rivals(a)'
        BY <1>1, <1>2, <2>3, <3>1, <3>2
      <3>4. Cardinality(Rivals(a)') \in Nat /\ Cardinality(Rivals(a)') < size
        BY <2>4, <3>2, <3>3, JobSets DEF size
      <3> QED
        BY <1>1, <1>2, <3>1, <3>4
    <2>6. CASE wait[a] >= full
      <3>1. wait[a] + Cardinality(Rivals(a)) + 1 <= full + size - 1
        BY <2>1, <2>2, <2>6 DEF LoadInv, LateFits, full, size
      <3>2. Rivals(a) \in SUBSET Job /\ wait[a] <= full + size - 2
        BY <2>1, <2>6, LateIsBounded DEF full, size
      <3>3. wait'[a] = wait[a] + 1
        <4>1. wait'[a] = Min({wait[a] + 1, Horizon})
          BY <2>1, <1>1 DEF Tick, TypeOK
        <4>2. wait[a] + 1 \in Int /\ Horizon \in Int /\ wait[a] + 1 <= Horizon
          BY <1>1, <1>2, <3>2
        <4>3. PICK m : m = Min({wait[a] + 1, Horizon})
          OBVIOUS
        <4>4. m \in {wait[a] + 1, Horizon} /\ m <= wait[a] + 1 /\ m <= Horizon
          BY <4>2, <4>3, MinOfTwo, Zenon
        <4> QED
          BY <4>1, <4>2, <4>3, <4>4
      <3>4. Rivals(a) = {b \in Job \ Capped : status[b] = "PENDING" /\ wait[b] > wait[a] - full + 1}
        BY DEF Rivals, full
      <3>5. Rivals(a)' \in SUBSET Rivals(a)
        BY <1>1, <1>2, <2>3, <3>3, <3>4
      <3>6. /\ Cardinality(Rivals(a)') \in Nat /\ Cardinality(Rivals(a)) \in Nat
            /\ Cardinality(Rivals(a)') <= Cardinality(Rivals(a))
        BY <3>2, <3>5, JobSets
      <3> QED
        BY <1>1, <1>2, <3>1, <3>3, <3>6
    <2> QED
      BY <1>1, <1>2, <2>5, <2>6
  <1>5. LateFits'
    BY <1>4 DEF LateFits
  <1> QED
    BY <1>3, <1>5

\* Under a light load the bound is inductive.
LEMMA LoadInvInductive ==
    ASSUME LoadIsLight
    PROVE  /\ Init => LoadInv
           /\ LoadInv /\ [Next]_vars => LoadInv'
  <1>1. ASSUME Init PROVE LoadInv
    BY <1>1, OrderInvInductive DEF Init, LoadInv, ServedShows, LateFits
  <1>2. ASSUME LoadInv, [Next]_vars PROVE LoadInv'
    <2>1. OrderInv'
      BY <1>2, OrderInvInductive DEF LoadInv
    <2>2. CASE UNCHANGED vars
      BY <1>2, <2>1, <2>2 DEF vars, LoadInv, ServedShows, LateFits, Rivals
    <2> QED
      BY <1>2, <2>1, <2>2, OneJobLoad, ClaimLoad, TickLoad DEF Next, LoadInv
  <1> QED
    BY <1>1, <1>2

\* PRIORITY_AGING_MAX_BOOST "bounds starvation at interval x boost", when the
\* load is light: no job of a queue without a cap waits longer, save for one
\* tick per job beyond the second that may have waited as long, whatever the
\* priorities, the retries and the capped queue do.
THEOREM StartsAlwaysBounded == ASSUME LoadIsLight PROVE Spec => []StartsAreBounded
  <1>1. ASSUME LoadInv PROVE StartsAreBounded
    <2>1. DelaysAreBounded
      BY <1>1 DEF LoadInv, OrderInv
    <2>2. ASSUME NEW j \in Job \ Capped, status[j] = "PENDING"
          PROVE  wait[j] <= Interval * MaxBoost + Cardinality(Job \ Capped) - 2
      <3>1. wait[j] \in Int
        BY <1>1 DEF LoadInv, OrderInv, TypeOK
      <3>2. CASE wait[j] >= Interval * MaxBoost
        BY <1>1, <2>2, <3>2, LateIsBounded
      <3>3. CASE wait[j] < Interval * MaxBoost
        BY <3>1, <3>3, LoadNumbers
      <3> QED
        BY <3>1, <3>2, <3>3, LoadNumbers
    <2> QED
      BY <2>1, <2>2 DEF StartsAreBounded, WaitsAreBounded
  <1>2. LoadInv => StartsAreBounded
    BY <1>1
  <1> QED
    BY LoadInvInductive, <1>2, PTL DEF Spec
=============================================================================
