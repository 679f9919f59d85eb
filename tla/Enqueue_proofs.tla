--------------------------- MODULE Enqueue_proofs ---------------------------
(***************************************************************************)
(* Theorems about Enqueue, for every number of requests, whatever they ask *)
(* for, and whether or not they fail.                                      *)
(***************************************************************************)
EXTENDS Enqueue, WellFoundedInduction, TLAPS

-----------------------------------------------------------------------------
(* The inductive invariant *)

\* Rows of jobs that are there, committed or not.
Inserted == jobs \cup UNION {{<<r, i>> : i \in tx[r].jobs} : r \in Request}

\* uq_jobs_owner_idempotency holds across every open transaction.
KeysAreUnique == \A j, k \in Inserted : SameKey(j, k) => j = k

\* Every queue came from a job that is there or from a request that created
\* it, and whose INSERT went through.
QueuesHaveMakers ==
    \A q \in DOMAIN queues :
        \/ \E j \in jobs : Asked(j).queue = q
        \/ \E r \in Request :
            /\ Creates(r) /\ Wanted(r) = q
            /\ pc[r] \in {"publish", "done"}
            /\ answer[r].status \in {"open", "created", "failed"}

(* Of one request *)

\* The statements a request can be at.
RouteFits(r) ==
    /\ Creates(r) => pc[r] \in {"create", "flush", "publish", "done"} /\ cached[r] = NoQueues
    /\ plan[r].batch => pc[r] \notin {"precheck", "deps"}
    /\ ~Creates(r) /\ pc[r] \in {"precheck", "resolve", "create", "reselect"} => item[r] \in Items(r)
    /\ pc[r] \in {"deps", "flush"} /\ ~Creates(r) => item[r] = Len(plan[r].items) + 1
    /\ pc[r] \in {"create", "reselect", "deps"} => staged[r] = <<>>
    /\ pc[r] = "reselect" => Wanted(r) \in DOMAIN queues

\* Items before its place in the plan are inserted or wait in the session.
ItemsFit(r) ==
    pc[r] \in {"resolve", "create", "reselect", "flush"} /\ (plan[r].batch \/ pc[r] = "flush") =>
        \A i \in Items(r) : i < item[r] =>
            i \in tx[r].jobs \/ \E n \in DOMAIN staged[r] : staged[r][n] = i

\* Nothing of it is committed before its commit, and then everything is.
CommitFits(r) ==
    /\ pc[r] \notin {"publish", "done"} => JobsOf(r) \cap jobs = {} /\ answer[r].status = "open"
    /\ pc[r] = "publish" => JobsOf(r) \subseteq jobs /\ answer[r].status = "open"
    /\ JobsOf(r) \cap jobs \in {{}, JobsOf(r)}
    /\ JobsOf(r) \cap jobs # {} => item[r] = Len(plan[r].items) + 1
    /\ pc[r] \in {"publish", "done"} => tx[r] = Nothing /\ staged[r] = <<>>

\* What it tells its caller.
AnswerFits(r) ==
    /\ answer[r].jobs \subseteq jobs
    /\ answer[r].status = "created" => answer[r].jobs = JobsOf(r)
    /\ answer[r].status \in {"existing", "not_found", "conflict", "raised"} =>
            JobsOf(r) \cap jobs = {}
    /\ r \in woken => JobsOf(r) \subseteq jobs

\* It has read the queues of the items before its place, and the rows were
\* committed once or are its own.
CacheFits(r) ==
    /\ \A i \in Items(r) :
        i < item[r] => plan[r].items[i].queue \in DOMAIN cached[r]
    /\ pc[r] # "done" \/ JobsOf(r) \cap jobs # {} =>
        \A q \in DOMAIN cached[r] :
            \/ cached[r][q] \in had[q]
            \/ q \in DOMAIN tx[r].queues /\ cached[r][q] = tx[r].queues[q]

\* A queue it makes is for one of its items, or is the one it was asked for.
NewQueuesFit(r) ==
    \A q \in DOMAIN tx[r].queues :
        IF Creates(r) THEN q = Wanted(r) ELSE \E i \in Items(r) : plan[r].items[i].queue = q

\* The jobs it depends on are there when the edges are inserted.
DependenciesFit(r) ==
    pc[r] = "flush" /\ ~plan[r].batch /\ ~Creates(r) => plan[r].items[1].after \subseteq Visible(r)

OwnInv(r) ==
    /\ RouteFits(r)
    /\ ItemsFit(r)
    /\ CommitFits(r)
    /\ AnswerFits(r)
    /\ CacheFits(r)
    /\ NewQueuesFit(r)
    /\ DependenciesFit(r)

EnqueueInv ==
    /\ TypeOK
    /\ KeysAreUnique
    /\ QueuesHaveMakers
    /\ WorkflowsAreDags
    /\ \A r \in Request : OwnInv(r)

-----------------------------------------------------------------------------
(* Lemmas about plans *)

\* A plan has a number of items; only the creation of a queue has none.
LEMMA PlanShape ==
    ASSUME TypeOK, NEW r \in Request
    PROVE  /\ Len(plan[r].items) \in Nat
           /\ plan[r].batch \in BOOLEAN
           /\ Creates(r) <=> Len(plan[r].items) = 0
           /\ ~plan[r].batch => Len(plan[r].items) <= 1
           /\ plan[r].batch => ~Creates(r)
           /\ JobsOf(r) \subseteq Job
           /\ item[r] \in Nat \ {0}
  <1> DEFINE entries == {plan[r].items[i] : i \in DOMAIN plan[r].items}
  <1>1. /\ plan[r].batch \in BOOLEAN
        /\ plan[r].items \in Seq(entries)
        /\ IF plan[r].batch THEN Len(plan[r].items) > 0 ELSE Len(plan[r].items) <= 1
    BY PlansAssumption DEF TypeOK
  <1> HIDE DEF entries
  <1>2. Len(plan[r].items) \in Nat /\ (plan[r].items = <<>> <=> Len(plan[r].items) = 0)
    BY <1>1
  <1>3. JobsOf(r) \subseteq Job
    BY DEF Job
  <1>4. item[r] \in Nat \ {0}
    BY <1>2 DEF TypeOK
  <1> QED
    BY <1>1, <1>2, <1>3, <1>4 DEF Creates

\* A request for a single job has one item.
LEMMA SingleHasOne ==
    ASSUME TypeOK, NEW r \in Request, ~Creates(r), ~plan[r].batch
    PROVE  Len(plan[r].items) = 1
  <1>1. Len(plan[r].items) \in Nat /\ Len(plan[r].items) # 0 /\ Len(plan[r].items) <= 1
    BY PlanShape, Zenon
  <1>2. \A n \in Nat : n # 0 /\ n <= 1 => n = 1
    OBVIOUS
  <1> QED
    BY <1>1, <1>2

\* Requests do not change what they ask for.
LEMMA PlanFixed ==
    ASSUME plan' = plan
    PROVE  /\ \A r : Items(r)' = Items(r) /\ JobsOf(r)' = JobsOf(r) /\ (Creates(r)' <=> Creates(r))
           /\ \A j : Asked(j)' = Asked(j) /\ Owner(j)' = Owner(j)
           /\ \A j, k : SameKey(j, k)' <=> SameKey(j, k)
           /\ Job' = Job /\ QueueName' = QueueName
           /\ Default' = Default /\ Settings' = Settings
  <1>1. /\ \A r : Items(r)' = Items(r) /\ JobsOf(r)' = JobsOf(r) /\ (Creates(r)' <=> Creates(r))
        /\ \A j : Asked(j)' = Asked(j) /\ Owner(j)' = Owner(j)
    BY DEF Items, JobsOf, Creates, Asked, Owner
  <1>2. \A j, k : SameKey(j, k)' <=> SameKey(j, k)
    BY <1>1 DEF SameKey
  <1>3. Job' = Job
    BY <1>1 DEF Job
  <1>4. QueueName' = QueueName
    BY <1>1, <1>3 DEF QueueName
  <1>5. Default' = Default
    BY <1>1 DEF Default
  <1>6. Settings' = Settings
    BY <1>4, <1>5 DEF Settings
  <1> QED
    BY <1>1, <1>2, <1>3, <1>4, <1>5, <1>6

\* The queue a request is about to resolve is one that plans name.
LEMMA WantedIsNamed ==
    ASSUME TypeOK, NEW r \in Request, Creates(r) \/ item[r] \in Items(r)
    PROVE  Wanted(r) \in QueueName /\ (Creates(r) => plan[r].config \in Default)
  <1>1. CASE Creates(r)
    BY <1>1 DEF Wanted, QueueName, Default
  <1>2. CASE ~Creates(r)
    <2>1. <<r, item[r]>> \in Job
      BY <1>2, PlanShape DEF JobsOf
    <2> QED
      BY <1>2, <2>1 DEF Wanted, QueueName, Asked
  <1> QED
    BY <1>1, <1>2

\* A queue and its defaults, added to some.
LEMMA Added ==
    ASSUME NEW f \in Settings, NEW q \in QueueName, NEW d \in Default
    PROVE  /\ With(f, q, d) \in Settings
           /\ DOMAIN With(f, q, d) = DOMAIN f \cup {q}
           /\ With(f, q, d)[q] = d
           /\ \A n \in DOMAIN f : n # q => With(f, q, d)[n] = f[n]
           /\ DOMAIN f \subseteq QueueName
  <1>1. PICK Q \in SUBSET QueueName : f \in [Q -> Default]
    BY DEF Settings
  <1>2. With(f, q, d) \in [Q \cup {q} -> Default]
    BY <1>1 DEF With
  <1> QED
    BY <1>1, <1>2 DEF With, Settings

\* An empty transaction is one.
LEMMA NothingFits == Nothing \in [jobs : SUBSET Nat, queues : Settings] /\ DOMAIN NoQueues = {}
  <1>1. NoQueues \in [{} -> Default] /\ DOMAIN NoQueues = {}
    BY DEF NoQueues
  <1> QED
    BY <1>1 DEF Settings, Nothing

\* A function on the first numbers is a sequence.
LEMMA FunctionIsSeq ==
    ASSUME NEW S, NEW n \in Nat, NEW f \in [1..n -> S]
    PROVE  f \in Seq(S)
  OBVIOUS

\* A set of numbers has a first one.
LEMMA FirstOfNat ==
    ASSUME NEW T \in SUBSET Nat, T # {}
    PROVE  \E x \in T : \A y \in T : x <= y
  <1> DEFINE R == OpToRel(<, Nat)
  <1>1. IsWellFoundedOn(R, Nat)
    BY NatLessThanWellFounded
  <1>2. \A a, b \in Nat : a < b => <<a, b>> \in R
    BY DEF OpToRel
  <1> HIDE DEF R
  <1>3. PICK x \in T : \A y \in T : ~(<<y, x>> \in R)
    BY <1>1, WFMin, Zenon
  <1>4. \A y \in T : ~(y < x)
    BY <1>2, <1>3
  <1> QED
    BY <1>3, <1>4

\* The next item whose queue has to be resolved, or the end of the plan.
LEMMA NextItemFits ==
    ASSUME TypeOK, NEW r \in Request, item[r] \in Items(r), NEW q
    PROVE  /\ NextItem(r, q) \in (item[r] + 1)..(Len(plan[r].items) + 1)
           /\ \A k \in (item[r] + 1)..(NextItem(r, q) - 1) :
                  plan[r].items[k].queue \in DOMAIN cached[r] \cup {q}
           /\ NextItem(r, q) \notin Items(r) => NextItem(r, q) = Len(plan[r].items) + 1
  <1> DEFINE known == DOMAIN cached[r] \cup {q}
             len == Len(plan[r].items)
             from == item[r] + 1
             Stops(i) == i \notin 1..len \/ plan[r].items[i].queue \notin known
             stops == {i \in from..(len + 1) : Stops(i)}
  <1>1. len \in Nat /\ from \in 2..(len + 1)
    BY PlanShape DEF Items
  <1> HIDE DEF len, from, known
  <1>2. len + 1 \in stops /\ stops \in SUBSET Nat
    BY <1>1
  <1>3. PICK x \in stops : \A y \in stops : x <= y
    BY <1>2, FirstOfNat
  <1>4. \A k \in from..(x - 1) : ~Stops(k)
    BY <1>1, <1>3
  <1>5. \A k \in from..(x - 1) : plan[r].items[k].queue \in known
    BY <1>1, <1>3, <1>4
  <1>6. \E i \in from..(len + 1) : /\ Stops(i)
                                  /\ \A k \in from..(i - 1) : plan[r].items[k].queue \in known
    BY <1>3, <1>5
  <1>7. NextItem(r, q) = CHOOSE i \in from..(len + 1) :
                              /\ Stops(i)
                              /\ \A k \in from..(i - 1) : plan[r].items[k].queue \in known
    BY DEF NextItem, Items, len, from, known
  <1>8. /\ NextItem(r, q) \in from..(len + 1)
        /\ \A k \in from..(NextItem(r, q) - 1) : plan[r].items[k].queue \in known
    BY <1>6, <1>7
  <1> QED
    BY <1>1, <1>8 DEF Items, len, from, known

-----------------------------------------------------------------------------
(* Lemmas about steps *)

\* The types, read off a step that leaves the plans alone.
LEMMA TypeStep ==
    ASSUME TypeOK, plan' = plan,
           pc' \in [Request -> Place], item' \in [Request -> Nat],
           cached' \in [Request -> Settings], staged' \in [Request -> Seq(Nat)],
           tx' \in [Request -> [jobs : SUBSET Nat, queues : Settings]],
           answer' \in [Request -> [status : Status, jobs : SUBSET Job]],
           \A s \in Request : /\ item'[s] \in 1..(Len(plan[s].items) + 1)
                              /\ staged'[s] \in Seq(Items(s))
                              /\ tx'[s].jobs \subseteq Items(s),
           jobs' \subseteq Job, edges' \subseteq Job \X Job, queues' \in Settings,
           had' \in [QueueName -> SUBSET Default],
           \A q \in DOMAIN queues' : queues'[q] \in had'[q],
           woken' \subseteq Request
    PROVE  TypeOK'
  <1>1. /\ Job' = Job /\ Settings' = Settings /\ QueueName' = QueueName /\ Default' = Default
        /\ \A s : Items(s)' = Items(s)
    BY PlanFixed
  <1>2. /\ plan' \in [Request -> UNION {Plans[r] : r \in Request}]
        /\ \A r \in Request : plan'[r] \in Plans[r]
    BY DEF TypeOK
  <1>3. /\ cached' \in [Request -> Settings']
        /\ tx' \in [Request -> [jobs : SUBSET Nat, queues : Settings']]
        /\ answer' \in [Request -> [status : Status, jobs : SUBSET Job']]
        /\ edges' \subseteq Job' \X Job'
        /\ queues' \in Settings'
        /\ had' \in [QueueName' -> SUBSET Default']
    BY <1>1
  <1>4. \A s \in Request : /\ item'[s] \in 1..(Len(plan'[s].items) + 1)
                           /\ staged'[s] \in Seq(Items(s)')
                           /\ tx'[s].jobs \subseteq Items(s)'
    BY <1>1
  <1> QED
    BY <1>1, <1>2, <1>3, <1>4, Zenon DEF TypeOK

\* A request that a step leaves alone still fits, though others commit.
LEMMA Bystander ==
    ASSUME EnqueueInv, plan' = plan, NEW s \in Request,
           pc'[s] = pc[s], item'[s] = item[s], cached'[s] = cached[s], staged'[s] = staged[s],
           tx'[s] = tx[s], answer'[s] = answer[s], s \in woken' <=> s \in woken,
           jobs \subseteq jobs', JobsOf(s) \cap jobs' = JobsOf(s) \cap jobs,
           DOMAIN queues \subseteq DOMAIN queues', \A q \in QueueName : had[q] \subseteq had'[q]
    PROVE  OwnInv(s)'
  <1>1. OwnInv(s) /\ cached[s] \in Settings
    BY DEF EnqueueInv, TypeOK
  <1>2. DOMAIN cached[s] \subseteq QueueName
    BY <1>1 DEF Settings
  <1>3. /\ Items(s)' = Items(s) /\ JobsOf(s)' = JobsOf(s) /\ (Creates(s)' <=> Creates(s))
        /\ Wanted(s)' = Wanted(s)
        /\ \A j : Owner(j)' = Owner(j)
    BY PlanFixed DEF Wanted
  <1>4. RouteFits(s)'
    BY <1>1, <1>3 DEF OwnInv, RouteFits
  <1>5. ItemsFit(s)'
    BY <1>1, <1>3 DEF OwnInv, ItemsFit
  <1>6. CommitFits(s)'
    <2>1. (JobsOf(s) \cap jobs)' = JobsOf(s) \cap jobs
      BY <1>3
    <2> QED
      BY <1>1, <1>3, <2>1 DEF OwnInv, CommitFits
  <1>7. AnswerFits(s)'
    BY <1>1, <1>3 DEF OwnInv, AnswerFits
  <1>8. CacheFits(s)'
    BY <1>1, <1>2, <1>3 DEF OwnInv, CacheFits
  <1>9. NewQueuesFit(s)'
    BY <1>1, <1>3 DEF OwnInv, NewQueuesFit
  <1>10. DependenciesFit(s)'
    BY <1>1, <1>3 DEF OwnInv, DependenciesFit, Visible
  <1> QED
    BY <1>4, <1>5, <1>6, <1>7, <1>8, <1>9, <1>10 DEF OwnInv

\* A request that ends without a commit, or breaks off after it, takes back
\* what it has open and nothing else.
LEMMA EndsStep ==
    ASSUME EnqueueInv, NEW r \in Request, NEW st, NEW J, Answers(r, st, J),
           UNCHANGED <<plan, item, cached, tables, woken>>,
           \/ st = "failed" /\ J = {}
           \/ /\ st \in {"existing", "not_found", "conflict", "raised"}
              /\ J \subseteq jobs
              /\ pc[r] \notin {"publish", "done"}
    PROVE  EnqueueInv'
  <1>1. /\ pc' = [pc EXCEPT ![r] = "done"]
        /\ answer' = [answer EXCEPT ![r] = [status |-> st, jobs |-> J]]
        /\ staged' = [staged EXCEPT ![r] = <<>>]
        /\ tx' = [tx EXCEPT ![r] = Nothing]
        /\ UNCHANGED <<plan, item, cached, woken, jobs, edges, queues, had>>
        /\ st \in {"failed", "existing", "not_found", "conflict", "raised"} /\ J \subseteq jobs
    BY DEF Answers, Closed, tables
  <1>2. TypeOK /\ OwnInv(r)
    BY DEF EnqueueInv
  <1>3. TypeOK'
    <2>1. J \subseteq Job /\ st \in Status /\ "done" \in Place
      BY <1>1, <1>2 DEF TypeOK, Status, Place
    <2>2. /\ pc' \in [Request -> Place]
          /\ answer' \in [Request -> [status : Status, jobs : SUBSET Job]]
      BY <1>1, <1>2, <2>1 DEF TypeOK
    <2>3. staged' \in [Request -> Seq(Nat)] /\ tx' \in [Request -> [jobs : SUBSET Nat, queues : Settings]]
      BY <1>1, <1>2, NothingFits DEF TypeOK
    <2>4. \A s \in Request : staged'[s] \in Seq(Items(s)) /\ tx'[s].jobs \subseteq Items(s)
      BY <1>1, <1>2 DEF TypeOK, Nothing
    <2> QED
      BY <1>1, <1>2, <2>2, <2>3, <2>4, TypeStep DEF TypeOK
  <1>4. KeysAreUnique'
    <2>1. Inserted' \subseteq Inserted
      BY <1>1, <1>2 DEF Inserted, Nothing, TypeOK
    <2> QED
      BY <1>1, <2>1, PlanFixed DEF EnqueueInv, KeysAreUnique
  <1>5. \A s \in Request \ {r} : OwnInv(s)'
    BY <1>1, <1>2, Bystander DEF TypeOK
  <1>6. OwnInv(r)'
    <2>1. /\ pc'[r] = "done" /\ tx'[r] = Nothing /\ staged'[r] = <<>>
          /\ answer'[r].status = st /\ answer'[r].jobs = J /\ item'[r] = item[r]
          /\ Items(r)' = Items(r) /\ JobsOf(r)' = JobsOf(r)
          /\ (JobsOf(r) \cap jobs)' = JobsOf(r) \cap jobs
      BY <1>1, <1>2, PlanFixed DEF TypeOK
    <2>2. RouteFits(r)' /\ ItemsFit(r)' /\ DependenciesFit(r)'
      <3>1. Creates(r)' => cached'[r] = NoQueues
        BY <1>1, <1>2, PlanFixed DEF OwnInv, RouteFits
      <3> QED
        BY <2>1, <3>1 DEF RouteFits, ItemsFit, DependenciesFit
    <2>3. CommitFits(r)'
      BY <1>2, <2>1 DEF OwnInv, CommitFits
    <2>4. AnswerFits(r)'
      BY <1>1, <1>2, <2>1 DEF OwnInv, AnswerFits, CommitFits
    <2>5. CacheFits(r)'
      <3>1. \A i \in Items(r)' : i < item'[r] => plan'[r].items[i].queue \in DOMAIN cached'[r]
        BY <1>1, <1>2, <2>1 DEF OwnInv, CacheFits
      <3>2. JobsOf(r) \cap jobs # {} => \A q \in DOMAIN cached[r] : cached[r][q] \in had[q]
        BY <1>2, NothingFits DEF OwnInv, CacheFits, CommitFits, Nothing
      <3> QED
        BY <1>1, <2>1, <3>1, <3>2 DEF CacheFits
    <2>6. NewQueuesFit(r)'
      BY <2>1, NothingFits DEF NewQueuesFit, Nothing
    <2> QED
      BY <2>2, <2>3, <2>4, <2>5, <2>6 DEF OwnInv
  <1>7. QueuesHaveMakers'
    <2> SUFFICES ASSUME NEW q \in DOMAIN queues, ~(\E j \in jobs : Asked(j).queue = q)
                 PROVE  \E m \in Request :
                            /\ Creates(m) /\ Wanted(m)' = q
                            /\ pc'[m] \in {"publish", "done"}
                            /\ answer'[m].status \in {"open", "created", "failed"}
      BY <1>1, PlanFixed DEF QueuesHaveMakers
    <2>1. PICK m \in Request : /\ Creates(m) /\ Wanted(m) = q
                               /\ pc[m] \in {"publish", "done"}
                               /\ answer[m].status \in {"open", "created", "failed"}
      BY DEF EnqueueInv, QueuesHaveMakers
    <2>2. Wanted(m)' = q
      BY <1>1, <2>1, PlanFixed DEF Wanted
    <2> QED
      BY <1>1, <1>2, <2>1, <2>2 DEF TypeOK
  <1>8. WorkflowsAreDags'
    BY <1>1, PlanFixed DEF EnqueueInv, WorkflowsAreDags
  <1> QED
    BY <1>3, <1>4, <1>5, <1>6, <1>7, <1>8 DEF EnqueueInv

\* A step of a session that changes no table.
LEMMA SessionStep ==
    ASSUME EnqueueInv, NEW r \in Request, pc[r] \notin {"publish", "done"},
           UNCHANGED <<plan, answer, tables, woken>>,
           \A s \in Request \ {r} : /\ pc'[s] = pc[s] /\ item'[s] = item[s]
                                    /\ cached'[s] = cached[s] /\ staged'[s] = staged[s]
                                    /\ tx'[s] = tx[s],
           TypeOK', KeysAreUnique', OwnInv(r)'
    PROVE  EnqueueInv'
  <1>1. UNCHANGED <<plan, answer, woken, jobs, edges, queues, had>>
    BY DEF tables
  <1>2. \A s \in Request \ {r} : OwnInv(s)'
    BY <1>1, Bystander
  <1>3. QueuesHaveMakers'
    <2> SUFFICES ASSUME NEW q \in DOMAIN queues, ~(\E j \in jobs : Asked(j).queue = q)
                 PROVE  \E m \in Request :
                            /\ Creates(m) /\ Wanted(m)' = q
                            /\ pc'[m] \in {"publish", "done"}
                            /\ answer'[m].status \in {"open", "created", "failed"}
      BY <1>1, PlanFixed DEF QueuesHaveMakers
    <2>1. PICK m \in Request : /\ Creates(m) /\ Wanted(m) = q
                               /\ pc[m] \in {"publish", "done"}
                               /\ answer[m].status \in {"open", "created", "failed"}
      BY DEF EnqueueInv, QueuesHaveMakers
    <2>2. Wanted(m)' = q
      BY <1>1, <2>1, PlanFixed DEF Wanted
    <2> QED
      BY <1>1, <2>1, <2>2
  <1>4. WorkflowsAreDags'
    BY <1>1, PlanFixed DEF EnqueueInv, WorkflowsAreDags
  <1> QED
    BY <1>2, <1>3, <1>4 DEF EnqueueInv

\* A session that moves on without resolving or inserting anything.
LEMMA MovesOn ==
    ASSUME EnqueueInv, NEW r \in Request, NEW p \in Place, pc[r] \notin {"publish", "done"},
           pc' = [pc EXCEPT ![r] = p],
           UNCHANGED <<plan, item, cached, staged, tx, answer, tables, woken>>,
           RouteFits(r)', p \notin {"flush", "publish", "done"},
           p \in {"resolve", "create", "reselect"} /\ plan[r].batch =>
                pc[r] \in {"resolve", "create", "reselect"}
    PROVE  EnqueueInv'
  <1>1. /\ UNCHANGED <<plan, item, cached, staged, tx, answer, woken, jobs, edges, queues, had>>
        /\ TypeOK /\ OwnInv(r) /\ pc'[r] = p
        /\ \A s \in Request \ {r} : pc'[s] = pc[s]
    BY DEF tables, EnqueueInv, TypeOK
  <1>2. TypeOK'
    <2>1. pc' \in [Request -> Place]
      BY <1>1 DEF TypeOK
    <2> QED
      BY <1>1, <2>1, TypeStep DEF TypeOK
  <1>3. KeysAreUnique'
    BY <1>1, PlanFixed DEF EnqueueInv, KeysAreUnique, Inserted
  <1>4. OwnInv(r)'
    <2>1. /\ Items(r)' = Items(r) /\ JobsOf(r)' = JobsOf(r) /\ (Creates(r)' <=> Creates(r))
          /\ Wanted(r)' = Wanted(r)
          /\ (JobsOf(r) \cap jobs)' = JobsOf(r) \cap jobs
      BY <1>1, PlanFixed DEF Wanted
    <2>2. ItemsFit(r)' /\ DependenciesFit(r)'
      BY <1>1, <2>1 DEF OwnInv, ItemsFit, DependenciesFit
    <2>3. CommitFits(r)' /\ AnswerFits(r)'
      BY <1>1, <2>1 DEF OwnInv, CommitFits, AnswerFits
    <2>4. CacheFits(r)' /\ NewQueuesFit(r)'
      BY <1>1, <2>1 DEF OwnInv, CacheFits, NewQueuesFit
    <2> QED
      BY <2>2, <2>3, <2>4 DEF OwnInv
  <1> QED
    BY <1>1, <1>2, <1>3, <1>4, SessionStep

\* Resolving a queue: what was committed, or is the session's own, is cached,
\* and the items up to the next unknown queue are added.
LEMMA ResolvedStep ==
    ASSUME EnqueueInv, NEW r \in Request, NEW d \in Default,
           ~Creates(r), item[r] \in Items(r), staged[r] = <<>>,
           pc[r] \in {"resolve", "create", "reselect"},
           Resolved(r, d), UNCHANGED <<plan, answer, tables, woken>>,
           tx' \in [Request -> [jobs : SUBSET Nat, queues : Settings]],
           tx'[r].jobs = tx[r].jobs, \A s \in Request \ {r} : tx'[s] = tx[s],
           \A q \in DOMAIN tx[r].queues :
                /\ q \in DOMAIN tx'[r].queues
                /\ q # Wanted(r) => tx'[r].queues[q] = tx[r].queues[q],
           \A q \in DOMAIN tx'[r].queues : q \in DOMAIN tx[r].queues \/ q = Wanted(r),
           \/ d \in had[Wanted(r)]
           \/ Wanted(r) \in DOMAIN tx'[r].queues /\ tx'[r].queues[Wanted(r)] = d
    PROVE  EnqueueInv'
  <1> DEFINE next == NextItem(r, Wanted(r))
             new == [k \in 1..(next - item[r]) |-> item[r] + k - 1]
             len == Len(plan[r].items)
  <1>1. /\ cached' = [cached EXCEPT ![r] = With(cached[r], Wanted(r), d)]
        /\ item' = [item EXCEPT ![r] = next]
        /\ plan[r].batch =>
             /\ staged' = [staged EXCEPT ![r] = staged[r] \o new]
             /\ pc' = [pc EXCEPT ![r] = IF next \in Items(r) THEN "resolve" ELSE "flush"]
        /\ ~plan[r].batch => pc' = [pc EXCEPT ![r] = "deps"] /\ staged' = staged
    BY DEF Resolved
  <1>2. /\ TypeOK /\ OwnInv(r)
        /\ UNCHANGED <<plan, answer, woken, jobs, edges, queues, had>>
    BY DEF EnqueueInv, tables
  <1>3. /\ len \in Nat /\ plan[r].batch \in BOOLEAN /\ item[r] \in 1..len /\ Items(r) = 1..len
        /\ ~plan[r].batch => len = 1
    <2>1. /\ Len(plan[r].items) \in Nat /\ plan[r].batch \in BOOLEAN
          /\ Len(plan[r].items) # 0
      BY <1>2, PlanShape
    <2>2. Items(r) = 1..Len(plan[r].items)
      BY DEF Items
    <2>3. ~plan[r].batch => Len(plan[r].items) = 1
      BY <1>2, SingleHasOne
    <2> QED
      BY <2>1, <2>2, <2>3
  <1>4. /\ next \in (item[r] + 1)..(len + 1)
        /\ \A k \in (item[r] + 1)..(next - 1) :
              plan[r].items[k].queue \in DOMAIN cached[r] \cup {Wanted(r)}
        /\ next \notin Items(r) => next = len + 1
    BY <1>2, NextItemFits
  <1>5. /\ Wanted(r) \in QueueName /\ Wanted(r) = plan[r].items[item[r]].queue
        /\ cached[r] \in Settings
    BY <1>2, WantedIsNamed DEF Wanted, TypeOK
  <1>6. /\ With(cached[r], Wanted(r), d) \in Settings
        /\ DOMAIN With(cached[r], Wanted(r), d) = DOMAIN cached[r] \cup {Wanted(r)}
        /\ With(cached[r], Wanted(r), d)[Wanted(r)] = d
        /\ \A n \in DOMAIN cached[r] : n # Wanted(r) => With(cached[r], Wanted(r), d)[n] = cached[r][n]
    BY <1>5, Added
  <1> HIDE DEF next, len
  <1>7. /\ new \in Seq(Items(r)) /\ new \in Seq(Nat)
        /\ \A i \in item[r]..(next - 1) : \E n \in DOMAIN new : new[n] = i
    <2>1. next - item[r] \in Nat /\ \A k \in 1..(next - item[r]) : item[r] + k - 1 \in Items(r)
      BY <1>3, <1>4
    <2>2. new \in [1..(next - item[r]) -> Items(r)] /\ new \in [1..(next - item[r]) -> Nat]
      BY <1>3, <2>1
    <2>3. ASSUME NEW i \in item[r]..(next - 1)
          PROVE  \E n \in DOMAIN new : new[n] = i
      <3>1. i - item[r] + 1 \in 1..(next - item[r]) /\ item[r] + (i - item[r] + 1) - 1 = i
        BY <1>3, <1>4
      <3> QED
        BY <3>1
    <2> HIDE DEF new
    <2>4. new \in Seq(Items(r)) /\ new \in Seq(Nat)
      BY <2>1, <2>2, FunctionIsSeq
    <2> QED
      BY <2>3, <2>4
  <1> HIDE DEF new
  <1>8. /\ pc'[r] \in {"resolve", "flush", "deps"} /\ pc' \in [Request -> Place]
        /\ plan[r].batch => staged'[r] = new /\ pc'[r] = IF next \in Items(r) THEN "resolve" ELSE "flush"
        /\ ~plan[r].batch => staged'[r] = <<>> /\ pc'[r] = "deps"
        /\ item'[r] = next /\ cached'[r] = With(cached[r], Wanted(r), d)
        /\ \A s \in Request \ {r} : /\ pc'[s] = pc[s] /\ item'[s] = item[s]
                                    /\ cached'[s] = cached[s] /\ staged'[s] = staged[s]
    <2>1. staged[r] \o new = new
      BY <1>7
    <2>2. "resolve" \in Place /\ "flush" \in Place /\ "deps" \in Place
      BY DEF Place
    <2>3. CASE plan[r].batch
      <3>1. /\ pc' = [pc EXCEPT ![r] = IF next \in Items(r) THEN "resolve" ELSE "flush"]
            /\ staged' = [staged EXCEPT ![r] = new]
        BY <1>1, <2>1, <2>3
      <3> QED
        BY <1>1, <1>2, <2>2, <2>3, <3>1 DEF TypeOK
    <2>4. CASE ~plan[r].batch
      <3>1. pc' = [pc EXCEPT ![r] = "deps"] /\ staged' = staged
        BY <1>1, <2>4
      <3> QED
        BY <1>1, <1>2, <2>2, <2>4, <3>1 DEF TypeOK
    <2> QED
      BY <1>3, <2>3, <2>4
  <1>9. TypeOK'
    <2>1. item' \in [Request -> Nat] /\ cached' \in [Request -> Settings]
      BY <1>1, <1>2, <1>3, <1>4, <1>6 DEF TypeOK
    <2>2. staged' \in [Request -> Seq(Nat)]
      <3>1. staged[r] \o new = new
        BY <1>7
      <3>2. CASE plan[r].batch
        <4>1. staged' = [staged EXCEPT ![r] = new]
          BY <1>1, <3>1, <3>2
        <4> QED
          BY <1>2, <1>7, <4>1 DEF TypeOK
      <3>3. CASE ~plan[r].batch
        BY <1>1, <1>2, <3>3 DEF TypeOK
      <3> QED
        BY <1>3, <3>2, <3>3
    <2>3. ASSUME NEW s \in Request
          PROVE  /\ item'[s] \in 1..(Len(plan[s].items) + 1)
                 /\ staged'[s] \in Seq(Items(s))
                 /\ tx'[s].jobs \subseteq Items(s)
      <3>1. CASE s = r
        <4>1. item'[r] = next /\ next \in 1..(len + 1)
          BY <1>3, <1>4, <1>8
        <4>2. CASE plan[r].batch
          BY <1>2, <1>7, <1>8, <3>1, <4>1, <4>2 DEF TypeOK, len
        <4>3. CASE ~plan[r].batch
          BY <1>2, <1>8, <3>1, <4>1, <4>3 DEF TypeOK, len
        <4> QED
          BY <4>2, <4>3
      <3>2. CASE s # r
        BY <1>2, <1>8, <3>2 DEF TypeOK
      <3> QED
        BY <3>1, <3>2
    <2> QED
      BY <1>2, <1>8, <2>1, <2>2, <2>3, TypeStep DEF TypeOK
  <1>10. KeysAreUnique'
    <2>1. \A s \in Request : tx'[s].jobs = tx[s].jobs
      OBVIOUS
    <2>2. Inserted' = Inserted
      BY <1>2, <2>1 DEF Inserted
    <2> QED
      BY <1>2, <2>2, PlanFixed DEF EnqueueInv, KeysAreUnique
  <1>11. OwnInv(r)'
    <2>1. /\ Items(r)' = Items(r) /\ JobsOf(r)' = JobsOf(r) /\ ~Creates(r)'
          /\ (JobsOf(r) \cap jobs)' = JobsOf(r) \cap jobs
      BY <1>2, PlanFixed
    <2>2. RouteFits(r)'
      <3>1. CASE plan[r].batch
        BY <1>2, <1>3, <1>4, <1>8, <2>1, <3>1 DEF RouteFits, len
      <3>2. CASE ~plan[r].batch
        <4>1. next = len + 1
          BY <1>3, <1>4, <3>2
        <4> QED
          BY <1>2, <1>8, <2>1, <3>2, <4>1 DEF RouteFits, len
      <3> QED
        BY <1>3, <3>1, <3>2
    <2>3. ItemsFit(r)'
      <3> SUFFICES ASSUME plan[r].batch, NEW i \in Items(r), i < next
                   PROVE  i \in tx'[r].jobs \/ \E n \in DOMAIN staged'[r] : staged'[r][n] = i
        BY <1>2, <1>8, <2>1 DEF ItemsFit
      <3>1. CASE i < item[r]
        BY <1>2, <3>1 DEF OwnInv, ItemsFit
      <3>2. CASE i >= item[r]
        <4>1. i \in item[r]..(next - 1)
          BY <1>3, <1>4, <3>2
        <4> QED
          BY <1>7, <1>8, <4>1
      <3> QED
        BY <1>3, <3>1, <3>2
    <2>4. CommitFits(r)' /\ AnswerFits(r)'
      BY <1>2, <1>8, <2>1 DEF OwnInv, CommitFits, AnswerFits
    <2>5. CacheFits(r)'
      <3>1. ASSUME NEW i \in Items(r), i < next
            PROVE  plan[r].items[i].queue \in DOMAIN cached'[r]
        <4>1. CASE i < item[r]
          BY <1>2, <1>6, <1>8, <4>1 DEF OwnInv, CacheFits
        <4>2. CASE i = item[r]
          BY <1>5, <1>6, <1>8, <4>2
        <4>3. CASE i > item[r]
          <5>1. i \in (item[r] + 1)..(next - 1)
            BY <1>3, <1>4, <3>1, <4>3
          <5> QED
            BY <1>4, <1>6, <1>8, <5>1
        <4> QED
          BY <1>3, <4>1, <4>2, <4>3
      <3>2. ASSUME NEW q \in DOMAIN cached'[r]
            PROVE  \/ cached'[r][q] \in had[q]
                   \/ q \in DOMAIN tx'[r].queues /\ cached'[r][q] = tx'[r].queues[q]
        <4>1. CASE q = Wanted(r)
          BY <1>6, <1>8, <4>1
        <4>2. CASE q # Wanted(r)
          <5>1. q \in DOMAIN cached[r] /\ cached'[r][q] = cached[r][q]
            BY <1>6, <1>8, <4>2
          <5> QED
            BY <1>2, <4>2, <5>1 DEF OwnInv, CacheFits
        <4> QED
          BY <4>1, <4>2
      <3> QED
        BY <1>2, <1>8, <2>1, <3>1, <3>2 DEF CacheFits
    <2>6. NewQueuesFit(r)'
      BY <1>2, <1>5, <2>1 DEF OwnInv, NewQueuesFit
    <2>7. DependenciesFit(r)'
      BY <1>2, <1>8 DEF DependenciesFit
    <2> QED
      BY <2>2, <2>3, <2>4, <2>5, <2>6, <2>7 DEF OwnInv
  <1> QED
    BY <1>2, <1>8, <1>9, <1>10, <1>11, SessionStep

-----------------------------------------------------------------------------
(* The steps of a request *)

\* Whatever breaks a request off.
LEMMA BreaksOff ==
    ASSUME EnqueueInv, NEW r \in Request, Fail(r) \/ DeadlockDetected(r)
    PROVE  EnqueueInv'
  BY EndsStep DEF Fail, DeadlockDetected

\* The fast path of a key, and the way past it.
LEMMA PreCheckStep ==
    ASSUME EnqueueInv, NEW r \in Request, PreCheck(r)
    PROVE  EnqueueInv'
  <1> DEFINE existing == {j \in jobs : SameKey(<<r, 1>>, j)}
  <1>1. /\ pc[r] = "precheck" /\ existing \subseteq jobs
        /\ UNCHANGED <<plan, item, cached, tables, woken>>
        /\ \/ pc' = [pc EXCEPT ![r] = "resolve"] /\ UNCHANGED <<answer, staged, tx>>
           \/ Answers(r, "existing", existing)
    BY DEF PreCheck
  <1> HIDE DEF existing
  <1>2. CASE Answers(r, "existing", existing)
    BY <1>1, <1>2, EndsStep
  <1>3. CASE pc' = [pc EXCEPT ![r] = "resolve"] /\ UNCHANGED <<answer, staged, tx>>
    <2>1. RouteFits(r) /\ TypeOK /\ plan' = plan /\ item' = item
      BY <1>1 DEF EnqueueInv, OwnInv
    <2>2. ~Creates(r) /\ ~plan[r].batch /\ item[r] \in Items(r)
      BY <1>1, <2>1 DEF RouteFits
    <2>3. pc'[r] = "resolve" /\ "resolve" \in Place
      BY <1>3, <2>1 DEF TypeOK, Place
    <2>4. RouteFits(r)'
      BY <2>1, <2>2, <2>3, PlanFixed DEF RouteFits
    <2> QED
      BY <1>1, <1>3, <2>2, <2>3, <2>4, MovesOn
  <1> QED
    BY <1>1, <1>2, <1>3

\* A queue is found, or has to be made.
LEMMA SelectQueueStep ==
    ASSUME EnqueueInv, NEW r \in Request, SelectQueue(r)
    PROVE  EnqueueInv'
  <1>1. /\ pc[r] = "resolve" /\ staged[r] = <<>>
        /\ UNCHANGED <<plan, tx, answer, tables, woken>>
        /\ TypeOK /\ OwnInv(r)
    BY DEF SelectQueue, EnqueueInv
  <1>2. ~Creates(r) /\ item[r] \in Items(r)
    BY <1>1 DEF OwnInv, RouteFits
  <1>3. CASE Exists(r, Wanted(r))
    <2> DEFINE d == Row(r, Wanted(r))
    <2>1. Resolved(r, d)
      BY <1>3 DEF SelectQueue
    <2>2. Wanted(r) \in QueueName /\ tx[r].queues \in Settings
      BY <1>1, <1>2, WantedIsNamed DEF TypeOK
    <2>3. /\ d \in Default
          /\ d \in had[Wanted(r)] \/ (Wanted(r) \in DOMAIN tx[r].queues /\ tx[r].queues[Wanted(r)] = d)
      <3>1. CASE Wanted(r) \in DOMAIN queues
        BY <1>1, <2>2, <3>1 DEF Row, TypeOK
      <3>2. CASE Wanted(r) \notin DOMAIN queues
        <4>1. Wanted(r) \in DOMAIN tx[r].queues /\ d = tx[r].queues[Wanted(r)]
          BY <1>3, <3>2 DEF Exists, Row
        <4> QED
          BY <2>2, <4>1 DEF Settings
      <3> QED
        BY <3>1, <3>2
    <2> HIDE DEF d
    <2>4. tx' = tx /\ tx \in [Request -> [jobs : SUBSET Nat, queues : Settings]]
      BY <1>1 DEF TypeOK
    <2> QED
      BY <1>1, <1>2, <2>1, <2>3, <2>4, ResolvedStep
  <1>4. CASE ~Exists(r, Wanted(r))
    <2>1. pc' = [pc EXCEPT ![r] = "create"] /\ UNCHANGED <<item, cached, staged>>
      BY <1>4 DEF SelectQueue
    <2>2. pc'[r] = "create" /\ "create" \in Place
      BY <1>1, <2>1 DEF TypeOK, Place
    <2>3. RouteFits(r)'
      BY <1>1, <1>2, <2>1, <2>2, PlanFixed DEF RouteFits
    <2> QED
      BY <1>1, <2>1, <2>2, <2>3, MovesOn
  <1> QED
    BY <1>3, <1>4

\* The INSERT of a queue under its savepoint: lost to another, or its own.
LEMMA CreateQueueStep ==
    ASSUME EnqueueInv, NEW r \in Request, CreateQueue(r)
    PROVE  EnqueueInv'
  <1>1. /\ pc[r] = "create" /\ ~Creates(r)
        /\ UNCHANGED <<plan, answer, tables, woken>>
        /\ TypeOK /\ OwnInv(r)
    BY DEF CreateQueue, EnqueueInv
  <1>2. item[r] \in Items(r) /\ staged[r] = <<>>
    BY <1>1 DEF OwnInv, RouteFits
  <1>3. CASE /\ Wanted(r) \in DOMAIN queues
             /\ tx' = [tx EXCEPT ![r] = AfterLostRace(r)]
             /\ pc' = [pc EXCEPT ![r] = "reselect"]
             /\ UNCHANGED <<item, cached, staged>>
    <2>1. tx' = tx
      BY <1>1, <1>3 DEF TypeOK, AfterLostRace
    <2>2. pc'[r] = "reselect" /\ "reselect" \in Place
      BY <1>1, <1>3 DEF TypeOK, Place
    <2>3. Wanted(r)' = Wanted(r) /\ queues' = queues
      BY <1>1, <1>3, PlanFixed DEF Wanted, tables
    <2>4. RouteFits(r)'
      BY <1>1, <1>2, <1>3, <2>2, <2>3, PlanFixed DEF RouteFits
    <2> QED
      BY <1>1, <1>3, <2>1, <2>2, <2>4, MovesOn
  <1>4. CASE /\ Wanted(r) \notin DOMAIN queues
             /\ tx' = [tx EXCEPT ![r].queues = With(@, Wanted(r), Standard)]
             /\ Resolved(r, Standard)
    <2> DEFINE new == With(tx[r].queues, Wanted(r), Standard)
    <2>1. /\ Wanted(r) \in QueueName /\ Standard \in Default
          /\ tx[r] \in [jobs : SUBSET Nat, queues : Settings]
      BY <1>1, <1>2, WantedIsNamed DEF TypeOK, Default
    <2>2. /\ new \in Settings /\ DOMAIN new = DOMAIN tx[r].queues \cup {Wanted(r)}
          /\ new[Wanted(r)] = Standard
          /\ \A n \in DOMAIN tx[r].queues : n # Wanted(r) => new[n] = tx[r].queues[n]
      BY <2>1, Added
    <2> HIDE DEF new
    <2>3. tx' = [tx EXCEPT ![r] = [tx[r] EXCEPT !.queues = new]]
      BY <1>4 DEF new
    <2>4. /\ tx' \in [Request -> [jobs : SUBSET Nat, queues : Settings]]
          /\ tx'[r].jobs = tx[r].jobs /\ tx'[r].queues = new
          /\ \A s \in Request \ {r} : tx'[s] = tx[s]
      BY <1>1, <2>1, <2>2, <2>3 DEF TypeOK
    <2> QED
      BY <1>1, <1>2, <1>4, <2>1, <2>2, <2>4, ResolvedStep
  <1> QED
    BY <1>3, <1>4 DEF CreateQueue

\* The loser reads the winner's row.
LEMMA ReselectQueueStep ==
    ASSUME EnqueueInv, NEW r \in Request, ReselectQueue(r)
    PROVE  EnqueueInv'
  <1>1. /\ pc[r] = "reselect" /\ Resolved(r, queues[Wanted(r)])
        /\ UNCHANGED <<plan, tx, answer, tables, woken>>
        /\ TypeOK /\ OwnInv(r)
    BY DEF ReselectQueue, EnqueueInv, Reselected
  <1>2. ~Creates(r) /\ item[r] \in Items(r) /\ staged[r] = <<>> /\ Wanted(r) \in DOMAIN queues
    BY <1>1 DEF OwnInv, RouteFits
  <1>3. queues[Wanted(r)] \in had[Wanted(r)] /\ Wanted(r) \in QueueName
    BY <1>1, <1>2, WantedIsNamed DEF TypeOK
  <1>4. /\ queues[Wanted(r)] \in Default /\ tx' = tx
        /\ tx \in [Request -> [jobs : SUBSET Nat, queues : Settings]]
    BY <1>1, <1>3 DEF TypeOK
  <1> QED
    BY <1>1, <1>2, <1>3, <1>4, ResolvedStep

\* A configured queue is refused, or is its request's own until the commit.
LEMMA CreateConfiguredStep ==
    ASSUME EnqueueInv, NEW r \in Request, CreateConfigured(r)
    PROVE  EnqueueInv'
  <1>1. /\ pc[r] = "create" /\ Creates(r)
        /\ UNCHANGED <<plan, item, cached, tables, woken>>
        /\ TypeOK /\ OwnInv(r)
    BY DEF CreateConfigured, EnqueueInv
  <1>2. CASE Answers(r, "conflict", {})
    BY <1>1, <1>2, EndsStep
  <1>3. CASE /\ Wanted(r) \notin DOMAIN queues
             /\ tx' = [tx EXCEPT ![r].queues = With(@, Wanted(r), plan[r].config)]
             /\ pc' = [pc EXCEPT ![r] = "flush"]
             /\ UNCHANGED <<staged, answer>>
    <2> DEFINE new == With(tx[r].queues, Wanted(r), plan[r].config)
    <2>1. /\ Wanted(r) \in QueueName /\ plan[r].config \in Default
          /\ tx[r] \in [jobs : SUBSET Nat, queues : Settings]
      BY <1>1, WantedIsNamed DEF TypeOK
    <2>2. new \in Settings /\ DOMAIN new = DOMAIN tx[r].queues \cup {Wanted(r)}
      BY <2>1, Added
    <2> HIDE DEF new
    <2>3. tx' = [tx EXCEPT ![r] = [tx[r] EXCEPT !.queues = new]]
      BY <1>3 DEF new
    <2>4. /\ tx' \in [Request -> [jobs : SUBSET Nat, queues : Settings]]
          /\ tx'[r].jobs = tx[r].jobs /\ tx'[r].queues = new
          /\ \A s \in Request \ {r} : tx'[s] = tx[s]
      BY <1>1, <2>1, <2>2, <2>3 DEF TypeOK
    <2>5. /\ pc'[r] = "flush" /\ pc' \in [Request -> Place]
          /\ \A s \in Request \ {r} : pc'[s] = pc[s]
      BY <1>1, <1>3 DEF TypeOK, Place
    <2>6. UNCHANGED <<plan, item, cached, staged, answer, woken, jobs, edges, queues, had>>
      BY <1>1, <1>3 DEF tables
    <2>7. TypeOK'
      <3>1. \A s \in Request : tx'[s].jobs \subseteq Items(s)
        BY <1>1, <2>4 DEF TypeOK
      <3> QED
        BY <1>1, <2>4, <2>5, <2>6, <3>1, TypeStep DEF TypeOK
    <2>8. KeysAreUnique'
      <3>1. \A s \in Request : tx'[s].jobs = tx[s].jobs
        BY <2>4
      <3>2. Inserted' = Inserted
        BY <2>6, <3>1 DEF Inserted
      <3> QED
        BY <2>6, <3>2, PlanFixed DEF EnqueueInv, KeysAreUnique
    <2>9. OwnInv(r)'
      <3>1. /\ Items(r)' = {} /\ JobsOf(r)' = JobsOf(r) /\ Creates(r)' /\ Wanted(r)' = Wanted(r)
            /\ (JobsOf(r) \cap jobs)' = JobsOf(r) \cap jobs
        <4>1. Len(plan[r].items) = 0
          BY <1>1, PlanShape
        <4>2. Items(r) = {}
          BY <4>1 DEF Items
        <4> QED
          BY <1>1, <2>6, <4>2, PlanFixed DEF Wanted
      <3>2. ~plan[r].batch
        BY <1>1, PlanShape
      <3>3. RouteFits(r)' /\ ItemsFit(r)' /\ DependenciesFit(r)'
        BY <1>1, <2>5, <2>6, <3>1, <3>2 DEF OwnInv, RouteFits, ItemsFit, DependenciesFit
      <3>4. CommitFits(r)' /\ AnswerFits(r)'
        BY <1>1, <2>5, <2>6, <3>1 DEF OwnInv, CommitFits, AnswerFits
      <3>5. CacheFits(r)'
        <4>1. DOMAIN cached'[r] = {}
          BY <1>1, <2>6, NothingFits DEF OwnInv, RouteFits
        <4> QED
          BY <3>1, <4>1 DEF CacheFits
      <3>6. NewQueuesFit(r)'
        BY <1>1, <2>2, <2>4, <3>1 DEF OwnInv, NewQueuesFit
      <3> QED
        BY <3>3, <3>4, <3>5, <3>6 DEF OwnInv
    <2> QED
      BY <1>1, <2>4, <2>5, <2>6, <2>7, <2>8, <2>9, SessionStep
  <1> QED
    BY <1>2, <1>3 DEF CreateConfigured

\* A single job is added once all it depends on are its owner's.
LEMMA CheckDependenciesStep ==
    ASSUME EnqueueInv, NEW r \in Request, CheckDependencies(r)
    PROVE  EnqueueInv'
  <1>1. /\ pc[r] = "deps"
        /\ UNCHANGED <<plan, item, cached, tables, woken>>
        /\ TypeOK /\ OwnInv(r)
    BY DEF CheckDependencies, EnqueueInv
  <1>2. CASE Answers(r, "not_found", {})
    BY <1>1, <1>2, EndsStep
  <1>3. CASE /\ plan[r].items[1].after \subseteq Visible(r)
             /\ staged' = [staged EXCEPT ![r] = <<1>>]
             /\ pc' = [pc EXCEPT ![r] = "flush"]
             /\ UNCHANGED <<answer, tx>>
    <2>1. UNCHANGED <<plan, item, cached, tx, answer, woken, jobs, edges, queues, had>>
      BY <1>1, <1>3 DEF tables
    <2>2. /\ pc'[r] = "flush" /\ pc' \in [Request -> Place] /\ staged'[r] = <<1>>
          /\ \A s \in Request \ {r} : pc'[s] = pc[s] /\ staged'[s] = staged[s]
      BY <1>1, <1>3 DEF TypeOK, Place
    <2>3. ~Creates(r) /\ ~plan[r].batch /\ item[r] = Len(plan[r].items) + 1
      BY <1>1 DEF OwnInv, RouteFits
    <2>4. Items(r) = {1}
      <3>1. Len(plan[r].items) = 1
        BY <1>1, <2>3, SingleHasOne
      <3> QED
        BY <3>1 DEF Items
    <2>5. TypeOK'
      <3>1. <<1>> \in Seq(Nat) /\ <<1>> \in Seq({1})
        OBVIOUS
      <3>2. staged' \in [Request -> Seq(Nat)]
        BY <1>1, <1>3, <3>1 DEF TypeOK
      <3>3. \A s \in Request : staged'[s] \in Seq(Items(s))
        BY <1>1, <2>2, <2>4, <3>1 DEF TypeOK
      <3> QED
        BY <1>1, <2>1, <2>2, <3>2, <3>3, TypeStep DEF TypeOK
    <2>6. KeysAreUnique'
      BY <2>1, PlanFixed DEF EnqueueInv, KeysAreUnique, Inserted
    <2>7. OwnInv(r)'
      <3>1. /\ Items(r)' = {1} /\ JobsOf(r)' = JobsOf(r) /\ ~Creates(r)'
            /\ (JobsOf(r) \cap jobs)' = JobsOf(r) \cap jobs
            /\ Visible(r)' = Visible(r)
        BY <2>1, <2>3, <2>4, PlanFixed DEF Visible
      <3>2. RouteFits(r)'
        BY <2>1, <2>2, <2>3, <3>1 DEF RouteFits
      <3>3. ItemsFit(r)'
        <4>1. 1 \in DOMAIN staged'[r] /\ staged'[r][1] = 1
          BY <2>2
        <4> QED
          BY <3>1, <4>1 DEF ItemsFit
      <3>4. CommitFits(r)' /\ AnswerFits(r)'
        BY <1>1, <2>1, <2>2, <3>1 DEF OwnInv, CommitFits, AnswerFits
      <3>5. CacheFits(r)' /\ NewQueuesFit(r)'
        <4>1. Wanted(r)' = Wanted(r) /\ Items(r)' = Items(r) /\ (Creates(r)' <=> Creates(r))
          BY <2>1, PlanFixed DEF Wanted
        <4> QED
          BY <1>1, <2>1, <2>2, <3>1, <4>1 DEF OwnInv, CacheFits, NewQueuesFit
      <3>6. DependenciesFit(r)'
        BY <1>3, <2>1, <3>1 DEF DependenciesFit
      <3> QED
        BY <3>2, <3>3, <3>4, <3>5, <3>6 DEF OwnInv
    <2> QED
      BY <1>1, <2>1, <2>2, <2>5, <2>6, <2>7, SessionStep
  <1> QED
    BY <1>2, <1>3 DEF CheckDependencies

\* An INSERT goes through when no row, committed or open, has its key.
LEMMA InsertJobStep ==
    ASSUME EnqueueInv, NEW r \in Request, InsertJob(r)
    PROVE  EnqueueInv'
  <1> DEFINE h == Head(staged[r])
             rest == Tail(staged[r])
  <1>1. /\ pc[r] \in {"resolve", "flush"} /\ staged[r] # <<>>
        /\ WaitsForKey(r) = {} /\ ~Taken(r, h)
        /\ tx' = [tx EXCEPT ![r] = [tx[r] EXCEPT !.jobs = tx[r].jobs \cup {h}]]
        /\ staged' = [staged EXCEPT ![r] = rest]
        /\ UNCHANGED <<plan, pc, item, cached, answer, tables, woken>>
        /\ TypeOK /\ OwnInv(r)
    BY DEF InsertJob, Inserting, EnqueueInv
  <1>2. /\ h \in Items(r) /\ h \in Nat /\ rest \in Seq(Items(r)) /\ rest \in Seq(Nat)
        /\ \A n \in DOMAIN staged[r] : staged[r][n] = h \/ \E m \in DOMAIN rest : rest[m] = staged[r][n]
    <2>1. staged[r] \in Seq(Items(r)) /\ staged[r] \in Seq(Nat)
      BY <1>1 DEF TypeOK
    <2>2. h \in Items(r) /\ h \in Nat /\ rest \in Seq(Items(r)) /\ rest \in Seq(Nat)
      BY <1>1, <2>1
    <2>3. ASSUME NEW n \in DOMAIN staged[r], n # 1
          PROVE  n - 1 \in DOMAIN rest /\ rest[n - 1] = staged[r][n]
      BY <1>1, <2>1, <2>3
    <2>4. staged[r][1] = h
      BY <1>1, <2>1
    <2> QED
      BY <2>2, <2>3, <2>4
  <1>3. /\ ~(\E j \in jobs : SameKey(<<r, h>>, j))
        /\ ~(\E k \in tx[r].jobs : SameKey(<<r, h>>, <<r, k>>))
        /\ \A s \in Request \ {r} : ~(\E i \in tx[s].jobs : SameKey(<<r, h>>, <<s, i>>))
    BY <1>1 DEF Taken, WaitsForKey
  <1> HIDE DEF h, rest
  <1>4. UNCHANGED <<plan, pc, item, cached, answer, woken, jobs, edges, queues, had>>
    BY <1>1 DEF tables
  <1>5. /\ tx' \in [Request -> [jobs : SUBSET Nat, queues : Settings]]
        /\ tx'[r].jobs = tx[r].jobs \cup {h} /\ tx'[r].queues = tx[r].queues
        /\ staged'[r] = rest /\ staged' \in [Request -> Seq(Nat)]
        /\ \A s \in Request \ {r} : tx'[s] = tx[s] /\ staged'[s] = staged[s]
    <2>1. tx[r] \in [jobs : SUBSET Nat, queues : Settings]
      BY <1>1 DEF TypeOK
    <2>2. [tx[r] EXCEPT !.jobs = tx[r].jobs \cup {h}] \in [jobs : SUBSET Nat, queues : Settings]
      BY <1>2, <2>1
    <2> QED
      BY <1>1, <1>2, <2>1, <2>2 DEF TypeOK
  <1>6. TypeOK'
    <2>1. \A s \in Request : tx'[s].jobs \subseteq Items(s) /\ staged'[s] \in Seq(Items(s))
      BY <1>1, <1>2, <1>5 DEF TypeOK
    <2> QED
      BY <1>1, <1>4, <1>5, <2>1, TypeStep DEF TypeOK
  <1>7. KeysAreUnique'
    <2>1. Inserted' \subseteq Inserted \cup {<<r, h>>}
      <3>1. ASSUME NEW s \in Request, NEW i \in tx'[s].jobs
            PROVE  <<s, i>> \in Inserted \cup {<<r, h>>}
        <4>1. CASE s = r
          BY <1>5, <3>1, <4>1 DEF Inserted
        <4>2. CASE s # r
          BY <1>5, <3>1, <4>2 DEF Inserted
        <4> QED
          BY <4>1, <4>2
      <3>2. jobs' \subseteq Inserted
        BY <1>4 DEF Inserted
      <3> QED
        BY <3>1, <3>2 DEF Inserted
    <2>2. \A j \in Inserted : ~SameKey(<<r, h>>, j)
      BY <1>3 DEF Inserted
    <2>3. \A j, k : SameKey(j, k) => SameKey(k, j)
      BY DEF SameKey
    <2>4. \A j, k \in Inserted : SameKey(j, k) => j = k
      BY DEF EnqueueInv, KeysAreUnique
    <2>5. \A j, k : SameKey(j, k)' <=> SameKey(j, k)
      BY <1>4, PlanFixed
    <2> QED
      BY <2>1, <2>2, <2>3, <2>4, <2>5 DEF KeysAreUnique
  <1>8. OwnInv(r)'
    <2>1. /\ Items(r)' = Items(r) /\ JobsOf(r)' = JobsOf(r) /\ (Creates(r)' <=> Creates(r))
          /\ (JobsOf(r) \cap jobs)' = JobsOf(r) \cap jobs
          /\ Visible(r)' = Visible(r) /\ Wanted(r)' = Wanted(r)
      BY <1>4, PlanFixed DEF Visible, Wanted
    <2>2. RouteFits(r)' /\ DependenciesFit(r)'
      BY <1>1, <1>4, <2>1 DEF OwnInv, RouteFits, DependenciesFit
    <2>3. ItemsFit(r)'
      <3>1. ASSUME NEW i \in Items(r), i < item[r], plan[r].batch \/ pc[r] = "flush"
            PROVE  i \in tx'[r].jobs \/ \E n \in DOMAIN staged'[r] : staged'[r][n] = i
        <4>1. i \in tx[r].jobs \/ \E n \in DOMAIN staged[r] : staged[r][n] = i
          BY <1>1, <3>1 DEF OwnInv, ItemsFit
        <4> QED
          BY <1>2, <1>5, <4>1
      <3> QED
        BY <1>4, <2>1, <3>1 DEF ItemsFit
    <2>4. CommitFits(r)' /\ AnswerFits(r)'
      BY <1>1, <1>4, <2>1 DEF OwnInv, CommitFits, AnswerFits
    <2>5. CacheFits(r)' /\ NewQueuesFit(r)'
      BY <1>1, <1>4, <1>5, <2>1 DEF OwnInv, CacheFits, NewQueuesFit
    <2> QED
      BY <2>2, <2>3, <2>4, <2>5 DEF OwnInv
  <1> QED
    BY <1>1, <1>4, <1>5, <1>6, <1>7, <1>8, SessionStep

\* ... and is refused or raises otherwise.
LEMMA InsertCollidesStep ==
    ASSUME EnqueueInv, NEW r \in Request, InsertCollides(r)
    PROVE  EnqueueInv'
  <1>1. /\ pc[r] \notin {"publish", "done"} /\ Answers(r, OnCollision(r), {})
        /\ OnCollision(r) \in {"conflict", "raised"}
        /\ UNCHANGED <<plan, item, cached, tables, woken>>
    BY DEF InsertCollides, Inserting, OnCollision
  <1> QED
    BY <1>1, EndsStep

\* The commit: every row of the request at once, and none twice.
LEMMA CommitStep ==
    ASSUME EnqueueInv, NEW r \in Request, Commit(r)
    PROVE  EnqueueInv'
  <1> DEFINE new == tx[r].queues
             E == NewEdges(r)
  <1>1. /\ pc[r] = "flush" /\ staged[r] = <<>>
        /\ jobs' = jobs \cup {<<r, i>> : i \in tx[r].jobs}
        /\ edges' = edges \cup E
        /\ queues' = [q \in DOMAIN queues \cup DOMAIN new |->
                        IF q \in DOMAIN new THEN new[q] ELSE queues[q]]
        /\ had' = [q \in QueueName |-> IF q \in DOMAIN new THEN had[q] \cup {new[q]} ELSE had[q]]
        /\ tx' = [tx EXCEPT ![r] = Nothing]
        /\ pc' = [pc EXCEPT ![r] = "publish"]
        /\ UNCHANGED <<plan, item, cached, staged, answer, woken>>
        /\ TypeOK /\ OwnInv(r)
    BY DEF Commit, Flushed, EnqueueInv
  <1>2. new \in Settings /\ queues \in Settings /\ tx[r].jobs \subseteq Items(r)
    BY <1>1 DEF TypeOK
  <1>3. PICK Q \in SUBSET QueueName : new \in [Q -> Default]
    BY <1>2 DEF Settings
  <1>4. PICK P \in SUBSET QueueName : queues \in [P -> Default]
    BY <1>2 DEF Settings
  <1>5. tx[r].jobs = Items(r)
    <2>1. CASE Creates(r)
      <3>1. Items(r) = {}
        BY <1>1, <2>1, PlanShape DEF Items
      <3> QED
        BY <1>2, <3>1
    <2>2. CASE ~Creates(r)
      <3>1. item[r] = Len(plan[r].items) + 1 /\ Len(plan[r].items) \in Nat
        BY <1>1, <2>2, PlanShape DEF OwnInv, RouteFits
      <3>2. \A i \in Items(r) : i < item[r]
        BY <3>1 DEF Items
      <3>3. DOMAIN staged[r] = {}
        BY <1>1
      <3> QED
        BY <1>1, <1>2, <3>2, <3>3 DEF OwnInv, ItemsFit
    <2> QED
      BY <2>1, <2>2
  <1>6. jobs' = jobs \cup JobsOf(r) /\ JobsOf(r) \cap jobs = {} /\ JobsOf(r) \subseteq Job
    BY <1>1, <1>5, PlanShape DEF JobsOf, OwnInv, CommitFits
  <1>7. \A s \in Request \ {r} : JobsOf(s) \cap jobs' = JobsOf(s) \cap jobs
    BY <1>6 DEF JobsOf
  <1>8. \A e \in E : /\ e[1] = <<r, 1>> /\ e[1] \in JobsOf(r)
                     /\ e[2] \in jobs /\ Owner(e[2]) = Owner(e[1])
                     /\ e = <<e[1], e[2]>>
    <2> SUFFICES ASSUME NEW e \in E PROVE /\ e[1] = <<r, 1>> /\ e[1] \in JobsOf(r)
                                           /\ e[2] \in jobs /\ Owner(e[2]) = Owner(e[1])
                                           /\ e = <<e[1], e[2]>>
      OBVIOUS
    <2>1. ~plan[r].batch /\ ~Creates(r) /\ e \in {<<r, 1>>} \X plan[r].items[1].after
      BY DEF NewEdges
    <2>2. plan[r].items[1].after \subseteq Visible(r)
      BY <1>1, <2>1 DEF OwnInv, DependenciesFit
    <2>3. 1 \in Items(r)
      BY <1>1, <2>1, SingleHasOne DEF Items
    <2> QED
      BY <2>1, <2>2, <2>3 DEF Visible, Owner, JobsOf
  <1> HIDE DEF new, E
  <1>9. /\ pc'[r] = "publish" /\ pc' \in [Request -> Place] /\ tx'[r] = Nothing
        /\ \A s \in Request \ {r} : pc'[s] = pc[s] /\ tx'[s] = tx[s]
        /\ tx' \in [Request -> [jobs : SUBSET Nat, queues : Settings]]
    BY <1>1, NothingFits DEF TypeOK, Place
  <1>10. /\ queues' \in [Q \cup P -> Default] /\ had' \in [QueueName -> SUBSET Default]
         /\ DOMAIN queues \subseteq DOMAIN queues'
         /\ \A q \in QueueName : had[q] \subseteq had'[q]
         /\ \A q \in DOMAIN queues' : queues'[q] \in had'[q]
         /\ \A q \in DOMAIN new : q \in QueueName /\ new[q] \in had'[q]
    <2>1. had \in [QueueName -> SUBSET Default] /\ \A q \in DOMAIN queues : queues[q] \in had[q]
      BY <1>1 DEF TypeOK
    <2>2. queues' \in [Q \cup P -> Default]
      BY <1>1, <1>3, <1>4
    <2>3. had' \in [QueueName -> SUBSET Default]
      BY <1>1, <1>3, <2>1
    <2>4. \A q \in DOMAIN queues' : queues'[q] \in had'[q]
      BY <1>1, <1>3, <1>4, <2>1
    <2> QED
      BY <1>1, <1>3, <1>4, <2>1, <2>2, <2>3, <2>4
  <1>11. TypeOK'
    <2>1. queues' \in Settings
      BY <1>10 DEF Settings
    <2>2. jobs' \subseteq Job
      BY <1>1, <1>6 DEF TypeOK
    <2>3. edges' \subseteq Job \X Job
      <3>1. \A e \in E : e \in Job \X Job
        BY <1>1, <1>6, <1>8 DEF TypeOK
      <3> QED
        BY <1>1, <3>1 DEF TypeOK
    <2>4. \A s \in Request : tx'[s].jobs \subseteq Items(s)
      BY <1>1, <1>9 DEF TypeOK, Nothing
    <2> QED
      BY <1>1, <1>9, <1>10, <2>1, <2>2, <2>3, <2>4, TypeStep DEF TypeOK
  <1>12. KeysAreUnique'
    <2>1. Inserted' \subseteq Inserted
      <3>1. ASSUME NEW s \in Request, NEW i \in tx'[s].jobs PROVE <<s, i>> \in Inserted
        <4>1. CASE s = r
          BY <1>9, <3>1, <4>1 DEF Nothing
        <4>2. CASE s # r
          BY <1>9, <3>1, <4>2 DEF Inserted
        <4> QED
          BY <4>1, <4>2
      <3>2. jobs' \subseteq Inserted
        BY <1>1 DEF Inserted
      <3> QED
        BY <3>1, <3>2 DEF Inserted
    <2> QED
      BY <1>1, <2>1, PlanFixed DEF EnqueueInv, KeysAreUnique
  <1>13. \A s \in Request \ {r} : OwnInv(s)'
    BY <1>1, <1>6, <1>7, <1>9, <1>10, Bystander
  <1>14. OwnInv(r)'
    <2>1. /\ Items(r)' = Items(r) /\ JobsOf(r)' = JobsOf(r) /\ (Creates(r)' <=> Creates(r))
          /\ (JobsOf(r) \cap jobs)' = JobsOf(r)
      BY <1>1, <1>6, PlanFixed
    <2>2. RouteFits(r)' /\ ItemsFit(r)' /\ DependenciesFit(r)'
      BY <1>1, <1>9, <2>1 DEF OwnInv, RouteFits, ItemsFit, DependenciesFit
    <2>3. CommitFits(r)'
      <3>1. ~Creates(r) => item[r] = Len(plan[r].items) + 1
        BY <1>1 DEF OwnInv, RouteFits
      <3>2. Creates(r) => JobsOf(r) = {}
        <4>1. Creates(r) => Len(plan[r].items) = 0
          BY <1>1, PlanShape
        <4> QED
          BY <4>1 DEF JobsOf, Items
      <3> QED
        BY <1>1, <1>6, <1>9, <2>1, <3>1, <3>2 DEF OwnInv, CommitFits
    <2>4. AnswerFits(r)'
      BY <1>1, <1>6, <2>1 DEF OwnInv, AnswerFits, CommitFits
    <2>5. CacheFits(r)'
      <3>1. DOMAIN cached[r] \subseteq QueueName
        BY <1>1 DEF TypeOK, Settings
      <3>2. \A q \in DOMAIN cached[r] : cached[r][q] \in had'[q]
        BY <1>1, <1>10, <3>1 DEF OwnInv, CacheFits, new
      <3> QED
        BY <1>1, <2>1, <3>2 DEF OwnInv, CacheFits
    <2>6. NewQueuesFit(r)'
      BY <1>9, NothingFits DEF NewQueuesFit, Nothing
    <2> QED
      BY <2>2, <2>3, <2>4, <2>5, <2>6 DEF OwnInv
  <1>15. QueuesHaveMakers'
    <2> SUFFICES ASSUME NEW q \in DOMAIN queues'
                 PROVE  \/ \E j \in jobs' : Asked(j).queue = q
                        \/ \E m \in Request :
                            /\ Creates(m) /\ Wanted(m) = q
                            /\ pc'[m] \in {"publish", "done"}
                            /\ answer'[m].status \in {"open", "created", "failed"}
      <3>1. \A m : Wanted(m)' = Wanted(m)
        BY <1>1, PlanFixed DEF Wanted
      <3> QED
        BY <1>1, <3>1, PlanFixed DEF QueuesHaveMakers
    <2>1. CASE q \in DOMAIN new /\ Creates(r)
      BY <1>1, <1>9, <2>1 DEF OwnInv, NewQueuesFit, CommitFits, new
    <2>2. CASE q \in DOMAIN new /\ ~Creates(r)
      <3>1. PICK i \in Items(r) : plan[r].items[i].queue = q
        BY <1>1, <2>2 DEF OwnInv, NewQueuesFit, new
      <3>2. <<r, i>> \in jobs' /\ Asked(<<r, i>>).queue = q
        BY <1>6, <3>1 DEF JobsOf, Asked
      <3> QED
        BY <3>2
    <2>3. CASE q \notin DOMAIN new
      <3>1. q \in DOMAIN queues
        BY <1>1, <2>3
      <3>2. CASE \E j \in jobs : Asked(j).queue = q
        BY <1>1, <3>2
      <3>3. CASE \E m \in Request :
                    /\ Creates(m) /\ Wanted(m) = q
                    /\ pc[m] \in {"publish", "done"}
                    /\ answer[m].status \in {"open", "created", "failed"}
        BY <1>1, <1>9, <3>3
      <3> QED
        BY <3>1, <3>2, <3>3 DEF EnqueueInv, QueuesHaveMakers
    <2> QED
      BY <2>1, <2>2, <2>3
  <1>16. WorkflowsAreDags'
    <2>1. /\ \A e \in edges : e[1] \in jobs /\ e[2] \in jobs /\ Owner(e[1]) = Owner(e[2])
          /\ \A C \in (SUBSET {e[1] : e \in edges}) \ {{}} :
                \E j \in C : \A k \in C : <<j, k>> \notin edges
      BY DEF EnqueueInv, WorkflowsAreDags
    <2>2. \A e \in edges' : e[1] \in jobs' /\ e[2] \in jobs' /\ Owner(e[1]) = Owner(e[2])
      BY <1>1, <1>6, <1>8, <2>1
    <2>3. ASSUME NEW C \in (SUBSET {e[1] : e \in edges'}) \ {{}}
          PROVE  \E j \in C : \A k \in C : <<j, k>> \notin edges'
      <3>1. <<r, 1>> \notin jobs \/ E = {}
        BY <1>6, <1>8
      <3>2. CASE E = {}
        BY <1>1, <2>1, <3>2
      <3>3. CASE E # {} /\ C = {<<r, 1>>}
        BY <1>1, <1>8, <2>1, <3>1, <3>3
      <3>4. CASE E # {} /\ C # {<<r, 1>>}
        <4> DEFINE D == C \ {<<r, 1>>}
        <4>1. D \in (SUBSET {e[1] : e \in edges}) \ {{}}
          BY <1>1, <1>8, <3>4
        <4>2. PICK j \in D : \A k \in D : <<j, k>> \notin edges
          BY <2>1, <4>1
        <4>3. <<j, <<r, 1>>>> \notin edges
          BY <2>1, <3>1, <3>4
        <4>4. \A k : <<j, k>> \notin E
          BY <1>8, <4>2
        <4> QED
          BY <1>1, <4>2, <4>3, <4>4
      <3> QED
        BY <3>2, <3>3, <3>4
    <2> QED
      BY <1>1, <2>2, <2>3, PlanFixed DEF WorkflowsAreDags
  <1> QED
    BY <1>11, <1>12, <1>13, <1>14, <1>15, <1>16 DEF EnqueueInv

\* The wake and the answer come after the commit.
LEMMA PublishStep ==
    ASSUME EnqueueInv, NEW r \in Request, Publish(r)
    PROVE  EnqueueInv'
  <1>1. /\ pc[r] = "publish" /\ TypeOK /\ OwnInv(r)
        /\ pc' = [pc EXCEPT ![r] = "done"]
        /\ answer' = [answer EXCEPT ![r] = [status |-> "created", jobs |-> JobsOf(r)]]
        /\ staged' = [staged EXCEPT ![r] = <<>>]
        /\ tx' = [tx EXCEPT ![r] = Nothing]
        /\ woken' \in {woken, woken \cup {r}}
        /\ UNCHANGED <<plan, item, cached, jobs, edges, queues, had>>
    BY DEF Publish, Answers, Closed, EnqueueInv, tables
  <1>2. /\ tx[r] = Nothing /\ staged[r] = <<>> /\ JobsOf(r) \subseteq jobs
        /\ JobsOf(r) \subseteq Job /\ answer[r].status = "open"
    BY <1>1, PlanShape DEF OwnInv, CommitFits
  <1>3. tx' = tx /\ staged' = staged
    BY <1>1, <1>2 DEF TypeOK
  <1>4. /\ pc'[r] = "done" /\ pc' \in [Request -> Place]
        /\ answer'[r].status = "created" /\ answer'[r].jobs = JobsOf(r)
        /\ answer' \in [Request -> [status : Status, jobs : SUBSET Job]]
        /\ \A s \in Request \ {r} : /\ pc'[s] = pc[s] /\ answer'[s] = answer[s]
                                    /\ s \in woken' <=> s \in woken
    <2>1. "done" \in Place /\ "created" \in Status
      BY DEF Place, Status
    <2> QED
      BY <1>1, <1>2, <2>1 DEF TypeOK
  <1>5. TypeOK'
    BY <1>1, <1>3, <1>4, TypeStep DEF TypeOK
  <1>6. KeysAreUnique'
    BY <1>1, <1>3, PlanFixed DEF EnqueueInv, KeysAreUnique, Inserted
  <1>7. \A s \in Request \ {r} : OwnInv(s)'
    BY <1>1, <1>3, <1>4, Bystander
  <1>8. OwnInv(r)'
    <2>1. /\ Items(r)' = Items(r) /\ JobsOf(r)' = JobsOf(r) /\ (Creates(r)' <=> Creates(r))
          /\ (JobsOf(r) \cap jobs)' = JobsOf(r)
      BY <1>1, <1>2, PlanFixed
    <2>2. RouteFits(r)' /\ ItemsFit(r)' /\ DependenciesFit(r)'
      BY <1>1, <1>4, <2>1 DEF OwnInv, RouteFits, ItemsFit, DependenciesFit
    <2>3. CommitFits(r)' /\ AnswerFits(r)'
      <3>1. JobsOf(r) \cap jobs # {} => item[r] = Len(plan[r].items) + 1
        BY <1>1 DEF OwnInv, CommitFits
      <3> QED
        BY <1>1, <1>2, <1>3, <1>4, <2>1, <3>1 DEF CommitFits, AnswerFits
    <2>4. CacheFits(r)'
      BY <1>1, <1>3, <2>1 DEF OwnInv, CacheFits
    <2>5. NewQueuesFit(r)'
      BY <1>2, <1>3, NothingFits DEF NewQueuesFit, Nothing
    <2> QED
      BY <2>2, <2>3, <2>4, <2>5 DEF OwnInv
  <1>9. QueuesHaveMakers'
    <2>1. \A m : Wanted(m)' = Wanted(m)
      BY <1>1, PlanFixed DEF Wanted
    <2> SUFFICES ASSUME NEW q \in DOMAIN queues, ~(\E j \in jobs : Asked(j).queue = q)
                 PROVE  \E m \in Request :
                            /\ Creates(m) /\ Wanted(m) = q
                            /\ pc'[m] \in {"publish", "done"}
                            /\ answer'[m].status \in {"open", "created", "failed"}
      BY <1>1, <2>1, PlanFixed DEF QueuesHaveMakers
    <2>2. PICK m \in Request : /\ Creates(m) /\ Wanted(m) = q
                               /\ pc[m] \in {"publish", "done"}
                               /\ answer[m].status \in {"open", "created", "failed"}
      BY DEF EnqueueInv, QueuesHaveMakers
    <2> QED
      BY <1>4, <2>2
  <1>10. WorkflowsAreDags'
    BY <1>1, PlanFixed DEF EnqueueInv, WorkflowsAreDags
  <1> QED
    BY <1>5, <1>6, <1>7, <1>8, <1>9, <1>10 DEF EnqueueInv

\* The defaults of a queue are edited under everybody.
LEMMA UpdateStep ==
    ASSUME EnqueueInv, NEW q \in QueueName, Update(q)
    PROVE  EnqueueInv'
  <1>1. /\ q \in DOMAIN queues /\ TypeOK
        /\ queues' = [queues EXCEPT ![q] = Patched]
        /\ had' = [had EXCEPT ![q] = had[q] \cup {Patched}]
        /\ UNCHANGED <<plan, pc, item, cached, staged, tx, answer, jobs, edges, woken>>
    BY DEF Update, EnqueueInv, session
  <1>2. PICK P \in SUBSET QueueName : queues \in [P -> Default]
    BY <1>1 DEF TypeOK, Settings
  <1>3. /\ queues' \in [P -> Default] /\ DOMAIN queues' = DOMAIN queues
        /\ had' \in [QueueName -> SUBSET Default]
        /\ \A n \in QueueName : had[n] \subseteq had'[n]
        /\ \A n \in DOMAIN queues' : queues'[n] \in had'[n]
    <2>1. Patched \in Default
      BY DEF Default
    <2>2. had \in [QueueName -> SUBSET Default] /\ \A n \in DOMAIN queues : queues[n] \in had[n]
      BY <1>1 DEF TypeOK
    <2> QED
      BY <1>1, <1>2, <2>1, <2>2
  <1>4. TypeOK'
    <2>1. queues' \in Settings
      BY <1>3 DEF Settings
    <2> QED
      BY <1>1, <1>3, <2>1, TypeStep DEF TypeOK
  <1>5. KeysAreUnique' /\ WorkflowsAreDags'
    BY <1>1, PlanFixed DEF EnqueueInv, KeysAreUnique, Inserted, WorkflowsAreDags
  <1>6. \A s \in Request : OwnInv(s)'
    BY <1>1, <1>3, Bystander
  <1>7. QueuesHaveMakers'
    <2>1. \A m : Wanted(m)' = Wanted(m)
      BY <1>1, PlanFixed DEF Wanted
    <2> QED
      BY <1>1, <1>3, <2>1, PlanFixed DEF EnqueueInv, QueuesHaveMakers
  <1> QED
    BY <1>4, <1>5, <1>6, <1>7 DEF EnqueueInv

-----------------------------------------------------------------------------
(* Theorems *)

\* Nothing is there at the start.
LEMMA EnqueueInvInit ==
    ASSUME Init PROVE EnqueueInv
  <1>1. /\ \A r \in Request : plan[r] \in Plans[r]
        /\ plan \in [Request -> UNION {Plans[r] : r \in Request}]
    BY DEF Init
  <1>2. /\ item = [r \in Request |-> 1] /\ cached = [r \in Request |-> NoQueues]
        /\ staged = [r \in Request |-> <<>>] /\ tx = [r \in Request |-> Nothing]
        /\ answer = [r \in Request |-> [status |-> "open", jobs |-> {}]]
        /\ jobs = {} /\ edges = {} /\ queues = NoQueues /\ woken = {}
        /\ had = [q \in QueueName |-> {}]
        /\ pc = [r \in Request |->
                   IF Creates(r) THEN "create"
                   ELSE IF ~plan[r].batch /\ plan[r].items[1].key # NoKey THEN "precheck"
                   ELSE "resolve"]
    BY DEF Init
  <1>3. \A r \in Request : Len(plan[r].items) \in Nat /\ (Creates(r) <=> Len(plan[r].items) = 0)
    <2> SUFFICES ASSUME NEW r \in Request
                 PROVE  Len(plan[r].items) \in Nat /\ (Creates(r) <=> Len(plan[r].items) = 0)
      OBVIOUS
    <2> DEFINE entries == {plan[r].items[i] : i \in DOMAIN plan[r].items}
    <2>1. plan[r].items \in Seq(entries)
      BY <1>1, PlansAssumption
    <2> HIDE DEF entries
    <2> QED
      BY <2>1 DEF Creates
  <1>4. /\ pc \in [Request -> Place]
        /\ \A r \in Request : /\ pc[r] \in {"create", "precheck", "resolve"}
                              /\ Creates(r) => pc[r] = "create"
                              /\ plan[r].batch => pc[r] # "precheck"
    BY <1>2 DEF Place
  <1>5. TypeOK
    <2>1. /\ cached \in [Request -> Settings] /\ queues \in Settings
          /\ tx \in [Request -> [jobs : SUBSET Nat, queues : Settings]]
          /\ \A q \in DOMAIN queues : queues[q] \in had[q]
      BY <1>2, NothingFits DEF Nothing
    <2>2. /\ staged \in [Request -> Seq(Nat)] /\ item \in [Request -> Nat]
          /\ \A r \in Request : /\ item[r] \in 1..(Len(plan[r].items) + 1)
                                /\ staged[r] \in Seq(Items(r))
                                /\ tx[r].jobs \subseteq Items(r)
      BY <1>2, <1>3 DEF Nothing
    <2>3. answer \in [Request -> [status : Status, jobs : SUBSET Job]]
      BY <1>2 DEF Status
    <2> QED
      BY <1>1, <1>2, <1>4, <2>1, <2>2, <2>3 DEF TypeOK
  <1>6. ASSUME NEW r \in Request PROVE OwnInv(r)
    <2>1. /\ item[r] = 1 /\ cached[r] = NoQueues /\ staged[r] = <<>> /\ tx[r] = Nothing
          /\ answer[r].status = "open" /\ answer[r].jobs = {}
      BY <1>2
    <2>2. RouteFits(r)
      BY <1>3, <1>4, <2>1 DEF RouteFits, Items
    <2>3. ItemsFit(r) /\ DependenciesFit(r)
      BY <1>4, <2>1 DEF ItemsFit, DependenciesFit, Items
    <2>4. CommitFits(r) /\ AnswerFits(r)
      BY <1>2, <1>4, <2>1 DEF CommitFits, AnswerFits
    <2>5. CacheFits(r) /\ NewQueuesFit(r)
      BY <2>1, NothingFits DEF CacheFits, NewQueuesFit, Nothing, Items
    <2> QED
      BY <2>2, <2>3, <2>4, <2>5 DEF OwnInv
  <1>7. KeysAreUnique
    BY <1>2 DEF KeysAreUnique, Inserted, Nothing
  <1>8. QueuesHaveMakers
    BY <1>2, NothingFits DEF QueuesHaveMakers
  <1>9. WorkflowsAreDags
    BY <1>2 DEF WorkflowsAreDags
  <1> QED
    BY <1>5, <1>6, <1>7, <1>8, <1>9 DEF EnqueueInv

\* Nothing happens.
LEMMA EnqueueInvStutters ==
    ASSUME EnqueueInv, UNCHANGED vars PROVE EnqueueInv'
  <1>1. UNCHANGED <<plan, pc, item, cached, staged, tx, answer, jobs, edges, queues, had, woken>>
    BY DEF vars, session, tables
  <1>2. TypeOK'
    BY <1>1, TypeStep DEF EnqueueInv, TypeOK
  <1>3. KeysAreUnique' /\ WorkflowsAreDags'
    BY <1>1, PlanFixed DEF EnqueueInv, KeysAreUnique, Inserted, WorkflowsAreDags
  <1>4. \A s \in Request : OwnInv(s)'
    BY <1>1, Bystander
  <1>5. QueuesHaveMakers'
    <2>1. \A m : Wanted(m)' = Wanted(m)
      BY <1>1, PlanFixed DEF Wanted
    <2> QED
      BY <1>1, <2>1, PlanFixed DEF EnqueueInv, QueuesHaveMakers
  <1> QED
    BY <1>2, <1>3, <1>4, <1>5 DEF EnqueueInv

\* The invariant is inductive.
LEMMA EnqueueInvInductive ==
    /\ Init => EnqueueInv
    /\ EnqueueInv /\ [Next]_vars => EnqueueInv'
  <1>1. ASSUME EnqueueInv, NEW r \in Request, RequestStep(r) PROVE EnqueueInv'
    BY <1>1, PreCheckStep, SelectQueueStep, CreateQueueStep, ReselectQueueStep,
       CreateConfiguredStep, CheckDependenciesStep, InsertJobStep, InsertCollidesStep,
       CommitStep, PublishStep
    DEF RequestStep
  <1>2. ASSUME EnqueueInv, [Next]_vars PROVE EnqueueInv'
    BY <1>1, <1>2, BreaksOff, UpdateStep, EnqueueInvStutters DEF Next
  <1> QED
    BY <1>2, EnqueueInvInit

\* The types of the variables hold throughout.
THEOREM EnqueueTypesAlways == Spec => []TypeOK
  <1>1. EnqueueInv => TypeOK
    BY DEF EnqueueInv
  <1> QED
    BY EnqueueInvInductive, <1>1, PTL DEF Spec

\* ARCHITECTURE.md, one job per idempotency key: however requests race for a
\* key, nobody is told of two jobs under it, and one creation is reported.
THEOREM OneJobPerKeyAlways == Spec => []OneJobPerKey
  <1>1. EnqueueInv => OneJobPerKey
    <2> SUFFICES ASSUME EnqueueInv, NEW r \in Request, NEW s \in Request,
                        NEW j \in answer[r].jobs, NEW k \in answer[s].jobs, SameKey(j, k)
                 PROVE  /\ j = k
                        /\ r # s => {answer[r].status, answer[s].status} # {"created"}
      BY DEF OneJobPerKey
    <2>1. AnswerFits(r) /\ AnswerFits(s)
      BY DEF EnqueueInv, OwnInv
    <2>2. j \in Inserted /\ k \in Inserted
      BY <2>1 DEF AnswerFits, Inserted
    <2>3. j = k
      BY <2>2 DEF EnqueueInv, KeysAreUnique
    <2>4. ASSUME answer[r].status = "created", answer[s].status = "created"
          PROVE  r = s
      <3>1. j \in JobsOf(r) /\ k \in JobsOf(s)
        BY <2>1, <2>4 DEF AnswerFits
      <3> QED
        BY <2>3, <3>1 DEF JobsOf
    <2> QED
      BY <2>3, <2>4
  <1> QED
    BY EnqueueInvInductive, <1>1, PTL DEF Spec

\* enqueue and enqueue_batch: whoever wins which race, and whatever breaks
\* off, a request has all of its effects or none.
THEOREM AllOrNothingAlways == Spec => []AllOrNothing
  <1>1. EnqueueInv => AllOrNothing
    <2>1. EnqueueInv => BatchAtomic
      BY DEF EnqueueInv, OwnInv, CommitFits, AnswerFits, BatchAtomic
    <2>2. EnqueueInv => NothingLeftBehind
      BY DEF EnqueueInv, OwnInv, AnswerFits, QueuesHaveMakers, NothingLeftBehind
    <2> QED
      BY <2>1, <2>2 DEF AllOrNothing
  <1> QED
    BY EnqueueInvInductive, <1>1, PTL DEF Spec

\* _build_job snapshots policies: whoever made the queue, whenever it is
\* edited, a job without a policy of its own has one its queue has had.
THEOREM JobsHaveQueuePolicyAlways == Spec => []JobsHaveQueuePolicy
  <1>1. EnqueueInv => JobsHaveQueuePolicy
    <2> SUFFICES ASSUME EnqueueInv, NEW j \in jobs, Asked(j).policy = NotSent
                 PROVE  cached[j[1]][Asked(j).queue] \in had[Asked(j).queue]
      BY DEF JobsHaveQueuePolicy, Policy
    <2>1. PICK r \in Request : j \in JobsOf(r)
      BY DEF EnqueueInv, TypeOK, Job
    <2>2. PICK i \in Items(r) : j = <<r, i>>
      BY <2>1 DEF JobsOf
    <2>3. OwnInv(r) /\ TypeOK
      BY DEF EnqueueInv
    <2>4. pc[r] \in {"publish", "done"} /\ tx[r] = Nothing
      BY <2>1, <2>3 DEF OwnInv, CommitFits
    <2>5. plan[r].items[i].queue \in DOMAIN cached[r]
      <3>1. i < item[r]
        <4>1. item[r] = Len(plan[r].items) + 1 /\ Len(plan[r].items) \in Nat
          BY <2>1, <2>3, PlanShape DEF OwnInv, CommitFits
        <4> QED
          BY <4>1 DEF Items
      <3> QED
        BY <2>2, <2>3, <3>1 DEF OwnInv, CacheFits
    <2> QED
      BY <2>1, <2>2, <2>3, <2>4, <2>5, NothingFits DEF OwnInv, CacheFits, Asked, Nothing
  <1> QED
    BY EnqueueInvInductive, <1>1, PTL DEF Spec

\* Dependencies are looked up before the INSERT of the job that names them,
\* so edges lead back, within one owner, and close no circle.
THEOREM WorkflowsAreDagsAlways == Spec => []WorkflowsAreDags
  <1>1. EnqueueInv => WorkflowsAreDags
    BY DEF EnqueueInv
  <1> QED
    BY EnqueueInvInductive, <1>1, PTL DEF Spec

=============================================================================
