------------------------------ MODULE Enqueue ------------------------------
(***************************************************************************)
(* Accepting jobs: JobService.enqueue and enqueue_batch                    *)
(* (services/job_service.py), and the queues they go to, made on first use *)
(* or beforehand by QueueService.create (services/queue_service.py) and    *)
(* edited by QueueService.update; many requests against one database.      *)
(*                                                                         *)
(* Each request has a session, hence a transaction; a step is one          *)
(* statement of it.  READ COMMITTED: a SELECT sees what is committed and   *)
(* what its own transaction wrote.  An INSERT under a unique index waits   *)
(* for a transaction that has inserted the same value, and then goes       *)
(* through or raises IntegrityError.  The ORM keeps added rows to itself   *)
(* and inserts them, in order, before its next SELECT and at commit.       *)
(*                                                                         *)
(* One organization with one project.  The defaults of a queue and the     *)
(* policy of a job are one value each.  Payloads and workflow ids are left *)
(* out; edges to one job twice are too.                                    *)
(*                                                                         *)
(* A few operators come with a slip of themselves, named for what it       *)
(* forgets.  Nothing in the specification uses the slips; the properties   *)
(* are shown to notice them.                                               *)
(***************************************************************************)
EXTENDS Naturals, Sequences, FiniteSets

CONSTANTS
    Request,    \* API requests
    Plans,      \* what a request may ask for: [Request -> a set of plans]
    NoKey,      \* NULL in jobs.idempotency_key
    NotSent,    \* the policy of a JobCreate that has none
    Standard,   \* the column defaults of queues
    Patched,    \* what QueueService.update sets the defaults to
    MayFail     \* the process or its connection may fail

\* A request for a single job has one, a batch has some, and one that creates
\* a queue has none.
ASSUME PlansAssumption ==
    \A r \in Request : \A p \in Plans[r] :
        /\ p.batch \in BOOLEAN
        /\ p.items \in Seq({p.items[i] : i \in DOMAIN p.items})
        /\ IF p.batch THEN Len(p.items) > 0 ELSE Len(p.items) <= 1

VARIABLES
    plan,       \* what each request asks for: owner, batch, items, and the
                \* queue to create and its defaults when there are no items
    pc,         \* the statement each request is at
    item,       \* the item of its plan that it resolves the queue of
    cached,     \* the queues it has resolved, as it read them: queue_cache
    staged,     \* items added to its session and not yet inserted
    tx,         \* items and queues its open transaction has inserted
    answer,     \* how it ended, and the jobs it returned
    jobs,       \* committed: rows of jobs, as <<request, item>>
    edges,      \* committed: rows of job_dependencies
    queues,     \* committed: rows of queues, each its defaults
    woken,      \* requests that have published a wake
    had         \* history: the defaults each queue has had

session == <<item, cached, staged, tx>>
tables == <<jobs, edges, queues, had>>
vars == <<plan, pc, session, answer, tables, woken>>

-----------------------------------------------------------------------------

Items(r) == 1..Len(plan[r].items)

JobsOf(r) == {<<r, i>> : i \in Items(r)}

Job == UNION {JobsOf(r) : r \in Request}

Asked(j) == plan[j[1]].items[j[2]]

Owner(j) == plan[j[1]].owner

\* uq_jobs_owner_idempotency: a partial index.
SameKey(j, k) ==
    /\ Asked(j).key # NoKey
    /\ Asked(j).key = Asked(k).key
    /\ Owner(j) = Owner(k)

Creates(r) == plan[r].items = <<>>

\* The queue a request is about to resolve or create.
Wanted(r) == IF Creates(r) THEN plan[r].queue ELSE plan[r].items[item[r]].queue

QueueName == {Asked(j).queue : j \in Job} \cup {plan[r].queue : r \in {s \in Request : Creates(s)}}

\* Queues are functions from names to defaults.
NoQueues == <<>>

With(f, q, d) == [n \in DOMAIN f \cup {q} |-> IF n = q THEN d ELSE f[n]]

Nothing == [jobs |-> {}, queues |-> NoQueues]

Default == {Standard, Patched} \cup {plan[r].config : r \in {s \in Request : Creates(s)}}

\* QueueRepository.get_by_name: committed, or inserted by the same transaction.
Exists(r, q) == q \in DOMAIN queues \cup DOMAIN tx[r].queues

Row(r, q) == IF q \in DOMAIN queues THEN queues[q] ELSE tx[r].queues[q]

\* _build_job: what the request sends, or else the defaults of its queue as
\* they were read.
Policy(j) ==
    IF Asked(j).policy # NotSent THEN Asked(j).policy ELSE cached[j[1]][Asked(j).queue]

Place == {"precheck", "resolve", "create", "reselect", "deps",
          "flush", "commit", "publish", "done"}

\* "raised" is an exception no handler expects, "failed" a broken request.
Status == {"open", "created", "existing", "not_found", "conflict", "raised", "failed"}

\* Some queues, each with its defaults.
Settings == UNION {[Q -> Default] : Q \in SUBSET QueueName}

TypeOK ==
    /\ plan \in [Request -> UNION {Plans[r] : r \in Request}]
    /\ \A r \in Request : plan[r] \in Plans[r]
    /\ pc \in [Request -> Place]
    /\ item \in [Request -> Nat]
    /\ cached \in [Request -> Settings]
    /\ staged \in [Request -> Seq(Nat)]
    /\ tx \in [Request -> [jobs : SUBSET Nat, queues : Settings]]
    /\ answer \in [Request -> [status : Status, jobs : SUBSET Job]]
    /\ \A r \in Request :
        /\ item[r] \in 1..(Len(plan[r].items) + 1)
        /\ staged[r] \in Seq(Items(r))
        /\ tx[r].jobs \subseteq Items(r)
    /\ jobs \subseteq Job
    /\ edges \subseteq Job \X Job
    /\ queues \in Settings
    /\ had \in [QueueName -> SUBSET Default]
    /\ \A q \in DOMAIN queues : queues[q] \in had[q]
    /\ woken \subseteq Request

Init ==
    /\ plan \in {p \in [Request -> UNION {Plans[r] : r \in Request}] :
                    \A r \in Request : p[r] \in Plans[r]}
    /\ pc = [r \in Request |->
                IF Creates(r) THEN "create"
                ELSE IF ~plan[r].batch /\ plan[r].items[1].key # NoKey THEN "precheck"
                ELSE "resolve"]
    /\ item = [r \in Request |-> 1]
    /\ cached = [r \in Request |-> NoQueues]
    /\ staged = [r \in Request |-> <<>>]
    /\ tx = [r \in Request |-> Nothing]
    /\ answer = [r \in Request |-> [status |-> "open", jobs |-> {}]]
    /\ jobs = {}
    /\ edges = {}
    /\ queues = NoQueues
    /\ had = [q \in QueueName |-> {}]
    /\ woken = {}

-----------------------------------------------------------------------------
(* How a request ends: its session is closed, what is open rolls back *)

ClosedLeavingLocks(r) == tx[r]

Closed(r) == Nothing

Answers(r, status, returned) ==
    /\ pc' = [pc EXCEPT ![r] = "done"]
    /\ answer' = [answer EXCEPT ![r] = [status |-> status, jobs |-> returned]]
    /\ staged' = [staged EXCEPT ![r] = <<>>]
    /\ tx' = [tx EXCEPT ![r] = Closed(r)]

\* The process dies, or its connection: after a commit it does not take back.
Fail(r) ==
    /\ MayFail
    /\ pc[r] # "done"
    /\ Answers(r, "failed", {})
    /\ UNCHANGED <<plan, item, cached, tables, woken>>

-----------------------------------------------------------------------------
(* Unique indexes *)

\* Requests whose open transactions have what r is about to insert.
WaitsForKey(r) ==
    IF staged[r] = <<>> THEN {}
    ELSE {s \in Request \ {r} : \E i \in tx[s].jobs : SameKey(<<r, Head(staged[r])>>, <<s, i>>)}

WaitsForQueue(r) ==
    {s \in Request \ {r} : Wanted(r) \in DOMAIN tx[s].queues}

Inserting(r) == pc[r] \in {"resolve", "flush"} /\ staged[r] # <<>>

WaitsFor(r) ==
    IF Inserting(r) THEN WaitsForKey(r)
    ELSE IF pc[r] = "create" THEN WaitsForQueue(r) ELSE {}

TakenNever(r, i) == FALSE

Taken(r, i) ==
    \/ \E j \in jobs : SameKey(<<r, i>>, j)
    \/ \E k \in tx[r].jobs : SameKey(<<r, i>>, <<r, k>>)

\* The database gives up one of those that wait for each other.
DeadlockDetected(r) ==
    /\ \E C \in SUBSET Request :
        /\ r \in C
        /\ \A s \in C : WaitsFor(s) \cap C # {}
        /\ \A s \in C : \E t \in C : s \in WaitsFor(t)
    /\ Answers(r, "failed", {})
    /\ UNCHANGED <<plan, item, cached, tables, woken>>

-----------------------------------------------------------------------------
(* Resolving queues *)

\* The fast path of a key that is there already.
PreCheck(r) ==
    /\ pc[r] = "precheck"
    /\ LET existing == {j \in jobs : SameKey(<<r, 1>>, j)} IN
        \/ existing = {} /\ pc' = [pc EXCEPT ![r] = "resolve"] /\ UNCHANGED <<answer, staged, tx>>
        \/ existing # {} /\ Answers(r, "existing", existing)
    /\ UNCHANGED <<plan, item, cached, tables, woken>>

\* The item after the ones whose queues are known once q is.
NextItem(r, q) ==
    LET known == DOMAIN cached[r] \cup {q} IN
    CHOOSE i \in (item[r] + 1)..(Len(plan[r].items) + 1) :
        /\ i \notin Items(r) \/ plan[r].items[i].queue \notin known
        /\ \A k \in (item[r] + 1)..(i - 1) : plan[r].items[k].queue \in known

\* A batch adds jobs up to the next queue it does not know; a single job has
\* its dependencies looked up first.  The row has defaults d.
Resolved(r, d) ==
    LET next == NextItem(r, Wanted(r))
    IN /\ cached' = [cached EXCEPT ![r] = With(@, Wanted(r), d)]
       /\ item' = [item EXCEPT ![r] = next]
       /\ IF plan[r].batch
          THEN /\ staged' = [staged EXCEPT ![r] = @ \o [k \in 1..(next - item[r]) |-> item[r] + k - 1]]
               /\ pc' = [pc EXCEPT ![r] = IF next \in Items(r) THEN "resolve" ELSE "flush"]
          ELSE /\ pc' = [pc EXCEPT ![r] = "deps"]
               /\ UNCHANGED staged

\* The SELECT inserts first what the session holds: see InsertJob.
SelectQueue(r) ==
    /\ pc[r] = "resolve"
    /\ staged[r] = <<>>
    /\ IF Exists(r, Wanted(r))
       THEN Resolved(r, Row(r, Wanted(r)))
       ELSE pc' = [pc EXCEPT ![r] = "create"] /\ UNCHANGED <<item, cached, staged>>
    /\ UNCHANGED <<plan, tx, answer, tables, woken>>

\* An IntegrityError takes back what the SAVEPOINT covers, which is nothing else.
AfterLostRaceWithoutSavepoint(r) == Nothing

AfterLostRace(r) == tx[r]

\* The savepoint is not a commit: a new queue is the request's own.
CreateQueue(r) ==
    /\ pc[r] = "create"
    /\ ~Creates(r)
    /\ WaitsForQueue(r) = {}
    /\ \/ /\ Wanted(r) \in DOMAIN queues
          /\ tx' = [tx EXCEPT ![r] = AfterLostRace(r)]
          /\ pc' = [pc EXCEPT ![r] = "reselect"]
          /\ UNCHANGED <<item, cached, staged>>
       \/ /\ Wanted(r) \notin DOMAIN queues
          /\ tx' = [tx EXCEPT ![r].queues = With(@, Wanted(r), Standard)]
          /\ Resolved(r, Standard)
    /\ UNCHANGED <<plan, answer, tables, woken>>

ReselectedOwnRow(q) == Standard

Reselected(q) == queues[q]

\* Queues are never deleted: the winner's row is there.
ReselectQueue(r) ==
    /\ pc[r] = "reselect"
    /\ Resolved(r, Reselected(Wanted(r)))
    /\ UNCHANGED <<plan, tx, answer, tables, woken>>

-----------------------------------------------------------------------------
(* Configured queues *)

\* QueueService.create: the INSERT of its commit, and the conflict it answers.
CreateConfigured(r) ==
    /\ pc[r] = "create"
    /\ Creates(r)
    /\ WaitsForQueue(r) = {}
    /\ \/ Wanted(r) \in DOMAIN queues /\ Answers(r, "conflict", {})
       \/ /\ Wanted(r) \notin DOMAIN queues
          /\ tx' = [tx EXCEPT ![r].queues = With(@, Wanted(r), plan[r].config)]
          /\ pc' = [pc EXCEPT ![r] = "flush"]
          /\ UNCHANGED <<staged, answer>>
    /\ UNCHANGED <<plan, item, cached, tables, woken>>

\* QueueService.update of the defaults of a queue.
Update(q) ==
    /\ q \in DOMAIN queues
    /\ queues[q] # Patched
    /\ queues' = [queues EXCEPT ![q] = Patched]
    /\ had' = [had EXCEPT ![q] = @ \cup {Patched}]
    /\ UNCHANGED <<plan, pc, session, answer, jobs, edges, woken>>

-----------------------------------------------------------------------------
(* Inserting jobs *)

\* get_for_owner of every dependency.
VisibleToAll(r) == jobs

Visible(r) == {j \in jobs : Owner(j) = plan[r].owner}

CheckDependencies(r) ==
    /\ pc[r] = "deps"
    /\ \/ /\ plan[r].items[1].after \subseteq Visible(r)
          /\ staged' = [staged EXCEPT ![r] = <<1>>]
          /\ pc' = [pc EXCEPT ![r] = "flush"]
          /\ UNCHANGED <<answer, tx>>
       \/ ~(plan[r].items[1].after \subseteq Visible(r)) /\ Answers(r, "not_found", {})
    /\ UNCHANGED <<plan, item, cached, tables, woken>>

InsertJob(r) ==
    /\ Inserting(r)
    /\ WaitsForKey(r) = {}
    /\ ~Taken(r, Head(staged[r]))
    /\ tx' = [tx EXCEPT ![r].jobs = @ \cup {Head(staged[r])}]
    /\ staged' = [staged EXCEPT ![r] = Tail(@)]
    /\ UNCHANGED <<plan, pc, item, cached, answer, tables, woken>>

\* A batch is refused by the handler around its commit, not by the resolution
\* of its queues.  A single job's handler reads user.id of a row that the
\* rollback expired, outside of any greenlet, before it can look for the job
\* that has the key.
OnCollision(r) == IF plan[r].batch /\ pc[r] = "flush" THEN "conflict" ELSE "raised"

InsertCollides(r) ==
    /\ Inserting(r)
    /\ WaitsForKey(r) = {}
    /\ Taken(r, Head(staged[r]))
    /\ Answers(r, OnCollision(r), {})
    /\ UNCHANGED <<plan, item, cached, tables, woken>>

\* Dependencies of a batch's items are not looked at.
NewEdges(r) ==
    IF plan[r].batch \/ Creates(r) THEN {}
    ELSE {<<r, 1>>} \X plan[r].items[1].after

Flushed(r) == pc[r] = "flush" /\ staged[r] = <<>>

Commit(r) ==
    /\ Flushed(r)
    /\ jobs' = jobs \cup {<<r, i>> : i \in tx[r].jobs}
    /\ edges' = edges \cup NewEdges(r)
    /\ LET new == tx[r].queues IN
        /\ queues' = [q \in DOMAIN queues \cup DOMAIN new |->
                        IF q \in DOMAIN new THEN new[q] ELSE queues[q]]
        /\ had' = [q \in QueueName |->
                     IF q \in DOMAIN new THEN had[q] \cup {new[q]} ELSE had[q]]
    /\ tx' = [tx EXCEPT ![r] = Nothing]
    /\ pc' = [pc EXCEPT ![r] = "publish"]
    /\ UNCHANGED <<plan, item, cached, staged, answer, woken>>

\* publish_wake, which never raises, for jobs, and the answer.
Publish(r) ==
    /\ pc[r] = "publish"
    /\ woken' = IF Creates(r) THEN woken ELSE woken \cup {r}
    /\ Answers(r, "created", JobsOf(r))
    /\ UNCHANGED <<plan, item, cached, tables>>

-----------------------------------------------------------------------------

RequestStep(r) ==
    \/ PreCheck(r)
    \/ SelectQueue(r)
    \/ CreateQueue(r)
    \/ ReselectQueue(r)
    \/ CreateConfigured(r)
    \/ CheckDependencies(r)
    \/ InsertJob(r)
    \/ InsertCollides(r)
    \/ Commit(r)
    \/ Publish(r)

Next ==
    \/ \E r \in Request : RequestStep(r) \/ DeadlockDetected(r) \/ Fail(r)
    \/ \E q \in QueueName : Update(q)

Spec == Init /\ [][Next]_vars

\* Statements return, and the database looks for deadlocks.
Fairness == \A r \in Request : WF_vars(RequestStep(r)) /\ WF_vars(DeadlockDetected(r))

FairSpec == Spec /\ Fairness

-----------------------------------------------------------------------------
(* Properties *)

\* ARCHITECTURE.md: one job per idempotency key.  Whatever requests are told,
\* nobody is told of two jobs under one key of one owner, and only one request
\* is told that it created the job.
OneJobPerKey ==
    \A r, s \in Request :
        \A j \in answer[r].jobs, k \in answer[s].jobs :
            SameKey(j, k) =>
                /\ j = k
                /\ r # s => {answer[r].status, answer[s].status} # {"created"}

\* enqueue_batch: all or nothing, however it ends, though losing the race for
\* a queue rolls back in the middle of it; and workers are woken, and clients
\* answered, for rows that are there.
BatchAtomic ==
    \A r \in Request :
        /\ JobsOf(r) \cap jobs \in {{}, JobsOf(r)}
        /\ r \in woken => JobsOf(r) \subseteq jobs
        /\ answer[r].jobs \subseteq jobs

\* A refused request leaves nothing: no job, and no queue that was made on
\* the way to it.
NothingLeftBehind ==
    /\ \A r \in Request :
        answer[r].status \in {"existing", "not_found", "conflict", "raised"} => JobsOf(r) \cap jobs = {}
    /\ \A q \in DOMAIN queues :
        \/ \E j \in jobs : Asked(j).queue = q
        \/ \E r \in Request :
            Creates(r) /\ Wanted(r) = q /\ answer[r].status \in {"open", "created", "failed"}

\* enqueue and enqueue_batch: whoever wins which race, a request has all of
\* its effects or none.
AllOrNothing == BatchAtomic /\ NothingLeftBehind

\* _build_job, "jobs snapshot their policy at enqueue time"
\* (routers/queues.py): whoever made the queue, a job that brought no policy
\* of its own has one that its queue has had.
JobsHaveQueuePolicy ==
    \A j \in jobs : Asked(j).policy = NotSent => Policy(j) \in had[Asked(j).queue]

\* Workflows are acyclic, and every edge joins jobs of one owner.
WorkflowsAreDags ==
    /\ \A e \in edges : e[1] \in jobs /\ e[2] \in jobs /\ Owner(e[1]) = Owner(e[2])
    /\ \A C \in (SUBSET {e[1] : e \in edges}) \ {{}} : \E j \in C : \A k \in C : <<j, k>> \notin edges

\* Every request is answered, though requests wait for each other's keys and
\* queues in any order.
RequestsEnd == \A r \in Request : <>(pc[r] = "done")

\* A duplicate that loses the INSERT race is recovered, and a collision in a
\* batch is refused: neither is an exception.
CollisionsAreHandled == \A r \in Request : answer[r].status # "raised"
=============================================================================
