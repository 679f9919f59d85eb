----------------------------- MODULE ClaimBatch -----------------------------
(***************************************************************************)
(* The claiming transaction: JobRepository.claim_batch and _claim_capped   *)
(* (repositories/jobs.py), against queues whose operators pause them and   *)
(* change their caps (services/queue_service.py).                          *)
(*                                                                         *)
(* Module Execution takes a claim as one step.  Here it is what it is: a   *)
(* READ COMMITTED transaction of several statements, each of which sees    *)
(* what was committed when it started and the transaction's own writes.    *)
(* One action is one statement.  Rows it wrote or locked stay locked until *)
(* it ends; FOR UPDATE SKIP LOCKED passes over rows others have locked,    *)
(* and a plain UPDATE (cancel, an operator's change) waits for them.       *)
(*                                                                         *)
(* Every job here is due.  ORDER BY is not modelled: a statement takes any *)
(* rows that qualify, as many as its LIMIT allows.                         *)
(*                                                                         *)
(* A few operators come with a slip of themselves, named for what it       *)
(* forgets.  Nothing in the specification uses the slips; the properties   *)
(* are shown to notice them.                                               *)
(***************************************************************************)
EXTENDS Integers, FiniteSets

CONSTANTS
    Job,            \* rows of the jobs table
    Queue,          \* rows of the queues table; their ids are numbers
    Claimer,        \* workers, each with one claim transaction at a time
    NoCap,          \* NULL in queues.max_concurrency
    QueueOf,        \* jobs.queue_id
    DependsOn,      \* job_dependencies: the jobs a job waits for
    Subscribed,     \* settings.worker_queues, per worker
    AnyShard,       \* settings.worker_shard = None
    Pinned,         \* settings.worker_shard, per worker
    ShardOf,        \* queues.shard_key
    Limit,          \* free slots the consume loop asks for
    InitialCap,     \* queues.max_concurrency at the start
    Caps,           \* per queue, the values an operator may set
    Pausable        \* bound: queues an operator pauses and resumes

ASSUME ClaimAssumption ==
    /\ IsFiniteSet(Job)
    /\ Queue \subseteq Nat
    /\ Limit \in Nat \ {0}
    /\ NoCap \notin Nat
    /\ QueueOf \in [Job -> Queue]
    /\ DependsOn \in [Job -> SUBSET Job]
    /\ Subscribed \in [Claimer -> SUBSET Queue]
    /\ Pausable \subseteq Queue
    /\ InitialCap \in [Queue -> (Nat \ {0}) \cup {NoCap}]
    /\ Caps \in [Queue -> SUBSET ((Nat \ {0}) \cup {NoCap})]

VARIABLES
    status,     \* jobs.status, as committed
    paused,     \* queues.paused
    cap,        \* queues.max_concurrency
    pc,         \* the statement a claim transaction is about to run
    taken,      \* jobs it has locked and set RUNNING, not yet committed
    locked,     \* queue rows it holds FOR UPDATE
    caps,       \* max_concurrency as its locking statement returned it
    todo,       \* capped_rows it has not visited yet
    room,       \* how many more jobs it may take
    capacity,   \* min(cap - running, remaining) of the queue in hand
    held_off    \* history: queues paused ever since its first statement

tableVars == <<status, paused, cap>>
txnVars == <<pc, taken, locked, caps, todo, room, capacity>>
vars == <<tableVars, txnVars, held_off>>

Status == {"PENDING", "RUNNING", "SUCCEEDED", "CANCELLED", "DEAD"}

CapValue == (Nat \ {0}) \cup {NoCap}

TypeOK ==
    /\ status \in [Job -> Status]
    /\ paused \in [Queue -> BOOLEAN]
    /\ cap \in [Queue -> CapValue]
    /\ pc \in [Claimer -> {"uncapped", "lock", "count", "admit", "commit"}]
    /\ taken \in [Claimer -> SUBSET Job]
    /\ locked \in [Claimer -> SUBSET Queue]
    /\ caps \in [Claimer -> [Queue -> CapValue]]
    /\ todo \in [Claimer -> SUBSET Queue]
    /\ room \in [Claimer -> 0..Limit]
    /\ capacity \in [Claimer -> 0..Limit]
    /\ held_off \in [Claimer -> SUBSET Queue]

-----------------------------------------------------------------------------

Least(a, b) == IF a <= b THEN a ELSE b

JobsIn(q) == {j \in Job : QueueOf[j] = q}

\* The row locks that claim transactions hold.
JobLocked(j) == \E c \in Claimer : j \in taken[c]

QueueLockedIgnored(q) == FALSE

QueueLocked(q) == \E c \in Claimer : q \in locked[c]

\* NOT EXISTS unmet_dep.
DependenciesMet(j) == \A d \in DependsOn[j] : status[d] = "SUCCEEDED"

InShard(c, q) == Pinned[c] \in {AnyShard, ShardOf[q]}

\* base_filters of the first pass, and its max_concurrency IS NULL.
UncappedCandidatesThoughPaused(c) ==
    {j \in Job : /\ status[j] = "PENDING"
                 /\ ~JobLocked(j)
                 /\ QueueOf[j] \in Subscribed[c]
                 /\ DependenciesMet(j)
                 /\ InShard(c, QueueOf[j])
                 /\ cap[QueueOf[j]] = NoCap}

UncappedCandidatesThoughLocked(c) ==
    {j \in Job : /\ status[j] = "PENDING"
                 /\ QueueOf[j] \in Subscribed[c]
                 /\ ~paused[QueueOf[j]]
                 /\ DependenciesMet(j)
                 /\ InShard(c, QueueOf[j])
                 /\ cap[QueueOf[j]] = NoCap}

UncappedCandidates(c) ==
    {j \in Job : /\ status[j] = "PENDING"
                 /\ ~JobLocked(j)
                 /\ QueueOf[j] \in Subscribed[c]
                 /\ ~paused[QueueOf[j]]
                 /\ DependenciesMet(j)
                 /\ InShard(c, QueueOf[j])
                 /\ cap[QueueOf[j]] = NoCap}

\* The queue rows the second pass locks; others' rows are skipped.
CappedQueues(c) ==
    {q \in Subscribed[c] : ~paused[q] /\ cap[q] # NoCap /\ ~QueueLocked(q)}

\* Its candidates are the ready jobs of one queue, nothing more is asked.
CappedCandidates(q) ==
    {j \in JobsIn(q) : status[j] = "PENDING" /\ ~JobLocked(j)}

\* The running count that transaction c sees: committed rows and its own.
RunningSeen(c, q) == {j \in JobsIn(q) : status[j] = "RUNNING" \/ j \in taken[c]}

\* ORDER BY ... LIMIT n over rows S of the candidates.
TakesUpTo(S, candidates, n) ==
    /\ S \subseteq candidates
    /\ Cardinality(S) = Least(n, Cardinality(candidates))

-----------------------------------------------------------------------------

Init ==
    /\ status = [j \in Job |-> "PENDING"]
    /\ paused = [q \in Queue |-> FALSE]
    /\ cap = InitialCap
    /\ pc = [c \in Claimer |-> "uncapped"]
    /\ taken = [c \in Claimer |-> {}]
    /\ locked = [c \in Claimer |-> {}]
    /\ caps = [c \in Claimer |-> [q \in Queue |-> NoCap]]
    /\ todo = [c \in Claimer |-> {}]
    /\ room = [c \in Claimer |-> Limit]
    /\ capacity = [c \in Claimer |-> 0]
    /\ held_off = [c \in Claimer |-> {}]

(* The claim transaction *)

\* First pass.  The second one is skipped when the first filled the limit.
ClaimUncapped(c) ==
    /\ pc[c] = "uncapped"
    /\ \E S \in SUBSET UncappedCandidates(c) :
         /\ TakesUpTo(S, UncappedCandidates(c), Limit)
         /\ taken' = [taken EXCEPT ![c] = S]
         /\ room' = [room EXCEPT ![c] = Limit - Cardinality(S)]
         /\ pc' = [pc EXCEPT ![c] = IF Cardinality(S) < Limit THEN "lock" ELSE "commit"]
    /\ held_off' = [held_off EXCEPT ![c] = {q \in Queue : paused[q]}]
    /\ UNCHANGED <<tableVars, locked, caps, todo, capacity>>

LockQueues(c) ==
    /\ pc[c] = "lock"
    /\ locked' = [locked EXCEPT ![c] = CappedQueues(c)]
    /\ caps' = [caps EXCEPT ![c] = [q \in Queue |-> IF q \in CappedQueues(c)
                                                    THEN cap[q] ELSE NoCap]]
    /\ todo' = [todo EXCEPT ![c] = CappedQueues(c)]
    /\ pc' = [pc EXCEPT ![c] = "count"]
    /\ UNCHANGED <<tableVars, taken, room, capacity, held_off>>

\* Capped queues are visited in the order of their ids.
InHand(c) == CHOOSE q \in todo[c] : \A r \in todo[c] : q <= r

Capacity(c, q) == Least(caps[c][q] - Cardinality(RunningSeen(c, q)), room[c])

\* The queue has no capacity left: on to the next one.
CountFull(c) ==
    /\ pc[c] = "count"
    /\ todo[c] # {}
    /\ room[c] > 0
    /\ Capacity(c, InHand(c)) <= 0
    /\ todo' = [todo EXCEPT ![c] = @ \ {InHand(c)}]
    /\ UNCHANGED <<tableVars, pc, taken, locked, caps, room, capacity, held_off>>

CountRoom(c) ==
    /\ pc[c] = "count"
    /\ todo[c] # {}
    /\ room[c] > 0
    /\ Capacity(c, InHand(c)) > 0
    /\ capacity' = [capacity EXCEPT ![c] = Capacity(c, InHand(c))]
    /\ pc' = [pc EXCEPT ![c] = "admit"]
    /\ UNCHANGED <<tableVars, taken, locked, caps, todo, room, held_off>>

\* Nothing was locked between the count and this statement but the queue.
Admit(c) ==
    /\ pc[c] = "admit"
    /\ \E S \in SUBSET CappedCandidates(InHand(c)) :
         /\ TakesUpTo(S, CappedCandidates(InHand(c)), capacity[c])
         /\ taken' = [taken EXCEPT ![c] = @ \cup S]
         /\ room' = [room EXCEPT ![c] = @ - Cardinality(S)]
    /\ todo' = [todo EXCEPT ![c] = @ \ {InHand(c)}]
    /\ capacity' = [capacity EXCEPT ![c] = 0]
    /\ pc' = [pc EXCEPT ![c] = "count"]
    /\ UNCHANGED <<tableVars, locked, caps, held_off>>

\* The transaction is over: every lock goes.
Ends(c) ==
    /\ pc' = [pc EXCEPT ![c] = "uncapped"]
    /\ taken' = [taken EXCEPT ![c] = {}]
    /\ locked' = [locked EXCEPT ![c] = {}]
    /\ caps' = [caps EXCEPT ![c] = [q \in Queue |-> NoCap]]
    /\ todo' = [todo EXCEPT ![c] = {}]
    /\ room' = [room EXCEPT ![c] = Limit]
    /\ capacity' = [capacity EXCEPT ![c] = 0]
    /\ held_off' = [held_off EXCEPT ![c] = {}]

Commit(c) ==
    /\ \/ pc[c] = "commit"
       \/ pc[c] = "count" /\ (todo[c] = {} \/ room[c] = 0)
    /\ status' = [j \in Job |-> IF j \in taken[c] THEN "RUNNING" ELSE status[j]]
    /\ Ends(c)
    /\ UNCHANGED <<paused, cap>>

\* The worker dies, or the database fails the transaction, before it commits.
Rollback(c) ==
    /\ pc[c] # "uncapped"
    /\ Ends(c)
    /\ UNCHANGED tableVars

-----------------------------------------------------------------------------
(* The rest of the system, one guarded UPDATE at a time *)

\* A worker finishes the job or the reaper reclaims it.
Settle(j) ==
    /\ status[j] = "RUNNING"
    /\ \E s \in {"SUCCEEDED", "PENDING", "DEAD"} : status' = [status EXCEPT ![j] = s]
    /\ UNCHANGED <<paused, cap, txnVars, held_off>>

\* cancel waits for a claim that has the row, and then finds it RUNNING.
Cancel(j) ==
    /\ status[j] = "PENDING"
    /\ ~JobLocked(j)
    /\ status' = [status EXCEPT ![j] = "CANCELLED"]
    /\ UNCHANGED <<paused, cap, txnVars, held_off>>

Requeue(j) ==
    /\ status[j] \in {"DEAD", "CANCELLED"}
    /\ status' = [status EXCEPT ![j] = "PENDING"]
    /\ UNCHANGED <<paused, cap, txnVars, held_off>>

\* set_paused; the UPDATE of the row waits for a claimer that has it locked.
SetPaused(q, b) ==
    /\ paused[q] # b
    /\ ~QueueLocked(q)
    /\ paused' = [paused EXCEPT ![q] = b]
    /\ held_off' = [c \in Claimer |-> IF b THEN held_off[c] ELSE held_off[c] \ {q}]
    /\ UNCHANGED <<status, cap, txnVars>>

\* update with max_concurrency among its fields.
SetCap(q, n) ==
    /\ cap[q] # n
    /\ ~QueueLocked(q)
    /\ cap' = [cap EXCEPT ![q] = n]
    /\ UNCHANGED <<status, paused, txnVars, held_off>>

-----------------------------------------------------------------------------

ClaimerStep(c) ==
    \/ ClaimUncapped(c)
    \/ LockQueues(c)
    \/ CountFull(c)
    \/ CountRoom(c)
    \/ Admit(c)
    \/ Commit(c)
    \/ Rollback(c)

\* What the routes of a job offer its owner, and those of a queue an admin.
OwnerStep(j) == Cancel(j) \/ Requeue(j)

OperatorStep(q) ==
    \/ \E b \in BOOLEAN : q \in Pausable /\ SetPaused(q, b)
    \/ \E n \in Caps[q] : SetCap(q, n)

Next ==
    \/ \E c \in Claimer : ClaimerStep(c)
    \/ \E j \in Job : Settle(j) \/ OwnerStep(j)
    \/ \E q \in Queue : OperatorStep(q)

Spec == Init /\ [][Next]_vars

-----------------------------------------------------------------------------
(* Properties *)

Running(q) == {j \in JobsIn(q) : status[j] = "RUNNING"}

\* _claim_where: each ready job is handed to exactly one worker, and what a
\* claim has taken stays PENDING for everybody until it commits: no owner
\* cancels it, no other claimer commits it first.
ClaimsAreExclusive ==
    \A c \in Claimer : \A j \in taken[c] :
        /\ status[j] = "PENDING"
        /\ \A d \in Claimer \ {c} : j \notin taken[d]

\* No worker takes more jobs than it has free slots, over both passes.
LimitHolds == \A c \in Claimer : Cardinality(taken[c]) <= Limit

\* queue_service.py: a pause takes effect at the next claim attempt, so a
\* transaction takes nothing from a queue paused ever since it began.
PauseHolds == \A c \in Claimer : \A j \in taken[c] : QueueOf[j] \notin held_off[c]

AlwaysCapped == {q \in Queue : InitialCap[q] # NoCap /\ NoCap \notin Caps[q]}

NeverCapped == {q \in Queue : InitialCap[q] = NoCap /\ Caps[q] \subseteq {NoCap}}

\* claim_batch: to everybody else its statements, its row locks and the
\* statements of others in between amount to a claim in one step, and "the
\* cap cannot be exceeded, ever": what a commit starts is all there to be
\* started, and no queue that keeps a cap is then above it or paused.
Atomic == INSTANCE AtomicClaims

ImplementsAtomicClaims == Atomic!Spec

\* job_dependency.py: a job "must not be claimed until" every job it depends
\* on "reaches SUCCEEDED".
DependenciesFirst ==
    \A j \in Job : status[j] = "RUNNING" => DependenciesMet(j)

\* The same of the queues the first pass serves, though jobs fail, are buried,
\* cancelled and requeued while claims are in progress; and none of those is
\* taken by a worker pinned to another shard.
UncappedHonourFilters ==
    /\ \A j \in Job : /\ QueueOf[j] \in NeverCapped
                      /\ status[j] = "RUNNING" \/ \E c \in Claimer : j \in taken[c]
                      => DependenciesMet(j)
    /\ \A c \in Claimer : \A j \in taken[c] :
          QueueOf[j] \in NeverCapped => InShard(c, QueueOf[j])

\* claim_batch: whatever moves between its statements, a transaction holds
\* only what it is entitled to: no more than the free slots, nothing of a
\* queue paused before it began, nothing blocked and nothing of another shard.
TakenIsEntitled == LimitHolds /\ PauseHolds /\ UncappedHonourFilters
=============================================================================
