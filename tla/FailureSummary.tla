--------------------------- MODULE FailureSummary ---------------------------
(***************************************************************************)
(* The note an operator finds on a buried job: the tail of                 *)
(* ExecutionService.complete_failure after its commit,                     *)
(* AISummaryService.generate_summary with its cache in Redis, the graph of *)
(* services/failure_pipeline.py (triage -> diagnose -> remediate ->        *)
(* compose), and JobRepository.set_ai_summary, while the jobs are          *)
(* requeued, cancelled, reaped and run again.                              *)
(*                                                                         *)
(* A slot is a worker with worker_concurrency = 1: it runs a job, settles  *)
(* it and, still in the same task, has the note made; every await of that  *)
(* is a step.  Each run of a job here is the last of its budget (the       *)
(* budget is in Execution).  A note is what it was made from: the error,   *)
(* what the prompts say of the job, the category and the agents that       *)
(* answered.                                                               *)
(*                                                                         *)
(* Operators named for a mistake (CacheKeyOfTask, ...) are slips of the    *)
(* operator after them and are used by nothing.                            *)
(***************************************************************************)
EXTENDS FiniteSets, Naturals

CONSTANTS
    Job, Slot,
    Noters,         \* the slots of workers with a bus and a GEMINI_API_KEY
    About,          \* what prompts say of a job: task_name, attempt_count
    AboutOf,        \* and of which job; its last run is attempt max_attempts
    Error,          \* error texts; a text tells neither the job nor its task
    Category,       \* CATEGORIES of failure_pipeline.py without "transient"
    MaxRequeues,    \* bound: how often each job is requeued
    None

ASSUME SummaryAssumption ==
    /\ MaxRequeues \in [Job -> Nat]
    /\ Noters \subseteq Slot
    /\ AboutOf \in [Job -> About]
    /\ None \notin Category \cup Error \cup Job \cup Slot

VARIABLES
    status,     \* jobs.status
    locked_by,  \* jobs.locked_by
    ai_summary, \* jobs.ai_summary
    cache,      \* chronos:ai:summary:<key> in Redis
    slot,       \* what the task of a slot is at, with the locals it needs
    requeues,   \* how often each job was requeued
    buried,     \* history: the burials by workers
    noted,      \* history: those whose note was stored
    lost        \* history: those whose note a failure took

vars == <<status, locked_by, ai_summary, cache, slot, requeues, buried, noted, lost>>

Agents == {"triage", "diagnose", "remediate", "compose"}

\* A job is buried again only after a requeue.
Burials == [job : Job, error : Error, due : BOOLEAN, requeues : Nat]

Idle == [at |-> "idle", job |-> None, burial |-> None, error |-> None, about |-> None,
         category |-> None, answered |-> {}]

\* What the operator reads; FailureState once compose has answered.
NoteOf(t) == [error |-> t.error, about |-> t.about, category |-> t.category,
              answered |-> t.answered]

Notes == [error : Error, about : About, category : Category \cup {"transient"},
          answered : SUBSET Agents]

\* NULL is no text.
ASSUME NoteAssumption == None \notin Notes \cup Burials

-----------------------------------------------------------------------------
(* services/failure_pipeline.py *)

\* route_after_triage
Route(category) == IF category = "transient" THEN "remediate" ELSE "diagnose"

AfterAnswerStartsOver(agent, category) ==
    CASE agent = "triage"    -> Route(category)
      [] agent = "diagnose"  -> "remediate"
      [] agent = "remediate" -> "compose"
      [] agent = "compose"   -> "triage"

\* The edges of the graph; after compose the text goes to the cache.
AfterAnswer(agent, category) ==
    CASE agent = "triage"    -> Route(category)
      [] agent = "diagnose"  -> "remediate"
      [] agent = "remediate" -> "compose"
      [] agent = "compose"   -> "publish"

\* The agents whose answers a note of that category is made of.
RouteOf(category) ==
    IF category = "transient" THEN Agents \ {"diagnose"} ELSE Agents

\* An exception of an agent goes through ainvoke to generate_summary, which
\* returns None: nothing is cached and nothing is stored.
AfterError(agent) == "idle"

-----------------------------------------------------------------------------
(* services/ai_summary_service.py *)

CacheKeyOfTask(e) == CHOOSE k \in Error : TRUE

\* The hash of the error text, without the task and without the job.
CacheKey(e) == e

OnHitReturnsEarly == "idle"

\* A cached text is stored on the job like a fresh one.
OnHit == "store"

-----------------------------------------------------------------------------
(* The row *)

StatusAfterNoteOfWholeRow(j) == "DEAD"

\* set_ai_summary writes ai_summary and updated_at, by id and whatever the
\* status: by now the job may be anything.
StatusAfterNote(j) == status[j]

Goto(s, at) == slot' = [slot EXCEPT ![s] = IF at = "idle" THEN Idle ELSE [@ EXCEPT !.at = at]]

Noting(s) == slot[s].at \in Agents \cup {"lookup", "publish", "store"}

GiveUp(s) == lost' = IF Noting(s) THEN lost \cup {slot[s].burial} ELSE lost

-----------------------------------------------------------------------------
Init ==
    /\ status = [j \in Job |-> "PENDING"]
    /\ locked_by = [j \in Job |-> None]
    /\ ai_summary = [j \in Job |-> None]
    /\ cache = [e \in Error |-> None]
    /\ slot = [s \in Slot |-> Idle]
    /\ requeues = [j \in Job |-> 0]
    /\ buried = {}
    /\ noted = {}
    /\ lost = {}

\* claim_batch
Claim(s, j) ==
    /\ slot[s].at = "idle"
    /\ status[j] = "PENDING"
    /\ status' = [status EXCEPT ![j] = "RUNNING"]
    /\ locked_by' = [locked_by EXCEPT ![j] = s]
    /\ slot' = [slot EXCEPT ![s] = [Idle EXCEPT !.at = "run", !.job = j]]
    /\ UNCHANGED <<ai_summary, cache, requeues, buried, noted, lost>>

\* The guard of finish_success and finish_failure.
Holds(s) ==
    /\ slot[s].at = "run"
    /\ status[slot[s].job] = "RUNNING"
    /\ locked_by[slot[s].job] = s

\* The transaction of complete_success.
Succeed(s) ==
    /\ Holds(s)
    /\ status' = [status EXCEPT ![slot[s].job] = "SUCCEEDED"]
    /\ locked_by' = [locked_by EXCEPT ![slot[s].job] = None]
    /\ Goto(s, "idle")
    /\ UNCHANGED <<ai_summary, cache, requeues, buried, noted, lost>>

\* The transaction of complete_failure, with decision.retry false.  Without a
\* bus, or without a GEMINI_API_KEY, which is the default, that is all.
Bury(s, e) ==
    /\ Holds(s)
    /\ status' = [status EXCEPT ![slot[s].job] = "DEAD"]
    /\ locked_by' = [locked_by EXCEPT ![slot[s].job] = None]
    /\ LET b == [job |-> slot[s].job, error |-> e, due |-> s \in Noters,
                  requeues |-> requeues[slot[s].job]] IN
         /\ buried' = buried \cup {b}
         /\ slot' = [slot EXCEPT ![s] =
                       IF s \in Noters
                       THEN [@ EXCEPT !.at = "lookup", !.burial = b, !.error = e,
                                      !.about = AboutOf[b.job]]
                       ELSE Idle]
    /\ UNCHANGED <<ai_summary, cache, requeues, noted, lost>>

\* The job was lost meanwhile: roll back, log, and no note.
LoseLease(s) ==
    /\ slot[s].at = "run" /\ ~Holds(s)
    /\ Goto(s, "idle")
    /\ UNCHANGED <<status, locked_by, ai_summary, cache, requeues, buried, noted, lost>>

\* get_cached; a failure of Redis reads as a miss.
Lookup(s) ==
    /\ slot[s].at = "lookup"
    /\ \/ Goto(s, "triage")
       \/ LET hit == cache[CacheKey(slot[s].error)] IN
          /\ hit # None
          /\ slot' = [slot EXCEPT ![s] =
                        IF OnHit = "idle" THEN Idle
                        ELSE [@ EXCEPT !.at = OnHit, !.error = hit.error, !.about = hit.about,
                                       !.category = hit.category, !.answered = hit.answered]]
    /\ UNCHANGED <<status, locked_by, ai_summary, cache, requeues, buried, noted, lost>>

\* One agent's llm.ainvoke returns.  Whatever triage says is made one of the
\* categories.
Answer(s) ==
    /\ slot[s].at \in Agents
    /\ \E c \in IF slot[s].at = "triage" THEN Category \cup {"transient"}
                                         ELSE {slot[s].category} :
          slot' = [slot EXCEPT ![s].at = AfterAnswer(@, c), ![s].category = c,
                               ![s].answered = @ \cup {slot[s].at}]
    /\ UNCHANGED <<status, locked_by, ai_summary, cache, requeues, buried, noted, lost>>

\* ... or raises, as it does after its timeout at the latest.
AgentFails(s) ==
    /\ slot[s].at \in Agents
    /\ Goto(s, AfterError(slot[s].at))
    /\ GiveUp(s)
    /\ UNCHANGED <<status, locked_by, ai_summary, cache, requeues, buried, noted>>

\* set_cached; a failure of Redis is swallowed.
Publish(s) ==
    /\ slot[s].at = "publish"
    /\ \/ cache' = [cache EXCEPT ![CacheKey(slot[s].error)] = NoteOf(slot[s])]
       \/ UNCHANGED cache
    /\ Goto(s, "store")
    /\ UNCHANGED <<status, locked_by, ai_summary, requeues, buried, noted, lost>>

\* The second transaction of complete_failure.
Store(s) ==
    /\ slot[s].at = "store"
    /\ ai_summary' = [ai_summary EXCEPT ![slot[s].job] = NoteOf(slot[s])]
    /\ status' = [status EXCEPT ![slot[s].job] = StatusAfterNote(slot[s].job)]
    /\ Goto(s, "idle")
    /\ noted' = noted \cup {slot[s].burial}
    /\ UNCHANGED <<locked_by, cache, requeues, buried, lost>>

\* It fails, and the exception is logged.
StoreFails(s) ==
    /\ slot[s].at = "store"
    /\ Goto(s, "idle")
    /\ GiveUp(s)
    /\ UNCHANGED <<status, locked_by, ai_summary, cache, requeues, buried, noted>>

\* The worker dies, or a shutdown cancels the task; another takes its place.
\* The guard of release fails for a job that is settled, and one that is not
\* is left to the reaper.
Crash(s) ==
    /\ slot[s].at # "idle"
    /\ Goto(s, "idle")
    /\ GiveUp(s)
    /\ UNCHANGED <<status, locked_by, ai_summary, cache, requeues, buried, noted>>

\* reap_once buries a job whose lease has run out; it makes no note.
Reap(j) ==
    /\ status[j] = "RUNNING"
    /\ status' = [status EXCEPT ![j] = "DEAD"]
    /\ locked_by' = [locked_by EXCEPT ![j] = None]
    /\ UNCHANGED <<ai_summary, cache, slot, requeues, buried, noted, lost>>

\* JobRepository.cancel
Cancel(j) ==
    /\ status[j] = "PENDING"
    /\ status' = [status EXCEPT ![j] = "CANCELLED"]
    /\ UNCHANGED <<locked_by, ai_summary, cache, slot, requeues, buried, noted, lost>>

\* JobRepository.requeue: the note stays.
Requeue(j) ==
    /\ status[j] \in {"DEAD", "CANCELLED"}
    /\ requeues[j] < MaxRequeues[j]
    /\ status' = [status EXCEPT ![j] = "PENDING"]
    /\ locked_by' = [locked_by EXCEPT ![j] = None]
    /\ requeues' = [requeues EXCEPT ![j] = @ + 1]
    /\ UNCHANGED <<ai_summary, cache, slot, buried, noted, lost>>

\* AI_CACHE_TTL is over.
Expire(e) ==
    /\ cache[e] # None
    /\ cache' = [cache EXCEPT ![e] = None]
    /\ UNCHANGED <<status, locked_by, ai_summary, slot, requeues, buried, noted, lost>>

Run(s) == Succeed(s) \/ (\E e \in Error : Bury(s, e)) \/ LoseLease(s)

MakeNote(s) ==
    \/ Lookup(s)
    \/ Answer(s) \/ AgentFails(s)
    \/ Publish(s)
    \/ Store(s) \/ StoreFails(s)

Next ==
    \/ \E s \in Slot : Run(s) \/ MakeNote(s) \/ Crash(s) \/ \E j \in Job : Claim(s, j)
    \/ \E j \in Job : Reap(j) \/ Cancel(j) \/ Requeue(j)
    \/ \E e \in Error : Expire(e)

\* Handlers have a deadline and calls of the model a timeout; Redis answers,
\* or refuses.
Fairness == \A s \in Slot : WF_vars(Run(s)) /\ WF_vars(MakeNote(s))

Spec == Init /\ [][Next]_vars /\ Fairness

-----------------------------------------------------------------------------
(* Properties *)

TypeOK ==
    /\ status \in [Job -> {"PENDING", "RUNNING", "SUCCEEDED", "DEAD", "CANCELLED"}]
    /\ locked_by \in [Job -> Slot \cup {None}]
    /\ ai_summary \in [Job -> Notes \cup {None}]
    /\ cache \in [Error -> Notes \cup {None}]
    /\ slot \in [Slot -> [at : Agents \cup {"idle", "run", "lookup", "publish", "store"},
                          job : Job \cup {None}, burial : Burials \cup {None},
                          error : Error \cup {None}, about : About \cup {None},
                          category : Category \cup {"transient", None},
                          answered : SUBSET Agents]]
    /\ requeues \in [Job -> Nat] /\ \A j \in Job : requeues[j] <= MaxRequeues[j]
    /\ buried \subseteq Burials
    /\ noted \subseteq buried
    /\ lost \subseteq buried

\* set_ai_summary and the shared cache: whichever job a text was made for,
\* and however late it comes, it is about an error this job was buried with.
\* What it says of a task and its attempts is of a job buried with that error:
\* of this one, unless another job failed with the same text.
NotesAreOfOwnErrors ==
    \A j \in Job : ai_summary[j] # None =>
        LET alike == {b \in buried : b.error = ai_summary[j].error} IN
          /\ \E b \in alike : b.job = j
          /\ \E b \in alike : ai_summary[j].about = AboutOf[b.job]

\* generate_summary returns None on any failure: neither a job nor the cache,
\* from which it would spread for a day, ever has a note with an agent of
\* its route missing.
NotesAreComplete ==
    \A note \in {ai_summary[j] : j \in Job} \cup {cache[e] : e \in Error} :
        note # None => note.answered = RouteOf(note.category)

\* AISummaryService, with failures of the model, of Redis and of workers on
\* the way: a note is the whole analysis, and of the job's own error.  It need
\* not name the job's own task: the key of the cache is the error alone.
NotesAreEarned == NotesAreOfOwnErrors /\ NotesAreComplete

\* complete_failure: every burial by a worker that makes notes, not only the
\* first of a job, has had its note stored, or it is being made, or a failure
\* on the way took it.
BurialsAreAccountedFor ==
    /\ \A b \in buried : b.due =>
         \/ b \in noted
         \/ b \in lost
         \/ \E s \in Slot : Noting(s) /\ slot[s].burial = b
    /\ \A b \in noted : ai_summary[b.job] # None

\* set_ai_summary may come after a requeue, a claim or a cancel: it undoes
\* none of them.  Only a run that was given up on puts a job into the queue
\* of the dead.
RequeuesStick ==
    [][\A j \in Job : status[j] # "DEAD" /\ status'[j] = "DEAD" => status[j] = "RUNNING"]_vars

\* The note is made in the task of the job, in a slot of the worker: whatever
\* fails, the slot comes back.
SlotsComeBack ==
    \A s \in Slot : slot[s].at # "idle" ~> slot[s].at = "idle"
=============================================================================
