# Chronos: a verification development

TLA+ models of the Chronos job scheduler, the TLC runs that check them on small
instances, and TLAPS proofs of what matters most for every instance.

- Modules model the Python under `src/backend/app`, and `Console` also the
  browser under `src/frontend`. Other paths below are relative to the former;
  line references of every definition are in `PROJECT.json`.
- Check a run: `tlc -workers 2 -config <cfg> <MC module>`. Check a proof:
  `tlapm <module>_proofs.tla`.

## 1. The system

Chronos accepts jobs over a REST API, keeps them in PostgreSQL, and has a fleet
of worker processes execute them at least once. There is no coordinator:
PostgreSQL rows, guarded `UPDATE`s and row locks are the only synchronization,
and every worker hosts the maintenance loops. Redis carries wake-ups, a rate
limiter and two caches, and may be absent.

| Component | State it keeps | Operations | Talks to |
|---|---|---|---|
| Job store and lease protocol (`services/execution_service.py`, `repositories/jobs.py`, `attempts.py`, `workers.py`) | `jobs`: status, `attempt_count`, `locked_by`, `lease_expires_at`, `run_at`; `job_attempts`; `workers` | register, heartbeat, claim, complete (success or failure), release, reap, cancel, requeue | every worker, the API |
| Claim transaction (`claim_batch`, `_claim_where`, `_claim_capped`) | row locks, running counts | two passes over uncapped and capped queues | queue controls, dependencies |
| Queue controls (`services/queue_service.py`, `models/queue.py`) | `paused`, `max_concurrency`, defaults | create, update, pause, resume | claims |
| Schedules (`services/schedule_service.py`, `materialize_schedules_once`, `domain/cron.py`) | cursor `next_run_at`, `last_run_at`, cron expression | create, update, delete; sweep | the job store, by idempotency key |
| Worker process (`worker/runner.py`, `worker/main.py`) | tasks in flight, drain flag, slot event | consume loop, execute, heartbeat, reaper and scheduler loops, shutdown | the job store, the wake channel |
| Enqueue (`services/job_service.py`) | session of the request | enqueue, enqueue_batch | the job store, queues made on first use, the wake channel |
| Workflow edges (`repositories/dependencies.py`) | `job_dependencies` | created by enqueue, read by claims | claims |
| Retry policy (`domain/retry.py`) | none | backoff, jitter, retry or bury | failures, the reaper |
| Event bus (`events.py`) | Redis channel, counters, cache | publish, wait, rate limit, cache | enqueue, workers, login, overview, notes |
| Failure pipeline and AI summary (`services/failure_pipeline.py`, `ai_summary_service.py`) | `jobs.ai_summary`, a cache of notes in Redis | triage, diagnose, remediate, compose; store the note | burials, in the slot of the job |
| Overview and dashboard (`services/stats_service.py`, `frontend/hooks/use-polling.ts`, `frontend/lib/api.ts`) | cached overview; token, page and data in the browser | poll, act and refresh, log in and out | the API, the login throttle |
| Tenancy, accounts, roles, other views | rows, no protocol | creation and queries | - |

### What is hard here

- **Stale actors.** A handler runs outside any transaction. By the time it ends,
  the lease may be gone, and the job run by another worker or by the same one.
- **Lost answers.** A commit may succeed and its acknowledgement be lost; a
  finalizing transaction may fail on a worker that lives on.
- **Two processes counting one budget.** Failures are charged by the worker, losses
  by the reaper; releases refund; requeues start afresh.
- **READ COMMITTED.** A claim is several statements, each with a snapshot of its own; counts and admissions agree only because of the lock on the queue row.
- **ORM copies.** An edit of a schedule writes the columns that differ from a copy
  it read without a lock; an enqueue keeps rows to itself until a flush.
- **Work after the commit.** A note is made after the transaction that buried the
  job and stored by another one, without a guard; a dashboard shows answers that
  were computed, cached and delivered in any order.
- **Order and fairness.** Who is claimed next depends on priority, age, retries and
  which queues have a cap.
- **One event loop per worker.** Everything interleaves at every `await`: a task
  may end, or the signal come, while a claim is under way.

The complete list, each item at its line, is under `hazards` in `PROJECT.json`.

## 2. Modules

| Module | Models | Extended by |
|---|---|---|
| `JobLifecycle` | what the job table promises its clients: the state machine in the docstring of `models/job.py` with its attempt budget | abstract specification of `Execution` |
| `Execution` | `ExecutionService`, one action per transaction, with worker processes that heartbeat, stall, drain and crash | `MCExecution`, `Execution_proofs` |
| `Execution_proofs` | theorems of `Execution`, among them that it implements `JobLifecycle` | - |
| `AtomicClaims` | what `claim_batch` promises the rest of the system: a claim is one step, within caps and pauses | abstract specification of `ClaimBatch` |
| `ClaimBatch` | the claim as the statements it consists of, with row locks, against operators and owners | `MCClaimBatch`, `ClaimBatch_proofs` |
| `Materializer` | `materialize_schedules_once` against `ScheduleService` | `MCMaterializer`, `Materializer_proofs` |
| `WorkerRunner` | one worker process, from `await` to `await` | `MCWorkerRunner`, `WorkerRunner_proofs` |
| `Enqueue` | `enqueue` and `enqueue_batch`, statement by statement, and the queues they go to | `MCEnqueue`, `Enqueue_proofs` |
| `ClaimOrder` | the order of `claim_batch` with its priority aging, and the delays of `domain/retry.py` | `MCClaimOrder`, `ClaimOrder_proofs` |
| `FailureSummary` | the note on a buried job: the agents, the cache, the second transaction | `MCFailureSummary`, `FailureSummary_proofs` |
| `Console` | an operator's browser, the cached overview, the login throttle | `MCConsole`, `Console_proofs` |

The modules overlap where components meet and abstract each other there:
`Execution` takes a claim as one step (`ClaimBatch` opens it), any set of due
jobs being claimable; `WorkerRunner` takes the database to be four states per
job (`Execution` has the rest); `ClaimBatch` takes worker and reaper to be
`Settle` and leaves the order of candidates open, which `ClaimOrder` has;
`FailureSummary` starts where `complete_failure` of `Execution` commits.

Every component's module states its type invariant, and all of them are proved;
the one of `Execution` is also run. Several properties are conjunctions of named parts (`TakenIsEntitled`,
`StartsAreBounded`, `CursorAndJobsAgree`, `JobsAreAccountedFor`,
`AllOrNothing`, `NotesAreEarned`), each part commented where it is defined.

Each module has a few *slips*: operators like `ExpiredEarly` that no action
uses, each the body of the operator after it with one plausible mistake.
Putting a slip in the place of the real operator makes TLC report the property named
beside it under `mutants` in `PROJECT.json`; that is how we know that a property
notices something.

### Execution

State is the `jobs`, `job_attempts` and `workers` tables, and for each worker
process where it is in `WorkerRunner.run` and the tasks it has in flight. A task
remembers the job and attempt number that the claim returned, as
`_execute` does, and as a ghost the row it opened.

| Action | Code |
|---|---|
| `Register`, `Heartbeat` | `register_worker`; `heartbeat`: liveness and all its leases in one transaction |
| `Claim`, `ClaimUnacknowledged` | `claim_jobs`; the second is a commit whose answer is lost: the rows name a worker that does not know |
| `CompleteSuccess`, `CompleteFailureRetry`, `CompleteFailureDead`, `ReleaseJob` | `complete_success`, `complete_failure` by its two outcomes, `release_job`; each requires `(RUNNING, locked_by)` and closes the attempt row |
| `LeaseLost` | the same calls when the guard fails: nothing is written |
| `FinalizeRollsBack` | the same calls when the transaction fails |
| `Reap` | `reap_once`: offline workers, and up to `ReapLimit` expired leases to retry or burial |
| `Cancel`, `Requeue` | the owner, through `JobService` |
| `BeginDrain`, `GraceExpires`, `Stop`, `Crash` | `_shutdown` and a process that dies |
| `AnnounceFails`, `Unwound` | the write of `DRAINING` fails: `run` raises, `asyncio.run` cancels tasks and maintenance loops together, and the process ends when the tasks have; its row stays `ONLINE` |
| `Tick` | the database clock; a worker outside `Stallable` has heartbeated before its interval is over |

Time is kept as distances from `now()` (ticks a lease has left, ticks until a
job is due), which keeps the state space finite without bounding the clock.
The only counter that is bounded is the number of attempt rows per
job, `MaxRows`; a claim needs a free row.

### ClaimBatch

An action is a statement of the transaction: `ClaimUncapped`; `LockQueues`
(`FOR UPDATE SKIP LOCKED` over capped queues); `CountFull` or `CountRoom` and
`Admit` for each of them in the order of ids; `Commit` or `Rollback`. `taken`
holds the job rows the transaction has locked and changed, `locked` its queue rows. Plain
`UPDATE`s (cancel, pause, cap) wait for the locks. `ORDER BY` is abstracted to
any choice of candidates, so what holds here holds for every order.

`AtomicClaims` is the same table with the claim as one step, `Claim(c, S)`, and with
no locks. `Commit` maps to it, every other statement of a transaction to a
stutter, and what owners, workers and operators do to steps of their own. What the abstract claim may
take is where the promise is: pending jobs of subscribed queues, no more than
the limit, and, by the kind of their queue, within its cap and its pause at that
moment, or unblocked and of the shard.

### Materializer

A sweep is: try the advisory lock and load due rows `FOR UPDATE SKIP LOCKED`
(`SelectDue`); look up for each whether its tick has a job (`CheckKey`); then jobs
and cursors in one commit, which the unique index refuses if a key is there after
all (`KeysAreFree`). Keys, jobs and cursors are worked out on the rows as loaded, and
the jobs of a schedule are a sequence, so that a tick that fired twice would be
there twice. `began` is the transaction's `now()`, which
may be older than another sweep's commit. An edit is two steps, reading the row
and committing the difference between the copy and what it wants (`Flushed`),
because that is what the ORM sends. A cron expression is its period.

### WorkerRunner

`pc` is the `await` the main coroutine is suspended at, and `task` the `await` of
each job's task, its done callback being a step of its own. `answer` is what a
claim has committed and not returned. Shutdown is modelled from every place,
including the one where announcing `DRAINING` fails and `asyncio.run` cancels
everything. Redis may refuse a subscription, drop a message, or time out.
Registration and closing connections are left out.

### Enqueue

`pc` is the statement of the request's transaction; `staged` are rows the session has
added but not flushed, `tx` what the transaction has inserted. An `INSERT` under
a unique index waits for a transaction that has inserted the same value;
the database breaks cycles of waits. `OnCollision` says who catches
`IntegrityError`. Losing the race for a queue rolls back a savepoint. Queues are
made on first use (`CreateQueue`) or by `QueueService.create`
(`CreateConfigured`), and `Update` edits their defaults; `cached` is each queue as
the request read it, from which `_build_job` takes what a job does not bring
(`Policy`). The defaults and the policy are one value each. One organization with one
project; `workflow_id` and payload are left out, and so is a dependency listed
twice in one request.

### ClaimOrder

A claim is one step here and its `ORDER BY` is the code's: `Effective` is the
priority plus one point per interval waited, `Firsts` what a `LIMIT` in that order
may return; the uncapped queues come first and the capped one gets the rest.
`wait` is `now() - run_at`, negative while a retry is delayed by one of the
three strategies, its cap and its jitter. A job that has ended may be enqueued again
under its name (`Recurring`), so a few names are an endless stream. Time passes only
when something was claimed since the last tick or nothing is ready: the
properties are about who a fleet that serves somebody serves, not about one that
serves nobody.

### FailureSummary

A slot is a worker with one slot. Its task runs the job, settles it and, still
in its slot, looks up the cache, asks the agents one after the other, caches the
text and stores it; each of these steps can fail. A note is what it was made
from: the error, what the prompts say of the job (`task_name` and `attempt_count`, one
value, `About`), the category, and the agents that answered. The cache is filed under the
error alone, so a hit brings the `About` of the job the text was made for. A worker without a
`GEMINI_API_KEY`, which is the default, or without a bus is a slot outside
`Noters`: it buries and that is all. Every run of a job is the
last of its budget, so a failure is a burial; `buried`, `noted` and `lost`
record burials one by one.

### Console

A request of the browser is a step when it is sent, when the server reads, and
when the answer arrives; two overlap and pass each other. `live`, `stale` and `gone`
say whether the effect that sent it is mounted, has been cleaned up, or has gone
with its document. Data are the version of the database they were read at; an
overview of several statements is as old as the first (`FirstRead`). The two
commands of the rate limiter are one step, since nobody can tell them apart,
with a loss of the second. Answers that nobody listens to are dropped where they are
computed.

## 3. Runs

| Run | Instance | What it shows |
|---|---|---|
| `prompt` | 1 job, 2 workers that both crash and drain, 2 attempts, 4 attempt rows | Without stalls: at most one task per job, an open attempt row is the current claim's, the budget is what the log says, the last row explains the status, the fleet view lists who drains as draining unless that could not be written, and `Execution` implements `JobLifecycle` |
| `fleet` | 2 jobs, 2 workers, one of which stalls, drains and crashes, fair | Whatever stalls: running jobs are audited, only holder or reaper ends a run, verdicts are immutable; the other worker's tasks own their attempts; a claimed job is settled and a poison job reaches `DEAD` |
| `zombie` | 1 job, 1 worker whose transactions may fail | Finding, section 6 |
| `claims` | 2 claimers, limit 2, 5 jobs: two in an uncapped queue both serve, two in a queue whose cap moves, one in an uncapped queue only the first serves; the first two queues pausable | Claims are exclusive, a claim takes no more than its slots and, in the first pass, nothing blocked or of another shard, and `ClaimBatch` implements `AtomicClaims`: it is one step, within the caps and pauses of that moment |
| `workflow` | 2 jobs in a capped queue | Finding |
| `sweeps` | 2 hosts, an editor with 5 kinds of edit, a deleter, 1 schedule with 2 periods, clock up to 3 | A tick fires once, cursor and jobs agree, what a sweep has loaded and looked up is so until it commits, missed ticks collapse, dead schedules do not fire, due ones do |
| `loop` | 3 jobs, 2 slots, everything fails | Slots hold; held jobs have tasks; the heartbeat covers every task; a freed slot is never slept through; sign-off leaves nothing behind; a ready job is taken or passed over in favour of others for ever; a signal ends the process |
| `requests` | 3 requests over 6, 6 and 4 kinds of plan, 2 keys, 2 queues, 2 owners | One job per key, batches whole or absent, refusals leave nothing, policies are ones the queue has had, workflows are acyclic, requests end |
| `aging` | a low-priority job that fails, a high-priority stream of one, 2 jobs in a queue capped at 1, 2 slots | While the stream itself does not wait for an interval, a start is delayed by at most the backoff with its jitter and, here with two jobs in uncapped queues, interval x boost; the job comes to its end; the capped queue gets its turn |
| `starvation` | a low-priority job, a stream of two, 1 slot | Finding |
| `summaries` | 2 jobs of different tasks, 2 workers that make notes and 1 that does not, 2 errors, 2 categories, a requeue of one job | A note is whole, of the job's own error, and speaks of the task of a job that failed alike; every burial by a worker that makes notes has its note or a failure to show for it, a late note undoes no requeue, and the slot comes back |
| `console` | 2 requests at a time, 2 changes, a limit of 1 in a window of 2 | No late answer puts back what an action changed, an open dashboard converges, and who is throttled need only wait |

**Why these bounds.** The interesting cases of the lease protocol need one job
that is claimed, lost, and claimed again by the same or another worker: two
workers, two attempts and three rows reach all of it, and the fourth row in `prompt` a
requeue in between. Two jobs appear where a statement acts on sets (`Reap` with
limit 1, a claim of two). `claims` needs two jobs in one capped queue for
the cap to bind, and two in an uncapped queue that both claimers serve, so that each
scans rows the other has locked (one of the two is blocked until the job of the third queue
succeeds); two claimers because locks are pairwise. The jobs of the capped queue are
interchangeable and its properties are safety, so their symmetry is used. The loop over several capped
queues is left to `ClaimBatch_proofs`, which hold for any number of them. `sweeps` needs
two hosts, and enough ticks for one to be missed, two collapsed, and an
edit to move the cursor back; `SomeEdits` has every edit of one column and a new
expression with a pause. `loop` has one job more than slots. `requests`
has three requests, since a lost race takes two and a third can depend on
either, or configure the queue both fight for. In `aging` and `starvation` the
largest difference of priorities equals the largest boost, as it does with the
defaults (200 for both), and `Horizon` lies beyond the last wait that changes an
order. `summaries` has two errors and two jobs of different tasks for notes to be mixed up,
two workers for two notes to be under way, a third that makes none, and a
requeue for a note to come late and for a second burial; since the jobs are alike but for
their names, it does not matter which one it is of. `console` needs two requests to overlap and two
changes for an answer to be older than another. `Lease = 2`, `HeartbeatEvery = 1` is
the smallest lease that outlives a heartbeat; the proofs hold for every value of these
constants, `MaxRows` included.

**Fairness.** `Execution`: heartbeats, reaping and time go on as long as some
worker lives, since the loops catch every exception (`runner.py:221-260`);
a worker with nothing left in flight stops or has unwound; handlers end
because `wait_for` has a deadline; workers outside `Mortal` keep polling.
`Materializer`: weak fairness of the clock and of a host's beginning; strong fairness of the lookups and the commit, since a sweep
may abort but not every time. `WorkerRunner`: waits have
timeouts, transactions end, and a claim that finds something does not fail every
time. Which of the ready jobs it takes is not assumed: `ReadyJobsAreTaken` says that a
job is taken, or others are preferred to it again and again (`PassedOver`), and
`ClaimOrder` says when the `ORDER BY` does that.
`Enqueue`: statements return and deadlocks are
detected. `ClaimOrder`: workers poll, handlers end, time passes; nobody need
enqueue. `FailureSummary`: handlers have a deadline and calls of the model a timeout; Redis
answers or refuses. That last one is an assumption about Redis: `EventBus` sets no `socket_timeout`
(`events.py:22`), and a Redis that accepts a command and never answers holds the slot.
`Console`: the interval fires, requests end one way or another, keys of Redis
expire; that a dashboard converges is claimed for one that stays open, logged in, and
whose requests eventually stop failing. No fairness is assumed of failures, signals, owners or operators.

`CHECK_DEADLOCK FALSE` appears where the system may come to rest: a worker process
that has ended, requests that are all answered, jobs that are all over, a
browser at the login page.

## 4. Proofs

Theorems hold for every value of the constants that satisfies the assumptions of
the module, unless a hypothesis is named below. They speak of safety, so
they use `Init` and `Next` and no fairness. Each inductive invariant was checked
by TLC on the instance of a run before it was proved; the proofs do not depend
on that. The argument is the same everywhere: what a run checks is not inductive,
a conjunction of named parts is, one lemma for each action (or family of actions)
shows that it is preserved, and the properties follow.

**`Execution_proofs`**: no hypothesis about stalls. That a running job has an
open row says nothing about which row, and a settling worker closes rows by number.
The inductive invariant `AuditInv` adds
what ties a job row to its log: exactly the running jobs have a holder
(`HolderIffRunning`); a running job has been charged an attempt
(`RunningIsCharged`); rows beyond the last one are blank (`BlankAhead`); and the last row of a
running job is open, names its holder and carries its number
(`AuditedByLastRow`). From
it: `TypeCorrect`, `RunningIsAuditedAlways`, `OnlyHolderOrReaperAlways`,
`VerdictsAreImmutableAlways`; and `StatusMachineAlways`, which is what is left of
`JobLifecycle` when workers stall: the transitions and what they cost, but not
that the budget ends them.

A second part is about what a worker outside `Stallable` may rely on.
`LeaseInv` adds that only live processes have tasks (`ProcessesAreListed`), that
the lease of a job held by a prompt worker outlives that worker's next heartbeat (`LeasesFresh`), that its tasks own their attempts, that it is listed as what it is unless it could not
announce that it drains, and
that no open row but the current one names it. `LeasesFresh` is where
`HeartbeatEvery < Lease` enters. `PromptTasksOwnTheirAttemptAlways` and
`PromptWorkersAreListedAlways` hold beside workers that stall, and so do two theorems about
the jobs such a worker runs: another of its kind never runs them too, a zombie
that does cannot settle them (`PromptTasksStandAlone`), and they leave `RUNNING`
in the very step in which its own task ends (`PromptRunsEndWithTheirTask`). The rest has the
hypothesis `Stallable = {}`, as the run `prompt`; section 6 shows that the first
two fail without it:

- `NoTwoTasksInPromptFleets`, `OpenRowsAreCurrentInPromptFleets`;
- `BudgetMatchesLogInPromptFleets`, `LastRowExplainsStatusInPromptFleets`, by `LogInv`:
  the log of a job starts at its last requeue, has as many rows that were not
  given back as attempts were charged, and its last row fits the status. Two of
  its steps are counting: closing an open row as `ABORTED` takes one row out of a
  finite set, and every other verdict leaves the set alone. The hypothesis is what makes
  the row a task closes the last one;
- `PromptFleetsImplementLifecycle`: every behaviour of `Execution` is one of
  `JobLifecycle`, by a step-by-step simulation under `BudgetInv` (a running job is
  within its budget, others have attempts to spare unless they are over).

**`ClaimBatch_proofs`**: `ClaimInv`. Row locks are pairwise (`NothingHeldTwice`);
what a transaction has taken is still `PENDING` and was its to take
(`TakenFits`); what the locking statement returned stays true while a queue row is
held (`LockedStands`), so the count it acts on still leaves the capacity computed from it
(`CountFits`, `AdmittedFits`); what was taken and what may still be taken make up the
limit (`RoomFits`). From it `ClaimsExclusiveAlways`, `EntitledAlways`, and:

- `CappedQueuesAlwaysObey`: a step that starts jobs of a queue that keeps a cap,
  wherever operators move it, ends within it and outside a pause. It is stated per
  queue, so what becomes of other queues does not matter. A queue given its first cap is the
  exception (section 6);
- `ClaimsAreAtomic`: every behaviour of `ClaimBatch` is one of `AtomicClaims`.
  `CommitIsClaim` is the step that matters: what was counted and admitted several
  statements ago still fits at the commit, because the queue row was held.

Sets of jobs are finite (`ClaimAssumption`).

**`ClaimOrder_proofs`**: two invariants. `OrderInv` has the types, that a
started job has attempts to spare (`AttemptsFit`), the capacities, and that no retry
is due later than the cap and its jitter; it holds for every load
(`OrderTypesAlways`, `CapacityAlways`, `DelaysAlwaysBounded`). How long a job waits
depends on what it waits with:

- `OnlyAgedJobsPass`, if the boost covers the differences of priority
  (`BoostCoversPriorities`, true of the defaults): once a job has its full
  boost, every job started before it has waited for an interval itself. So starving
  takes a backlog in which everybody has, as in the run `starvation`;
- `StartsAlwaysBounded` needs `LoadIsLight`: also, at least two jobs in uncapped queues
  and no more of them than an interval has ticks, which the run `aging` satisfies and
  `starvation`, with three and an interval of two, does not. `Horizon` is beyond the bound.
  Once a job has its full boost, those who may still pass it have waited about as long, its
  `Rivals`; every tick serves one of them, and a job enqueued since cannot become one before
  the bound. `LateFits` is that count, `ServedShows` what one claim per tick leaves
  behind.

`PowerAssumption` says that powers of `Factor` are numbers: the provers know
nothing of `^`, TLC evaluates it. The set of jobs is finite.

**`Materializer_proofs`**: `SweepInv`. A job's key is its tick (`KeysAreTicks`); a locked row
stays due and is locked by one sweep (`LocksHold`); the cursor is past the
sweep that fired last unless an edit restarted it (`CursorIsPastSweep`); and the parts of
`CursorAndJobsAgree` itself. That no tick has two jobs is preserved by a commit only because what
the sweep has looked up is still so (`SweepsAreUndisturbed`), and that needs the
row locks. `EditsAssumption`: a `PATCH` has fields of the schema.
From it `CursorAndJobsAlways`, `MissedTicksAlwaysCollapse` and `OnlyLiveAlwaysFire`,
for hosts that die at any point and edits made on stale copies.

**`WorkerRunner_proofs`**: `RunnerInv`. A job the database gave this worker is held by exactly one of
its task, a claim about to start it, and nobody (`HeldOnce`, `HoldersApart`);
tasks and what a claim may still start fit the slots although tasks end during
the claim (`SlotsAreOwed`); the shutdown goes in its order (`ShutdownInOrder`).
`JobsAccountedForAlways`, `HeartbeatsCoverAlways`, `FreedSlotAlwaysWakes`. The
set of jobs is finite.

**`Enqueue_proofs`**: `EnqueueInv`. Keys are unique over committed and open rows
together (`KeysAreUnique`), which is what an index gives that makes an `INSERT`
wait for its rival; every queue has a maker that was not refused (`QueuesHaveMakers`); and for each
request the statements it can be at (`RouteFits`), that items before its place are
inserted or staged (`ItemsFit`), that nothing of it is committed before its
commit and then everything (`CommitFits`), what it may tell its caller
(`AnswerFits`), and that the queues it has read were committed once or are its own
(`CacheFits`). The last one is not inductive for requests that were rolled back, and is not claimed for
them. `OneJobPerKeyAlways`, `AllOrNothingAlways`,
`JobsHaveQueuePolicyAlways`, `WorkflowsAreDagsAlways`. `PlansAssumption` says of a plan what
`schemas/job.py` does: a batch has an item, a single request at most one.

**`FailureSummary_proofs`**: `NotesInv`. The agents that have answered are those
before the task's place on the route of its category (`NobodySkipped`); the error of a note under way is
that of its burial, and what it says of a task is of some job buried with that error (`NotingOwnError`); a
cached note is complete, of the error it is filed under, and speaks of some job buried with it
(`CacheIsOfItsKey`). So the sharing of the cache keeps errors apart but not tasks (section 6).
`BurialsAccountedForAlways` is about each burial, with the one a slot is at work on in
its state; it claims nothing for workers outside `Noters`.
`NotesEarnedAlways`, `BurialsAccountedForAlways`, `RequeuesStickAlways`.
`NoteAssumption`: no note is the value that stands for none.

**`Console_proofs`**: `ConsoleInv`. Nothing is newer than the database; an
answer under way is awaited by the mounted effect; the page of dead jobs asks
for lists only, so it gets nothing from the cache; and an answer on its way to it was read after
the action it was refreshed for (`AnswersAreFresh`), because the refresh
cleaned up every earlier request. `ReadYourActionsAlways`.

**Only model-checked.** Every safety property that a passing run checks is stated
by a theorem, some for fleets or loads that meet a named hypothesis. What is left:

- liveness: `RunningSettles`, `BacklogConverges`, `JobsComeToAnEnd`, `CappedQueueFollows`,
  `DueSchedulesFire`, `ReadyJobsAreTaken`, `SlotsComeBack`, `RequestsEnd`,
  `ShutdownCompletes`, `WindowsEnd` and `DashboardConverges` need fairness and `ENABLED`,
  beyond the prover;
- the findings, which are violations.

## 5. Not modelled

- Registration, organizations, projects and roles: rows behind uniqueness
  constraints and comparisons. Two registrations of one email race for an `INSERT`
  under a unique index, as in `CreateConfigured`.
- Metrics, health, and the views other than the overview and the list of dead jobs:
  queries that change nothing. Forms, dialogs and charts of the web
  application: no state the system depends on. Migrations, seed data, benchmarks
  and report tools: not part of the running system.
- Handlers: a handler ends in any way, at any time before its deadline. The
  language model: it answers anything, raises or times out; its answer is reduced
  to a category.
- Cron expressions are periods; the job template of a schedule and the queue it
  resolves are left out.

## 6. Where code and documentation disagree

Three of these are runs in which TLC finds the behaviour; `findings` in
`PROJECT.json` quotes the lines.

1. `zombie`: if the finalizing transaction fails and the worker lives on, its
   heartbeat keeps the lease of a job nobody runs.
2. `workflow`: the second pass of a claim has neither the dependency nor the shard
   filter, so a cap on a queue lifts them.
3. `starvation`: the jobs of a high-priority stream age as well. Under a standing
   backlog, where each waits for an interval itself, a low-priority job is passed over
   for ever, though `ARCHITECTURE.md` says "never forever".

Four more are found by the same modules with another property or instance:

4. The guard of a settling `UPDATE` is the worker, not the attempt. A
   worker that stalls past its lease and claims the same job again has two tasks
   for it, the older of which can settle the newer attempt; its row stays open.
   (`MCExecution` with one job, `Stallable = {w1}`,
   `Concurrency = 2` and `OpenRowsAreCurrent`.)
5. An edit that recomputes the cursor to the value it read does not
   write it, and a sweep's value, computed from the old expression, remains.
   (`MCMaterializer` without a deleter and `CursorIsATick`.)
6. A request that loses the race for its idempotency key raises when
   it reads `user.id` after the rollback; a batch raises when its collision
   surfaces before the `try`. (`MCEnqueue` with `CollisionsAreHandled`.)
7. A queue given its first cap while a claim is between its first pass and its commit:
   that pass counted nothing and locked no queue row, and the commit starts what it took,
   beyond the cap, though "the cap cannot be exceeded, ever" (`repositories/jobs.py:172`).
   (`MCClaimBatch` with `InitialCap` all `NoCap`, `Caps` of queue 2 `{1}`, and
   the conclusion of `CappedQueuesAlwaysObey` for every queue that has a cap.)

Read on the way:

- The boost "bounds starvation at interval × boost" (`README.md:153` of the repository)
  for two jobs; with more, those that waited as long are served first, one tick each,
  as the bound of `StartsAreBounded` has it.
- A draining worker that stalls is marked `OFFLINE`, and its next heartbeat lists
  it `ONLINE` (`repositories/workers.py:36-45`, against the comment there).
- `depends_on` of a batch's items is ignored (`NewEdges`; `schemas/job.py` promises
  it for every job).
- A resume recomputes the cursor from now, so ticks missed during a pause do not
  collapse into one firing as `execution_service.py:307` and
  `api/routers/schedules.py:22` have it.
- `set_ai_summary` stores its note "on a DLQ job" (`repositories/jobs.py:531`); by
  then the job may be anything (`StatusAfterNote`), and the note of an older burial
  may replace that of a newer one. Burials by the reaper get no note, and neither does any without
  a `GEMINI_API_KEY`, which is the default (`ai_summary_service.py:56-57`), though
  `ai_summary_service.py` says "when a job lands in the DLQ". Identical failures at the
  same time both run the pipeline.
- The prompts name the task and the attempt (`failure_pipeline.py:98-99`, `112`, `126-127`,
  `138-139`) and the cache is filed under the error alone (`ai_summary_service.py:60-62`): a
  job that fails with the same text as one of another task within a day is given a note that
  speaks of that task and its attempts. `NotesAreOfOwnErrors` allows it for that reason.
- A worker that cannot write `DRAINING` when it is told to stop ends without signing off and
  is listed `ONLINE` until the reaper notices (`runner.py:87-89`).
- If the expiry of a login counter is lost between its two commands, "try again in a
  minute" (`api/routers/auth.py`) never comes true (`ExpiryLost`).
- A late 401, of a request sent under an earlier token, clears the token of a login made
  since (`Refused`). Two overlapping polls of one effect may be shown in the wrong
  order until the next one.
- `scripts/bench.py:110-112` says "always clean up", but jobs are enqueued before the `try`.

## 7. Plan

Done: `JobLifecycle`, `Execution` and its proofs, `ClaimBatch`, `ClaimOrder`,
`Materializer`, `WorkerRunner`, `Enqueue`, `FailureSummary`, `Console`.

`ClaimBatch` implements `AtomicClaims`, and the proofs of all of them.

What is left, in this order:

1. Registration and projects, in `Enqueue`, with `default_project`.
2. A composition of `ClaimOrder` with `ClaimBatch`: the order under concurrent
   claimers, each of which passes over the rows the other has locked.
3. The job template of a schedule and the queue its jobs go to, in `Materializer`.
