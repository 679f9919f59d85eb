--------------------------- MODULE Execution_proofs ---------------------------
(***************************************************************************)
(* Theorems about Execution, for every number of jobs and workers, every   *)
(* bound and every choice of the environment constants.                    *)
(*                                                                         *)
(* First what ties job rows to the attempt log, and the moves of a job,    *)
(* whatever stalls.  Then what the lease gives to a worker that heartbeats *)
(* in time: its tasks own their jobs, its rows are current, it is listed.  *)
(* Workers in Stallable may miss heartbeats, be reaped while they run and  *)
(* finish late; none of that reaches the others.  Last the fleets without  *)
(* stalls, which implement JobLifecycle.                                   *)
(***************************************************************************)
EXTENDS Execution, FiniteSetTheorems, TLAPS

-----------------------------------------------------------------------------
(* Operators the actions are built from *)

\* Less1 is the clock's step on a deadline: it never leaves 0..b.
LEMMA Less1Type ==
    ASSUME NEW b \in Nat, NEW n \in 0..b
    PROVE  Less1(n) \in 0..b
  BY DEF Less1

\* AttemptRepository.finish writes verdicts on open rows with that number
\* and nothing else.
LEMMA CloseRowsFacts ==
    ASSUME NEW log \in [RowId -> Row], NEW n, NEW verdict \in AttemptStatus
    PROVE  /\ CloseRows(log, n, verdict) \in [RowId -> Row]
           /\ \A i \in RowId :
                /\ CloseRows(log, n, verdict)[i].attempt_number = log[i].attempt_number
                /\ CloseRows(log, n, verdict)[i].worker_id = log[i].worker_id
                /\ log[i].status # "RUNNING" => CloseRows(log, n, verdict)[i] = log[i]
                /\ CloseRows(log, n, verdict)[i].status
                     = IF log[i].attempt_number = n /\ log[i].status = "RUNNING"
                       THEN verdict ELSE log[i].status
  BY DEF CloseRows, Row, AttemptStatus

\* A claim opens well-typed rows.
LEMMA OpenRowType ==
    ASSUME NEW w \in Worker, NEW n \in Nat
    PROVE  OpenRow(w, n) \in Row
  BY DEF OpenRow, Row, AttemptStatus

-----------------------------------------------------------------------------
(* Types *)

\* A guarded UPDATE out of RUNNING keeps the types of what it writes.
LEMMA SettleType ==
    ASSUME TypeOK, NEW j \in Job, NEW next \in JobStatus, NEW n,
           NEW verdict \in AttemptStatus, Settle(j, next, n, verdict)
    PROVE  /\ status' \in [Job -> JobStatus]
           /\ locked_by' \in [Job -> Worker \cup {NoWorker}]
           /\ lease_left' \in [Job -> 0..Lease]
           /\ finished' \in [Job -> BOOLEAN]
           /\ rows' \in [Job -> [RowId -> Row]]
           /\ opened' \in [Job -> 0..MaxRows]
           /\ epoch' \in [Job -> 0..MaxRows]
           /\ wstatus' \in [Worker -> WorkerStatus \cup {"absent"}]
           /\ hb_age' \in [Worker -> 0..(OfflineAfter + 1)]
           /\ proc' \in [Worker -> ProcState]
  <1>1. CloseRows(rows[j], n, verdict) \in [RowId -> Row]
    BY CloseRowsFacts DEF TypeOK
  <1>2. rows' \in [Job -> [RowId -> Row]]
    BY <1>1 DEF TypeOK, Settle
  <1>3. finished' \in [Job -> BOOLEAN]
    BY Zenon DEF TypeOK, Settle
  <1> QED
    BY <1>2, <1>3, LeaseAssumption DEF TypeOK, Settle, workerVars

\* A finished task leaves its worker's in-flight set.
LEMMA DropType ==
    ASSUME TypeOK, NEW w \in Worker, NEW e, Drop(w, e)
    PROVE  /\ inflight' \in [Worker -> SUBSET Execution]
           /\ e \in Execution
           /\ e.job \in Job
           /\ e.attempt_number \in Nat
           /\ e.row \in RowId
  BY DEF TypeOK, Drop, Execution

\* What a release does, whichever way it was reached.
LEMMA ReleaseFacts ==
    ASSUME NEW w, NEW e, ReleaseJob(w, e)
    PROVE  /\ Drop(w, e)
           /\ Holds(w, e.job)
           /\ Settle(e.job, "PENDING", e.attempt_number, "ABORTED")
           /\ attempt_count' = [attempt_count EXCEPT ![e.job] = Refunded(@)]
           /\ run_in' = [run_in EXCEPT ![e.job] = 0]
  BY Zenon DEF ReleaseJob

\* A claim keeps the types of the rows and columns it writes.
LEMMA ClaimType ==
    ASSUME TypeOK, NEW w \in Worker, NEW S \in SUBSET Job,
           MayClaim(w, S), ClaimRows(w, S)
    PROVE  /\ status' \in [Job -> JobStatus]
           /\ attempt_count' \in [Job -> Nat]
           /\ locked_by' \in [Job -> Worker \cup {NoWorker}]
           /\ lease_left' \in [Job -> 0..Lease]
           /\ run_in' \in [Job -> 0..MaxBackoff]
           /\ finished' \in [Job -> BOOLEAN]
           /\ opened' \in [Job -> 0..MaxRows]
           /\ rows' \in [Job -> [RowId -> Row]]
           /\ epoch' \in [Job -> 0..MaxRows]
  <1>1. status' \in [Job -> JobStatus]
    BY DEF TypeOK, ClaimRows, Assign, JobStatus
  <1>2. locked_by' \in [Job -> Worker \cup {NoWorker}]
    BY DEF TypeOK, ClaimRows, Assign
  <1>3. lease_left' \in [Job -> 0..Lease]
    <2>1. Lease \in 0..Lease
      BY LeaseAssumption
    <2> QED
      BY <2>1 DEF TypeOK, ClaimRows, Assign
  <1>4. attempt_count' \in [Job -> Nat]
    BY DEF TypeOK, ClaimRows, NextNumber
  <1>5. opened' \in [Job -> 0..MaxRows]
    BY CountsAssumption DEF TypeOK, ClaimRows, MayClaim
  <1>6. rows' \in [Job -> [RowId -> Row]]
    <2>1. \A j \in Job : OpenRow(w, NextNumber(j)) \in Row
      BY OpenRowType DEF TypeOK, NextNumber
    <2> QED
      BY <2>1 DEF TypeOK, ClaimRows
  <1> QED
    BY <1>1, <1>2, <1>3, <1>4, <1>5, <1>6 DEF TypeOK, ClaimRows

\* The tasks a claim starts are executions.
LEMMA StartedType ==
    ASSUME TypeOK, NEW w \in Worker, NEW S \in SUBSET Job, MayClaim(w, S)
    PROVE  {Started(j) : j \in S} \in SUBSET Execution
  <1>1. \A j \in S : opened[j] + 1 \in RowId /\ NextNumber(j) \in Nat
    BY CountsAssumption DEF TypeOK, MayClaim, RowId, NextNumber
  <1> QED
    BY <1>1 DEF Started, Execution

-----------------------------------------------------------------------------
(* The audit invariant: what the row of a job says of its log, whatever the  *)
(* workers do.                                                               *)

\* A refund is only ever taken from an attempt that was charged.
RunningIsCharged == \A j \in Job : status[j] = "RUNNING" => attempt_count[j] > 0

\* jobs.locked_by is set exactly while the job runs.
HolderIffRunning == \A j \in Job : locked_by[j] \in Worker <=> status[j] = "RUNNING"

\* Rows that were not opened yet are blank.
BlankAhead ==
    \A j \in Job, i \in RowId : i > opened[j] => rows[j][i] = NoRow

\* The last row of a running job records the claim it runs under.
AuditedByLastRow ==
    \A j \in Job : status[j] = "RUNNING" =>
        /\ opened[j] > 0
        /\ Live(j, opened[j])
        /\ rows[j][opened[j]].attempt_number = attempt_count[j]
        /\ rows[j][opened[j]].worker_id = locked_by[j]

AuditInv ==
    /\ TypeOK
    /\ RunningIsCharged
    /\ HolderIffRunning
    /\ BlankAhead
    /\ AuditedByLastRow

\* Types are preserved by every step; a release subtracts from a charged
\* attempt, so the count stays a natural number.
LEMMA TypeStep == TypeOK /\ RunningIsCharged /\ [Next]_vars => TypeOK'
  <1> SUFFICES ASSUME TypeOK, RunningIsCharged, [Next]_vars
               PROVE  TypeOK'
    OBVIOUS
  <1>1. ASSUME NEW w \in Worker, Register(w)
        PROVE  TypeOK'
    <2>1. 0 \in 0..(OfflineAfter + 1)
      BY LeaseAssumption
    <2> QED
      BY <1>1, <2>1 DEF TypeOK, Register, jobVars, attemptVars, ProcState, WorkerStatus
  <1>2. ASSUME NEW w \in Worker, Heartbeat(w)
        PROVE  TypeOK'
    <2>1. lease_left' \in [Job -> 0..Lease]
      BY <1>2, LeaseAssumption DEF TypeOK, Heartbeat, Assign
    <2>2. 0 \in 0..(OfflineAfter + 1)
      BY LeaseAssumption
    <2> QED
      BY <1>2, <2>1, <2>2 DEF TypeOK, Heartbeat, Resurrected, attemptVars, processVars, WorkerStatus
  <1>3. ASSUME NEW w \in Worker, BeginDrain(w)
        PROVE  TypeOK'
    BY <1>3 DEF TypeOK, BeginDrain, jobVars, attemptVars, ProcState, WorkerStatus
  <1>4. ASSUME NEW w \in Worker, GraceExpires(w)
        PROVE  TypeOK'
    BY <1>4 DEF TypeOK, GraceExpires, jobVars, attemptVars, workerVars, ProcState
  <1>5. ASSUME NEW w \in Worker, Stop(w)
        PROVE  TypeOK'
    BY <1>5 DEF TypeOK, Stop, jobVars, attemptVars, ProcState, WorkerStatus
  <1>6. ASSUME NEW w \in Worker, AnnounceFails(w) \/ Unwound(w) \/ Crash(w)
        PROVE  TypeOK'
    BY <1>6
       DEF TypeOK, AnnounceFails, Unwound, Crash, jobVars, attemptVars, workerVars,
           ProcState
  <1>7. ASSUME NEW w \in Worker, NEW S \in SUBSET Job, Claim(w, S)
        PROVE  TypeOK'
    <2>1. MayClaim(w, S) /\ ClaimRows(w, S)
      BY <1>7 DEF Claim
    <2>2. inflight' \in [Worker -> SUBSET Execution]
      BY <1>7, <2>1, StartedType DEF TypeOK, Claim
    <2> QED
      BY <1>7, <2>1, <2>2, ClaimType DEF TypeOK, Claim, workerVars
  <1>8. ASSUME NEW w \in Worker, NEW S \in SUBSET Job, ClaimUnacknowledged(w, S)
        PROVE  TypeOK'
    <2>1. MayClaim(w, S) /\ ClaimRows(w, S)
      BY <1>8 DEF ClaimUnacknowledged
    <2> QED
      BY <1>8, <2>1, ClaimType DEF TypeOK, ClaimUnacknowledged, workerVars, processVars
  <1>9. ASSUME NEW w \in Worker, NEW e \in inflight[w], FinishExecution(w, e)
        PROVE  TypeOK'
    <2>1. CASE CompleteSuccess(w, e)
      BY <2>1, DropType, SettleType
         DEF TypeOK, CompleteSuccess, JobStatus, AttemptStatus
    <2>2. CASE CompleteFailureRetry(w, e)
      BY <2>2, DropType, SettleType
         DEF TypeOK, CompleteFailureRetry, JobStatus, AttemptStatus
    <2>3. CASE CompleteFailureDead(w, e)
      BY <2>3, DropType, SettleType
         DEF TypeOK, CompleteFailureDead, JobStatus, AttemptStatus
    <2>4. CASE ReleaseJob(w, e)
      <3>1. e.job \in Job /\ inflight' \in [Worker -> SUBSET Execution]
        BY <2>4, ReleaseFacts, DropType
      <3>2. attempt_count[e.job] \in Nat \ {0}
        BY <2>4, <3>1, ReleaseFacts DEF Holds, RunningIsCharged, TypeOK
      <3>3. attempt_count' \in [Job -> Nat]
        <4>1. attempt_count' = [attempt_count EXCEPT ![e.job] = attempt_count[e.job] - 1]
          BY <2>4, ReleaseFacts DEF Refunded
        <4>2. attempt_count[e.job] - 1 \in Nat
          BY <3>2
        <4> QED
          BY <4>1, <4>2 DEF TypeOK
      <3>4. run_in' \in [Job -> 0..MaxBackoff]
        BY <2>4, CountsAssumption, ReleaseFacts DEF TypeOK
      <3> QED
        BY <2>4, <3>1, <3>3, <3>4, SettleType, ReleaseFacts
           DEF TypeOK, JobStatus, AttemptStatus
    <2>5. CASE LeaseLost(w, e)
      BY <2>5, DropType
         DEF TypeOK, LeaseLost, jobVars, attemptVars, workerVars
    <2>6. CASE FinalizeRollsBack(w, e)
      BY <2>6, DropType
         DEF TypeOK, FinalizeRollsBack, jobVars, attemptVars, workerVars
    <2> QED
      BY <1>9, <2>1, <2>2, <2>3, <2>4, <2>5, <2>6 DEF FinishExecution
  <1>10. ASSUME NEW w \in Worker, NEW S \in SUBSET Expired, Reap(w, S)
         PROVE  TypeOK'
    <2> S \subseteq Job
      BY DEF Expired
    <2>1. status' \in [Job -> JobStatus]
      BY <1>10 DEF TypeOK, Reap, JobStatus
    <2>2. run_in' \in [Job -> 0..MaxBackoff]
      BY <1>10 DEF TypeOK, Reap
    <2>3. finished' \in [Job -> BOOLEAN]
      BY <1>10, Zenon DEF TypeOK, Reap
    <2>4. locked_by' \in [Job -> Worker \cup {NoWorker}]
      BY <1>10 DEF TypeOK, Reap, Assign
    <2>5. lease_left' \in [Job -> 0..Lease]
      BY <1>10, LeaseAssumption DEF TypeOK, Reap, Assign
    <2>6. rows' \in [Job -> [RowId -> Row]]
      <3>1. \A j \in Job : CloseRows(rows[j], attempt_count[j], "LOST") \in [RowId -> Row]
        BY CloseRowsFacts DEF TypeOK, AttemptStatus
      <3> QED
        BY <1>10, <3>1 DEF TypeOK, Reap
    <2>7. wstatus' \in [Worker -> WorkerStatus \cup {"absent"}]
      BY <1>10 DEF TypeOK, Reap, Assign, WorkerStatus
    <2> QED
      BY <1>10, <2>1, <2>2, <2>3, <2>4, <2>5, <2>6, <2>7 DEF TypeOK, Reap, processVars
  <1>11. ASSUME NEW j \in Job, Cancel(j)
         PROVE  TypeOK'
    BY <1>11 DEF TypeOK, Cancel, attemptVars, workerVars, processVars, JobStatus
  <1>12. ASSUME NEW j \in Job, Requeue(j)
         PROVE  TypeOK'
    BY <1>12, CountsAssumption, LeaseAssumption
       DEF TypeOK, Requeue, workerVars, processVars, JobStatus
  <1>13. CASE Tick
    <2>1. lease_left' \in [Job -> 0..Lease]
      BY <1>13, LeaseAssumption, Less1Type DEF TypeOK, Tick
    <2>2. run_in' \in [Job -> 0..MaxBackoff]
      BY <1>13, CountsAssumption, Less1Type DEF TypeOK, Tick
    <2>3. hb_age' \in [Worker -> 0..(OfflineAfter + 1)]
      BY <1>13, LeaseAssumption DEF TypeOK, Tick
    <2> QED
      BY <1>13, <2>1, <2>2, <2>3 DEF TypeOK, Tick, attemptVars, processVars
  <1>14. CASE UNCHANGED vars
    BY <1>14 DEF TypeOK, vars, jobVars, attemptVars, workerVars, processVars
  <1> QED
    BY <1>1, <1>2, <1>3, <1>4, <1>5, <1>6, <1>7, <1>8, <1>9, <1>10, <1>11, <1>12,
       <1>13, <1>14
       DEF Next, WorkerStep, OwnerStep

-----------------------------------------------------------------------------
(* The audit half of the inductive invariant *)

\* What AuditInv says besides types, in one name.
Audited ==
    /\ RunningIsCharged
    /\ HolderIffRunning
    /\ BlankAhead
    /\ AuditedByLastRow

\* No job has run and no row is open.
LEMMA AuditInit == Init => AuditInv
  <1> SUFFICES ASSUME Init PROVE AuditInv
    OBVIOUS
  <1>1. TypeOK
    <2>1. NoRow \in Row
      BY DEF NoRow, Row
    <2> QED
      BY <2>1, CountsAssumption, LeaseAssumption
         DEF TypeOK, Init, JobStatus, WorkerStatus, ProcState
  <1>2. RunningIsCharged /\ AuditedByLastRow
    BY DEF Init, RunningIsCharged, AuditedByLastRow
  <1>3. HolderIffRunning
    BY ActorsAssumption DEF Init, HolderIffRunning
  <1>4. BlankAhead
    BY DEF Init, BlankAhead
  <1> QED
    BY <1>1, <1>2, <1>3, <1>4 DEF AuditInv

\* What a claim does, job by job.
ClaimEffect(w, S) ==
    /\ \A j \in Job \ S :
         /\ status'[j] = status[j]
         /\ locked_by'[j] = locked_by[j]
         /\ attempt_count'[j] = attempt_count[j]
         /\ lease_left'[j] = lease_left[j]
         /\ opened'[j] = opened[j]
         /\ rows'[j] = rows[j]
    /\ \A j \in S :
         /\ status[j] = "PENDING"
         /\ status'[j] = "RUNNING"
         /\ locked_by'[j] = w
         /\ attempt_count[j] \in Nat
         /\ attempt_count'[j] = attempt_count[j] + 1
         /\ lease_left'[j] = Lease
         /\ opened[j] \in Nat
         /\ opened'[j] = opened[j] + 1
         /\ opened'[j] \in RowId
         /\ rows'[j][opened'[j]] = OpenRow(w, attempt_count'[j])
         /\ \A i \in RowId \ {opened'[j]} : rows'[j][i] = rows[j][i]

\* What a claim does to the rows it takes, and only to them.
LEMMA ClaimFacts ==
    ASSUME AuditInv, NEW w \in Worker, NEW S \in SUBSET Job,
           MayClaim(w, S), ClaimRows(w, S)
    PROVE  ClaimEffect(w, S)
  <1>1. /\ DOMAIN status = Job /\ DOMAIN locked_by = Job /\ DOMAIN lease_left = Job
        /\ \A j \in Job : DOMAIN rows[j] = RowId
        /\ \A j \in Job : attempt_count[j] \in Nat /\ opened[j] \in 0..MaxRows
    BY DEF AuditInv, TypeOK
  <1>2. /\ \A j \in Job : status'[j] = IF j \in S THEN "RUNNING" ELSE status[j]
        /\ \A j \in Job : locked_by'[j] = IF j \in S THEN w ELSE locked_by[j]
        /\ \A j \in Job : lease_left'[j] = IF j \in S THEN Lease ELSE lease_left[j]
    BY <1>1 DEF ClaimRows, Assign
  <1>3. /\ \A j \in Job : attempt_count'[j] = IF j \in S THEN attempt_count[j] + 1
                                                         ELSE attempt_count[j]
        /\ \A j \in Job : opened'[j] = IF j \in S THEN opened[j] + 1 ELSE opened[j]
    BY DEF ClaimRows, NextNumber
  <1>4. \A j \in Job :
          rows'[j] = IF j \in S
                     THEN [rows[j] EXCEPT ![opened[j] + 1]
                             = OpenRow(w, attempt_count[j] + 1)]
                     ELSE rows[j]
    BY DEF ClaimRows, NextNumber
  <1>5. \A j \in S : status[j] = "PENDING" /\ opened[j] < MaxRows
    BY DEF MayClaim, Due
  <1>6. \A j \in S : opened[j] + 1 \in RowId
    BY <1>1, <1>5, CountsAssumption DEF RowId
  <1>7. ASSUME NEW j \in S
        PROVE  /\ rows'[j][opened'[j]] = OpenRow(w, attempt_count'[j])
               /\ \A i \in RowId \ {opened'[j]} : rows'[j][i] = rows[j][i]
    <2>1. /\ opened'[j] = opened[j] + 1
          /\ attempt_count'[j] = attempt_count[j] + 1
      BY <1>3
    <2>2. rows'[j] = [rows[j] EXCEPT ![opened'[j]] = OpenRow(w, attempt_count'[j])]
      BY <1>4, <2>1
    <2> QED
      BY <1>1, <1>6, <2>1, <2>2
  <1>8. ASSUME NEW j \in Job \ S
        PROVE  /\ status'[j] = status[j]
               /\ locked_by'[j] = locked_by[j]
               /\ attempt_count'[j] = attempt_count[j]
               /\ lease_left'[j] = lease_left[j]
               /\ opened'[j] = opened[j]
               /\ rows'[j] = rows[j]
    BY <1>2, <1>3, <1>4
  <1>9. ASSUME NEW j \in S
        PROVE  /\ status[j] = "PENDING"
               /\ status'[j] = "RUNNING"
               /\ locked_by'[j] = w
               /\ attempt_count[j] \in Nat
               /\ attempt_count'[j] = attempt_count[j] + 1
               /\ lease_left'[j] = Lease
               /\ opened[j] \in Nat
               /\ opened'[j] = opened[j] + 1
               /\ opened'[j] \in RowId
    BY <1>1, <1>2, <1>3, <1>5, <1>6, CountsAssumption
  <1> QED
    BY <1>7, <1>8, <1>9 DEF ClaimEffect

\* claim_jobs inserts the audit row in the transaction that claims.
LEMMA ClaimAudits ==
    ASSUME AuditInv, NEW w \in Worker, NEW S \in SUBSET Job,
           MayClaim(w, S), ClaimRows(w, S)
    PROVE  Audited'
  <1>0. ClaimEffect(w, S) /\ TypeOK /\ RunningIsCharged /\ HolderIffRunning
          /\ BlankAhead /\ AuditedByLastRow
    BY ClaimFacts DEF AuditInv
  <1> USE <1>0 DEF ClaimEffect
  <1>1. RunningIsCharged'
    BY DEF RunningIsCharged
  <1>2. HolderIffRunning'
    BY DEF HolderIffRunning
  <1>3. BlankAhead'
    <2> SUFFICES ASSUME NEW j \in Job, NEW i \in RowId, i > opened'[j]
                 PROVE  rows'[j][i] = NoRow
      BY DEF BlankAhead
    <2>1. CASE j \in S
      <3>1. i > opened[j] /\ i # opened'[j]
        BY <2>1 DEF RowId
      <3> QED
        BY <2>1, <3>1 DEF BlankAhead
    <2>2. CASE j \notin S
      BY <2>2 DEF BlankAhead
    <2> QED
      BY <2>1, <2>2
  <1>4. AuditedByLastRow'
    <2> SUFFICES ASSUME NEW j \in Job, status'[j] = "RUNNING"
                 PROVE  /\ opened'[j] > 0
                        /\ rows'[j][opened'[j]].status = "RUNNING"
                        /\ rows'[j][opened'[j]].attempt_number = attempt_count'[j]
                        /\ rows'[j][opened'[j]].worker_id = locked_by'[j]
      BY DEF AuditedByLastRow, Live
    <2>1. CASE j \in S
      <3>1. rows'[j][opened'[j]] = OpenRow(w, attempt_count'[j])
        BY <2>1
      <3>2. opened'[j] > 0 /\ locked_by'[j] = w
        BY <2>1
      <3> QED
        BY ONLY <3>1, <3>2 DEF OpenRow
    <2>2. CASE j \notin S
      BY <2>2 DEF AuditedByLastRow, Live
    <2> QED
      BY <2>1, <2>2
  <1> QED
    BY <1>1, <1>2, <1>3, <1>4 DEF Audited

\* A job that leaves RUNNING, with its neighbours untouched.
LEMMA SettleAudits ==
    ASSUME AuditInv, NEW j \in Job, NEW next \in JobStatus \ {"RUNNING"}, NEW n,
           NEW verdict \in AttemptStatus, Settle(j, next, n, verdict),
           \A k \in Job \ {j} : attempt_count'[k] = attempt_count[k]
    PROVE  Audited'
  <1> USE DEF AuditInv
  <1>1. /\ \A k \in Job \ {j} : /\ status'[k] = status[k]
                                /\ locked_by'[k] = locked_by[k]
                                /\ rows'[k] = rows[k]
        /\ status'[j] = next
        /\ locked_by'[j] = NoWorker
        /\ rows'[j] = CloseRows(rows[j], n, verdict)
        /\ opened' = opened
    BY DEF Settle, TypeOK
  <1>2. RunningIsCharged'
    BY <1>1 DEF RunningIsCharged
  <1>3. HolderIffRunning'
    BY <1>1, ActorsAssumption DEF HolderIffRunning
  <1>4. BlankAhead'
    <2>1. \A i \in RowId : rows[j][i].status # "RUNNING" => rows'[j][i] = rows[j][i]
      BY <1>1, CloseRowsFacts DEF TypeOK
    <2> QED
      BY <1>1, <2>1 DEF BlankAhead, NoRow
  <1>5. AuditedByLastRow'
    BY <1>1 DEF AuditedByLastRow, Live
  <1> QED
    BY <1>2, <1>3, <1>4, <1>5 DEF Audited

\* The reaper settles every job it found and leaves the others alone.
LEMMA ReapFacts ==
    ASSUME AuditInv, NEW h \in Worker, NEW S \in SUBSET Expired, Reap(h, S)
    PROVE  /\ S \subseteq Job
           /\ \A j \in S :
                /\ status[j] = "RUNNING"
                /\ lease_left[j] = 0
                /\ status'[j] = IF Retries(attempt_count[j]) THEN "PENDING" ELSE "DEAD"
                /\ locked_by'[j] = NoWorker
                /\ lease_left'[j] = 0
                /\ rows'[j] = CloseRows(rows[j], attempt_count[j], "LOST")
           /\ \A j \in Job \ S :
                /\ status'[j] = status[j]
                /\ locked_by'[j] = locked_by[j]
                /\ lease_left'[j] = lease_left[j]
                /\ rows'[j] = rows[j]
           /\ attempt_count' = attempt_count
           /\ opened' = opened
           /\ hb_age' = hb_age
           /\ proc' = proc
           /\ inflight' = inflight
           /\ wstatus' = Assign(wstatus, Stale, "OFFLINE")
  <1>1. S \subseteq Job
    BY DEF Expired
  <1>2. \A j \in S : status[j] = "RUNNING" /\ lease_left[j] = 0
    BY DEF Expired
  <1>3. /\ attempt_count' = attempt_count
        /\ opened' = opened
        /\ hb_age' = hb_age
        /\ proc' = proc
        /\ inflight' = inflight
        /\ wstatus' = Assign(wstatus, Stale, "OFFLINE")
    BY DEF Reap, processVars
  <1>4. \A j \in Job : /\ status'[j] = IF j \notin S THEN status[j]
                                ELSE IF Retries(attempt_count[j]) THEN "PENDING"
                                                                  ELSE "DEAD"
                       /\ locked_by'[j] = IF j \in S THEN NoWorker ELSE locked_by[j]
                       /\ lease_left'[j] = IF j \in S THEN 0 ELSE lease_left[j]
                       /\ rows'[j] = IF j \in S
                                     THEN CloseRows(rows[j], attempt_count[j], "LOST")
                                     ELSE rows[j]
    BY DEF Reap, Assign, AuditInv, TypeOK
  <1> QED
    BY <1>1, <1>2, <1>3, <1>4

\* reap_once closes the last rows of the jobs it takes from their holders.
LEMMA ReapAudits ==
    ASSUME AuditInv, NEW h \in Worker, NEW S \in SUBSET Expired, Reap(h, S)
    PROVE  Audited'
  <1> USE DEF AuditInv
  <1>1. RunningIsCharged'
    BY ReapFacts DEF RunningIsCharged
  <1>2. HolderIffRunning'
    BY ReapFacts, ActorsAssumption DEF HolderIffRunning
  <1>3. BlankAhead'
    <2> SUFFICES ASSUME NEW j \in Job, NEW i \in RowId, i > opened'[j]
                 PROVE  rows'[j][i] = NoRow
      BY DEF BlankAhead
    <2>1. rows[j][i] = NoRow
      BY ReapFacts DEF BlankAhead
    <2>2. CASE j \in S
      <3>1. rows'[j] = CloseRows(rows[j], attempt_count[j], "LOST")
        BY <2>2, ReapFacts
      <3>2. "LOST" \in AttemptStatus /\ rows[j] \in [RowId -> Row]
        BY DEF AttemptStatus, TypeOK
      <3>3. rows[j][i].status # "RUNNING"
        BY <2>1 DEF NoRow
      <3>4. CloseRows(rows[j], attempt_count[j], "LOST")[i] = rows[j][i]
        BY <3>2, <3>3, CloseRowsFacts
      <3> QED
        BY <2>1, <3>1, <3>4
    <2>3. CASE j \notin S
      BY <2>1, <2>3, ReapFacts
    <2> QED
      BY <2>2, <2>3
  <1>4. AuditedByLastRow'
    BY ReapFacts DEF AuditedByLastRow, Live
  <1> QED
    BY <1>1, <1>2, <1>3, <1>4 DEF Audited

\* Steps that touch no column AuditInv speaks of.
LEMMA AuditIgnores ==
    ASSUME AuditInv,
           UNCHANGED <<status, attempt_count, locked_by, rows, opened>>
    PROVE  Audited'
  BY DEF AuditInv, Audited, RunningIsCharged, HolderIffRunning, BlankAhead,
         AuditedByLastRow, Live

\* The audit invariant is inductive.
LEMMA AuditStep == AuditInv /\ [Next]_vars => AuditInv'
  <1> SUFFICES ASSUME AuditInv, [Next]_vars
               PROVE  AuditInv'
    OBVIOUS
  <1>0. TypeOK'
    BY TypeStep DEF AuditInv
  <1>1. ASSUME NEW w \in Worker,
               \/ Register(w) \/ BeginDrain(w) \/ AnnounceFails(w) \/ Unwound(w)
               \/ GraceExpires(w) \/ Stop(w) \/ Crash(w)
        PROVE  Audited'
    BY <1>1, AuditIgnores
       DEF Register, BeginDrain, AnnounceFails, Unwound, GraceExpires, Stop, Crash,
           jobVars, attemptVars
  <1>2. ASSUME NEW w \in Worker, Heartbeat(w)
        PROVE  Audited'
    BY <1>2, AuditIgnores DEF Heartbeat, attemptVars
  <1>3. ASSUME NEW w \in Worker, NEW S \in SUBSET Job,
               Claim(w, S) \/ ClaimUnacknowledged(w, S)
        PROVE  Audited'
    BY <1>3, ClaimAudits DEF Claim, ClaimUnacknowledged
  <1>4. ASSUME NEW w \in Worker, NEW e \in inflight[w], FinishExecution(w, e)
        PROVE  Audited'
    <2>1. Drop(w, e) => e.job \in Job
      BY DropType DEF AuditInv
    <2>2. CASE CompleteSuccess(w, e)
      BY <2>1, <2>2, SettleAudits DEF CompleteSuccess, JobStatus, AttemptStatus
    <2>3. CASE CompleteFailureRetry(w, e)
      BY <2>1, <2>3, SettleAudits DEF CompleteFailureRetry, JobStatus, AttemptStatus
    <2>4. CASE CompleteFailureDead(w, e)
      BY <2>1, <2>4, SettleAudits DEF CompleteFailureDead, JobStatus, AttemptStatus
    <2>5. CASE ReleaseJob(w, e)
      <3>1. /\ e.job \in Job
            /\ Settle(e.job, "PENDING", e.attempt_number, "ABORTED")
        BY <2>1, <2>5, ReleaseFacts
      <3>2. \A k \in Job \ {e.job} : attempt_count'[k] = attempt_count[k]
        BY <2>5, ReleaseFacts DEF AuditInv, TypeOK
      <3> QED
        BY <3>1, <3>2, SettleAudits DEF JobStatus, AttemptStatus
    <2>6. CASE LeaseLost(w, e) \/ FinalizeRollsBack(w, e)
      BY <2>6, AuditIgnores DEF LeaseLost, FinalizeRollsBack, jobVars, attemptVars
    <2> QED
      BY <1>4, <2>2, <2>3, <2>4, <2>5, <2>6 DEF FinishExecution
  <1>5. ASSUME NEW w \in Worker, NEW S \in SUBSET Expired, Reap(w, S)
        PROVE  Audited'
    BY <1>5, ReapAudits
  <1>6. ASSUME NEW j \in Job, Cancel(j) \/ Requeue(j)
        PROVE  Audited'
    <2>1. /\ \A k \in Job \ {j} : /\ status'[k] = status[k]
                                  /\ locked_by'[k] = locked_by[k]
                                  /\ attempt_count'[k] = attempt_count[k]
          /\ rows' = rows
          /\ opened' = opened
      BY <1>6 DEF Cancel, Requeue, attemptVars, AuditInv, TypeOK
    <2>2. status[j] # "RUNNING" /\ status'[j] # "RUNNING"
      BY <1>6 DEF Cancel, Requeue, AuditInv, TypeOK
    <2>3. locked_by'[j] \notin Worker
      BY <1>6, ActorsAssumption
         DEF Cancel, Requeue, AuditInv, TypeOK, HolderIffRunning
    <2> QED
      BY <2>1, <2>2, <2>3
         DEF AuditInv, Audited, RunningIsCharged, HolderIffRunning, BlankAhead,
             AuditedByLastRow, Live
  <1>7. ASSUME Tick
        PROVE  Audited'
    BY <1>7, AuditIgnores DEF Tick, attemptVars
  <1>8. ASSUME UNCHANGED vars
        PROVE  Audited'
    BY <1>8, AuditIgnores DEF vars, jobVars, attemptVars
  <1>9. Audited'
    BY <1>1, <1>2, <1>3, <1>4, <1>5, <1>6, <1>7, <1>8
       DEF Next, WorkerStep, OwnerStep
  <1> QED
    BY <1>0, <1>9 DEF AuditInv, Audited

\* claim_jobs, complete_success, complete_failure, release_job and reap_once change
\* a job row and its attempt row in one transaction, so the two agree always.
THEOREM AuditInvariant == Spec => []AuditInv
  BY AuditInit, AuditStep, PTL DEF Spec

-----------------------------------------------------------------------------
(* What the compound steps do, job by job *)

\* A task that still holds its job ends: the job leaves RUNNING and the open
\* rows with the task's attempt number get their verdict.
FinishEffect(w, e) ==
    /\ e.job \in Job
    /\ Holds(w, e.job)
    /\ status'[e.job] # "RUNNING"
    /\ locked_by'[e.job] = NoWorker
    /\ \A i \in RowId : rows[e.job][i].attempt_number = e.attempt_number
                          => rows'[e.job][i].status # "RUNNING"
    /\ \A i \in RowId :
         /\ rows'[e.job][i].attempt_number = rows[e.job][i].attempt_number
         /\ rows'[e.job][i].worker_id = rows[e.job][i].worker_id
         /\ rows'[e.job][i].status = "RUNNING" => rows[e.job][i].status = "RUNNING"
         /\ rows[e.job][i].status # "RUNNING" => rows'[e.job][i] = rows[e.job][i]
    /\ \A k \in Job \ {e.job} :
         /\ status'[k] = status[k]
         /\ locked_by'[k] = locked_by[k]
         /\ attempt_count'[k] = attempt_count[k]
         /\ lease_left'[k] = lease_left[k]
         /\ rows'[k] = rows[k]
    /\ opened' = opened
    /\ UNCHANGED <<wstatus, hb_age, proc>>

\* What settling a job does to its row and its log.
LEMMA SettleFacts ==
    ASSUME AuditInv, NEW w \in Worker, NEW e \in Execution, Holds(w, e.job),
           NEW next \in JobStatus \ {"RUNNING"},
           NEW verdict \in AttemptStatus \ {"RUNNING"},
           Settle(e.job, next, e.attempt_number, verdict),
           \A k \in Job \ {e.job} : attempt_count'[k] = attempt_count[k]
    PROVE  FinishEffect(w, e)
  <1>1. e.job \in Job /\ rows[e.job] \in [RowId -> Row]
    BY DEF Execution, AuditInv, TypeOK
  <1>2. /\ status'[e.job] = next
        /\ locked_by'[e.job] = NoWorker
        /\ rows'[e.job] = CloseRows(rows[e.job], e.attempt_number, verdict)
        /\ \A k \in Job \ {e.job} : /\ status'[k] = status[k]
                                    /\ locked_by'[k] = locked_by[k]
                                    /\ lease_left'[k] = lease_left[k]
                                    /\ rows'[k] = rows[k]
    BY <1>1 DEF Settle, AuditInv, TypeOK
  <1>3. opened' = opened /\ UNCHANGED <<wstatus, hb_age, proc>>
    BY DEF Settle, workerVars
  <1>4. \A i \in RowId :
          /\ rows'[e.job][i].attempt_number = rows[e.job][i].attempt_number
          /\ rows'[e.job][i].worker_id = rows[e.job][i].worker_id
          /\ rows'[e.job][i].status = IF /\ rows[e.job][i].attempt_number = e.attempt_number
                                         /\ rows[e.job][i].status = "RUNNING"
                                      THEN verdict ELSE rows[e.job][i].status
          /\ rows[e.job][i].status # "RUNNING" => rows'[e.job][i] = rows[e.job][i]
    BY <1>1, <1>2, CloseRowsFacts
  <1> QED
    BY <1>1, <1>2, <1>3, <1>4 DEF FinishEffect

\* The ways a task ends, and the row they may write.
LEMMA FinishFacts ==
    ASSUME AuditInv, NEW w \in Worker, NEW e \in inflight[w], FinishExecution(w, e)
    PROVE  /\ Alive(w)
           /\ e \in Execution
           /\ inflight' = [inflight EXCEPT ![w] = @ \ {e}]
           /\ \/ FinishEffect(w, e)
              \/ UNCHANGED <<jobVars, attemptVars, workerVars, proc>>
  <1>1. Drop(w, e)
    BY ReleaseFacts, Zenon
       DEF FinishExecution, CompleteSuccess, CompleteFailureRetry,
           CompleteFailureDead, LeaseLost, FinalizeRollsBack
  <1>2. e \in Execution /\ Alive(w) /\ inflight' = [inflight EXCEPT ![w] = @ \ {e}]
    BY <1>1, DropType DEF Drop, AuditInv
  <1>3. CASE CompleteSuccess(w, e)
    BY <1>2, <1>3, SettleFacts DEF CompleteSuccess, JobStatus, AttemptStatus
  <1>4. CASE CompleteFailureRetry(w, e)
    BY <1>2, <1>4, SettleFacts DEF CompleteFailureRetry, JobStatus, AttemptStatus
  <1>5. CASE CompleteFailureDead(w, e)
    BY <1>2, <1>5, SettleFacts DEF CompleteFailureDead, JobStatus, AttemptStatus
  <1>6. CASE ReleaseJob(w, e)
    <2>1. \A k \in Job \ {e.job} : attempt_count'[k] = attempt_count[k]
      BY <1>2, <1>6, ReleaseFacts DEF AuditInv, TypeOK
    <2> QED
      BY <1>2, <1>6, <2>1, ReleaseFacts, SettleFacts DEF JobStatus, AttemptStatus
  <1>7. CASE LeaseLost(w, e)
    BY <1>2, <1>7 DEF LeaseLost
  <1>8. CASE FinalizeRollsBack(w, e)
    BY <1>2, <1>8 DEF FinalizeRollsBack
  <1> QED
    BY <1>3, <1>4, <1>5, <1>6, <1>7, <1>8 DEF FinishExecution

-----------------------------------------------------------------------------
(* What the runs check, for every fleet *)

\* The columns keep their types through every interleaving: no refund takes
\* a count below zero, no deadline runs past its end.
THEOREM TypeCorrect == Spec => []TypeOK
  <1>1. AuditInv => TypeOK
    BY DEF AuditInv
  <1> QED
    BY <1>1, AuditInvariant, PTL

\* claim_jobs promises that no claim goes without an audit row: a job that is
\* RUNNING has an open row with its attempt number and its holder.
THEOREM RunningIsAuditedAlways == Spec => []RunningIsAudited
  <1>1. AuditInv => RunningIsAudited
    <2> SUFFICES ASSUME AuditInv, NEW j \in Job, status[j] = "RUNNING"
                 PROVE  \E i \in RowId :
                          /\ Live(j, i)
                          /\ rows[j][i].attempt_number = attempt_count[j]
                          /\ rows[j][i].worker_id = locked_by[j]
      BY DEF RunningIsAudited
    <2>1. opened[j] \in RowId
      BY CountsAssumption DEF AuditInv, TypeOK, AuditedByLastRow, RowId
    <2> WITNESS opened[j] \in RowId
    <2> QED
      BY DEF AuditInv, AuditedByLastRow
  <1> QED
    BY <1>1, AuditInvariant, PTL

\* A job leaves RUNNING when the task of its holder ends or the reaper finds its
\* lease expired: in no other step.
LEMMA LeavesRunning ==
    ASSUME AuditInv, [Next]_vars,
           NEW j \in Job, status[j] = "RUNNING", status'[j] # "RUNNING"
    PROVE  \/ lease_left[j] = 0
           \/ \E e \in inflight[locked_by[j]] :
                 e.job = j /\ e \notin inflight'[locked_by[j]]
  <1>1. ASSUME NEW w \in Worker, NEW e \in inflight[w], FinishExecution(w, e)
        PROVE  locked_by[j] = w /\ e.job = j /\ e \notin inflight'[w]
    <2>1. FinishEffect(w, e)
      BY <1>1, FinishFacts DEF jobVars
    <2>2. inflight'[w] = inflight[w] \ {e}
      BY <1>1, FinishFacts DEF AuditInv, TypeOK
    <2> QED
      BY <2>1, <2>2 DEF FinishEffect, Holds
  <1>2. ASSUME NEW w \in Worker, NEW S \in SUBSET Expired, Reap(w, S)
        PROVE  lease_left[j] = 0
    BY <1>2, ReapFacts
  <1>3. ASSUME NEW w \in Worker, NEW S \in SUBSET Job,
               Claim(w, S) \/ ClaimUnacknowledged(w, S)
        PROVE  FALSE
    BY <1>3, ClaimFacts DEF Claim, ClaimUnacknowledged, ClaimEffect
  <1>4. ASSUME NEW w \in Worker,
               \/ Register(w) \/ Heartbeat(w) \/ BeginDrain(w)
               \/ AnnounceFails(w) \/ Unwound(w)
               \/ GraceExpires(w) \/ Stop(w) \/ Crash(w)
        PROVE  FALSE
    BY <1>4
       DEF Register, Heartbeat, BeginDrain, AnnounceFails, Unwound, GraceExpires,
           Stop, Crash, jobVars
  <1>5. ASSUME NEW k \in Job, Cancel(k) \/ Requeue(k)
        PROVE  FALSE
    BY <1>5 DEF Cancel, Requeue, AuditInv, TypeOK
  <1>6. ASSUME Tick \/ UNCHANGED vars
        PROVE  FALSE
    BY <1>6 DEF Tick, vars, jobVars
  <1> QED
    BY <1>1, <1>2, <1>3, <1>4, <1>5, <1>6 DEF Next, WorkerStep, OwnerStep

\* A job leaves RUNNING through a task of the worker its row names, which
\* ends with it, or after its lease has run out.
THEOREM OnlyHolderOrReaperAlways == Spec => OnlyHolderOrReaper
  <1> DEFINE Justified ==
        \A j \in Job : status[j] = "RUNNING" /\ status'[j] # "RUNNING" =>
            \/ lease_left[j] = 0
            \/ \E e \in inflight[locked_by[j]] :
                  e.job = j /\ e \notin inflight'[locked_by[j]]
  <1>1. AuditInv /\ [Next]_vars => [Justified]_vars
    BY LeavesRunning
  <1>2. Spec => [][Justified]_vars
    BY <1>1, AuditInvariant, PTL DEF Spec
  <1> QED
    BY <1>2 DEF OnlyHolderOrReaper

\* A verdict is immutable: no later claim, requeue, zombie or reaper sweep
\* rewrites an attempt row that is closed.
THEOREM VerdictsAreImmutableAlways == Spec => VerdictsAreImmutable
  <1> DEFINE Kept ==
        \A j \in Job, i \in RowId :
            rows[j][i].status \notin {"none", "RUNNING"} => rows'[j][i] = rows[j][i]
  <1>1. AuditInv /\ [Next]_vars => Kept
    <2> SUFFICES ASSUME AuditInv, [Next]_vars, NEW j \in Job, NEW i \in RowId,
                        rows[j][i].status \notin {"none", "RUNNING"}
                 PROVE  rows'[j][i] = rows[j][i]
      OBVIOUS
    <2>1. ASSUME NEW w \in Worker, NEW e \in inflight[w], FinishExecution(w, e)
          PROVE  rows'[j][i] = rows[j][i]
      BY <2>1, FinishFacts DEF FinishEffect, attemptVars
    <2>2. ASSUME NEW w \in Worker, NEW S \in SUBSET Expired, Reap(w, S)
          PROVE  rows'[j][i] = rows[j][i]
      <3>1. rows[j] \in [RowId -> Row] /\ "LOST" \in AttemptStatus
        BY DEF AuditInv, TypeOK, AttemptStatus
      <3> QED
        BY <2>2, <3>1, ReapFacts, CloseRowsFacts
    <2>3. ASSUME NEW w \in Worker, NEW S \in SUBSET Job,
                 Claim(w, S) \/ ClaimUnacknowledged(w, S)
          PROVE  rows'[j][i] = rows[j][i]
      <3>1. ClaimEffect(w, S)
        BY <2>3, ClaimFacts DEF Claim, ClaimUnacknowledged
      <3>2. ~(i > opened[j])
        BY DEF AuditInv, BlankAhead, NoRow
      <3> QED
        BY <3>1, <3>2 DEF ClaimEffect, RowId
    <2>4. ASSUME UNCHANGED rows
          PROVE  rows'[j][i] = rows[j][i]
      BY <2>4
    <2>5. ASSUME NEW w \in Worker,
                 \/ Register(w) \/ Heartbeat(w) \/ BeginDrain(w)
                 \/ AnnounceFails(w) \/ Unwound(w)
                 \/ GraceExpires(w) \/ Stop(w) \/ Crash(w)
          PROVE  UNCHANGED rows
      BY <2>5
         DEF Register, Heartbeat, BeginDrain, AnnounceFails, Unwound, GraceExpires,
           Stop, Crash, attemptVars
    <2>6. ASSUME NEW k \in Job, Cancel(k) \/ Requeue(k)
          PROVE  UNCHANGED rows
      BY <2>6 DEF Cancel, Requeue, attemptVars
    <2>7. ASSUME Tick \/ UNCHANGED vars
          PROVE  UNCHANGED rows
      BY <2>7 DEF Tick, vars, attemptVars
    <2> QED
      BY <2>1, <2>2, <2>3, <2>4, <2>5, <2>6, <2>7 DEF Next, WorkerStep, OwnerStep
  <1>2. AuditInv /\ [Next]_vars => [Kept]_vars
    BY <1>1
  <1>3. Spec => [][Kept]_vars
    BY <1>2, AuditInvariant, PTL DEF Spec
  <1> QED
    BY <1>3 DEF VerdictsAreImmutable

-----------------------------------------------------------------------------
(* The status machine, for every fleet: what is left of JobLifecycle when   *)
(* workers may miss heartbeats and settle jobs they claimed anew.           *)

\* The budget of job j changes by d (here -1, 0 or 1).
Charges(j, d) == attempt_count'[j] = attempt_count[j] + d

\* One allowed transition of job j with what it costs, or none.
Moves(j) ==
    \/ status'[j] = status[j] /\ Charges(j, 0)
    \/ status[j] = "PENDING" /\ status'[j] = "RUNNING" /\ Charges(j, 1)
    \/ status[j] = "PENDING" /\ status'[j] = "CANCELLED" /\ Charges(j, 0)
    \/ status[j] = "RUNNING" /\ status'[j] \in {"SUCCEEDED", "PENDING", "DEAD"}
         /\ Charges(j, 0)
    \/ status[j] = "RUNNING" /\ status'[j] = "PENDING" /\ Charges(j, -1)
    \/ status[j] \in {"DEAD", "CANCELLED"} /\ status'[j] = "PENDING"
         /\ attempt_count'[j] = 0

\* A step that touches neither column is no move.
LEMMA UntouchedMoves ==
    ASSUME AuditInv, NEW j \in Job, status'[j] = status[j],
           attempt_count'[j] = attempt_count[j]
    PROVE  Moves(j)
  BY DEF Moves, Charges, AuditInv, TypeOK

\* complete_success, complete_failure and release_job are guarded by the status
\* and the holder, so a zombie that holds the job again moves it lawfully too.
LEMMA FinishMoves ==
    ASSUME AuditInv, NEW w \in Worker, NEW e \in inflight[w],
           FinishExecution(w, e), NEW j \in Job
    PROVE  Moves(j)
  <1>1. e.job \in Job /\ attempt_count[j] \in Nat
    BY FinishFacts DEF Execution, AuditInv, TypeOK
  <1>2. CASE FinalizeRollsBack(w, e) \/ LeaseLost(w, e)
    BY <1>2, UntouchedMoves DEF FinalizeRollsBack, LeaseLost, jobVars
  <1>3. CASE j # e.job
    <2>1. FinishEffect(w, e) \/ UNCHANGED jobVars
      BY FinishFacts
    <2> QED
      BY <1>3, <2>1, UntouchedMoves DEF FinishEffect, jobVars
  <1>4. CASE /\ j = e.job
             /\ CompleteSuccess(w, e) \/ CompleteFailureRetry(w, e)
                  \/ CompleteFailureDead(w, e)
    <2>1. /\ status[j] = "RUNNING"
          /\ status'[j] \in {"SUCCEEDED", "PENDING", "DEAD"}
          /\ attempt_count'[j] = attempt_count[j]
      BY <1>4
         DEF CompleteSuccess, CompleteFailureRetry, CompleteFailureDead, Settle,
             Holds, AuditInv, TypeOK
    <2> QED
      BY <1>1, <2>1 DEF Moves, Charges
  <1>5. CASE j = e.job /\ ReleaseJob(w, e)
    <2>1. /\ status[j] = "RUNNING"
          /\ status'[j] = "PENDING"
          /\ attempt_count'[j] = attempt_count[j] - 1
      BY <1>1, <1>5, ReleaseFacts DEF Settle, Holds, Refunded, AuditInv, TypeOK
    <2> QED
      BY <1>1, <2>1 DEF Moves, Charges
  <1> QED
    BY <1>2, <1>3, <1>4, <1>5 DEF FinishExecution

\* models/job.py, JobStatus: "Allowed transitions (enforced by guarded UPDATEs,
\* never blind writes)".  In every fleet, stalled workers included, a job takes
\* only the listed transitions: a claim costs one attempt, a release gives back
\* one, a requeue gives back all of them, and nothing else touches the count.
THEOREM StatusMachineAlways == Spec => [][\A j \in Job : Moves(j)]_vars
  <1>1. AuditInv /\ [Next]_vars => \A j \in Job : Moves(j)
    <2> SUFFICES ASSUME AuditInv, [Next]_vars, NEW j \in Job
                 PROVE  Moves(j)
      OBVIOUS
    <2>1. ASSUME NEW w \in Worker, NEW e \in inflight[w], FinishExecution(w, e)
          PROVE  Moves(j)
      BY <2>1, FinishMoves
    <2>2. ASSUME NEW w \in Worker, NEW S \in SUBSET Expired, Reap(w, S)
          PROVE  Moves(j)
      <3>1. attempt_count'[j] = attempt_count[j] /\ attempt_count[j] \in Nat
        BY <2>2, ReapFacts DEF AuditInv, TypeOK
      <3>2. CASE j \in S
        BY <2>2, <3>1, <3>2, ReapFacts DEF Moves, Charges
      <3>3. CASE j \notin S
        BY <2>2, <3>1, <3>3, ReapFacts, UntouchedMoves
      <3> QED
        BY <3>2, <3>3
    <2>3. ASSUME NEW w \in Worker, NEW S \in SUBSET Job,
                 Claim(w, S) \/ ClaimUnacknowledged(w, S)
          PROVE  Moves(j)
      <3>1. ClaimEffect(w, S)
        BY <2>3, ClaimFacts DEF Claim, ClaimUnacknowledged
      <3>2. CASE j \in S
        BY <3>1, <3>2 DEF ClaimEffect, Moves, Charges
      <3>3. CASE j \notin S
        BY <3>1, <3>3, UntouchedMoves DEF ClaimEffect
      <3> QED
        BY <3>2, <3>3
    <2>4. ASSUME NEW w \in Worker,
                 \/ Register(w) \/ Heartbeat(w) \/ BeginDrain(w)
                 \/ AnnounceFails(w) \/ Unwound(w)
                 \/ GraceExpires(w) \/ Stop(w) \/ Crash(w)
          PROVE  Moves(j)
      BY <2>4, UntouchedMoves
         DEF Register, Heartbeat, BeginDrain, AnnounceFails, Unwound, GraceExpires,
           Stop, Crash, jobVars
    <2>5. ASSUME NEW k \in Job, Cancel(k) \/ Requeue(k)
          PROVE  Moves(j)
      <3>1. CASE j # k
        BY <2>5, <3>1, UntouchedMoves DEF Cancel, Requeue, AuditInv, TypeOK
      <3>2. CASE j = k
        BY <2>5, <3>2 DEF Cancel, Requeue, AuditInv, TypeOK, Moves, Charges
      <3> QED
        BY <3>1, <3>2
    <2>6. ASSUME Tick \/ UNCHANGED vars
          PROVE  Moves(j)
      BY <2>6, UntouchedMoves DEF Tick, vars, jobVars
    <2> QED
      BY <2>1, <2>2, <2>3, <2>4, <2>5, <2>6 DEF Next, WorkerStep, OwnerStep
  <1>2. AuditInv /\ [Next]_vars => [\A j \in Job : Moves(j)]_vars
    BY <1>1
  <1> QED
    BY <1>2, AuditInvariant, PTL DEF Spec

-----------------------------------------------------------------------------
(* The lease invariant.  Workers outside Stallable are the prompt ones.     *)

Prompt == Worker \ Stallable

\* A process that never registered is in no table; one that is gone runs
\* nothing.
ProcessesAreListed ==
    \A w \in Worker :
        /\ ~Alive(w) => inflight[w] = {}
        /\ proc[w] # "new" => wstatus[w] # "absent"
        /\ proc[w] = "new" => \A j \in Job : locked_by[j] # w

\* Between two heartbeats of a prompt worker its leases cannot run out.
LeasesFresh ==
    \A w \in Prompt : Alive(w) =>
        /\ hb_age[w] <= HeartbeatEvery
        /\ \A j \in Job : Holds(w, j) => lease_left[j] + hb_age[w] >= Lease

\* No open row of a prompt worker outlives the claim that opened it.
PromptRowsAreCurrent ==
    \A j \in Job, i \in RowId :
        Live(j, i) /\ rows[j][i].worker_id \notin Stallable => Current(j, i)

LeaseInv ==
    /\ ProcessesAreListed
    /\ LeasesFresh
    /\ PromptTasksOwnTheirAttempt
    /\ PromptWorkersAreListed
    /\ PromptRowsAreCurrent

-----------------------------------------------------------------------------
(* The lease invariant, step by step *)

\* An empty fleet over an empty job table.
LEMMA LeaseInit == Init => LeaseInv
  <1> SUFFICES ASSUME Init PROVE LeaseInv
    OBVIOUS
  <1>1. ProcessesAreListed
    BY ActorsAssumption DEF Init, ProcessesAreListed
  <1>2. LeasesFresh /\ PromptWorkersAreListed
    BY DEF Init, LeasesFresh, PromptWorkersAreListed, Prompt, Alive
  <1>3. PromptTasksOwnTheirAttempt
    BY DEF Init, PromptTasksOwnTheirAttempt
  <1>4. PromptRowsAreCurrent
    BY DEF Init, PromptRowsAreCurrent, Live, NoRow
  <1> QED
    BY <1>1, <1>2, <1>3, <1>4 DEF LeaseInv

\* A new worker holds nothing, so it has nothing to lose.
LEMMA RegisterLease ==
    ASSUME AuditInv, LeaseInv, NEW w \in Worker, Register(w)
    PROVE  LeaseInv'
  <1>1. /\ proc[w] = "new"
        /\ proc'[w] = "running"
        /\ wstatus'[w] = "ONLINE"
        /\ hb_age'[w] = 0
        /\ \A v \in Worker \ {w} : /\ proc'[v] = proc[v]
                                   /\ wstatus'[v] = wstatus[v]
                                   /\ hb_age'[v] = hb_age[v]
        /\ UNCHANGED <<status, attempt_count, locked_by, lease_left, rows, opened,
                       inflight>>
    BY DEF Register, AuditInv, TypeOK, jobVars, attemptVars
  <1>2. ProcessesAreListed'
    BY <1>1 DEF LeaseInv, ProcessesAreListed, Alive
  <1>3. LeasesFresh'
    <2>1. \A j \in Job : ~Holds(w, j)
      BY <1>1 DEF LeaseInv, ProcessesAreListed, Holds
    <2> QED
      BY <1>1, <2>1, LeaseAssumption DEF LeaseInv, LeasesFresh, Prompt, Alive, Holds
  <1>4. PromptTasksOwnTheirAttempt'
    BY <1>1 DEF LeaseInv, PromptTasksOwnTheirAttempt, Holds, Live
  <1>5. PromptWorkersAreListed'
    BY <1>1 DEF LeaseInv, PromptWorkersAreListed, Alive
  <1>6. PromptRowsAreCurrent'
    BY <1>1 DEF LeaseInv, PromptRowsAreCurrent, Live, Current
  <1> QED
    BY <1>2, <1>3, <1>4, <1>5, <1>6 DEF LeaseInv

\* A heartbeat refreshes every lease of its worker at once.
LEMMA HeartbeatLease ==
    ASSUME AuditInv, LeaseInv, NEW w \in Worker, Heartbeat(w)
    PROVE  LeaseInv'
  <1>1. /\ Alive(w)
        /\ MaintenanceRuns(w)
        /\ hb_age'[w] = 0
        /\ \A v \in Worker \ {w} : hb_age'[v] = hb_age[v] /\ wstatus'[v] = wstatus[v]
        /\ wstatus'[w] = IF wstatus[w] = "OFFLINE" THEN "ONLINE" ELSE wstatus[w]
        /\ \A j \in Job : lease_left'[j] = IF Holds(w, j) THEN Lease ELSE lease_left[j]
        /\ UNCHANGED <<status, attempt_count, locked_by, rows, opened, proc, inflight>>
    BY DEF Heartbeat, MaintenanceRuns, Alive, Resurrected, AuditInv, TypeOK, attemptVars, processVars, Assign, Extended
  <1>2. ProcessesAreListed'
    BY <1>1 DEF LeaseInv, ProcessesAreListed, Alive
  <1>3. LeasesFresh'
    <2> SUFFICES ASSUME NEW v \in Prompt, Alive(v)'
                 PROVE  /\ hb_age'[v] <= HeartbeatEvery
                        /\ \A j \in Job :
                             Holds(v, j)' => lease_left'[j] + hb_age'[v] >= Lease
      BY DEF LeasesFresh, Prompt
    <2>1. Alive(v) /\ v \in Worker /\ \A j \in Job : Holds(v, j)' = Holds(v, j)
      BY <1>1 DEF Alive, Holds, Prompt
    <2>2. CASE v = w
      BY <1>1, <2>1, <2>2, LeaseAssumption
    <2>3. CASE v # w
      <3>1. \A j \in Job : Holds(v, j) => lease_left'[j] = lease_left[j]
        BY <1>1, <2>3 DEF Holds
      <3> QED
        BY <1>1, <2>1, <2>3, <3>1 DEF LeaseInv, LeasesFresh
    <2> QED
      BY <2>2, <2>3
  <1>4. PromptTasksOwnTheirAttempt'
    BY <1>1 DEF LeaseInv, PromptTasksOwnTheirAttempt, Holds, Live
  <1>5. PromptWorkersAreListed'
    BY <1>1 DEF LeaseInv, PromptWorkersAreListed, Alive
  <1>6. PromptRowsAreCurrent'
    BY <1>1 DEF LeaseInv, PromptRowsAreCurrent, Live, Current
  <1> QED
    BY <1>2, <1>3, <1>4, <1>5, <1>6 DEF LeaseInv

\* Draining, stopping and dying take no job from anybody.
LEMMA ShutdownLease ==
    ASSUME AuditInv, LeaseInv, NEW w \in Worker,
           \/ BeginDrain(w) \/ AnnounceFails(w) \/ Unwound(w)
           \/ GraceExpires(w) \/ Stop(w) \/ Crash(w)
    PROVE  LeaseInv'
  <1>1. /\ proc[w] \in {"running", "draining", "cancelling", "unwinding"}
        /\ proc'[w] # "new"
        /\ proc'[w] # "running"
        /\ proc'[w] \in {"draining", "cancelling", "unwinding"}
              => inflight'[w] = inflight[w]
        /\ proc'[w] = "unwinding" => proc[w] = "running" /\ wstatus'[w] = wstatus[w]
        /\ proc'[w] \in {"stopped", "crashed"} => inflight'[w] = {}
        /\ proc'[w] = "draining" => wstatus'[w] = "DRAINING"
        /\ proc'[w] = "cancelling" => proc[w] = "draining" /\ wstatus'[w] = wstatus[w]
        /\ wstatus'[w] \in {wstatus[w], "DRAINING", "OFFLINE"}
        /\ inflight'[w] \subseteq inflight[w]
        /\ \A v \in Worker \ {w} : /\ proc'[v] = proc[v]
                                   /\ wstatus'[v] = wstatus[v]
                                   /\ inflight'[v] = inflight[v]
        /\ UNCHANGED <<status, attempt_count, locked_by, lease_left, rows, opened,
                       hb_age>>
    BY DEF BeginDrain, AnnounceFails, Unwound, GraceExpires, Stop, Crash, Alive,
           AuditInv, TypeOK, jobVars, attemptVars, workerVars
  <1>2. ProcessesAreListed'
    <2>1. proc'[w] \in ProcState
      BY TypeStep, <1>1
         DEF BeginDrain, AnnounceFails, Unwound, GraceExpires, Stop, Crash, AuditInv,
             TypeOK, ProcState
    <2> QED
      BY <1>1, <2>1 DEF LeaseInv, ProcessesAreListed, Alive, ProcState
  <1>3. LeasesFresh'
    BY <1>1 DEF LeaseInv, LeasesFresh, Prompt, Alive, Holds
  <1>4. PromptTasksOwnTheirAttempt'
    BY <1>1 DEF LeaseInv, PromptTasksOwnTheirAttempt, Holds, Live
  <1>5. PromptWorkersAreListed'
    BY <1>1 DEF LeaseInv, PromptWorkersAreListed, Alive
  <1>6. PromptRowsAreCurrent'
    BY <1>1 DEF LeaseInv, PromptRowsAreCurrent, Live, Current
  <1> QED
    BY <1>2, <1>3, <1>4, <1>5, <1>6 DEF LeaseInv

\* A claim takes due jobs only, so it disturbs no task; its own tasks and
\* rows carry the attempt number the UPDATE wrote.
LEMMA ClaimLease ==
    ASSUME AuditInv, LeaseInv, NEW w \in Worker, NEW S \in SUBSET Job,
           Claim(w, S) \/ ClaimUnacknowledged(w, S)
    PROVE  LeaseInv'
  <1>0. ClaimEffect(w, S)
    BY ClaimFacts DEF Claim, ClaimUnacknowledged
  <1>1. /\ proc[w] = "running"
        /\ UNCHANGED <<wstatus, hb_age, proc>>
        /\ \A v \in Worker \ {w} : inflight'[v] = inflight[v]
        /\ inflight'[w] \subseteq inflight[w] \cup {Started(j) : j \in S}
    BY DEF Claim, ClaimUnacknowledged, MayClaim, workerVars, processVars,
           AuditInv, TypeOK
  <1>2. ProcessesAreListed'
    BY <1>0, <1>1 DEF ClaimEffect, LeaseInv, ProcessesAreListed, Alive
  <1>3. LeasesFresh'
    <2> SUFFICES ASSUME NEW v \in Prompt, Alive(v)', NEW j \in Job, Holds(v, j)'
                 PROVE  lease_left'[j] + hb_age'[v] >= Lease
      BY <1>1 DEF LeaseInv, LeasesFresh, Alive
    <2>1. CASE j \in S
      BY <1>0, <1>1, <2>1, LeaseAssumption DEF ClaimEffect, AuditInv, TypeOK, Prompt
    <2>2. CASE j \notin S
      BY <1>0, <1>1, <2>2 DEF ClaimEffect, LeaseInv, LeasesFresh, Alive, Holds
    <2> QED
      BY <2>1, <2>2
  <1>4. PromptTasksOwnTheirAttempt'
    <2> SUFFICES ASSUME NEW v \in Worker \ Stallable, NEW e \in inflight'[v]
                 PROVE  /\ Holds(v, e.job)'
                        /\ attempt_count'[e.job] = e.attempt_number
                        /\ opened'[e.job] = e.row
                        /\ Live(e.job, e.row)'
      BY DEF PromptTasksOwnTheirAttempt
    <2>1. CASE e \in inflight[v]
      <3>1. e.job \in Job /\ e.row \in RowId
        BY <2>1 DEF AuditInv, TypeOK, Execution
      <3>2. /\ Holds(v, e.job)
            /\ attempt_count[e.job] = e.attempt_number
            /\ opened[e.job] = e.row
            /\ Live(e.job, e.row)
        BY <2>1 DEF LeaseInv, PromptTasksOwnTheirAttempt
      <3>3. e.job \notin S
        BY <1>0, <3>2 DEF ClaimEffect, Holds
      <3> QED
        BY <1>0, <3>1, <3>2, <3>3 DEF ClaimEffect, Holds, Live
    <2>2. CASE e \notin inflight[v]
      <3>1. v = w
        BY <1>1, <2>2
      <3>2. PICK j \in S : e = Started(j)
        BY <1>1, <2>2, <3>1
      <3>3. /\ e.job = j
            /\ e.attempt_number = attempt_count[j] + 1
            /\ e.row = opened[j] + 1
        BY <3>2 DEF Started, NextNumber
      <3>4. /\ status'[j] = "RUNNING"
            /\ locked_by'[j] = w
            /\ attempt_count'[j] = attempt_count[j] + 1
            /\ opened'[j] = opened[j] + 1
            /\ rows'[j][opened'[j]] = OpenRow(w, attempt_count'[j])
        BY <1>0 DEF ClaimEffect
      <3>5. rows'[j][opened'[j]].status = "RUNNING"
        BY <3>4 DEF OpenRow
      <3> QED
        BY <3>1, <3>3, <3>4, <3>5 DEF Holds, Live
    <2> QED
      BY <2>1, <2>2
  <1>5. PromptWorkersAreListed'
    BY <1>1 DEF LeaseInv, PromptWorkersAreListed, Alive
  <1>6. PromptRowsAreCurrent'
    <2> SUFFICES ASSUME NEW j \in Job, NEW i \in RowId,
                        rows'[j][i].status = "RUNNING",
                        rows'[j][i].worker_id \notin Stallable
                 PROVE  /\ status'[j] = "RUNNING"
                        /\ locked_by'[j] = rows'[j][i].worker_id
                        /\ attempt_count'[j] = rows'[j][i].attempt_number
                        /\ i = opened'[j]
      BY DEF PromptRowsAreCurrent, Live, Current
    <2>1. CASE j \notin S
      BY <1>0, <2>1 DEF ClaimEffect, LeaseInv, PromptRowsAreCurrent, Live, Current
    <2>2. CASE j \in S /\ i = opened'[j]
      <3>1. /\ rows'[j][i] = OpenRow(w, attempt_count'[j])
            /\ status'[j] = "RUNNING"
            /\ locked_by'[j] = w
        BY <1>0, <2>2 DEF ClaimEffect
      <3>2. /\ rows'[j][i].worker_id = w
            /\ rows'[j][i].attempt_number = attempt_count'[j]
        BY <3>1 DEF OpenRow
      <3> QED
        BY <2>2, <3>1, <3>2
    <2>3. CASE j \in S /\ i # opened'[j]
      <3>1. rows'[j][i] = rows[j][i] /\ status[j] = "PENDING"
        BY <1>0, <2>3 DEF ClaimEffect
      <3>2. status[j] = "RUNNING"
        BY <3>1 DEF LeaseInv, PromptRowsAreCurrent, Live, Current
      <3> QED
        BY <3>1, <3>2
    <2> QED
      BY <2>1, <2>2, <2>3
  <1> QED
    BY <1>2, <1>3, <1>4, <1>5, <1>6 DEF LeaseInv

\* A task that ends, of whichever worker and however late, takes no job from
\* a prompt worker's other tasks: the guard names the holder.
LEMMA FinishLease ==
    ASSUME AuditInv, LeaseInv, NEW w \in Worker, NEW e \in inflight[w],
           FinishExecution(w, e)
    PROVE  LeaseInv'
  <1>1. /\ Alive(w)
        /\ e \in Execution
        /\ inflight' = [inflight EXCEPT ![w] = @ \ {e}]
    BY FinishFacts
  <1>2. /\ \A v \in Worker : inflight'[v] \subseteq inflight[v]
        /\ inflight'[w] = inflight[w] \ {e}
    BY <1>1 DEF AuditInv, TypeOK
  <1>3. CASE UNCHANGED <<jobVars, attemptVars, workerVars, proc>>
    BY <1>2, <1>3
       DEF jobVars, attemptVars, workerVars, LeaseInv, ProcessesAreListed, LeasesFresh,
           PromptTasksOwnTheirAttempt, PromptWorkersAreListed, PromptRowsAreCurrent,
           Alive, Holds, Live, Current, Prompt
  <1>4. CASE FinishEffect(w, e)
    <2>0. UNCHANGED <<wstatus, hb_age, proc, opened>> /\ e.job \in Job
      BY <1>4 DEF FinishEffect
    <2>1. ProcessesAreListed'
      BY <1>2, <1>4, ActorsAssumption
         DEF FinishEffect, LeaseInv, ProcessesAreListed, Alive
    <2>2. LeasesFresh'
      BY <1>4, ActorsAssumption
         DEF FinishEffect, LeaseInv, LeasesFresh, Alive, Holds, Prompt
    <2>3. PromptTasksOwnTheirAttempt'
      <3> SUFFICES ASSUME NEW v \in Worker \ Stallable, NEW f \in inflight'[v]
                   PROVE  /\ Holds(v, f.job)'
                          /\ attempt_count'[f.job] = f.attempt_number
                          /\ opened'[f.job] = f.row
                          /\ Live(f.job, f.row)'
        BY DEF PromptTasksOwnTheirAttempt
      <3>1. f \in inflight[v] /\ f \in Execution /\ f.job \in Job
        BY <1>2 DEF AuditInv, TypeOK, Execution
      <3>2. /\ Holds(v, f.job)
            /\ attempt_count[f.job] = f.attempt_number
            /\ opened[f.job] = f.row
            /\ Live(f.job, f.row)
        BY <3>1 DEF LeaseInv, PromptTasksOwnTheirAttempt
      <3>3. f.job # e.job
        <4> SUFFICES ASSUME f.job = e.job PROVE FALSE
          OBVIOUS
        <4>1. v = w
          BY <1>4, <3>2 DEF FinishEffect, Holds
        <4>2. /\ attempt_count[e.job] = e.attempt_number
              /\ opened[e.job] = e.row
          BY <4>1 DEF LeaseInv, PromptTasksOwnTheirAttempt
        <4>3. f.attempt_number = e.attempt_number /\ f.row = e.row
          BY <3>2, <4>2
        <4>4. f = e
          BY <1>1, <3>1, <4>3 DEF Execution
        <4> QED
          BY <1>2, <4>1, <4>4
      <3> QED
        BY <1>4, <3>1, <3>2, <3>3 DEF FinishEffect, Holds, Live
    <2>4. PromptWorkersAreListed'
      BY <2>0 DEF LeaseInv, PromptWorkersAreListed, Alive
    <2>5. PromptRowsAreCurrent'
      <3> SUFFICES ASSUME NEW j \in Job, NEW i \in RowId,
                          Live(j, i)', rows'[j][i].worker_id \notin Stallable
                   PROVE  Current(j, i)'
        BY DEF PromptRowsAreCurrent
      <3>1. CASE j # e.job
        BY <1>4, <3>1 DEF FinishEffect, LeaseInv, PromptRowsAreCurrent, Live, Current
      <3>2. CASE j = e.job
        <4>1. Live(j, i) /\ rows[j][i].worker_id = rows'[j][i].worker_id
          BY <1>4, <3>2 DEF FinishEffect, Live
        <4>2. Current(j, i)
          BY <4>1 DEF LeaseInv, PromptRowsAreCurrent
        <4>3. w \in Worker \ Stallable
          BY <1>4, <3>2, <4>1, <4>2 DEF FinishEffect, Holds, Current
        <4>4. attempt_count[j] = e.attempt_number
          BY <3>2, <4>3 DEF LeaseInv, PromptTasksOwnTheirAttempt
        <4>5. rows[j][i].attempt_number = e.attempt_number
          BY <4>2, <4>4 DEF Current
        <4> QED
          BY <1>4, <3>2, <4>5 DEF FinishEffect, Live
      <3> QED
        BY <3>1, <3>2
    <2> QED
      BY <2>1, <2>2, <2>3, <2>4, <2>5 DEF LeaseInv
  <1> QED
    BY <1>3, <1>4, FinishFacts

\* The reaper takes jobs whose lease is out, never one of a prompt worker
\* that is alive, and closes the row of the claim it ends.
LEMMA ReapLease ==
    ASSUME AuditInv, LeaseInv, NEW h \in Worker, NEW S \in SUBSET Expired, Reap(h, S)
    PROVE  LeaseInv'
  <1>0. /\ S \subseteq Job
        /\ \A j \in S : /\ status[j] = "RUNNING"
                        /\ lease_left[j] = 0
                        /\ status'[j] # "RUNNING"
                        /\ locked_by'[j] = NoWorker
                        /\ rows'[j] = CloseRows(rows[j], attempt_count[j], "LOST")
        /\ \A j \in Job \ S : /\ status'[j] = status[j]
                              /\ locked_by'[j] = locked_by[j]
                              /\ lease_left'[j] = lease_left[j]
                              /\ rows'[j] = rows[j]
        /\ UNCHANGED <<attempt_count, opened, hb_age, proc, inflight>>
        /\ wstatus' = Assign(wstatus, Stale, "OFFLINE")
    BY ReapFacts
  <1>1. \A w \in Prompt, j \in Job : Alive(w) /\ Holds(w, j) => j \notin S
    <2> SUFFICES ASSUME NEW w \in Prompt, NEW j \in S, Alive(w), Holds(w, j)
                 PROVE  FALSE
      OBVIOUS
    <2>1. j \in Job /\ lease_left[j] = 0
      BY <1>0
    <2>2. hb_age[w] <= HeartbeatEvery /\ lease_left[j] + hb_age[w] >= Lease
      BY <2>1 DEF LeaseInv, LeasesFresh
    <2>3. hb_age[w] \in Nat
      BY LeaseAssumption DEF Prompt, AuditInv, TypeOK
    <2> QED
      BY <2>1, <2>2, <2>3, LeaseAssumption
  <1>2. \A w \in Worker : wstatus'[w] = IF w \in Stale THEN "OFFLINE" ELSE wstatus[w]
    BY <1>0 DEF Assign, AuditInv, TypeOK
  <1>3. \A w \in Prompt : Alive(w) => w \notin Stale
    BY LeaseAssumption DEF LeaseInv, LeasesFresh, Prompt, Stale, AuditInv, TypeOK
  <1>4. ProcessesAreListed'
    BY <1>0, <1>2, ActorsAssumption DEF LeaseInv, ProcessesAreListed, Alive
  <1>5. LeasesFresh'
    BY <1>0, <1>1, ActorsAssumption DEF LeaseInv, LeasesFresh, Alive, Holds, Prompt
  <1>6. PromptTasksOwnTheirAttempt'
    <2> SUFFICES ASSUME NEW v \in Worker \ Stallable, NEW f \in inflight[v]
                 PROVE  /\ Holds(v, f.job)'
                        /\ attempt_count[f.job] = f.attempt_number
                        /\ opened[f.job] = f.row
                        /\ Live(f.job, f.row)'
      BY <1>0 DEF PromptTasksOwnTheirAttempt
    <2>1. /\ Holds(v, f.job)
          /\ attempt_count[f.job] = f.attempt_number
          /\ opened[f.job] = f.row
          /\ Live(f.job, f.row)
      BY DEF LeaseInv, PromptTasksOwnTheirAttempt
    <2>2. f.job \in Job /\ Alive(v)
      BY DEF AuditInv, TypeOK, Execution, LeaseInv, ProcessesAreListed
    <2>3. f.job \notin S
      BY <1>1, <2>1, <2>2 DEF Prompt
    <2> QED
      BY <1>0, <2>1, <2>2, <2>3 DEF Holds, Live
  <1>7. PromptWorkersAreListed'
    BY <1>0, <1>2, <1>3 DEF LeaseInv, PromptWorkersAreListed, Alive, Prompt
  <1>8. PromptRowsAreCurrent'
    <2> SUFFICES ASSUME NEW j \in Job, NEW i \in RowId,
                        Live(j, i)', rows'[j][i].worker_id \notin Stallable
                 PROVE  Current(j, i)'
      BY DEF PromptRowsAreCurrent
    <2>1. CASE j \notin S
      BY <1>0, <2>1 DEF LeaseInv, PromptRowsAreCurrent, Live, Current
    <2>2. CASE j \in S
      <3>1. rows[j] \in [RowId -> Row] /\ "LOST" \in AttemptStatus
        BY DEF AuditInv, TypeOK, AttemptStatus
      <3>2. /\ rows'[j][i].worker_id = rows[j][i].worker_id
            /\ rows'[j][i].status = IF /\ rows[j][i].attempt_number = attempt_count[j]
                                       /\ rows[j][i].status = "RUNNING"
                                    THEN "LOST" ELSE rows[j][i].status
        BY <1>0, <2>2, <3>1, CloseRowsFacts
      <3>3. Live(j, i) /\ rows[j][i].attempt_number # attempt_count[j]
        BY <3>2 DEF Live
      <3> QED
        BY <3>2, <3>3 DEF LeaseInv, PromptRowsAreCurrent, Current
    <2> QED
      BY <2>1, <2>2
  <1> QED
    BY <1>4, <1>5, <1>6, <1>7, <1>8 DEF LeaseInv

\* Owners act on jobs no worker runs.
LEMMA OwnerLease ==
    ASSUME AuditInv, LeaseInv, NEW j \in Job, Cancel(j) \/ Requeue(j)
    PROVE  LeaseInv'
  <1>1. /\ status[j] # "RUNNING"
        /\ status'[j] # "RUNNING"
        /\ locked_by[j] \notin Worker
        /\ locked_by'[j] \notin Worker
        /\ \A k \in Job \ {j} : /\ status'[k] = status[k]
                                /\ locked_by'[k] = locked_by[k]
                                /\ lease_left'[k] = lease_left[k]
                                /\ attempt_count'[k] = attempt_count[k]
        /\ UNCHANGED <<rows, opened, wstatus, hb_age, proc, inflight>>
    BY ActorsAssumption
       DEF Cancel, Requeue, attemptVars, workerVars, processVars, AuditInv, TypeOK,
           HolderIffRunning
  <1>2. ProcessesAreListed'
    BY <1>1 DEF LeaseInv, ProcessesAreListed, Alive
  <1>3. LeasesFresh'
    BY <1>1 DEF LeaseInv, LeasesFresh, Alive, Holds
  <1>4. PromptTasksOwnTheirAttempt'
    <2> SUFFICES ASSUME NEW v \in Worker \ Stallable, NEW f \in inflight[v]
                 PROVE  /\ Holds(v, f.job)'
                        /\ attempt_count'[f.job] = f.attempt_number
                        /\ opened[f.job] = f.row
                        /\ Live(f.job, f.row)'
      BY <1>1 DEF PromptTasksOwnTheirAttempt
    <2>1. /\ Holds(v, f.job)
          /\ attempt_count[f.job] = f.attempt_number
          /\ opened[f.job] = f.row
          /\ Live(f.job, f.row)
      BY DEF LeaseInv, PromptTasksOwnTheirAttempt
    <2>2. f.job \in Job \ {j}
      BY <1>1, <2>1 DEF AuditInv, TypeOK, Execution, Holds
    <2> QED
      BY <1>1, <2>1, <2>2 DEF Holds, Live
  <1>5. PromptWorkersAreListed'
    BY <1>1 DEF LeaseInv, PromptWorkersAreListed, Alive
  <1>6. PromptRowsAreCurrent'
    BY <1>1 DEF LeaseInv, PromptRowsAreCurrent, Live, Current
  <1> QED
    BY <1>2, <1>3, <1>4, <1>5, <1>6 DEF LeaseInv

\* The clock waits for the heartbeats of prompt workers.
LEMMA TickLease ==
    ASSUME AuditInv, LeaseInv, Tick
    PROVE  LeaseInv'
  <1>1. UNCHANGED <<status, attempt_count, locked_by, rows, opened, wstatus, proc,
                    inflight>>
    BY DEF Tick, attemptVars, processVars
  <1>2. ProcessesAreListed'
    BY <1>1 DEF LeaseInv, ProcessesAreListed, Alive
  <1>3. LeasesFresh'
    <2> SUFFICES ASSUME NEW w \in Prompt, Alive(w)
                 PROVE  /\ hb_age'[w] <= HeartbeatEvery
                        /\ \A j \in Job :
                             Holds(w, j) => lease_left'[j] + hb_age'[w] >= Lease
      BY <1>1 DEF LeasesFresh, Alive, Holds
    <2>1. hb_age[w] < HeartbeatEvery /\ hb_age[w] \in Nat
      BY LeaseAssumption DEF Tick, Prompt, AuditInv, TypeOK
    <2>2. wstatus[w] # "absent" /\ ~(hb_age[w] > OfflineAfter)
      BY <2>1, LeaseAssumption DEF Prompt, Alive, LeaseInv, ProcessesAreListed
    <2>3. hb_age'[w] = hb_age[w] + 1
      BY <2>2 DEF Tick, Prompt
    <2>4. ASSUME NEW j \in Job, Holds(w, j)
          PROVE  lease_left'[j] + hb_age'[w] >= Lease
      <3>1. lease_left[j] \in Nat /\ lease_left[j] + hb_age[w] >= Lease
        BY <2>4, LeaseAssumption DEF AuditInv, TypeOK, LeaseInv, LeasesFresh
      <3>2. lease_left'[j] = Less1(lease_left[j])
        BY DEF Tick
      <3> QED
        BY <2>1, <2>3, <3>1, <3>2, LeaseAssumption DEF Less1
    <2> QED
      BY <2>1, <2>3, <2>4, LeaseAssumption
  <1>4. PromptTasksOwnTheirAttempt'
    BY <1>1 DEF LeaseInv, PromptTasksOwnTheirAttempt, Holds, Live
  <1>5. PromptWorkersAreListed'
    BY <1>1 DEF LeaseInv, PromptWorkersAreListed, Alive
  <1>6. PromptRowsAreCurrent'
    BY <1>1 DEF LeaseInv, PromptRowsAreCurrent, Live, Current
  <1> QED
    BY <1>2, <1>3, <1>4, <1>5, <1>6 DEF LeaseInv

\* The lease invariant is inductive, given the audit invariant.
LEMMA LeaseStep == AuditInv /\ LeaseInv /\ [Next]_vars => LeaseInv'
  <1> SUFFICES ASSUME AuditInv, LeaseInv, [Next]_vars
               PROVE  LeaseInv'
    OBVIOUS
  <1>1. ASSUME NEW w \in Worker, NEW e \in inflight[w], FinishExecution(w, e)
        PROVE  LeaseInv'
    BY <1>1, FinishLease
  <1>2. ASSUME NEW w \in Worker, NEW S \in SUBSET Expired, Reap(w, S)
        PROVE  LeaseInv'
    BY <1>2, ReapLease
  <1>3. ASSUME NEW w \in Worker, NEW S \in SUBSET Job,
               Claim(w, S) \/ ClaimUnacknowledged(w, S)
        PROVE  LeaseInv'
    BY <1>3, ClaimLease
  <1>4. ASSUME NEW w \in Worker, WorkerStep(w)
        PROVE  LeaseInv'
    BY <1>1, <1>2, <1>3, <1>4, RegisterLease, HeartbeatLease, ShutdownLease
       DEF WorkerStep
  <1>5. ASSUME NEW j \in Job, OwnerStep(j)
        PROVE  LeaseInv'
    BY <1>5, OwnerLease DEF OwnerStep
  <1>6. CASE UNCHANGED vars
    BY <1>6
       DEF vars, jobVars, attemptVars, workerVars, processVars, LeaseInv,
           ProcessesAreListed, LeasesFresh, PromptTasksOwnTheirAttempt,
           PromptWorkersAreListed, PromptRowsAreCurrent, Alive, Holds, Live, Current
  <1> QED
    BY <1>4, <1>5, <1>6, TickLease DEF Next

\* heartbeat of a prompt worker renews its leases before they run out, so the
\* reaper never takes a job from it: what complete_success, complete_failure and
\* release_job of such a worker guard against never happens.
THEOREM LeaseInvariant == Spec => [](AuditInv /\ LeaseInv)
  BY AuditInit, AuditStep, LeaseInit, LeaseStep, PTL DEF Spec

-----------------------------------------------------------------------------
(* What the runs check, for every fleet *)

\* A task of a worker that heartbeats in time owns its job, under the attempt
\* the claim returned, whatever the stalled workers of the fleet do.
THEOREM PromptTasksOwnTheirAttemptAlways == Spec => []PromptTasksOwnTheirAttempt
  <1>1. LeaseInv => PromptTasksOwnTheirAttempt
    BY DEF LeaseInv
  <1> QED
    BY <1>1, LeaseInvariant, PTL

\* The fleet view never lists a worker that heartbeats in time as dead, nor a
\* draining one as available.
THEOREM PromptWorkersAreListedAlways == Spec => []PromptWorkersAreListed
  <1>1. LeaseInv => PromptWorkersAreListed
    BY DEF LeaseInv
  <1> QED
    BY <1>1, LeaseInvariant, PTL

\* If every worker heartbeats in time, an open attempt row is the one of the
\* current claim: attempt_count and locked_by together identify it.
THEOREM OpenRowsAreCurrentInPromptFleets ==
    ASSUME Stallable = {}
    PROVE  Spec => []OpenRowsAreCurrent
  <1>1. LeaseInv => OpenRowsAreCurrent
    BY DEF LeaseInv, PromptRowsAreCurrent, OpenRowsAreCurrent
  <1> QED
    BY <1>1, LeaseInvariant, PTL

\* Two tasks of one job, the first of a prompt worker: they are the same, or the
\* second is a stalled worker's and its guard will not let it settle anything.
Apart(w1, w2, e1, e2) ==
    \/ w1 = w2 /\ e1 = e2
    \/ w2 \in Stallable /\ ~Holds(w2, e2.job)

\* Owning an attempt is exclusive: the holder, the number and the row are all
\* columns of the one job row.
LEMMA TasksApart ==
    ASSUME AuditInv, LeaseInv, NEW w1 \in Prompt, NEW w2 \in Worker,
           NEW e1 \in inflight[w1], NEW e2 \in inflight[w2], e1.job = e2.job
    PROVE  Apart(w1, w2, e1, e2)
  <1>1. e1 \in Execution /\ e2 \in Execution
    BY DEF AuditInv, TypeOK, Prompt
  <1>2. /\ Holds(w1, e1.job)
        /\ e1.attempt_number = attempt_count[e1.job] /\ e1.row = opened[e1.job]
    BY DEF LeaseInv, PromptTasksOwnTheirAttempt, Prompt
  <1>3. CASE w2 \in Prompt
    <2>1. /\ Holds(w2, e2.job)
          /\ e2.attempt_number = attempt_count[e2.job] /\ e2.row = opened[e2.job]
      BY <1>3 DEF LeaseInv, PromptTasksOwnTheirAttempt, Prompt
    <2> QED
      BY <1>1, <1>2, <2>1 DEF Apart, Holds, Execution
  <1>4. CASE w2 \in Stallable
    <2>1. w2 # w1
      BY <1>4 DEF Prompt
    <2> QED
      BY <1>2, <1>4, <2>1 DEF Apart, Holds
  <1> QED
    BY <1>3, <1>4 DEF Prompt

\* DESIGN_DOC N2 in a fleet where others stall: a job that a worker executes
\* which heartbeats in time is executed by no other such worker, and a zombie that
\* still runs it cannot settle it.
THEOREM PromptTasksStandAlone ==
    Spec => [](\A w1 \in Prompt, w2 \in Worker :
                 \A e1 \in inflight[w1], e2 \in inflight[w2] :
                    e1.job = e2.job => Apart(w1, w2, e1, e2))
  <1>1. AuditInv /\ LeaseInv =>
          \A w1 \in Prompt, w2 \in Worker :
             \A e1 \in inflight[w1], e2 \in inflight[w2] :
                e1.job = e2.job => Apart(w1, w2, e1, e2)
    BY TasksApart
  <1> QED
    BY <1>1, LeaseInvariant, PTL

\* reap_once never takes a job from a worker that heartbeats in time, and no
\* zombie settles it: its run ends with its own task and not before.
THEOREM PromptRunsEndWithTheirTask ==
    Spec => [][\A w \in Prompt : \A e \in inflight[w] :
                  status'[e.job] # "RUNNING" => e \notin inflight'[w]]_vars
  <1>1. ASSUME AuditInv, LeaseInv, [Next]_vars, NEW w \in Prompt, NEW e \in inflight[w],
               status'[e.job] # "RUNNING"
        PROVE  e \notin inflight'[w]
    <2>1. w \in Worker /\ e \in Execution /\ e.job \in Job
      BY <1>1 DEF Prompt, AuditInv, TypeOK, Execution
    <2>2. Alive(w) /\ Holds(w, e.job)
      BY <1>1, <2>1 DEF LeaseInv, ProcessesAreListed, PromptTasksOwnTheirAttempt, Prompt
    <2>3. lease_left[e.job] # 0
      <3>1. hb_age[w] <= HeartbeatEvery /\ lease_left[e.job] + hb_age[w] >= Lease
        BY <1>1, <2>1, <2>2 DEF LeaseInv, LeasesFresh
      <3>2. hb_age[w] \in Nat
        BY <1>1, <2>1, LeaseAssumption DEF AuditInv, TypeOK
      <3> QED
        BY <3>1, <3>2, LeaseAssumption
    <2>4. PICK d \in inflight[w] : d.job = e.job /\ d \notin inflight'[w]
      BY <1>1, <2>1, <2>2, <2>3, LeavesRunning DEF Holds
    <2>5. Apart(w, w, e, d)
      BY <1>1, <2>1, <2>4, TasksApart
    <2> QED
      BY <1>1, <2>4, <2>5 DEF Apart, Prompt
  <1>2. AuditInv /\ LeaseInv /\ [Next]_vars =>
          [\A w \in Prompt : \A e \in inflight[w] :
              status'[e.job] # "RUNNING" => e \notin inflight'[w]]_vars
    BY <1>1
  <1> QED
    BY <1>2, LeaseInvariant, PTL DEF Spec

\* If every worker heartbeats in time, no job is executed by two tasks.
THEOREM NoTwoTasksInPromptFleets ==
    ASSUME Stallable = {}
    PROVE  Spec => []NoTwoTasksForOneJob
  <1>1. AuditInv /\ LeaseInv => NoTwoTasksForOneJob
    <2> SUFFICES ASSUME AuditInv, LeaseInv, NEW w1 \in Worker, NEW w2 \in Worker,
                        NEW e1 \in inflight[w1], NEW e2 \in inflight[w2],
                        e1.job = e2.job
                 PROVE  w1 = w2 /\ e1 = e2
      BY DEF NoTwoTasksForOneJob
    <2>1. Apart(w1, w2, e1, e2)
      BY TasksApart DEF Prompt
    <2> QED
      BY <2>1 DEF Apart
  <1> QED
    BY <1>1, LeaseInvariant, PTL

-----------------------------------------------------------------------------
(* The attempt log of a job, if every worker heartbeats in time             *)

\* Of one job: its log starts at its last requeue, every attempt charged has
\* a row that was not given back, and the last row explains the status.
LogFits(j) ==
    /\ epoch[j] <= opened[j]
    /\ attempt_count[j] = Cardinality(ChargedRows(j))
    /\ LET last == rows[j][opened[j]].status
           fresh == opened[j] = epoch[j]
       IN  /\ status[j] = "RUNNING" => ~fresh /\ last = "RUNNING"
           /\ status[j] = "SUCCEEDED" => ~fresh /\ last = "SUCCEEDED"
           /\ status[j] = "DEAD" => ~fresh /\ last \in {"FAILED", "LOST"}
           /\ status[j] = "PENDING" => fresh \/ last \in {"FAILED", "LOST", "ABORTED"}

LogInv == \A j \in Job : LogFits(j)

\* The rows charged to a job are finitely many.
LEMMA ChargedRowsFinite ==
    ASSUME TypeOK, NEW j \in Job
    PROVE  /\ epoch[j] \in Nat /\ opened[j] \in Nat
           /\ ChargedRows(j) \subseteq (epoch[j] + 1)..opened[j]
           /\ IsFiniteSet(ChargedRows(j)) /\ Cardinality(ChargedRows(j)) \in Nat
  <1>1. epoch[j] \in Nat /\ opened[j] \in Nat
    BY CountsAssumption DEF TypeOK
  <1>2. ChargedRows(j) \subseteq (epoch[j] + 1)..opened[j]
    BY DEF ChargedRows
  <1>3. IsFiniteSet((epoch[j] + 1)..opened[j])
    BY <1>1, FS_Interval
  <1> QED
    BY <1>1, <1>2, <1>3, FS_Subset, FS_CardinalityType

\* A job nobody touches keeps its log.
LEMMA LogKept ==
    ASSUME NEW j \in Job, LogFits(j),
           status'[j] = status[j], attempt_count'[j] = attempt_count[j],
           rows'[j] = rows[j], opened'[j] = opened[j], epoch'[j] = epoch[j]
    PROVE  LogFits(j)'
  <1>1. ChargedRows(j)' = ChargedRows(j)
    BY DEF ChargedRows
  <1> QED
    BY <1>1 DEF LogFits

\* A claim charges one attempt and opens one row.
LEMMA LogClaimed ==
    ASSUME AuditInv, NEW j \in Job, LogFits(j), status'[j] = "RUNNING",
           attempt_count'[j] = attempt_count[j] + 1, opened'[j] = opened[j] + 1,
           opened'[j] \in RowId, rows'[j][opened'[j]].status = "RUNNING",
           \A i \in RowId \ {opened'[j]} : rows'[j][i] = rows[j][i],
           epoch'[j] = epoch[j]
    PROVE  LogFits(j)'
  <1>1. /\ epoch[j] \in Nat /\ opened[j] \in Nat /\ epoch[j] <= opened[j]
        /\ ChargedRows(j) \subseteq (epoch[j] + 1)..opened[j]
        /\ IsFiniteSet(ChargedRows(j)) /\ Cardinality(ChargedRows(j)) \in Nat
    BY ChargedRowsFinite DEF AuditInv, LogFits
  <1>2. \A i \in (epoch[j] + 1)..opened[j] : rows'[j][i] = rows[j][i]
    BY <1>1, CountsAssumption DEF RowId
  <1>3. ChargedRows(j)' = ChargedRows(j) \cup {opened[j] + 1}
    BY <1>1, <1>2 DEF ChargedRows
  <1>4. opened[j] + 1 \notin ChargedRows(j)
    BY <1>1
  <1>5. Cardinality(ChargedRows(j)') = Cardinality(ChargedRows(j)) + 1
    BY <1>1, <1>3, <1>4, FS_AddElement
  <1> QED
    BY <1>1, <1>5 DEF LogFits

\* A verdict falls on the last row of the log alone, and a refund gives back
\* the attempt that row had been charged for.
LEMMA LogSettled ==
    ASSUME Stallable = {}, AuditInv, LeaseInv, NEW j \in Job, LogFits(j), status[j] = "RUNNING",
           NEW verdict \in {"SUCCEEDED", "FAILED", "LOST", "ABORTED"},
           rows'[j] = CloseRows(rows[j], attempt_count[j], verdict),
           opened'[j] = opened[j], epoch'[j] = epoch[j],
           \/ /\ verdict = "SUCCEEDED" /\ status'[j] = "SUCCEEDED"
              /\ attempt_count'[j] = attempt_count[j]
           \/ /\ verdict \in {"FAILED", "LOST"} /\ status'[j] \in {"PENDING", "DEAD"}
              /\ attempt_count'[j] = attempt_count[j]
           \/ /\ verdict = "ABORTED" /\ status'[j] = "PENDING"
              /\ attempt_count'[j] = attempt_count[j] - 1
    PROVE  LogFits(j)'
  <1> DEFINE o == opened[j]
  <1>1. /\ epoch[j] \in Nat /\ o \in Nat /\ epoch[j] <= o /\ epoch[j] # o
        /\ ChargedRows(j) \subseteq (epoch[j] + 1)..o
        /\ IsFiniteSet(ChargedRows(j)) /\ Cardinality(ChargedRows(j)) \in Nat
    BY ChargedRowsFinite DEF AuditInv, LogFits
  <1>2. /\ o \in RowId /\ rows[j][o].status = "RUNNING"
        /\ rows[j][o].attempt_number = attempt_count[j]
    BY <1>1, CountsAssumption DEF AuditInv, TypeOK, AuditedByLastRow, Live, RowId
  <1>3. \A i \in RowId : rows[j][i].status = "RUNNING" => i = o
    <2> SUFFICES ASSUME NEW i \in RowId, rows[j][i].status = "RUNNING" PROVE i = o
      OBVIOUS
    <2>1. Live(j, i) /\ rows[j][i].worker_id \notin Stallable
      BY DEF Live
    <2> QED
      BY <2>1 DEF LeaseInv, PromptRowsAreCurrent, Current
  <1>4. rows[j] \in [RowId -> Row] /\ verdict \in AttemptStatus
    BY DEF AuditInv, TypeOK, AttemptStatus
  <1>5. /\ rows'[j][o].status = verdict
        /\ \A i \in RowId \ {o} : rows'[j][i] = rows[j][i]
    BY <1>2, <1>3, <1>4, CloseRowsFacts
  <1>6. \A i \in (epoch[j] + 1)..o : i # o => rows'[j][i] = rows[j][i]
    BY <1>1, <1>2, <1>5, CountsAssumption DEF RowId
  <1>7. o \in ChargedRows(j)
    BY <1>1, <1>2 DEF ChargedRows
  <1>8. ChargedRows(j)' = IF verdict = "ABORTED" THEN ChargedRows(j) \ {o} ELSE ChargedRows(j)
    BY <1>1, <1>5, <1>6, <1>7 DEF ChargedRows
  <1>9. attempt_count[j] = Cardinality(ChargedRows(j))
    BY DEF LogFits
  <1>10. attempt_count'[j] = Cardinality(ChargedRows(j)')
    <2>1. Cardinality(ChargedRows(j) \ {o}) = Cardinality(ChargedRows(j)) - 1
      BY <1>1, <1>7, FS_RemoveElement
    <2> QED
      BY <1>8, <1>9, <2>1
  <1> QED
    BY <1>1, <1>5, <1>10 DEF LogFits

\* Before the first claim nothing is charged and nothing is logged.
LEMMA LogInit == Init => LogInv
  <1> SUFFICES ASSUME Init, NEW j \in Job PROVE LogFits(j)
    BY DEF LogInv
  <1>1. /\ epoch[j] = 0 /\ opened[j] = 0 /\ attempt_count[j] = 0 /\ status[j] = "PENDING"
    BY DEF Init
  <1>2. ChargedRows(j) = {}
    BY <1>1 DEF ChargedRows
  <1> QED
    BY <1>1, <1>2, FS_EmptySet DEF LogFits

\* A task that ends settles the attempt its job is charged for.
LEMMA FinishLog ==
    ASSUME Stallable = {}, AuditInv, LeaseInv, LogInv,
           NEW w \in Worker, NEW e \in inflight[w], FinishExecution(w, e)
    PROVE  LogInv'
  <1>1. /\ e \in Execution /\ e.job \in Job
        /\ Holds(w, e.job) /\ e.attempt_number = attempt_count[e.job]
    BY DEF AuditInv, TypeOK, Execution, LeaseInv, PromptTasksOwnTheirAttempt
  <1>2. ASSUME NEW next \in {"SUCCEEDED", "PENDING", "DEAD"},
               NEW verdict \in {"SUCCEEDED", "FAILED", "ABORTED"},
               Settle(e.job, next, e.attempt_number, verdict),
               \A k \in Job \ {e.job} : attempt_count'[k] = attempt_count[k],
               \/ /\ verdict = "SUCCEEDED" /\ next = "SUCCEEDED"
                  /\ attempt_count'[e.job] = attempt_count[e.job]
               \/ /\ verdict = "FAILED" /\ next \in {"PENDING", "DEAD"}
                  /\ attempt_count'[e.job] = attempt_count[e.job]
               \/ /\ verdict = "ABORTED" /\ next = "PENDING"
                  /\ attempt_count'[e.job] = attempt_count[e.job] - 1
        PROVE  LogInv'
    <2>1. /\ status'[e.job] = next /\ opened' = opened /\ epoch' = epoch
          /\ rows'[e.job] = CloseRows(rows[e.job], attempt_count[e.job], verdict)
          /\ \A k \in Job \ {e.job} : status'[k] = status[k] /\ rows'[k] = rows[k]
      BY <1>1, <1>2 DEF Settle, AuditInv, TypeOK
    <2>2. LogFits(e.job)'
      BY <1>1, <1>2, <2>1, LogSettled DEF LogInv, Holds
    <2>3. \A k \in Job \ {e.job} : LogFits(k)'
      BY <1>2, <2>1, LogKept DEF LogInv
    <2> QED
      BY <2>2, <2>3 DEF LogInv
  <1>3. CASE CompleteSuccess(w, e)
    BY <1>2, <1>3 DEF CompleteSuccess
  <1>4. CASE CompleteFailureRetry(w, e)
    BY <1>2, <1>4 DEF CompleteFailureRetry
  <1>5. CASE CompleteFailureDead(w, e)
    BY <1>2, <1>5 DEF CompleteFailureDead
  <1>6. CASE ReleaseJob(w, e)
    <2>1. /\ Settle(e.job, "PENDING", e.attempt_number, "ABORTED")
          /\ attempt_count' = [attempt_count EXCEPT ![e.job] = attempt_count[e.job] - 1]
      BY <1>6, ReleaseFacts DEF Refunded
    <2>2. /\ attempt_count'[e.job] = attempt_count[e.job] - 1
          /\ \A k \in Job \ {e.job} : attempt_count'[k] = attempt_count[k]
      BY <1>1, <2>1 DEF AuditInv, TypeOK
    <2> QED
      BY <1>2, <2>1, <2>2
  <1>7. CASE FinalizeRollsBack(w, e)
    BY <1>7, LogKept DEF FinalizeRollsBack, jobVars, attemptVars, LogInv
  <1>8. CASE LeaseLost(w, e)
    BY <1>1, <1>8 DEF LeaseLost
  <1> QED
    BY <1>3, <1>4, <1>5, <1>6, <1>7, <1>8 DEF FinishExecution

\* The log fits after every step: claims open rows, tasks and the reaper
\* settle them, requeues start over, and the rest leaves them alone.
LEMMA LogStep ==
    ASSUME Stallable = {}
    PROVE  AuditInv /\ LeaseInv /\ LogInv /\ [Next]_vars => LogInv'
  <1> SUFFICES ASSUME AuditInv, LeaseInv, LogInv, [Next]_vars PROVE LogInv'
    OBVIOUS
  <1>1. ASSUME UNCHANGED <<status, attempt_count, rows, opened, epoch>> PROVE LogInv'
    BY <1>1, LogKept DEF LogInv
  <1>2. ASSUME NEW w \in Worker, NEW S \in SUBSET Job, MayClaim(w, S), ClaimRows(w, S)
        PROVE  LogInv'
    <2>1. ClaimEffect(w, S) /\ epoch' = epoch
      BY <1>2, ClaimFacts DEF ClaimRows
    <2>2. ASSUME NEW j \in S PROVE LogFits(j)'
      <3>1. rows'[j][opened'[j]] = OpenRow(w, attempt_count'[j])
        BY <2>1, <2>2 DEF ClaimEffect
      <3>2. rows'[j][opened'[j]].status = "RUNNING"
        BY <3>1 DEF OpenRow
      <3> QED
        BY <2>1, <2>2, <3>2, LogClaimed DEF ClaimEffect, LogInv
    <2>3. \A j \in Job \ S : LogFits(j)'
      BY <2>1, LogKept DEF ClaimEffect, LogInv
    <2> QED
      BY <2>2, <2>3 DEF LogInv
  <1>3. ASSUME NEW h \in Worker, NEW S \in SUBSET Expired, Reap(h, S)
        PROVE  LogInv'
    <2>1. /\ S \subseteq Job /\ attempt_count' = attempt_count /\ opened' = opened
          /\ \A j \in S : /\ status[j] = "RUNNING"
                          /\ status'[j] \in {"PENDING", "DEAD"}
                          /\ rows'[j] = CloseRows(rows[j], attempt_count[j], "LOST")
          /\ \A j \in Job \ S : status'[j] = status[j] /\ rows'[j] = rows[j]
      BY <1>3, ReapFacts
    <2>2. epoch' = epoch
      BY <1>3 DEF Reap
    <2>3. ASSUME NEW j \in S PROVE LogFits(j)'
      BY <2>1, <2>2, <2>3, LogSettled DEF LogInv
    <2>4. \A j \in Job \ S : LogFits(j)'
      BY <2>1, <2>2, LogKept DEF LogInv
    <2> QED
      BY <2>3, <2>4 DEF LogInv
  <1>4. ASSUME NEW w \in Worker, WorkerStep(w)
        PROVE  LogInv'
    <2>1. CASE \/ Register(w) \/ Heartbeat(w) \/ BeginDrain(w)
               \/ AnnounceFails(w) \/ Unwound(w)
               \/ GraceExpires(w) \/ Stop(w) \/ Crash(w)
      BY <1>1, <2>1
         DEF Register, Heartbeat, BeginDrain, AnnounceFails, Unwound, GraceExpires,
           Stop, Crash, jobVars, attemptVars
    <2>2. ASSUME NEW S \in SUBSET Job, Claim(w, S) \/ ClaimUnacknowledged(w, S)
          PROVE  LogInv'
      BY <1>2, <2>2 DEF Claim, ClaimUnacknowledged
    <2>3. ASSUME NEW e \in inflight[w], FinishExecution(w, e)
          PROVE  LogInv'
      BY <2>3, FinishLog
    <2> QED
      BY <1>3, <1>4, <2>1, <2>2, <2>3 DEF WorkerStep
  <1>5. ASSUME NEW j \in Job, Cancel(j)
        PROVE  LogInv'
    <2>1. /\ status'[j] = "CANCELLED" /\ UNCHANGED <<attempt_count, rows, opened, epoch>>
          /\ \A k \in Job \ {j} : status'[k] = status[k]
      BY <1>5 DEF Cancel, attemptVars, AuditInv, TypeOK
    <2>2. ChargedRows(j)' = ChargedRows(j)
      BY <2>1 DEF ChargedRows
    <2>3. LogFits(j)'
      BY <2>1, <2>2 DEF LogInv, LogFits
    <2> QED
      BY <2>1, <2>3, LogKept DEF LogInv
  <1>6. ASSUME NEW j \in Job, Requeue(j)
        PROVE  LogInv'
    <2>1. /\ status'[j] = "PENDING" /\ attempt_count'[j] = 0
          /\ epoch'[j] = opened[j] /\ opened' = opened /\ rows' = rows
          /\ \A k \in Job \ {j} : /\ status'[k] = status[k] /\ epoch'[k] = epoch[k]
                                  /\ attempt_count'[k] = attempt_count[k]
      BY <1>6 DEF Requeue, AuditInv, TypeOK
    <2>2. opened[j] \in Nat
      BY ChargedRowsFinite DEF AuditInv
    <2>3. ChargedRows(j)' = {}
      BY <2>1, <2>2 DEF ChargedRows
    <2>4. LogFits(j)'
      BY <2>1, <2>2, <2>3, FS_EmptySet DEF LogFits
    <2> QED
      BY <2>1, <2>4, LogKept DEF LogInv
  <1>7. CASE Tick \/ UNCHANGED vars
    BY <1>1, <1>7 DEF Tick, vars, jobVars, attemptVars
  <1> QED
    BY <1>4, <1>5, <1>6, <1>7 DEF Next, OwnerStep

\* If every worker heartbeats in time, the budget is the audit log: what a
\* job has been charged since its last requeue are the rows not given back.
THEOREM BudgetMatchesLogInPromptFleets ==
    ASSUME Stallable = {}
    PROVE  Spec => []BudgetMatchesLog
  <1>1. LogInv => BudgetMatchesLog
    BY DEF LogInv, LogFits, BudgetMatchesLog
  <1> QED
    BY <1>1, AuditInit, AuditStep, LeaseInit, LeaseStep, LogInit, LogStep, PTL DEF Spec

\* If every worker heartbeats in time, the last row of a job's log says how
\* the job got where it is, through retries, refunds and requeues.
THEOREM LastRowExplainsStatusInPromptFleets ==
    ASSUME Stallable = {}
    PROVE  Spec => []LastRowExplainsStatus
  <1>1. LogInv => LastRowExplainsStatus
    BY DEF LogInv, LogFits, LastRowExplainsStatus
  <1> QED
    BY <1>1, AuditInit, AuditStep, LeaseInit, LeaseStep, LogInit, LogStep, PTL DEF Spec


-----------------------------------------------------------------------------
(* In a fleet whose live workers all heartbeat in time, the lease protocol  *)
(* implements the job state machine of module JobLifecycle: every step of   *)
(* a worker, the reaper or an owner is, for every job, one allowed          *)
(* transition or none, and the attempt budget is never exceeded.  Workers   *)
(* may still crash, drain, lose commits and their acknowledgements.         *)

\* The budget of a job whose tasks all own their attempt.
BudgetInv ==
    \A j \in Job :
        /\ status[j] \in {"PENDING", "CANCELLED"} => attempt_count[j] < MaxAttempts
        /\ status[j] = "RUNNING" => attempt_count[j] <= MaxAttempts
        /\ status[j] = "DEAD" => attempt_count[j] = MaxAttempts

RefinementInv == AuditInv /\ LeaseInv /\ BudgetInv

\* One allowed transition of job j, or none.
Allowed(j) == Lifecycle!Stays(j) \/ Lifecycle!Transition(j)

\* Every job starts with its whole budget.
LEMMA BudgetInit == Init => BudgetInv
  BY CountsAssumption DEF Init, BudgetInv

\* A step that does not touch the row of a job is a stutter of its life cycle.
LEMMA StaysAllowed ==
    ASSUME NEW j \in Job, UNCHANGED <<status[j], locked_by[j], attempt_count[j]>>
    PROVE  Allowed(j)
  BY DEF Allowed, Lifecycle!Stays

\* The budget survives an allowed transition, provided the job had it before.
LEMMA BudgetStep ==
    ASSUME RefinementInv, \A j \in Job : Allowed(j)
    PROVE  BudgetInv'
  <1> SUFFICES ASSUME NEW j \in Job
               PROVE  /\ status'[j] \in {"PENDING", "CANCELLED"}
                           => attempt_count'[j] < MaxAttempts
                      /\ status'[j] = "RUNNING" => attempt_count'[j] <= MaxAttempts
                      /\ status'[j] = "DEAD" => attempt_count'[j] = MaxAttempts
    BY DEF BudgetInv
  <1>1. /\ attempt_count[j] \in Nat
        /\ MaxAttempts \in Nat \ {0}
        /\ status[j] \in {"PENDING", "CANCELLED"} => attempt_count[j] < MaxAttempts
        /\ status[j] = "RUNNING" => attempt_count[j] <= MaxAttempts
        /\ status[j] = "DEAD" => attempt_count[j] = MaxAttempts
    BY CountsAssumption DEF RefinementInv, AuditInv, TypeOK, BudgetInv
  <1>2. CASE Lifecycle!Stays(j)
    BY <1>1, <1>2 DEF Lifecycle!Stays
  <1>3. CASE Lifecycle!Claim(j)
    BY <1>1, <1>3 DEF Lifecycle!Claim
  <1>4. CASE Lifecycle!Succeed(j)
    BY <1>1, <1>4 DEF Lifecycle!Succeed
  <1>5. CASE Lifecycle!Retry(j)
    BY <1>1, <1>5 DEF Lifecycle!Retry
  <1>6. CASE Lifecycle!Bury(j)
    BY <1>1, <1>6 DEF Lifecycle!Bury
  <1>7. CASE Lifecycle!Refund(j)
    BY <1>1, <1>7 DEF Lifecycle!Refund
  <1>8. CASE Lifecycle!Cancel(j)
    BY <1>1, <1>8 DEF Lifecycle!Cancel
  <1>9. CASE Lifecycle!Requeue(j)
    BY <1>1, <1>9 DEF Lifecycle!Requeue
  <1> QED
    BY <1>2, <1>3, <1>4, <1>5, <1>6, <1>7, <1>8, <1>9
       DEF Allowed, Lifecycle!Transition

-----------------------------------------------------------------------------
(* Every step is allowed for every job *)

\* claim_batch moves PENDING to RUNNING and charges one attempt.
LEMMA ClaimAllowed ==
    ASSUME RefinementInv, NEW w \in Worker, NEW S \in SUBSET Job,
           Claim(w, S) \/ ClaimUnacknowledged(w, S), NEW j \in Job
    PROVE  Allowed(j)
  <1>1. ClaimEffect(w, S)
    BY ClaimFacts DEF Claim, ClaimUnacknowledged, RefinementInv
  <1>2. CASE j \in S
    BY <1>1, <1>2
       DEF ClaimEffect, RefinementInv, BudgetInv, Allowed, Lifecycle!Transition,
           Lifecycle!Claim
  <1>3. CASE j \notin S
    BY <1>1, <1>3, StaysAllowed DEF ClaimEffect
  <1> QED
    BY <1>2, <1>3

\* A prompt worker decides between retry and burial on the attempt number of
\* its claim, which is still the one the row has.
LEMMA FinishAllowed ==
    ASSUME RefinementInv, Stallable = {}, NEW w \in Worker, NEW e \in inflight[w],
           FinishExecution(w, e), NEW j \in Job
    PROVE  Allowed(j)
  <1>1. /\ e.job \in Job
        /\ Holds(w, e.job)
        /\ attempt_count[e.job] = e.attempt_number
        /\ attempt_count[e.job] \in Nat
        /\ attempt_count[e.job] <= MaxAttempts
    BY DEF RefinementInv, AuditInv, TypeOK, Execution, LeaseInv,
           PromptTasksOwnTheirAttempt, BudgetInv, Holds
  <1>2. CASE FinalizeRollsBack(w, e) \/ LeaseLost(w, e)
    BY <1>2, StaysAllowed DEF FinalizeRollsBack, LeaseLost, jobVars
  <1>3. CASE CompleteSuccess(w, e)
    BY <1>1, <1>3, StaysAllowed
       DEF CompleteSuccess, Settle, RefinementInv, AuditInv, TypeOK, Holds, Allowed,
           Lifecycle!Transition, Lifecycle!Succeed
  <1>4. CASE CompleteFailureRetry(w, e)
    BY <1>1, <1>4, StaysAllowed, CountsAssumption
       DEF CompleteFailureRetry, Retries, Settle, RefinementInv, AuditInv, TypeOK,
           Holds, Allowed, Lifecycle!Transition, Lifecycle!Retry
  <1>5. CASE CompleteFailureDead(w, e)
    <2>1. /\ Settle(e.job, "DEAD", e.attempt_number, "FAILED")
          /\ attempt_count' = attempt_count
          /\ ~Retries(e.attempt_number)
      BY <1>5 DEF CompleteFailureDead
    <2>2. attempt_count[e.job] = MaxAttempts
      BY <1>1, <2>1, CountsAssumption DEF Retries
    <2> QED
      BY <1>1, <2>1, <2>2, StaysAllowed
         DEF Settle, RefinementInv, AuditInv, TypeOK, Holds, Allowed,
             Lifecycle!Transition, Lifecycle!Bury
  <1>6. CASE ReleaseJob(w, e)
    <2>1. /\ Settle(e.job, "PENDING", e.attempt_number, "ABORTED")
          /\ attempt_count' = [attempt_count EXCEPT ![e.job] = attempt_count[e.job] - 1]
      BY <1>6, ReleaseFacts DEF Refunded
    <2> QED
      BY <1>1, <2>1, StaysAllowed
         DEF Settle, RefinementInv, AuditInv, TypeOK, Holds, Allowed,
             Lifecycle!Transition, Lifecycle!Refund
  <1> QED
    BY <1>2, <1>3, <1>4, <1>5, <1>6 DEF FinishExecution

\* reap_once moves RUNNING to PENDING or, when the budget is spent, to DEAD.
LEMMA ReapAllowed ==
    ASSUME RefinementInv, NEW h \in Worker, NEW S \in SUBSET Expired, Reap(h, S),
           NEW j \in Job
    PROVE  Allowed(j)
  <1>1. CASE j \in S
    <2>1. /\ status[j] = "RUNNING"
          /\ status'[j] = IF Retries(attempt_count[j]) THEN "PENDING" ELSE "DEAD"
          /\ locked_by'[j] = NoWorker
          /\ attempt_count'[j] = attempt_count[j]
      BY <1>1, ReapFacts DEF RefinementInv
    <2>2. attempt_count[j] \in Nat /\ attempt_count[j] <= MaxAttempts
      BY <2>1 DEF RefinementInv, AuditInv, TypeOK, BudgetInv
    <2> QED
      BY <2>1, <2>2, CountsAssumption
         DEF Retries, Allowed, Lifecycle!Transition, Lifecycle!Retry, Lifecycle!Bury
  <1>2. CASE j \notin S
    BY <1>2, ReapFacts, StaysAllowed DEF RefinementInv
  <1> QED
    BY <1>1, <1>2

\* cancel and requeue of JobService.
LEMMA OwnerAllowed ==
    ASSUME RefinementInv, NEW k \in Job, Cancel(k) \/ Requeue(k), NEW j \in Job
    PROVE  Allowed(j)
  <1>1. CASE j # k
    BY <1>1, StaysAllowed DEF Cancel, Requeue, RefinementInv, AuditInv, TypeOK
  <1>2. CASE j = k /\ Cancel(k)
    BY <1>2
       DEF Cancel, RefinementInv, AuditInv, TypeOK, Allowed, Lifecycle!Transition,
           Lifecycle!Cancel
  <1>3. CASE j = k /\ Requeue(k)
    BY <1>3
       DEF Requeue, RefinementInv, AuditInv, TypeOK, Allowed, Lifecycle!Transition,
           Lifecycle!Requeue
  <1> QED
    BY <1>1, <1>2, <1>3

\* Every step is, for every job, an allowed transition or a stutter.
LEMMA StepAllowed ==
    ASSUME RefinementInv, Stallable = {}, [Next]_vars
    PROVE  \A j \in Job : Allowed(j)
  <1> SUFFICES ASSUME NEW j \in Job
               PROVE  Allowed(j)
    OBVIOUS
  <1>1. ASSUME NEW w \in Worker, NEW e \in inflight[w], FinishExecution(w, e)
        PROVE  Allowed(j)
    BY <1>1, FinishAllowed
  <1>2. ASSUME NEW w \in Worker, NEW S \in SUBSET Expired, Reap(w, S)
        PROVE  Allowed(j)
    BY <1>2, ReapAllowed
  <1>3. ASSUME NEW w \in Worker, NEW S \in SUBSET Job,
               Claim(w, S) \/ ClaimUnacknowledged(w, S)
        PROVE  Allowed(j)
    BY <1>3, ClaimAllowed
  <1>4. ASSUME NEW w \in Worker,
               \/ Register(w) \/ Heartbeat(w) \/ BeginDrain(w)
               \/ AnnounceFails(w) \/ Unwound(w)
               \/ GraceExpires(w) \/ Stop(w) \/ Crash(w)
        PROVE  Allowed(j)
    BY <1>4, StaysAllowed
       DEF Register, Heartbeat, BeginDrain, AnnounceFails, Unwound, GraceExpires,
           Stop, Crash, jobVars
  <1>5. ASSUME NEW k \in Job, OwnerStep(k)
        PROVE  Allowed(j)
    BY <1>5, OwnerAllowed DEF OwnerStep
  <1>6. ASSUME Tick \/ UNCHANGED vars
        PROVE  Allowed(j)
    BY <1>6, StaysAllowed DEF Tick, vars, jobVars
  <1> QED
    BY <1>1, <1>2, <1>3, <1>4, <1>5, <1>6 DEF Next, WorkerStep

-----------------------------------------------------------------------------

\* The job table of a prompt fleet is the state machine of models/job.py with
\* its attempt budget: claims charge it, failures bury a job exactly when it
\* is spent, releases refund it and requeues renew it.
THEOREM PromptFleetsImplementLifecycle ==
    ASSUME Stallable = {}
    PROVE  Spec => ImplementsLifecycle
  <1>1. Init => Lifecycle!Init
    BY DEF Init, Lifecycle!Init
  <1>2. RefinementInv /\ [Next]_vars => [Lifecycle!Next]_(Lifecycle!vars)
    BY StepAllowed DEF Lifecycle!Next, Allowed
  <1>3. RefinementInv /\ [Next]_vars => BudgetInv'
    BY StepAllowed, BudgetStep
  <1>4. Spec => []RefinementInv
    <2>1. AuditInv /\ LeaseInv /\ BudgetInv => RefinementInv
      BY DEF RefinementInv
    <2>2. RefinementInv => AuditInv /\ LeaseInv /\ BudgetInv
      BY DEF RefinementInv
    <2> QED
      BY <1>3, <2>1, <2>2, BudgetInit, LeaseInvariant, PTL DEF Spec
  <1> QED
    BY <1>1, <1>2, <1>4, PTL DEF Spec, ImplementsLifecycle, Lifecycle!Spec
=============================================================================
