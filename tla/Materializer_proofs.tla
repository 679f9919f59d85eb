------------------------- MODULE Materializer_proofs -------------------------
(***************************************************************************)
(* Theorems about Materializer, for every number of schedules, hosts and   *)
(* requests, every set of cron expressions and every batch limit.          *)
(***************************************************************************)
EXTENDS Materializer, TLAPS

-----------------------------------------------------------------------------
(* The inductive invariant *)

\* A job's idempotency key is the tick it was made for.
KeysAreTicks ==
    \A s \in Schedule : \A i \in DOMAIN jobs[s] :
        jobs[s][i].idempotency_key = jobs[s][i].run_at

\* Between two restarts of the cursor it is past the sweep that fired last.
CursorIsPastSweep ==
    \A s \in Schedule : swept[s] # Never => row[s].next_run_at > swept[s]

\* A schedule that was not created yet was not swept.
NewIsUnswept == \A s \in Schedule : row[s].state = "new" => swept[s] = Never

\* What a sweep has locked stays due until it ends, and is locked by it alone;
\* it looks up and inserts nothing else.
LocksHold ==
    \A h \in Host :
        /\ hpc[h] # "selected" => selected[h] = {}
        /\ fresh[h] \subseteq checked[h]
        /\ checked[h] \subseteq selected[h]
        /\ \A s \in selected[h] : /\ Due(s, began[h])
                                  /\ \A g \in Host \ {h} : s \notin selected[g]

SweepInv ==
    /\ TypeOK
    /\ KeysAreTicks
    /\ TicksFireOnce
    /\ LastRunIsMaterialized
    /\ CursorIsPastSweep
    /\ NewIsUnswept
    /\ LocksHold
    /\ SweepsAreUndisturbed

-----------------------------------------------------------------------------
(* Lemmas *)

\* The next fire time is a time, and a later one.
LEMMA NextRunFacts ==
    ASSUME NEW c \in Nat \ {0}, NEW t \in Nat
    PROVE  NextRunAfter(c, t) \in Nat /\ NextRunAfter(c, t) > t
  BY DEF NextRunAfter

\* An edit keeps what it must not touch: the state and the last run of the
\* row as it is now, and the cursor unless the edit restarts it.
LEMMA FlushedFacts ==
    ASSUME NEW q \in OpenPatch, NEW current \in Row
    PROVE  /\ Flushed(q, current) \in Row
           /\ Flushed(q, current).state = current.state
           /\ Flushed(q, current).last_run_at = current.last_run_at
           /\ ~Restarts(q.patch) => Flushed(q, current).next_run_at = current.next_run_at
  <1>1. /\ q.loaded \in Row /\ q.now \in Nat
        /\ q.patch.cron_expr \in Cron \cup {Unset} /\ q.patch.paused \in BOOLEAN \cup {Unset}
    BY ScheduleAssumption DEF OpenPatch, Patch, Time
  <1>2. /\ Edited(q) \in Row
        /\ Edited(q).state = q.loaded.state /\ Edited(q).last_run_at = q.loaded.last_run_at
        /\ ~Restarts(q.patch) => Edited(q).next_run_at = q.loaded.next_run_at
    <2> DEFINE cron == Patched(q.patch, "cron_expr", q.loaded.cron_expr)
    <2>1. cron \in Cron /\ cron \in Nat \ {0}
      BY <1>1, ScheduleAssumption DEF Patched, Row
    <2>2. NextRunAfter(cron, q.now) \in Nat
      BY <1>1, <2>1, NextRunFacts
    <2>3. Patched(q.patch, "paused", q.loaded.paused) \in BOOLEAN
      BY <1>1 DEF Patched, Row
    <2> QED
      BY <1>1, <2>1, <2>2, <2>3 DEF Edited, Row
  <1>3. DOMAIN current = {"state", "paused", "cron_expr", "next_run_at", "last_run_at"}
    BY DEF Row
  <1> DEFINE f == Flushed(q, current)
  <1>4. /\ f.state = IF Edited(q).state = q.loaded.state THEN current.state ELSE Edited(q).state
        /\ f.paused = IF Edited(q).paused = q.loaded.paused THEN current.paused ELSE Edited(q).paused
        /\ f.cron_expr = IF Edited(q).cron_expr = q.loaded.cron_expr THEN current.cron_expr
                         ELSE Edited(q).cron_expr
        /\ f.next_run_at = IF Edited(q).next_run_at = q.loaded.next_run_at
                           THEN current.next_run_at ELSE Edited(q).next_run_at
        /\ f.last_run_at = IF Edited(q).last_run_at = q.loaded.last_run_at
                           THEN current.last_run_at ELSE Edited(q).last_run_at
    BY <1>3 DEF Flushed
  <1>5. f \in Row
    BY <1>2, <1>3, <1>4 DEF Flushed, Row
  <1> QED
    BY <1>2, <1>4, <1>5

\* The cursor a sweep leaves is past the sweep and every tick it stands for;
\* the last run it leaves is the tick it fires.
LEMMA AdvancedFacts ==
    ASSUME NEW r \in Row, NEW now \in Nat
    PROVE  /\ Advanced(r, r, now) \in Row
           /\ Advanced(r, r, now).next_run_at > now
           /\ Advanced(r, r, now).last_run_at = r.next_run_at
           /\ Advanced(r, r, now).state = r.state
           /\ Advanced(r, r, now).paused = r.paused
  <1> DEFINE t == Latest(r.next_run_at, now)
  <1>1. r.cron_expr \in Nat \ {0} /\ r.next_run_at \in Nat
    BY ScheduleAssumption DEF Row
  <1>2. t \in Nat /\ t >= now
    BY <1>1 DEF Latest
  <1> HIDE DEF t
  <1>3. NextRunAfter(r.cron_expr, t) \in Nat /\ NextRunAfter(r.cron_expr, t) > t
    BY <1>1, <1>2, NextRunFacts
  <1> DEFINE n == NextRunAfter(r.cron_expr, t)
  <1>4. Advanced(r, r, now) = [r EXCEPT !.last_run_at = r.next_run_at, !.next_run_at = n]
    BY DEF Advanced, t
  <1>5. n \in Nat /\ n > now
    BY <1>2, <1>3
  <1> HIDE DEF n
  <1> QED
    BY <1>1, <1>4, <1>5 DEF Row

\* A job that is inserted is the last of its schedule; the others stay.
LEMMA AppendFacts ==
    ASSUME NEW q \in Seq(JobRow), NEW j \in JobRow
    PROVE  /\ Append(q, j) \in Seq(JobRow)
           /\ DOMAIN Append(q, j) = DOMAIN q \cup {Len(q) + 1}
           /\ Len(q) + 1 \notin DOMAIN q
           /\ Append(q, j)[Len(q) + 1] = j
           /\ \A i \in DOMAIN q : Append(q, j)[i] = q[i]
  OBVIOUS


\* While the tables stay as they are, so does what the invariant says of them.
LEMMA TablesFrame ==
    ASSUME SweepInv, UNCHANGED <<row, jobs, swept>>
    PROVE  /\ KeysAreTicks' /\ TicksFireOnce' /\ LastRunIsMaterialized'
           /\ CursorIsPastSweep' /\ NewIsUnswept'
  BY DEF SweepInv, KeysAreTicks, TicksFireOnce, LastRunIsMaterialized, CursorIsPastSweep,
         NewIsUnswept

-----------------------------------------------------------------------------
(* One lemma per group of actions *)

\* Only the clock and the sweep's own places move.
LEMMA QuietStep ==
    ASSUME SweepInv, Tick \/ \E h \in Host : BeginSweep(h) \/ EndSweepEarly(h)
    PROVE  SweepInv'
  <1>1. UNCHANGED <<row, jobs, swept, selected, loaded, checked, fresh, request, advisory>>
    BY DEF Tick, BeginSweep, EndSweepEarly, sweepVars
  <1>2. TypeOK'
    <2>1. CASE Tick
      BY <2>1, ScheduleAssumption DEF SweepInv, TypeOK, Tick, sweepVars, Time
    <2>2. ASSUME NEW h \in Host, BeginSweep(h) \/ EndSweepEarly(h) PROVE TypeOK'
      <3>1. 0 \in Time
        BY ScheduleAssumption DEF Time
      <3>2. hpc' \in [Host -> {"idle", "begun", "selected"}] /\ clock' = clock
        BY <2>2 DEF SweepInv, TypeOK, BeginSweep, EndSweepEarly
      <3>3. \E t \in Time : began' = [began EXCEPT ![h] = t]
        BY <2>2, <3>1 DEF SweepInv, TypeOK, BeginSweep, EndSweepEarly
      <3>4. began' \in [Host -> Time]
        BY <3>3 DEF SweepInv, TypeOK
      <3> QED
        BY <1>1, <3>2, <3>4 DEF SweepInv, TypeOK
    <2> QED
      BY <2>1, <2>2
  <1>3. LocksHold'
    <2>1. CASE Tick
      BY <1>1, <2>1 DEF SweepInv, LocksHold, Due, Live, Tick, sweepVars
    <2>2. ASSUME NEW h \in Host, BeginSweep(h) \/ EndSweepEarly(h) PROVE LocksHold'
      <3>1. /\ hpc[h] # "selected" /\ hpc'[h] # "selected" /\ selected[h] = {}
            /\ \A g \in Host \ {h} : hpc'[g] = hpc[g] /\ began'[g] = began[g]
        BY <2>2 DEF SweepInv, TypeOK, LocksHold, BeginSweep, EndSweepEarly
      <3> QED
        BY <1>1, <3>1 DEF SweepInv, LocksHold, Due, Live
    <2> QED
      BY <2>1, <2>2
  <1>4. SweepsAreUndisturbed'
    BY <1>1 DEF SweepInv, SweepsAreUndisturbed
  <1> QED
    BY <1>1, <1>2, <1>3, <1>4, TablesFrame DEF SweepInv

\* SKIP LOCKED: what is selected is due and nobody else's, and is loaded as it is.
LEMMA SelectDueStep ==
    ASSUME SweepInv, NEW h \in Host, SelectDue(h)
    PROVE  SweepInv'
  <1>1. PICK S \in SUBSET {s \in Schedule : Due(s, began[h]) /\ ~Locked(s)} :
          /\ selected' = [selected EXCEPT ![h] = S]
          /\ loaded' = [loaded EXCEPT ![h] = [s \in S |-> row[s]]]
    BY DEF SelectDue
  <1>2. /\ UNCHANGED <<clock, row, jobs, swept, began, checked, fresh, request>>
        /\ advisory' = h /\ hpc' = [hpc EXCEPT ![h] = "selected"] /\ hpc[h] = "begun"
    BY DEF SelectDue
  <1>3. [s \in S |-> row[s]] \in [S -> Row]
    BY <1>1 DEF SweepInv, TypeOK
  <1>4. /\ selected'[h] = S /\ loaded'[h] = [s \in S |-> row[s]] /\ hpc'[h] = "selected"
        /\ \A g \in Host \ {h} : /\ selected'[g] = selected[g] /\ loaded'[g] = loaded[g]
                                 /\ hpc'[g] = hpc[g]
    BY <1>1, <1>2 DEF SweepInv, TypeOK
  <1>5. TypeOK'
    <2>1. DOMAIN loaded' = Host /\ \A g \in Host : loaded'[g] \in [selected'[g] -> Row]
      BY <1>1, <1>3, <1>4 DEF SweepInv, TypeOK
    <2> QED
      BY <1>1, <1>2, <2>1 DEF SweepInv, TypeOK
  <1>6. \A s \in S : Due(s, began[h]) /\ \A g \in Host : s \notin selected[g]
    BY <1>1 DEF Locked
  <1>7. selected[h] = {} /\ checked[h] = {} /\ fresh[h] = {}
    BY <1>2 DEF SweepInv, LocksHold
  <1>8. LocksHold'
    BY <1>2, <1>4, <1>6, <1>7 DEF SweepInv, LocksHold, Due, Live
  <1>9. SweepsAreUndisturbed'
    BY <1>2, <1>4, <1>7 DEF SweepInv, SweepsAreUndisturbed
  <1> QED
    BY <1>2, <1>5, <1>8, <1>9, TablesFrame DEF SweepInv

\* What a lookup finds is so until the sweep ends: the row is locked.
LEMMA CheckKeyStep ==
    ASSUME SweepInv, NEW h \in Host, NEW s \in Schedule, CheckKey(h, s)
    PROVE  SweepInv'
  <1>1. /\ s \in selected[h] /\ TypeOK
        /\ UNCHANGED <<clock, row, jobs, swept, hpc, began, advisory, selected, loaded, request>>
    BY DEF CheckKey, SweepInv
  <1>2. loaded[h][s] = row[s]
    BY <1>1 DEF SweepInv, SweepsAreUndisturbed
  <1>3. AlreadyFired(s, FireKey(loaded[h][s], began[h]))
           <=> \E i \in DOMAIN jobs[s] : jobs[s][i].run_at = row[s].next_run_at
    BY <1>2 DEF AlreadyFired, FireKey, SweepInv, KeysAreTicks
  <1>4. /\ checked' = [checked EXCEPT ![h] = checked[h] \cup {s}]
        /\ fresh' = [fresh EXCEPT ![h] =
                        IF \E i \in DOMAIN jobs[s] : jobs[s][i].run_at = row[s].next_run_at
                        THEN fresh[h] ELSE fresh[h] \cup {s}]
    BY <1>3 DEF CheckKey
  <1>5. TypeOK'
    BY <1>1, <1>4 DEF TypeOK
  <1>6. /\ checked'[h] = checked[h] \cup {s}
        /\ fresh'[h] = IF \E i \in DOMAIN jobs[s] : jobs[s][i].run_at = row[s].next_run_at
                       THEN fresh[h] ELSE fresh[h] \cup {s}
        /\ \A g \in Host \ {h} : checked'[g] = checked[g] /\ fresh'[g] = fresh[g]
    BY <1>1, <1>4 DEF TypeOK
  <1>7. s \notin checked[h] /\ s \notin fresh[h]
    BY DEF CheckKey, SweepInv, LocksHold
  <1>8. LocksHold'
    <2>1. \A g \in Host : fresh'[g] \subseteq checked'[g] /\ checked'[g] \subseteq selected[g]
      BY <1>1, <1>6 DEF SweepInv, LocksHold
    <2> QED
      BY <1>1, <2>1 DEF SweepInv, LocksHold, Due, Live
  <1>9. SweepsAreUndisturbed'
    <2> SUFFICES ASSUME NEW g \in Host, NEW t \in selected[g]
                 PROVE  /\ loaded[g][t] = row[t]
                        /\ t \in checked'[g] =>
                             (t \in fresh'[g]
                                <=> \A i \in DOMAIN jobs[t] : jobs[t][i].run_at # row[t].next_run_at)
      BY <1>1 DEF SweepsAreUndisturbed
    <2>1. /\ loaded[g][t] = row[t]
          /\ t \in checked[g] =>
               (t \in fresh[g]
                  <=> \A i \in DOMAIN jobs[t] : jobs[t][i].run_at # row[t].next_run_at)
      BY DEF SweepInv, SweepsAreUndisturbed
    <2>2. CASE g = h /\ t = s
      BY <1>6, <1>7, <2>1, <2>2
    <2>3. CASE ~(g = h /\ t = s)
      <3>1. (t \in checked'[g] <=> t \in checked[g]) /\ (t \in fresh'[g] <=> t \in fresh[g])
        BY <1>6, <2>3
      <3> QED
        BY <2>1, <3>1
    <2> QED
      BY <2>2, <2>3
  <1> QED
    BY <1>1, <1>5, <1>8, <1>9, TablesFrame DEF SweepInv

\* The end of a sweep leaves its host with nothing, and the others as they are.
LEMMA ReleaseFacts ==
    ASSUME TypeOK, NEW h \in Host, ReleaseLocks(h)
    PROVE  /\ hpc' \in [Host -> {"idle", "begun", "selected"}]
           /\ began' \in [Host -> Time] /\ selected' \in [Host -> SUBSET Schedule]
           /\ DOMAIN loaded' = Host /\ \A g \in Host : loaded'[g] \in [selected'[g] -> Row]
           /\ checked' \in [Host -> SUBSET Schedule] /\ fresh' \in [Host -> SUBSET Schedule]
           /\ advisory' \in Host \cup {NoHost}
           /\ selected'[h] = {} /\ checked'[h] = {} /\ fresh'[h] = {}
           /\ \A g \in Host \ {h} :
                /\ hpc'[g] = hpc[g] /\ began'[g] = began[g] /\ selected'[g] = selected[g]
                /\ loaded'[g] = loaded[g] /\ checked'[g] = checked[g] /\ fresh'[g] = fresh[g]
  <1>1. 0 \in Time
    BY ScheduleAssumption DEF Time
  <1>2. [s \in {} |-> row[s]] \in [{} -> Row]
    OBVIOUS
  <1>3. /\ DOMAIN loaded' = Host /\ loaded'[h] = [s \in {} |-> row[s]]
        /\ selected'[h] = {}
        /\ \A g \in Host \ {h} : loaded'[g] = loaded[g] /\ selected'[g] = selected[g]
    BY DEF TypeOK, ReleaseLocks
  <1>4. \A g \in Host : loaded'[g] \in [selected'[g] -> Row]
    BY <1>2, <1>3 DEF TypeOK
  <1> QED
    BY <1>1, <1>3, <1>4 DEF TypeOK, ReleaseLocks

\* When a sweep ends, the others still have their locks and what they know,
\* if nothing was changed but rows it had locked itself.
LEMMA SweepEnds ==
    ASSUME SweepInv, NEW h \in Host, ReleaseLocks(h),
           \A s \in Schedule \ selected[h] : row'[s] = row[s] /\ jobs'[s] = jobs[s]
    PROVE  LocksHold' /\ SweepsAreUndisturbed'
  <1>1. TypeOK
    BY DEF SweepInv
  <1>2. /\ selected'[h] = {} /\ checked'[h] = {} /\ fresh'[h] = {}
        /\ \A g \in Host \ {h} :
             /\ hpc'[g] = hpc[g] /\ began'[g] = began[g] /\ selected'[g] = selected[g]
             /\ loaded'[g] = loaded[g] /\ checked'[g] = checked[g] /\ fresh'[g] = fresh[g]
    BY <1>1, ReleaseFacts
  <1>3. \A g \in Host \ {h} : \A s \in selected[g] :
          s \in Schedule \ selected[h] /\ row'[s] = row[s] /\ jobs'[s] = jobs[s]
    BY <1>1 DEF SweepInv, LocksHold, TypeOK
  <1>4. \A f \in Host : selected'[f] \subseteq selected[f]
    BY <1>2
  <1>5. LocksHold'
    <2> SUFFICES ASSUME NEW g \in Host
                 PROVE  /\ hpc'[g] # "selected" => selected'[g] = {}
                        /\ fresh'[g] \subseteq checked'[g] /\ checked'[g] \subseteq selected'[g]
                        /\ \A s \in selected'[g] : /\ Due(s, began[g])'
                                                   /\ \A f \in Host \ {g} : s \notin selected'[f]
      BY DEF LocksHold
    <2>1. CASE g = h
      BY <1>2, <2>1
    <2>2. CASE g # h
      BY <1>2, <1>3, <1>4, <2>2 DEF SweepInv, LocksHold, Due, Live
    <2> QED
      BY <2>1, <2>2
  <1>6. SweepsAreUndisturbed'
    <2> SUFFICES ASSUME NEW g \in Host, NEW s \in selected'[g]
                 PROVE  /\ loaded'[g][s] = row'[s]
                        /\ s \in checked'[g] =>
                             (s \in fresh'[g]
                                <=> \A i \in DOMAIN jobs'[s] : jobs'[s][i].run_at # row'[s].next_run_at)
      BY DEF SweepsAreUndisturbed
    <2>1. g # h /\ s \in selected[g]
      BY <1>2
    <2> QED
      BY <1>2, <1>3, <2>1 DEF SweepInv, SweepsAreUndisturbed
  <1> QED
    BY <1>5, <1>6

\* Jobs and cursors commit together: the tick that becomes the last run has
\* its job, made now or by a sweep before, and not both.
LEMMA CommitSweepStep ==
    ASSUME SweepInv, NEW h \in Host, CommitSweep(h)
    PROVE  SweepInv'
  <1>1. TypeOK /\ ReleaseLocks(h) /\ UNCHANGED <<clock, request>>
    BY DEF CommitSweep, SweepInv
  <1>2. /\ began[h] \in Time /\ began[h] \in Nat
        /\ fresh[h] \subseteq selected[h] /\ selected[h] \subseteq Schedule
    BY <1>1, ScheduleAssumption DEF SweepInv, LocksHold, TypeOK, Time
  <1>3. \A s \in selected[h] : /\ loaded[h][s] = row[s] /\ row[s] \in Row
                               /\ row[s].next_run_at \in Time /\ row[s].state = "live"
    <2>1. \A s \in selected[h] : /\ loaded[h][s] = row[s] /\ row[s] \in Row
                                 /\ row[s].next_run_at <= began[h] /\ row[s].state = "live"
      BY <1>1, <1>2 DEF SweepInv, LocksHold, SweepsAreUndisturbed, TypeOK, Due, Live
    <2> QED
      BY <1>2, <2>1, ScheduleAssumption DEF Time, Row
  <1> DEFINE job(s) == [idempotency_key |-> row[s].next_run_at, run_at |-> row[s].next_run_at]
  <1>4. \A s \in selected[h] : job(s) \in JobRow
    BY <1>3, ScheduleAssumption DEF JobRow, Time
  <1>5. /\ \A s \in fresh[h] : jobs'[s] = Append(jobs[s], job(s))
        /\ \A s \in Schedule \ fresh[h] : jobs'[s] = jobs[s]
        /\ DOMAIN jobs' = Schedule /\ jobs' = [s \in Schedule |-> jobs'[s]]
    BY <1>2, <1>3 DEF CommitSweep, Firing, FireKey
  <1>6. /\ \A s \in selected[h] : row'[s] = Advanced(row[s], row[s], began[h])
        /\ \A s \in Schedule \ selected[h] : row'[s] = row[s]
        /\ row' = [s \in Schedule |-> row'[s]]
    BY <1>2, <1>3 DEF CommitSweep
  <1>7. swept' = [s \in Schedule |-> IF s \in selected[h] THEN began[h] ELSE swept[s]]
    BY DEF CommitSweep
  <1>8. \A s \in selected[h] : /\ row'[s] \in Row /\ row'[s].next_run_at > began[h]
                               /\ row'[s].last_run_at = row[s].next_run_at
                               /\ row'[s].state = row[s].state
    BY <1>2, <1>3, <1>6, AdvancedFacts
  <1>9. \A s \in fresh[h] : /\ s \in Schedule /\ jobs[s] \in Seq(JobRow) /\ job(s) \in JobRow
    BY <1>1, <1>2, <1>4 DEF TypeOK
  <1> HIDE DEF job
  <1>10. \A s \in fresh[h] :
           /\ jobs'[s] \in Seq(JobRow)
           /\ DOMAIN jobs'[s] = DOMAIN jobs[s] \cup {Len(jobs[s]) + 1}
           /\ jobs'[s][Len(jobs[s]) + 1] = job(s)
           /\ \A i \in DOMAIN jobs[s] : jobs'[s][i] = jobs[s][i]
    <2> TAKE s \in fresh[h]
    <2>1. jobs[s] \in Seq(JobRow) /\ job(s) \in JobRow /\ jobs'[s] = Append(jobs[s], job(s))
      BY <1>5, <1>9
    <2> DEFINE new == job(s)
    <2> HIDE DEF new
    <2>2. jobs[s] \in Seq(JobRow) /\ new \in JobRow /\ jobs'[s] = Append(jobs[s], new)
      BY <2>1 DEF new
    <2>3. jobs'[s][Len(jobs[s]) + 1] = new
      BY <2>2, AppendFacts
    <2>4. /\ jobs'[s] \in Seq(JobRow)
          /\ DOMAIN jobs'[s] = DOMAIN jobs[s] \cup {Len(jobs[s]) + 1}
          /\ \A i \in DOMAIN jobs[s] : jobs'[s][i] = jobs[s][i]
      BY <2>2, AppendFacts
    <2> QED
      BY <2>3, <2>4 DEF new
  <1>11. \A s \in Schedule :
           /\ jobs'[s] \in Seq(JobRow)
           /\ \A i \in DOMAIN jobs[s] : i \in DOMAIN jobs'[s] /\ jobs'[s][i] = jobs[s][i]
           /\ \A i \in DOMAIN jobs'[s] \ DOMAIN jobs[s] :
                s \in fresh[h] /\ i = Len(jobs[s]) + 1 /\ jobs'[s][i] = job(s)
    <2> SUFFICES ASSUME NEW s \in Schedule
                 PROVE  /\ jobs'[s] \in Seq(JobRow)
                        /\ \A i \in DOMAIN jobs[s] : i \in DOMAIN jobs'[s] /\ jobs'[s][i] = jobs[s][i]
                        /\ \A i \in DOMAIN jobs'[s] \ DOMAIN jobs[s] :
                             s \in fresh[h] /\ i = Len(jobs[s]) + 1 /\ jobs'[s][i] = job(s)
      OBVIOUS
    <2>1. CASE s \in fresh[h]
      BY <1>10, <2>1
    <2>2. CASE s \notin fresh[h]
      BY <1>1, <1>5, <2>2 DEF TypeOK
    <2> QED
      BY <2>1, <2>2
  <1>12. TypeOK'
    <2>1. row' \in [Schedule -> Row]
      BY <1>1, <1>6, <1>8 DEF TypeOK
    <2>2. jobs' \in [Schedule -> Seq(JobRow)]
      BY <1>5, <1>11
    <2>3. swept' \in [Schedule -> Time \cup {Never}]
      BY <1>1, <1>2, <1>7 DEF TypeOK
    <2> QED
      BY <1>1, <2>1, <2>2, <2>3, ReleaseFacts DEF TypeOK
  <1>13. \A s \in Schedule : job(s).idempotency_key = row[s].next_run_at
                             /\ job(s).run_at = row[s].next_run_at
    BY DEF job
  <1>14. KeysAreTicks'
    BY <1>11, <1>13 DEF SweepInv, KeysAreTicks
  <1>15. \A s \in selected[h] :
           s \in fresh[h] <=> \A i \in DOMAIN jobs[s] : jobs[s][i].run_at # row[s].next_run_at
    BY DEF CommitSweep, SweepInv, SweepsAreUndisturbed
  <1>16. TicksFireOnce'
    <2> SUFFICES ASSUME NEW s \in Schedule, NEW i \in DOMAIN jobs'[s], NEW k \in DOMAIN jobs'[s],
                        jobs'[s][i].run_at = jobs'[s][k].run_at
                 PROVE  i = k
      BY DEF TicksFireOnce
    <2>1. CASE i \in DOMAIN jobs[s] /\ k \in DOMAIN jobs[s]
      BY <1>11, <2>1 DEF SweepInv, TicksFireOnce
    <2>2. CASE i \notin DOMAIN jobs[s] /\ k \notin DOMAIN jobs[s]
      BY <1>11, <2>2
    <2>3. CASE ~(i \in DOMAIN jobs[s] <=> k \in DOMAIN jobs[s])
      BY <1>2, <1>11, <1>13, <1>15, <2>3
    <2> QED
      BY <2>1, <2>2, <2>3
  <1>17. LastRunIsMaterialized'
    <2> SUFFICES ASSUME NEW s \in Schedule, row'[s].last_run_at # Never
                 PROVE  \E i \in DOMAIN jobs'[s] : jobs'[s][i].run_at = row'[s].last_run_at
      BY DEF LastRunIsMaterialized
    <2>1. CASE s \in fresh[h]
      BY <1>2, <1>8, <1>10, <1>13, <2>1
    <2>2. CASE s \in selected[h] \ fresh[h]
      BY <1>8, <1>11, <1>15, <2>2
    <2>3. CASE s \notin selected[h]
      BY <1>6, <1>11, <2>3 DEF SweepInv, LastRunIsMaterialized
    <2> QED
      BY <1>2, <2>1, <2>2, <2>3
  <1>18. CursorIsPastSweep'
    BY <1>6, <1>7, <1>8 DEF SweepInv, CursorIsPastSweep
  <1>19. NewIsUnswept'
    BY <1>3, <1>6, <1>7, <1>8 DEF SweepInv, NewIsUnswept
  <1>20. LocksHold' /\ SweepsAreUndisturbed'
    BY <1>1, <1>2, <1>5, <1>6, SweepEnds
  <1> QED
    BY <1>12, <1>14, <1>16, <1>17, <1>18, <1>19, <1>20 DEF SweepInv

\* A sweep that dies leaves its locks, and nothing else.
LEMMA AbortSweepStep ==
    ASSUME SweepInv, NEW h \in Host, AbortSweep(h)
    PROVE  SweepInv'
  <1>1. TypeOK /\ ReleaseLocks(h) /\ UNCHANGED <<clock, row, jobs, swept, request>>
    BY DEF AbortSweep, SweepInv
  <1>2. TypeOK'
    BY <1>1, ReleaseFacts DEF TypeOK
  <1>3. LocksHold' /\ SweepsAreUndisturbed'
    BY <1>1, SweepEnds
  <1> QED
    BY <1>1, <1>2, <1>3, TablesFrame DEF SweepInv

\* An edit of one row that no sweep has locked, or that is not there yet,
\* leaves the sweeps as they are.
LEMMA LocksFrame ==
    ASSUME SweepInv, NEW s \in Schedule, UNCHANGED <<jobs, sweepVars>>,
           ~Live(s) \/ ~Locked(s), \A t \in Schedule \ {s} : row'[t] = row[t]
    PROVE  LocksHold' /\ SweepsAreUndisturbed'
  <1>1. \A h \in Host : s \notin selected[h]
    BY DEF SweepInv, LocksHold, Due, Locked
  <1>2. \A h \in Host : \A t \in selected[h] : t \in Schedule /\ row'[t] = row[t]
    BY <1>1 DEF SweepInv, TypeOK
  <1>3. UNCHANGED <<hpc, began, selected, loaded, checked, fresh>>
    BY DEF sweepVars
  <1>4. LocksHold'
    BY <1>2, <1>3 DEF SweepInv, LocksHold, Due, Live
  <1>5. SweepsAreUndisturbed'
    BY <1>2, <1>3 DEF SweepInv, SweepsAreUndisturbed
  <1> QED
    BY <1>4, <1>5

\* A new schedule has fired nothing.
LEMMA CreateStep ==
    ASSUME SweepInv, NEW s \in Schedule, Create(s)
    PROVE  SweepInv'
  <1>1. PICK c \in Cron, now \in RequestStart :
          row' = [row EXCEPT ![s] = [state |-> "live", paused |-> FALSE, cron_expr |-> c,
                                     next_run_at |-> NextRunAfter(c, now),
                                     last_run_at |-> Never]]
    BY DEF Create
  <1>2. /\ row[s].state = "new" /\ UNCHANGED <<clock, jobs, swept, sweepVars, request>>
        /\ TypeOK /\ ~Live(s) /\ swept[s] = Never
    BY DEF Create, SweepInv, Live, NewIsUnswept
  <1>3. NextRunAfter(c, now) \in Nat
    BY NextRunFacts, ScheduleAssumption DEF RequestStart, Time
  <1>4. TypeOK'
    <2>1. row' \in [Schedule -> Row]
      BY <1>1, <1>2, <1>3 DEF TypeOK, Row
    <2> QED
      BY <1>2, <2>1 DEF TypeOK, sweepVars
  <1>5. /\ row'[s].state = "live" /\ row'[s].last_run_at = Never
        /\ \A t \in Schedule \ {s} : row'[t] = row[t]
    BY <1>1, <1>2 DEF TypeOK
  <1>6. LocksHold' /\ SweepsAreUndisturbed'
    BY <1>2, <1>5, LocksFrame
  <1>7. /\ KeysAreTicks' /\ TicksFireOnce' /\ LastRunIsMaterialized'
        /\ CursorIsPastSweep' /\ NewIsUnswept'
    BY <1>2, <1>5 DEF SweepInv, KeysAreTicks, TicksFireOnce, LastRunIsMaterialized,
                      CursorIsPastSweep, NewIsUnswept
  <1> QED
    BY <1>4, <1>6, <1>7 DEF SweepInv

\* Reading a row, and giving up on one that is gone, changes no table.
LEMMA RequestStep ==
    ASSUME SweepInv, NEW r \in Patcher \cup Deleter,
           \/ r \in Patcher /\ \E s \in Schedule : ReadForPatch(r, s)
           \/ r \in Deleter /\ \E s \in Schedule : ReadForDelete(r, s)
           \/ RowIsGone(r)
    PROVE  SweepInv'
  <1>1. UNCHANGED <<clock, row, jobs, swept, sweepVars>> /\ TypeOK
    BY DEF ReadForPatch, ReadForDelete, RowIsGone, SweepInv
  <1>2. PICK q : /\ request' = [request EXCEPT ![r] = q]
                 /\ r \in Patcher => q \in OpenPatch \cup {NoRequest}
                 /\ r \in Deleter => q \in OpenDelete \cup {NoRequest}
    <2>1. ASSUME NEW s \in Schedule, r \in Patcher, ReadForPatch(r, s)
          PROVE  \E q \in OpenPatch : request' = [request EXCEPT ![r] = q]
      BY <1>1, <2>1, EditsAssumption DEF ReadForPatch, OpenPatch, RequestStart, TypeOK
    <2>2. ASSUME NEW s \in Schedule, ReadForDelete(r, s)
          PROVE  \E q \in OpenDelete : request' = [request EXCEPT ![r] = q]
      BY <2>2 DEF ReadForDelete, OpenDelete
    <2> QED
      BY <2>1, <2>2, ScheduleAssumption DEF RowIsGone, Close
  <1>3. TypeOK'
    BY <1>1, <1>2 DEF TypeOK, sweepVars
  <1>4. LocksHold' /\ SweepsAreUndisturbed'
    BY <1>1 DEF SweepInv, LocksHold, SweepsAreUndisturbed, Due, Live, sweepVars
  <1> QED
    BY <1>1, <1>3, <1>4, TablesFrame DEF SweepInv

\* An edit made on a stale copy of the row leaves a last run, and a cursor it
\* does not restart, as the row has them now.
LEMMA CommitPatchStep ==
    ASSUME SweepInv, NEW r \in Patcher, CommitPatch(r)
    PROVE  SweepInv'
  <1> DEFINE q == request[r]
             s == q.schedule
  <1>1. /\ TypeOK /\ q \in OpenPatch /\ s \in Schedule /\ row[s] \in Row
        /\ Live(s) /\ ~Locked(s) /\ UNCHANGED <<clock, jobs, sweepVars>> /\ Close(r)
    BY DEF CommitPatch, SweepInv, TypeOK, OpenPatch
  <1> DEFINE new == Flushed(q, row[s])
  <1>2. /\ row' = [row EXCEPT ![s] = new]
        /\ swept' = [swept EXCEPT ![s] = IF Restarts(q.patch) THEN Never ELSE @]
    BY DEF CommitPatch
  <1>3. /\ new \in Row /\ new.state = row[s].state /\ new.last_run_at = row[s].last_run_at
        /\ ~Restarts(q.patch) => new.next_run_at = row[s].next_run_at
    BY <1>1, FlushedFacts
  <1> HIDE DEF q, s, new
  <1>4. request' = [request EXCEPT ![r] = NoRequest]
    BY <1>1 DEF Close
  <1>5. TypeOK'
    <2>1. row' \in [Schedule -> Row]
      BY <1>1, <1>2, <1>3 DEF TypeOK
    <2>2. swept' \in [Schedule -> Time \cup {Never}]
      BY <1>1, <1>2 DEF TypeOK
    <2> QED
      BY <1>1, <1>4, <2>1, <2>2 DEF TypeOK, sweepVars
  <1>6. /\ row'[s] = new /\ \A t \in Schedule \ {s} : row'[t] = row[t]
        /\ swept'[s] = IF Restarts(q.patch) THEN Never ELSE swept[s]
        /\ \A t \in Schedule \ {s} : swept'[t] = swept[t]
    BY <1>1, <1>2 DEF TypeOK
  <1>7. LocksHold' /\ SweepsAreUndisturbed'
    BY <1>1, <1>6, LocksFrame
  <1>8. KeysAreTicks' /\ TicksFireOnce' /\ LastRunIsMaterialized'
    BY <1>1, <1>3, <1>6 DEF SweepInv, KeysAreTicks, TicksFireOnce, LastRunIsMaterialized
  <1>9. CursorIsPastSweep' /\ NewIsUnswept'
    BY <1>3, <1>6 DEF SweepInv, CursorIsPastSweep, NewIsUnswept
  <1> QED
    BY <1>5, <1>7, <1>8, <1>9 DEF SweepInv

\* A deletion waits for the sweep that has the row, too.
LEMMA CommitDeleteStep ==
    ASSUME SweepInv, NEW r \in Deleter, CommitDelete(r)
    PROVE  SweepInv'
  <1> DEFINE s == request[r].schedule
  <1>1. /\ TypeOK /\ s \in Schedule /\ row[s] \in Row
        /\ Live(s) /\ ~Locked(s) /\ UNCHANGED <<clock, jobs, swept, sweepVars>> /\ Close(r)
        /\ row' = [row EXCEPT ![s].state = "deleted"]
    BY DEF CommitDelete, SweepInv, TypeOK, OpenDelete
  <1> HIDE DEF s
  <1>2. /\ row' \in [Schedule -> Row] /\ \A t \in Schedule \ {s} : row'[t] = row[t]
        /\ row'[s].state = "deleted" /\ row'[s].last_run_at = row[s].last_run_at
        /\ row'[s].next_run_at = row[s].next_run_at
    BY <1>1 DEF TypeOK, Row
  <1>3. TypeOK'
    BY <1>1, <1>2, ScheduleAssumption DEF TypeOK, Close, sweepVars
  <1>4. LocksHold' /\ SweepsAreUndisturbed'
    BY <1>1, <1>2, LocksFrame
  <1>5. /\ KeysAreTicks' /\ TicksFireOnce' /\ LastRunIsMaterialized'
        /\ CursorIsPastSweep' /\ NewIsUnswept'
    BY <1>1, <1>2 DEF SweepInv, KeysAreTicks, TicksFireOnce, LastRunIsMaterialized,
                      CursorIsPastSweep, NewIsUnswept
  <1> QED
    BY <1>3, <1>4, <1>5 DEF SweepInv

-----------------------------------------------------------------------------
(* Theorems *)

\* The invariant is inductive.
LEMMA SweepInvInductive ==
    /\ Init => SweepInv
    /\ SweepInv /\ [Next]_vars => SweepInv'
  <1>1. ASSUME Init PROVE SweepInv
    <2>1. PICK c \in Cron :
            row = [s \in Schedule |-> [state |-> "new", paused |-> FALSE, cron_expr |-> c,
                                       next_run_at |-> 0, last_run_at |-> Never]]
      BY <1>1 DEF Init
    <2>2. 0 \in Time
      BY ScheduleAssumption DEF Time
    <2>3. row \in [Schedule -> Row] /\ \A s \in Schedule : row[s].last_run_at = Never
      BY <2>1 DEF Row
    <2>4. <<>> \in Seq(JobRow) /\ DOMAIN <<>> = {}
      OBVIOUS
    <2>5. TypeOK
      BY <1>1, <2>2, <2>3, <2>4 DEF Init, TypeOK
    <2>6. \A s \in Schedule : jobs[s] = <<>> /\ swept[s] = Never
      BY <1>1 DEF Init
    <2>7. KeysAreTicks /\ TicksFireOnce /\ LastRunIsMaterialized /\ CursorIsPastSweep /\ NewIsUnswept
      BY <2>3, <2>4, <2>6 DEF KeysAreTicks, TicksFireOnce, LastRunIsMaterialized,
                              CursorIsPastSweep, NewIsUnswept
    <2>8. LocksHold /\ SweepsAreUndisturbed
      BY <1>1 DEF Init, LocksHold, SweepsAreUndisturbed
    <2> QED
      BY <2>5, <2>7, <2>8 DEF SweepInv
  <1>2. ASSUME SweepInv, [Next]_vars PROVE SweepInv'
    <2>1. CASE UNCHANGED vars
      <3>1. TypeOK' /\ LocksHold' /\ SweepsAreUndisturbed'
        BY <1>2, <2>1 DEF vars, sweepVars, SweepInv, TypeOK, LocksHold, SweepsAreUndisturbed,
                          Due, Live
      <3> QED
        BY <1>2, <2>1, <3>1, TablesFrame DEF SweepInv, vars
    <2>2. ASSUME NEW h \in Host, HostStep(h) PROVE SweepInv'
      BY <1>2, <2>2, QuietStep, SelectDueStep, CheckKeyStep, CommitSweepStep, AbortSweepStep
      DEF HostStep
    <2>3. ASSUME NEW r \in Patcher, PatchStep(r) PROVE SweepInv'
      BY <1>2, <2>3, RequestStep, CommitPatchStep DEF PatchStep
    <2>4. ASSUME NEW r \in Deleter, DeleteStep(r) PROVE SweepInv'
      BY <1>2, <2>4, RequestStep, CommitDeleteStep DEF DeleteStep
    <2>5. CASE Tick
      BY <1>2, <2>5, QuietStep
    <2> QED
      BY <1>2, <2>1, <2>2, <2>3, <2>4, <2>5, CreateStep DEF Next
  <1> QED
    BY <1>1, <1>2

\* The types of the variables hold throughout.
THEOREM SweepTypesAlways == Spec => []TypeOK
  <1>1. SweepInv => TypeOK
    BY DEF SweepInv
  <1> QED
    BY SweepInvInductive, <1>1, PTL DEF Spec

\* materialize_schedules_once beside ScheduleService.update, with hosts that
\* die and edits made on stale copies: no tick of a schedule fires twice, the
\* tick its cursor names as the last run has its job, and what a sweep loaded
\* and looked up is so when it commits.
THEOREM CursorAndJobsAlways == Spec => []CursorAndJobsAgree
  <1>1. SweepInv => CursorAndJobsAgree
    BY DEF SweepInv, CursorAndJobsAgree
  <1> QED
    BY SweepInvInductive, <1>1, PTL DEF Spec

\* A job appears only in the commit of a sweep that has its schedule locked,
\* and is of the tick the cursor is at.
LEMMA JobsAppear ==
    ASSUME SweepInv, [Next]_vars, NEW s \in Schedule, jobs'[s] # jobs[s]
    PROVE  /\ Live(s) /\ ~row[s].paused
           /\ \A i \in DOMAIN jobs'[s] \ DOMAIN jobs[s] : jobs'[s][i].run_at = row[s].next_run_at
  <1>1. jobs' # jobs
    OBVIOUS
  <1>2. PICK h \in Host : CommitSweep(h)
    <2>1. ASSUME NEW r, PatchStep(r) \/ DeleteStep(r) PROVE FALSE
      BY <1>1, <2>1 DEF PatchStep, DeleteStep, ReadForPatch, ReadForDelete, CommitPatch,
                        CommitDelete, RowIsGone
    <2>2. ASSUME NEW h \in Host, HostStep(h) PROVE CommitSweep(h)
      BY <1>1, <2>2 DEF HostStep, BeginSweep, EndSweepEarly, SelectDue, CheckKey, AbortSweep
    <2> QED
      BY <1>1, <2>1, <2>2 DEF Next, vars, Tick, Create
  <1>3. s \in fresh[h] /\ jobs'[s] = Append(jobs[s], Firing(loaded[h][s], began[h]))
    BY <1>2 DEF CommitSweep
  <1>4. s \in selected[h] /\ loaded[h][s] = row[s] /\ Due(s, began[h]) /\ jobs[s] \in Seq(JobRow)
    BY <1>3 DEF SweepInv, TypeOK, LocksHold, SweepsAreUndisturbed
  <1> DEFINE job == Firing(row[s], began[h])
  <1>5. job.run_at = row[s].next_run_at
    BY DEF Firing
  <1> HIDE DEF job
  <1>6. jobs'[s] = Append(jobs[s], job)
    BY <1>3, <1>4 DEF job
  <1>7. \A i \in DOMAIN jobs'[s] \ DOMAIN jobs[s] : jobs'[s][i] = job
    BY <1>4, <1>6
  <1> QED
    BY <1>4, <1>5, <1>7 DEF Due

\* "Missed ticks collapse into a single firing": what fires is a tick after
\* the sweep that fired last, however many ticks passed between the two and
\* whoever edited the schedule in between, unless the edit restarts the cursor.
THEOREM MissedTicksAlwaysCollapse == Spec => MissedTicksCollapse
  <1>1. SweepInv /\ [Next]_vars =>
          [\A s \in Schedule : \A i \in DOMAIN jobs'[s] \ DOMAIN jobs[s] :
             swept[s] # Never => jobs'[s][i].run_at > swept[s]]_vars
    BY JobsAppear DEF SweepInv, CursorIsPastSweep
  <1> QED
    BY SweepInvInductive, <1>1, PTL DEF Spec, MissedTicksCollapse

\* test_paused_schedule_never_fires, for sweeps in progress as well: they
\* hold the row, and a pause or a deletion waits for them.
THEOREM OnlyLiveAlwaysFire == Spec => OnlyLiveSchedulesFire
  <1>1. SweepInv /\ [Next]_vars =>
          [\A s \in Schedule : ~Live(s) \/ row[s].paused => jobs'[s] = jobs[s]]_vars
    BY JobsAppear
  <1> QED
    BY SweepInvInductive, <1>1, PTL DEF Spec, OnlyLiveSchedulesFire
=============================================================================
