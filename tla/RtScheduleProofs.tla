-------------------------- MODULE RtScheduleProofs --------------------------
(***************************************************************************)
(* Proofs about RtSchedule for every period, busy tail and clock bound.    *)
(***************************************************************************)
EXTENDS RtSchedule, TLAPS

\* The quotient of a division by a positive number, without \div.
LEMMA DivisionBounds ==
    ASSUME NEW a \in Nat, NEW b \in Nat \ {0}
    PROVE  /\ a \div b \in Nat
           /\ (a \div b) * b <= a
           /\ a < ((a \div b) + 1) * b
  BY SMT

\* A number whose multiple fits below a bound is at most the quotient.
LEMMA DivisionLargest ==
    ASSUME NEW a \in Nat, NEW b \in Nat \ {0}, NEW m \in Nat, m * b <= a
    PROVE  m <= a \div b
<1> DEFINE q == a \div b
<1>1. q \in Nat /\ a < (q + 1) * b
  BY DivisionBounds
<1>2. CASE m > q
  <2>1. m >= q + 1
    BY <1>1, <1>2
  <2>2. m * b >= (q + 1) * b
    BY <1>1, <2>1, SMT
  <2> HIDE DEF q
  <2> QED BY <1>1, <2>2, SMT
<1> QED BY <1>1, <1>2

\* Multiples of the period, expanded.
LEMMA Multiples ==
    ASSUME NEW m \in Int, NEW k \in Int
    PROVE  /\ Period * m \in Int
           /\ m * Period = Period * m
           /\ Period * (m + k) = Period * m + Period * k
           /\ Period * (m + 1) = Period * m + Period
  BY RtAssumption, SMT

\* simrt_rt_next_future_release: the first grid point after "at", given that
\* the scheduled one is at most a period ahead; it moves by the skipped points.
LEMMA NextFutureIsFirst ==
    ASSUME NEW s \in 0..(MaxTime + Period), NEW at \in 0..MaxTime, s <= at + Period
    PROVE  /\ MissedReleases(s, at) \in Nat
           /\ NextFutureRelease(s, at) = s + Period * MissedReleases(s, at)
           /\ at < NextFutureRelease(s, at)
           /\ NextFutureRelease(s, at) <= at + Period
<1> USE RtAssumption
<1> DEFINE missed == MissedReleases(s, at)
<1>1. CASE at < s
  <2>1. missed = 0
    BY <1>1 DEF MissedReleases
  <2>2. NextFutureRelease(s, at) = s + 0 * Period
    BY <2>1 DEF NextFutureRelease
  <2> QED BY <1>1, <2>1, <2>2
<1>2. CASE at >= s
  <2> DEFINE q == (at - s) \div Period
  <2>1. at - s \in Nat
    BY <1>2
  <2>2. q \in Nat /\ q * Period <= at - s /\ at - s < (q + 1) * Period
    BY <2>1, DivisionBounds
  <2>3. missed = q + 1
    BY <1>2 DEF MissedReleases
  <2> HIDE DEF q, missed
  <2>4. missed \in Nat /\ missed * Period = q * Period + Period
    BY <2>2, <2>3, SMT
  <2>5. at < s + missed * Period /\ s + missed * Period <= at + Period
    BY <2>2, <2>3, <2>4, SMT
  <2>6. missed * Period <= Int64Max - s /\ Int64Max - s \in Nat
    BY <1>2, <2>2, <2>4, <2>5, SMT
  <2>7. missed <= (Int64Max - s) \div Period
    BY <2>4, <2>6, DivisionLargest
  <2>8. (Int64Max - s) \div Period \in Nat
    BY <2>6, DivisionBounds
  <2>9. ~(missed > (Int64Max - s) \div Period)
    BY <2>4, <2>7, <2>8
  <2>10. NextFutureRelease(s, at) = s + missed * Period
    BY <2>9 DEF NextFutureRelease, missed
  <2>11. missed * Period = Period * missed
    BY <2>4, Multiples
  <2> QED BY <2>4, <2>5, <2>10, <2>11 DEF missed
<1> QED BY <1>1, <1>2

-----------------------------------------------------------------------------
\* The inductive invariant.
IInv == /\ TypeOK /\ SchedulePoint /\ NoBacklog /\ NoEarlyStart
        /\ ReleaseGrid /\ CyclesAccounted /\ CountersAtPoint /\ SnapshotCoherent

\* What finish_step(now) does to the counters, in a state of the invariant.
LEMMA FinishStepEffect ==
    ASSUME IInv, FinishStep(now), pc # "step"
    PROVE  /\ step_active' = FALSE
           /\ last_finished' \in Nat
           /\ count' \in [Counters -> Nat]
           /\ \A c \in Counters \ {"completed_cycles", "deadline_misses"} :
                 count'[c] = count[c]
           /\ count'["completed_cycles"] =
                 count["completed_cycles"] + (IF step_active THEN 1 ELSE 0)
           /\ count'["deadline_misses"] =
                 count["deadline_misses"]
                 + (IF step_active /\ now > release + Period THEN 1 ELSE 0)
           /\ status' \in [next_publish: Nat, snapshot: Snapshots]
           /\ \/ status'.snapshot = status.snapshot
              \/ /\ step_active
                 /\ status'.snapshot.calls = count["model_step_calls"]
                 /\ status'.snapshot.completed_calls = count["model_step_completed_calls"]
                 /\ status'.snapshot.deadline_misses = count'["deadline_misses"]
                 /\ status'.snapshot.skipped_releases = count["skipped_releases"]
<1> USE RtAssumption
<1>1. CASE ~step_active
  BY <1>1 DEF FinishStep, finishVars, IInv, TypeOK, Counters
<1>2. CASE step_active
  <2>1. /\ count' = [count EXCEPT
              !["completed_cycles"] = @ + 1,
              !["deadline_misses"]  = @ + (IF now > release + Period THEN 1 ELSE 0)]
        /\ last_finished' = now
        /\ step_active' = FALSE
        /\ PublishStatus(now, count')
    BY <1>2 DEF FinishStep
  <2>2. count \in [Counters -> Nat] /\ now \in Nat /\ release \in Nat /\ first_release \in Nat
    BY DEF IInv, TypeOK
  <2>3. /\ count' \in [Counters -> Nat]
        /\ \A c \in Counters \ {"completed_cycles", "deadline_misses"} : count'[c] = count[c]
        /\ count'["completed_cycles"] = count["completed_cycles"] + 1
        /\ count'["deadline_misses"] =
              count["deadline_misses"] + (IF now > release + Period THEN 1 ELSE 0)
    BY <2>1, <2>2 DEF Counters
  <2>4. now - first_release \in Nat
    BY <1>2, <2>2 DEF IInv, NoEarlyStart, TypeOK
  <2>5. Snapshot(now, count') \in Snapshots
    BY <2>2, <2>3, <2>4 DEF Snapshot, Snapshots, Counters
  <2>6. CASE now < status.next_publish
    <3>1. status' = status
      BY <2>1, <2>6 DEF PublishStatus
    <3> QED BY <1>2, <2>1, <2>2, <2>3, <3>1 DEF IInv, TypeOK
  <2>7. CASE ~(now < status.next_publish)
    <3>1. PICK locked \in BOOLEAN :
             status' = [next_publish |-> now + PublishInterval,
                        snapshot     |-> IF locked THEN status.snapshot
                                         ELSE Snapshot(now, count')]
      BY <2>1, <2>7 DEF PublishStatus
    <3>2. now + PublishInterval \in Nat
      BY <2>2
    <3>3. status.snapshot \in Snapshots
      BY DEF IInv, TypeOK
    <3>4. status' \in [next_publish: Nat, snapshot: Snapshots]
      BY <2>5, <3>1, <3>2, <3>3
    <3>5. /\ count'["model_step_calls"] = count["model_step_calls"]
          /\ count'["model_step_completed_calls"] = count["model_step_completed_calls"]
          /\ count'["skipped_releases"] = count["skipped_releases"]
      BY <2>3 DEF Counters
    <3>6. CASE locked
      BY <1>2, <2>1, <2>2, <2>3, <3>1, <3>4, <3>6
    <3>7. CASE ~locked
      <4>1. status'.snapshot = Snapshot(now, count')
        BY <3>1, <3>7
      <4>2. /\ status'.snapshot.calls = count["model_step_calls"]
            /\ status'.snapshot.completed_calls = count["model_step_completed_calls"]
            /\ status'.snapshot.deadline_misses = count'["deadline_misses"]
            /\ status'.snapshot.skipped_releases = count["skipped_releases"]
        BY <3>5, <4>1 DEF Snapshot
      <4> QED BY <1>2, <2>1, <2>2, <2>3, <3>4, <4>2
    <3> QED BY <3>6, <3>7
  <2> QED BY <2>6, <2>7
<1> QED BY <1>1, <1>2

\* The initial state satisfies the invariant.
LEMMA InitIInv == Init => IInv
<1> SUFFICES ASSUME Init PROVE IInv
  OBVIOUS
<1>1. TypeOK
  <2>1. status \in [next_publish: Nat, snapshot: Snapshots]
    BY DEF Init, Snapshots
  <2>2. count \in [Counters -> Nat]
    BY DEF Init
  <2>3. 0 \in 0..MaxTime /\ 0 \in Nat /\ 0 \in Int
    BY RtAssumption
  <2>4. "entry" \in PCs
    BY DEF PCs
  <2> QED BY <2>1, <2>2, <2>3, <2>4, Zenon DEF Init, TypeOK
<1>2. SchedulePoint /\ NoBacklog /\ NoEarlyStart /\ ReleaseGrid
  BY RtAssumption DEF Init, SchedulePoint, NoBacklog, NoEarlyStart, ReleaseGrid
<1>3. CyclesAccounted /\ CountersAtPoint /\ SnapshotCoherent
  BY DEF Init, CyclesAccounted, CountersAtPoint, SnapshotCoherent, Counters
<1> QED BY <1>1, <1>2, <1>3 DEF IInv

\* Every step of the runtime keeps the invariant.
LEMMA NextIInv == IInv /\ [Next]_vars => IInv'
<1> SUFFICES ASSUME IInv, [Next]_vars PROVE IInv'
  OBVIOUS
<1> USE RtAssumption
<1>a. /\ TypeOK /\ SchedulePoint /\ NoBacklog /\ NoEarlyStart
      /\ ReleaseGrid /\ CyclesAccounted /\ CountersAtPoint /\ SnapshotCoherent
  BY DEF IInv
<1>1. CASE Tick
  <2>1. TypeOK'
    BY <1>1, <1>a DEF Tick, TypeOK, gridVars, finishVars, historyVars
  <2>2. SchedulePoint' /\ NoBacklog' /\ NoEarlyStart' /\ ReleaseGrid'
    BY <1>1, <1>a DEF Tick, TypeOK, SchedulePoint, NoBacklog, NoEarlyStart, ReleaseGrid,
                      gridVars, finishVars, historyVars
  <2>3. CyclesAccounted' /\ CountersAtPoint' /\ SnapshotCoherent'
    BY <1>1, <1>a DEF Tick, CyclesAccounted, CountersAtPoint, SnapshotCoherent,
                      gridVars, finishVars, historyVars
  <2> QED BY <2>1, <2>2, <2>3 DEF IInv
<1>2. CASE SignalStop \/ BackgroundFailure
  <2>1. TypeOK'
    BY <1>2, <1>a DEF SignalStop, BackgroundFailure, TypeOK, gridVars, finishVars, historyVars
  <2>2. SchedulePoint' /\ NoBacklog' /\ NoEarlyStart' /\ ReleaseGrid'
    BY <1>2, <1>a DEF SignalStop, BackgroundFailure, SchedulePoint, NoBacklog, NoEarlyStart,
                      ReleaseGrid, gridVars, finishVars, historyVars
  <2>3. CyclesAccounted' /\ CountersAtPoint' /\ SnapshotCoherent'
    BY <1>2, <1>a DEF SignalStop, BackgroundFailure, CyclesAccounted, CountersAtPoint,
                      SnapshotCoherent, gridVars, finishVars, historyVars
  <2> QED BY <2>1, <2>2, <2>3 DEF IInv
<1>3. CASE ModelEntry
  <2> USE <1>3 DEF ModelEntry, clockVars, finishVars, historyVars
  <2>1. TypeOK'
    BY <1>a DEF TypeOK, PCs
  <2>2. SchedulePoint' /\ NoBacklog' /\ NoEarlyStart'
    BY <1>a DEF TypeOK, SchedulePoint, NoBacklog, NoEarlyStart
  <2>3. ReleaseGrid'
    <3>1. count["cycles"] = 0 /\ count["skipped_releases"] = 0
      BY <1>a DEF SchedulePoint, Counters
    <3> QED BY <3>1, <1>a DEF ReleaseGrid, TypeOK
  <2>4. CyclesAccounted' /\ CountersAtPoint' /\ SnapshotCoherent'
    BY <1>a DEF CyclesAccounted, CountersAtPoint, SnapshotCoherent, SchedulePoint, Counters
  <2> QED BY <2>1, <2>2, <2>3, <2>4 DEF IInv
<1>4. CASE WaitFinish \/ StopFromModelThread \/ TerminateTask
  <2>0. /\ pc \in {"wait", "finished", "armed", "woken", "spin", "terminate"}
        /\ FinishStep(now)
        /\ pc' = CASE pc = "wait" -> "finished"
                   [] pc = "terminate" -> "done"
                   [] OTHER -> "terminate"
        /\ pc = "wait" => current' = now /\ idle_since' = now
        /\ pc # "wait" => UNCHANGED <<current, idle_since>>
        /\ pc \in {"finished", "armed", "woken", "spin"} => stop_signal
        /\ final_includes_termination' \in BOOLEAN
        /\ UNCHANGED <<clockVars, gridVars, late_steps>>
    BY <1>4, <1>a DEF WaitFinish, StopFromModelThread, TerminateTask, Go, StopSeen,
                      historyVars, TypeOK
  <2>f. /\ step_active' = FALSE
        /\ last_finished' \in Nat
        /\ count' \in [Counters -> Nat]
        /\ \A c \in Counters \ {"completed_cycles", "deadline_misses"} : count'[c] = count[c]
        /\ count'["completed_cycles"] =
              count["completed_cycles"] + (IF step_active THEN 1 ELSE 0)
        /\ count'["deadline_misses"] =
              count["deadline_misses"]
              + (IF step_active /\ now > release + Period THEN 1 ELSE 0)
        /\ status' \in [next_publish: Nat, snapshot: Snapshots]
        /\ \/ status'.snapshot = status.snapshot
           \/ /\ step_active
              /\ status'.snapshot.calls = count["model_step_calls"]
              /\ status'.snapshot.completed_calls = count["model_step_completed_calls"]
              /\ status'.snapshot.deadline_misses = count'["deadline_misses"]
              /\ status'.snapshot.skipped_releases = count["skipped_releases"]
    BY <2>0, FinishStepEffect
  <2>c. /\ count'["cycles"] = count["cycles"]
        /\ count'["skipped_releases"] = count["skipped_releases"]
        /\ count'["model_step_calls"] = count["model_step_calls"]
        /\ count'["model_step_completed_calls"] = count["model_step_completed_calls"]
    BY <2>f DEF Counters
  <2>1. TypeOK'
    BY <2>0, <2>f, <1>a DEF TypeOK, PCs, clockVars, gridVars
  <2>2. SchedulePoint'
    BY <2>0, <2>f, <1>a DEF SchedulePoint, TypeOK, clockVars, gridVars
  <2>3. NoBacklog' /\ NoEarlyStart' /\ ReleaseGrid'
    BY <2>0, <2>f, <2>c, <1>a DEF NoBacklog, NoEarlyStart, ReleaseGrid, clockVars, gridVars
  <2>4. CyclesAccounted'
    <3>1. count'["cycles"] = count'["completed_cycles"]
      BY <2>f, <2>c, <1>a DEF CyclesAccounted, TypeOK, Counters
    <3>2. count'["model_step_completed_calls"] = count'["model_step_calls"]
      BY <2>0, <2>c, <1>a DEF CyclesAccounted, TypeOK, Counters
    <3>3. count'["cycles"] - count'["model_step_calls"] \in
             (IF pc' \in {"terminate", "done"} THEN {0, 1} ELSE {0})
      BY <2>0, <2>c, <1>a DEF CyclesAccounted
    <3> QED BY <2>0, <2>f, <3>1, <3>2, <3>3, <2>1 DEF CyclesAccounted, TypeOK, Counters
  <2>5. CountersAtPoint'
    BY <2>0, <2>f, <2>c, <1>a DEF CountersAtPoint, SchedulePoint, TypeOK, Counters,
                                  clockVars, gridVars
  <2>6. SnapshotCoherent'
    <3>1. CASE status'.snapshot = status.snapshot
      BY <2>c, <3>1, <1>a DEF SnapshotCoherent
    <3>2. CASE /\ step_active
               /\ status'.snapshot.calls = count["model_step_calls"]
               /\ status'.snapshot.completed_calls = count["model_step_completed_calls"]
               /\ status'.snapshot.deadline_misses = count'["deadline_misses"]
               /\ status'.snapshot.skipped_releases = count["skipped_releases"]
      <4>1. count["model_step_calls"] = count["model_step_completed_calls"]
        BY <2>0, <1>a DEF CyclesAccounted, TypeOK, Counters
      <4>2. pc \in {"wait", "terminate"}
        BY <2>0, <3>2, <1>a DEF SchedulePoint
      <4>3. count["deadline_misses"] <= count["skipped_releases"]
        BY <3>2, <4>2, <1>a DEF CountersAtPoint, TypeOK, Counters
      <4>4. count'["deadline_misses"] <= count["skipped_releases"] + 1
        BY <2>f, <4>3, <1>a DEF TypeOK, Counters
      <4> QED BY <2>c, <3>2, <4>1, <4>4, <1>a DEF SnapshotCoherent, TypeOK, Counters
    <3> QED BY <2>f, <3>1, <3>2
  <2> QED BY <2>1, <2>2, <2>3, <2>4, <2>5, <2>6 DEF IInv
<1>5. CASE AdvanceRelease
  <2> DEFINE missed == MissedReleases(next_release, current)
             next   == NextFutureRelease(next_release, current)
  <2>0. /\ pc = "finished" /\ next_release' = next /\ current' = now
        /\ ~step_active /\ current = idle_since
        /\ UNCHANGED <<clockVars, entry, release, first_release, started,
                       finishVars, final_includes_termination, historyVars>>
    BY <1>5, <1>a DEF AdvanceRelease, SchedulePoint
  <2>1. missed \in Nat /\ next = next_release + Period * missed
        /\ current < next /\ next <= current + Period
    BY <2>0, <1>a, NextFutureIsFirst DEF SchedulePoint, TypeOK
  <2> HIDE DEF missed, next
  <2>2. /\ count' = [count EXCEPT !["skipped_releases"] = @ + missed]
        /\ pc' = "armed" /\ ~StopSeen
    BY <2>1, <1>5, <1>a DEF AdvanceRelease, missed, next, TypeOK
  <2>c. /\ count' \in [Counters -> Nat]
        /\ count'["skipped_releases"] = count["skipped_releases"] + missed
        /\ count'["cycles"] = count["cycles"]
        /\ count'["completed_cycles"] = count["completed_cycles"]
        /\ count'["deadline_misses"] = count["deadline_misses"]
        /\ count'["model_step_calls"] = count["model_step_calls"]
        /\ count'["model_step_completed_calls"] = count["model_step_completed_calls"]
    BY <2>1, <2>2, <1>a DEF TypeOK, Counters
  <2>m. current >= next_release => missed >= 1
    BY <2>1, <2>0, <1>a, SMT DEF TypeOK
  <2>3. TypeOK'
    BY <2>0, <2>1, <2>2, <2>c, <1>a DEF TypeOK, PCs, clockVars, finishVars, historyVars
  <2>4. SchedulePoint' /\ NoBacklog' /\ NoEarlyStart'
    BY <2>0, <2>1, <2>2, <1>a DEF SchedulePoint, NoBacklog, NoEarlyStart, TypeOK, clockVars,
                                  finishVars, historyVars
  <2>5. ReleaseGrid'
    <3> DEFINE k == 1 + count["cycles"] + count["skipped_releases"]
    <3>1. k \in Int /\ next_release = entry + Period * k
      BY <2>0, <1>a DEF ReleaseGrid, TypeOK, Counters
    <3>2. next = entry + (Period * k + Period * missed)
      BY <2>1, <3>1, Multiples, <1>a DEF TypeOK
    <3>3. Period * (k + missed) = Period * k + Period * missed
      BY <2>1, <3>1, Multiples
    <3>4. 1 + count'["cycles"] + count'["skipped_releases"] = k + missed
      BY <2>c, <2>1, <1>a DEF TypeOK, Counters
    <3> QED BY <2>0, <3>2, <3>3, <3>4 DEF ReleaseGrid
  <2>6. CyclesAccounted' /\ SnapshotCoherent'
    BY <2>0, <2>2, <2>c, <2>1, <1>a DEF CyclesAccounted, SnapshotCoherent, finishVars, TypeOK,
                                  Counters, Snapshots
  <2>7. CountersAtPoint'
    BY <2>0, <2>1, <2>2, <2>c, <2>m, <1>a DEF CountersAtPoint, StopSeen, TypeOK, Counters,
                                  clockVars, historyVars
  <2> QED BY <2>3, <2>4, <2>5, <2>6, <2>7 DEF IInv
<1>6. CASE StartSleep \/ SleepElapsed \/ SleepInterrupted \/ Woken \/ Spin
  <2>0. /\ pc \in {"armed", "sleep", "woken", "spin"}
        /\ pc' \in {"sleep", "woken", "spin"}
        /\ current' \in {current, now}
        /\ UNCHANGED <<clockVars, gridVars, finishVars, count,
                       final_includes_termination, historyVars>>
    BY <1>6 DEF StartSleep, SleepElapsed, SleepInterrupted, Woken, Spin, Go
  <2>1. TypeOK'
    BY <2>0, <1>a DEF TypeOK, PCs, clockVars, gridVars, finishVars, historyVars
  <2>2. SchedulePoint'
    <3>1. /\ current' <= now /\ ~step_active
          /\ UNCHANGED <<now, idle_since, entry, next_release, first_release, release,
                         step_active>>
      BY <2>0, <1>a DEF SchedulePoint, TypeOK, clockVars, gridVars, finishVars, historyVars
    <3> QED BY <2>0, <3>1, <1>a DEF SchedulePoint
  <2>4. NoBacklog' /\ NoEarlyStart' /\ ReleaseGrid'
    BY <2>0, <1>a DEF SchedulePoint, NoBacklog, NoEarlyStart, ReleaseGrid,
                      clockVars, gridVars, finishVars, historyVars
  <2>3. CyclesAccounted' /\ CountersAtPoint' /\ SnapshotCoherent'
    BY <2>0, <1>a DEF CyclesAccounted, CountersAtPoint, SnapshotCoherent,
                      clockVars, gridVars, finishVars, historyVars
  <2> QED BY <2>1, <2>2, <2>3, <2>4 DEF IInv
<1>7. CASE Release
  <2> USE <1>7 DEF Release, Go, clockVars, historyVars
  <2>c. /\ count' \in [Counters -> Nat]
        /\ count'["cycles"] = count["cycles"] + 1
        /\ count'["skipped_releases"] = count["skipped_releases"]
        /\ count'["completed_cycles"] = count["completed_cycles"]
        /\ count'["deadline_misses"] = count["deadline_misses"]
        /\ count'["model_step_calls"] = count["model_step_calls"]
        /\ count'["model_step_completed_calls"] = count["model_step_completed_calls"]
    BY <1>a DEF TypeOK, Counters
  <2>1. TypeOK'
    BY <2>c, <1>a DEF TypeOK, PCs, SchedulePoint
  <2>2. SchedulePoint' /\ NoBacklog' /\ NoEarlyStart'
    BY <1>a DEF SchedulePoint, NoBacklog, NoEarlyStart, TypeOK
  <2>3. ReleaseGrid'
    <3> DEFINE k == 1 + count["cycles"] + count["skipped_releases"]
    <3>1. k \in Int /\ next_release = entry + Period * k
      BY <1>a DEF ReleaseGrid, TypeOK, Counters
    <3>2. Period * (k + 1) = Period * k + Period /\ Period * k \in Int
      BY <3>1, Multiples
    <3>3. 1 + count'["cycles"] + count'["skipped_releases"] = k + 1
      BY <2>c, <1>a DEF TypeOK, Counters
    <3>4. entry \in Int /\ next_release' = next_release + Period /\ entry' = entry
      BY <1>a DEF TypeOK
    <3> HIDE DEF k
    <3>5. next_release' = entry' + Period * (k + 1)
      BY <3>1, <3>2, <3>4
    <3> QED BY <3>3, <3>5 DEF ReleaseGrid
  <2>4. CyclesAccounted' /\ CountersAtPoint' /\ SnapshotCoherent'
    BY <2>c, <1>a DEF CyclesAccounted, CountersAtPoint, SnapshotCoherent, SchedulePoint,
                      TypeOK, Counters
  <2> QED BY <2>1, <2>2, <2>3, <2>4 DEF IInv
<1>8. CASE BackgroundBreak
  <2> USE <1>8 DEF BackgroundBreak, Go, clockVars, gridVars, finishVars, historyVars
  <2>1. TypeOK' /\ SchedulePoint' /\ NoBacklog' /\ NoEarlyStart' /\ ReleaseGrid'
    BY <1>a DEF TypeOK, PCs, SchedulePoint, NoBacklog, NoEarlyStart, ReleaseGrid
  <2>2. CyclesAccounted' /\ CountersAtPoint' /\ SnapshotCoherent'
    BY <1>a DEF CyclesAccounted, CountersAtPoint, SnapshotCoherent, SchedulePoint
  <2> QED BY <2>1, <2>2 DEF IInv
<1>9. CASE StepBegin \/ StepEnd
  <2>0. /\ step_active
        /\ \/ pc = "released" /\ pc' = "step"
           \/ pc = "step" /\ pc' \in {"wait", "terminate"}
        /\ late_steps' \in Nat
        /\ late_steps' > 0 => late_steps > 0 \/ stop_signal
        /\ pc = "step" => late_steps' = late_steps
        /\ UNCHANGED <<clockVars, current, gridVars, finishVars,
                       final_includes_termination, idle_since>>
    <3>1. pc \in {"released", "step"}
      BY <1>9 DEF StepBegin, StepEnd, Go
    <3>2. step_active
      BY <3>1, <1>a DEF SchedulePoint
    <3>3. CASE StepBegin
      <4>1. late_steps' = late_steps + (IF stop_signal THEN 1 ELSE 0) /\ late_steps \in Nat
        BY <3>3, <1>a DEF StepBegin, TypeOK
      <4>2. late_steps' \in Nat /\ (late_steps' > 0 => late_steps > 0 \/ stop_signal)
        BY <4>1
      <4>3. pc = "released" /\ pc' = "step" /\ pc # "step"
        BY <3>3 DEF StepBegin, Go
      <4>4. UNCHANGED <<clockVars, current, gridVars, finishVars,
                        final_includes_termination, idle_since>>
        BY <3>3 DEF StepBegin
      <4> QED BY <3>2, <4>2, <4>3, <4>4
    <3>4. CASE StepEnd
      BY <3>2, <3>4, <1>a DEF StepEnd, TypeOK, historyVars
    <3> QED BY <1>9, <3>3, <3>4
  <2>c. /\ count' \in [Counters -> Nat]
        /\ count'["cycles"] = count["cycles"]
        /\ count'["skipped_releases"] = count["skipped_releases"]
        /\ count'["completed_cycles"] = count["completed_cycles"]
        /\ count'["deadline_misses"] = count["deadline_misses"]
        /\ count'["model_step_calls"] =
              count["model_step_calls"] + (IF pc = "released" THEN 1 ELSE 0)
        /\ count'["model_step_completed_calls"] =
              count["model_step_completed_calls"] + (IF pc = "step" THEN 1 ELSE 0)
    BY <1>9, <1>a DEF StepBegin, StepEnd, Go, TypeOK, Counters
  <2>1. TypeOK'
    BY <2>0, <2>c, <1>a DEF TypeOK, PCs, clockVars, gridVars, finishVars
  <2>2. SchedulePoint' /\ NoBacklog' /\ NoEarlyStart' /\ ReleaseGrid'
    BY <2>0, <2>c, <1>a DEF SchedulePoint, NoBacklog, NoEarlyStart, ReleaseGrid, TypeOK,
                            clockVars, gridVars, finishVars
  <2>3. CyclesAccounted'
    <3>1. step_active' = step_active
      BY <2>0 DEF finishVars
    <3>2. CASE pc = "released"
      BY <2>0, <2>c, <3>1, <3>2, <1>a DEF CyclesAccounted, TypeOK, Counters
    <3>3. CASE pc = "step"
      <4>1. pc' \in {"wait", "terminate"}
        BY <2>0, <3>3
      <4>2. count["cycles"] - count["model_step_calls"] = 0
        BY <3>3, <1>a DEF CyclesAccounted
      <4>3. count["model_step_completed_calls"] = count["model_step_calls"] - 1
        BY <3>3, <1>a DEF CyclesAccounted
      <4>4. count["cycles"] = count["completed_cycles"] + (IF step_active THEN 1 ELSE 0)
        BY <1>a DEF CyclesAccounted
      <4>5. count'["cycles"] = count'["completed_cycles"] + (IF step_active' THEN 1 ELSE 0)
        BY <2>c, <3>1, <4>4
      <4>6. count'["model_step_completed_calls"] = count'["model_step_calls"] - 0
        BY <2>c, <3>3, <4>3, <1>a DEF TypeOK, Counters
      <4>7. count'["cycles"] - count'["model_step_calls"] = 0
        BY <2>c, <3>3, <4>2, <1>a DEF TypeOK, Counters
      <4>8. pc' # "step"
        BY <4>1
      <4> QED BY <4>1, <4>5, <4>6, <4>7, <4>8 DEF CyclesAccounted
    <3> QED BY <2>0, <3>2, <3>3
  <2>5. SnapshotCoherent'
    BY <2>0, <2>c, <1>a DEF SnapshotCoherent, finishVars, TypeOK, Counters, Snapshots
  <2>4. CountersAtPoint'
    BY <2>0, <2>c, <1>a DEF CountersAtPoint, clockVars, gridVars, finishVars
  <2> QED BY <2>1, <2>2, <2>3, <2>4, <2>5 DEF IInv
<1>10. CASE UNCHANGED vars
  <2>1. TypeOK' /\ SchedulePoint' /\ NoBacklog' /\ NoEarlyStart' /\ ReleaseGrid'
    BY <1>10, <1>a DEF TypeOK, SchedulePoint, NoBacklog, NoEarlyStart, ReleaseGrid, vars,
                       clockVars, gridVars, finishVars, historyVars
  <2>2. CyclesAccounted' /\ CountersAtPoint' /\ SnapshotCoherent'
    BY <1>10, <1>a DEF CyclesAccounted, CountersAtPoint, SnapshotCoherent, vars,
                       clockVars, gridVars, finishVars, historyVars
  <2> QED BY <2>1, <2>2 DEF IInv
<1> QED
  BY <1>1, <1>2, <1>3, <1>4, <1>5, <1>6, <1>7, <1>8, <1>9, <1>10 DEF Next, ModelThread

-----------------------------------------------------------------------------
\* The invariant holds in every reachable state.
THEOREM ScheduleInvariant == Spec => []IInv
  BY InitIInv, NextIInv, PTL DEF Spec

\* Every variable keeps its type; in particular the elapsed time published in a
\* status snapshot, a difference of two clock readings, is never negative.
THEOREM TypeCorrect == Spec => []TypeOK
<1>1. IInv => TypeOK
  BY DEF IInv
<1> QED BY <1>1, ScheduleInvariant, PTL

\* Each point of the release grid is served or counted as skipped exactly once.
THEOREM GridAccounted == Spec => []ReleaseGrid
<1>1. IInv => ReleaseGrid
  BY DEF IInv
<1> QED BY <1>1, ScheduleInvariant, PTL

\* The thread always waits for the first grid point after it became idle.
THEOREM BacklogFree == Spec => []NoBacklog
<1>1. IInv => NoBacklog
  BY DEF IInv
<1> QED BY <1>1, ScheduleInvariant, PTL

\* Cycles, completed cycles and model_step calls agree up to the open release.
THEOREM CyclesAgree == Spec => []CyclesAccounted
<1>1. IInv => CyclesAccounted
  BY DEF IInv
<1> QED BY <1>1, ScheduleInvariant, PTL

\* A deadline miss is also counted as a skip, unless the thread ends first.
THEOREM MissesSkip == Spec => []MissesAreSkipped
<1>1. IInv => MissesAreSkipped
  BY DEF IInv, CountersAtPoint, MissesAreSkipped, TypeOK, Counters
<1> QED BY <1>1, ScheduleInvariant, PTL

\* A published status snapshot is a state between two model steps.
THEOREM SnapshotsCohere == Spec => []SnapshotCoherent
<1>1. IInv => SnapshotCoherent
  BY DEF IInv
<1> QED BY <1>1, ScheduleInvariant, PTL

\* No release time leaves the range of int64_t.
THEOREM NoOverflow == Spec => []NoReleaseOverflow
<1>1. IInv => NoReleaseOverflow
  BY RtAssumption DEF IInv, SchedulePoint, NoReleaseOverflow, TypeOK
<1> QED BY <1>1, ScheduleInvariant, PTL

\* Cycles, misses and skipped releases agree, and the grid does not overflow.
THEOREM CountersCohere == Spec => []CountersAgree
BY CyclesAgree, MissesSkip, NoOverflow, PTL DEF CountersAgree

\* After a stop signal at most one more model step begins.
THEOREM PromptStop == Spec => []StopIsPrompt
<1>1. Init => StopIsPrompt
  BY DEF Init, StopIsPrompt
<1>2. IInv /\ StopIsPrompt /\ [Next]_vars => StopIsPrompt'
  <2> SUFFICES ASSUME IInv, StopIsPrompt, [Next]_vars PROVE StopIsPrompt'
    OBVIOUS
  <2>1. CASE StepBegin
    <3>1. late_steps \in Nat /\ ~(late_steps > 0)
      BY <2>1 DEF IInv, TypeOK, CountersAtPoint, StepBegin, Go
    <3> QED BY <2>1, <3>1 DEF StepBegin, StopIsPrompt
  <2>2. CASE ~StepBegin
    <3>1. late_steps' = late_steps
      BY <2>2 DEF Next, ModelThread, vars, historyVars, Tick, SignalStop,
                  BackgroundFailure, ModelEntry, WaitFinish, StopFromModelThread,
                  AdvanceRelease, StartSleep, SleepElapsed, SleepInterrupted, Woken,
                  Spin, Release, BackgroundBreak, StepEnd, TerminateTask
    <3> QED BY <3>1 DEF StopIsPrompt
  <2> QED BY <2>1, <2>2
<1> QED BY <1>1, <1>2, ScheduleInvariant, PTL DEF Spec

-----------------------------------------------------------------------------
\* Initial states are initial states of the periodic task.
LEMMA InitTask == Init => Task!Init
  BY DEF Init, Task!Init, Phase

\* Every step is a step of the periodic task or leaves it unchanged.
LEMMA StepTask == IInv /\ [Next]_vars => [Task!Next]_(Task!taskVars)
<1> SUFFICES ASSUME IInv, [Next]_vars PROVE [Task!Next]_(Task!taskVars)
  OBVIOUS
<1> USE RtAssumption
<1>1. CASE Tick
  <2>1. Phase' = Phase
    BY <1>1 DEF Tick, Phase
  <2>2. Task!Advance
    BY <1>1, <2>1 DEF Tick, Task!Advance, gridVars, finishVars, historyVars
  <2> QED BY <2>2 DEF Task!Next
<1>2. CASE ModelEntry
  <2>1. Phase = "new" /\ Phase' = "running"
    BY <1>2 DEF ModelEntry, Phase
  <2>2. Task!Begin
    BY <1>2, <2>1 DEF ModelEntry, Task!Begin, clockVars, finishVars, historyVars
  <2> QED BY <2>2 DEF Task!Next
<1>3. CASE WaitFinish
  <2>1. Phase = "running" /\ Phase' = "running"
    BY <1>3 DEF WaitFinish, Go, Phase
  <2>2. step_active' = FALSE
    BY <1>3, FinishStepEffect DEF WaitFinish, Go
  <2>3. step_active \/ release = 0
    BY <1>3 DEF IInv, SchedulePoint, WaitFinish, Go
  <2>4. Task!BecomeIdle
    BY <1>3, <2>1, <2>2, <2>3 DEF WaitFinish, Task!BecomeIdle, clockVars, gridVars
  <2> QED BY <2>4 DEF Task!Next
<1>4. CASE TerminateTask
  <2>1. Phase = "running" /\ Phase' = "ended"
    BY <1>4 DEF TerminateTask, Go, Phase
  <2>2. step_active' = FALSE
    BY <1>4, FinishStepEffect DEF TerminateTask, Go
  <2>3. Task!End
    BY <1>4, <2>1, <2>2 DEF TerminateTask, Task!End, clockVars, gridVars, historyVars
  <2> QED BY <2>3 DEF Task!Next
<1>5. CASE Release
  <2>1. Phase = "running" /\ Phase' = "running"
    BY <1>5 DEF Release, Go, Phase
  <2> DEFINE k == 1 + count["cycles"] + count["skipped_releases"]
  <2>2. k \in Nat /\ k >= 1
    BY DEF IInv, TypeOK, Counters
  <2>3. next_release = entry + k * Period
    BY <1>5, <2>2, Multiples DEF IInv, ReleaseGrid, Release, Go
  <2>4. /\ idle_since < next_release /\ next_release <= idle_since + Period
        /\ next_release <= now /\ ~step_active
        /\ now \in Nat /\ now <= MaxTime /\ entry \in Nat
    BY <1>5 DEF IInv, NoBacklog, SchedulePoint, Release, Go, TypeOK
  <2> HIDE DEF k
  <2>5. k <= k * Period
    BY <2>2, SMT
  <2>6. k * Period \in Nat
    BY <2>2, SMT
  <2>7. k \in 1..MaxTime
    BY <2>2, <2>3, <2>4, <2>5, <2>6
  <2>8. release' = entry + k * Period
    BY <1>5, <2>3 DEF Release
  <2>9. \E n \in 1..MaxTime :
           /\ idle_since < entry + n * Period /\ entry + n * Period <= idle_since + Period
           /\ entry + n * Period <= now
           /\ release' = entry + n * Period
    BY <2>3, <2>4, <2>7, <2>8
  <2>10. Task!Serve
    BY <1>5, <2>1, <2>4, <2>9 DEF Release, Task!Serve, clockVars, historyVars
  <2> QED BY <2>10 DEF Task!Next
<1>6. CASE StopFromModelThread
  <2>1. pc \in {"finished", "armed", "woken", "spin"} /\ pc' = "terminate" /\ ~step_active
    BY <1>6 DEF StopFromModelThread, StopSeen, IInv, SchedulePoint
  <2>2. Phase' = Phase
    BY <2>1 DEF Phase
  <2>3. step_active' = step_active
    BY <1>6, <2>1 DEF StopFromModelThread, FinishStep, finishVars
  <2> QED BY <1>6, <2>2, <2>3
          DEF StopFromModelThread, Task!taskVars, clockVars, gridVars, historyVars
<1>7. CASE AdvanceRelease
  <2> DEFINE next == NextFutureRelease(next_release, current)
  <2>1. current \in Nat /\ current < next /\ next \in Int
    BY <1>7, NextFutureIsFirst DEF AdvanceRelease, IInv, SchedulePoint, TypeOK
  <2>2. pc = "finished" /\ pc' = IF next < 0 THEN "failed" ELSE "armed"
    BY <1>7 DEF AdvanceRelease
  <2> HIDE DEF next
  <2>3. Phase' = Phase
    BY <2>1, <2>2 DEF Phase
  <2> QED BY <1>7, <2>3 DEF AdvanceRelease, Task!taskVars, clockVars, finishVars, historyVars
<1>8. CASE \/ SignalStop \/ BackgroundFailure \/ StartSleep \/ SleepElapsed
           \/ SleepInterrupted \/ Woken \/ Spin \/ BackgroundBreak
           \/ StepBegin \/ StepEnd
  <2>1. Phase' = Phase
    BY <1>8 DEF SignalStop, BackgroundFailure, StartSleep, SleepElapsed, SleepInterrupted,
                Woken, Spin, BackgroundBreak, StepBegin, StepEnd, Go, Phase
  <2>2. UNCHANGED <<now, entry, release, step_active, idle_since>>
    BY <1>8 DEF SignalStop, BackgroundFailure, StartSleep, SleepElapsed, SleepInterrupted,
                Woken, Spin, BackgroundBreak, StepBegin, StepEnd,
                clockVars, gridVars, finishVars, historyVars
  <2> QED BY <2>1, <2>2 DEF Task!taskVars
<1>9. CASE UNCHANGED vars
  BY <1>9 DEF vars, clockVars, gridVars, finishVars, historyVars, Task!taskVars, Phase
<1> QED
  BY <1>1, <1>2, <1>3, <1>4, <1>5, <1>6, <1>7, <1>8, <1>9 DEF Next, ModelThread

\* The model thread implements the periodic task: whatever the length of its
\* steps it serves the first grid point after it became idle and never a
\* backlog of missed ones.
THEOREM ScheduleRefinesTask == Spec => ImplementsPeriodicTask
<1>1. Spec => [][Task!Next]_(Task!taskVars)
  BY StepTask, ScheduleInvariant, PTL DEF Spec
<1> QED BY <1>1, InitTask, PTL DEF Spec, ImplementsPeriodicTask, Task!Spec
=============================================================================
