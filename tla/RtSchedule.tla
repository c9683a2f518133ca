----------------------------- MODULE RtSchedule -----------------------------
(***************************************************************************)
(* The model thread of the SimRT Linux runtime: the absolute release       *)
(* schedule kept by __wrap_sem_wait and the base-rate loop it drives.      *)
(*                                                                         *)
(* Time is CLOCK_MONOTONIC in whole units.  It may advance between any two *)
(* steps of the thread, so a value of now_ns() held in "current" may be    *)
(* stale when it is used, as in the code.  Signals and the failure of the  *)
(* XCP background loop may arrive between any two steps.                   *)
(*                                                                         *)
(* The counters of the code saturate at 2^64 - 1; they count periods of at *)
(* least one millisecond and are plain naturals here.                      *)
(***************************************************************************)
EXTENDS Integers

CONSTANTS Period,           \* period_ns
          SpinTail,         \* spin_us * 1000: the busy tail before a release
          PublishInterval,  \* 100 ms between two status publications
          Int64Max,         \* INT64_MAX
          MaxTime           \* bound of the clock

ASSUME RtAssumption ==
    /\ Period \in Nat \ {0}
    /\ SpinTail \in Nat
    /\ PublishInterval \in Nat \ {0}
    /\ Int64Max \in Nat
    /\ MaxTime \in Nat
    /\ MaxTime + Period <= Int64Max

VARIABLES
    now,              \* CLOCK_MONOTONIC
    pc,               \* where the model thread is
    current,          \* the local "current" of __wrap_sem_wait
    stop_signal,      \* a stop signal was delivered
    background_stop,  \* the XCP background loop failed
    entry,            \* now_ns() at model_entry: the origin of the grid
    next_release,     \* next_release_ns
    release,          \* release_ns
    first_release,    \* first_release_ns
    started,          \* started_ns
    last_finished,    \* last_finished_ns
    step_active,      \* a release is being served
    count,            \* the counters of the summary
    final_includes_termination,
    status,           \* next_publish and the status_snapshot last published
    idle_since,       \* history: the time at which the last wait was entered
    late_steps        \* history: model steps begun after stop_signal was set

clockVars   == <<now, stop_signal, background_stop>>
gridVars    == <<entry, next_release, release, first_release, started>>
historyVars == <<idle_since, late_steps>>
finishVars  == <<last_finished, step_active, status>>
vars == <<clockVars, pc, current, gridVars, finishVars, count,
          final_includes_termination, historyVars>>

PCs == {"entry", "wait", "finished", "armed", "sleep", "woken", "spin",
        "released", "step", "terminate", "done", "failed"}

Counters == {"cycles", "completed_cycles", "skipped_releases",
             "deadline_misses", "model_step_calls",
             "model_step_completed_calls"}

Snapshots == [sampled: Nat, elapsed: Nat, calls: Nat, completed_calls: Nat,
              deadline_misses: Nat, skipped_releases: Nat]

-----------------------------------------------------------------------------
(* The pure schedule arithmetic.                                           *)

\* Mutants: one grid point too few, so that a release may lie in the past, ...
MissedReleasesRoundedDown(scheduled, at) ==
    IF at >= scheduled THEN (at - scheduled) \div Period ELSE 0

\* ... and one too many.
MissedReleasesRoundedUp(scheduled, at) ==
    IF at >= scheduled THEN ((at - scheduled) \div Period) + 2 ELSE 0

\* How many grid points "at" has reached, from "scheduled" on.
MissedReleases(scheduled, at) ==
    IF at >= scheduled THEN ((at - scheduled) \div Period) + 1 ELSE 0

\* simrt_rt_next_future_release: -1 when the result would overflow.
NextFutureRelease(scheduled, at) ==
    LET missed == MissedReleases(scheduled, at) IN
    IF missed > 0 /\ missed > (Int64Max - scheduled) \div Period
    THEN -1
    ELSE scheduled + missed * Period

\* simrt_rt_sleep_deadline_ns
SleepDeadline(at) == IF at > SpinTail THEN at - SpinTail ELSE 0

-----------------------------------------------------------------------------
(* Helpers of the actions.                                                 *)

Snapshot(sampled, counted) ==
    [sampled          |-> sampled,
     elapsed          |-> IF counted["cycles"] > 0 THEN sampled - first_release ELSE 0,
     calls            |-> counted["model_step_calls"],
     completed_calls  |-> counted["model_step_completed_calls"],
     deadline_misses  |-> counted["deadline_misses"],
     skipped_releases |-> counted["skipped_releases"]]

\* publish_status: at most one attempt per interval, and the attempt is lost
\* when the status thread holds the flag at that moment.
PublishStatus(sampled, counted) ==
    IF sampled < status.next_publish
    THEN UNCHANGED status
    ELSE \E locked \in BOOLEAN :
            status' = [next_publish |-> sampled + PublishInterval,
                       snapshot     |-> IF locked THEN status.snapshot
                                        ELSE Snapshot(sampled, counted)]

\* Mutant: finish_step without its step_active guard.
FinishStepAlways(finished) ==
    /\ count' = [count EXCEPT
         !["completed_cycles"] = @ + 1,
         !["deadline_misses"]  = @ + (IF finished > release + Period THEN 1 ELSE 0)]
    /\ last_finished' = finished
    /\ step_active' = FALSE
    /\ PublishStatus(finished, count')

\* Mutant: the deadline is the release itself.
FinishStepNoPeriod(finished) ==
    IF ~step_active
    THEN UNCHANGED <<finishVars, count>>
    ELSE /\ count' = [count EXCEPT
              !["completed_cycles"] = @ + 1,
              !["deadline_misses"]  = @ + (IF finished > release THEN 1 ELSE 0)]
         /\ last_finished' = finished
         /\ step_active' = FALSE
         /\ PublishStatus(finished, count')

\* finish_step: close the release being served, if any.
FinishStep(finished) ==
    IF ~step_active
    THEN UNCHANGED <<finishVars, count>>
    ELSE /\ count' = [count EXCEPT
              !["completed_cycles"] = @ + 1,
              !["deadline_misses"]  = @ + (IF finished > release + Period THEN 1 ELSE 0)]
         /\ last_finished' = finished
         /\ step_active' = FALSE
         /\ PublishStatus(finished, count')

\* Mutant: the signal is only looked at after a sleep.
StopSeenAfterSleepOnly == pc = "woken" /\ stop_signal

\* The places where __wrap_sem_wait looks at stop_signal.
StopSeen == pc \in {"finished", "armed", "woken", "spin"} /\ stop_signal

Go(from, to) == pc = from /\ pc' = to

-----------------------------------------------------------------------------
(* Initial state: myRTOSInit has created the thread and published the      *)
(* first snapshot.                                                         *)

Init ==
    /\ now = 0 /\ pc = "entry" /\ current = 0
    /\ stop_signal = FALSE /\ background_stop = FALSE
    /\ entry = 0 /\ next_release = 0 /\ release = 0
    /\ first_release = 0 /\ started = 0 /\ last_finished = 0
    /\ step_active = FALSE
    /\ count = [c \in Counters |-> 0]
    /\ final_includes_termination = FALSE
    /\ status = [next_publish |-> 0,
                 snapshot |-> [sampled |-> 0, elapsed |-> 0, calls |-> 0,
                               completed_calls |-> 0, deadline_misses |-> 0,
                               skipped_releases |-> 0]]
    /\ idle_since = 0 /\ late_steps = 0

-----------------------------------------------------------------------------
(* The environment.                                                        *)

Tick ==
    /\ now < MaxTime
    /\ now' = now + 1
    /\ UNCHANGED <<stop_signal, background_stop, pc, current, gridVars,
                   finishVars, count, final_includes_termination, historyVars>>

\* The handler signal_stop, on any thread.
SignalStop ==
    /\ ~stop_signal
    /\ stop_signal' = TRUE
    /\ UNCHANGED <<now, background_stop, pc, current, gridVars, finishVars,
                   count, final_includes_termination, historyVars>>

\* main leaves its background loop after a failed extmodeBackgroundRun.
BackgroundFailure ==
    /\ ~background_stop
    /\ background_stop' = TRUE
    /\ UNCHANGED <<now, stop_signal, pc, current, gridVars, finishVars,
                   count, final_includes_termination, historyVars>>

-----------------------------------------------------------------------------
(* The model thread.                                                       *)

\* model_entry fixes the grid; baseRateTask skips its loop when the model
\* already reports an error or a stop request.
ModelEntry ==
    /\ pc = "entry"
    /\ entry' = now
    /\ next_release' = now + Period
    /\ \E runModel \in BOOLEAN : pc' = IF runModel THEN "wait" ELSE "terminate"
    /\ UNCHANGED <<clockVars, current, release, first_release, started,
                   finishVars, count, final_includes_termination, historyVars>>

\* __wrap_sem_wait: the previous step, if any, ends now.
WaitFinish ==
    /\ Go("wait", "finished")
    /\ current' = now
    /\ idle_since' = now
    /\ FinishStep(now)
    /\ UNCHANGED <<clockVars, gridVars, final_includes_termination, late_steps>>

\* stop_from_model_thread; its finish_step has nothing left to close.
StopFromModelThread ==
    /\ StopSeen
    /\ pc' = "terminate"
    /\ FinishStep(now)
    /\ UNCHANGED <<clockVars, current, gridVars, final_includes_termination,
                   historyVars>>

\* Mutant: a jump over several grid points is counted as one skip.
AdvanceReleaseCountsOne ==
    LET next == NextFutureRelease(next_release, current) IN
    /\ pc = "finished"
    /\ ~StopSeen
    /\ next_release' = next
    /\ count' = [count EXCEPT !["skipped_releases"] =
                     @ + (IF next # next_release THEN 1 ELSE 0)]
    /\ pc' = IF next < 0 THEN "failed" ELSE "armed"
    /\ current' = now
    /\ UNCHANGED <<clockVars, entry, release, first_release, started,
                   finishVars, final_includes_termination, historyVars>>

\* Skip the grid points that have passed; fail() when the time overflows.
AdvanceRelease ==
    LET next == NextFutureRelease(next_release, current) IN
    /\ pc = "finished"
    /\ ~StopSeen
    /\ next_release' = next
    /\ count' = IF next < 0 THEN count
                ELSE [count EXCEPT !["skipped_releases"] =
                                      @ + MissedReleases(next_release, current)]
    /\ pc' = IF next < 0 THEN "failed" ELSE "armed"
    /\ current' = now
    /\ UNCHANGED <<clockVars, entry, release, first_release, started,
                   finishVars, final_includes_termination, historyVars>>

\* Sleep up to the busy tail, or not at all when the tail has begun.
StartSleep ==
    /\ pc = "armed"
    /\ ~StopSeen
    /\ pc' = IF current < SleepDeadline(next_release) THEN "sleep" ELSE "spin"
    /\ UNCHANGED <<clockVars, current, gridVars, finishVars, count,
                   final_includes_termination, historyVars>>

\* clock_nanosleep returns at its absolute time ...
SleepElapsed ==
    /\ Go("sleep", "woken")
    /\ now >= SleepDeadline(next_release)
    /\ UNCHANGED <<clockVars, current, gridVars, finishVars, count,
                   final_includes_termination, historyVars>>

\* ... or earlier with EINTR, for any signal handled on this thread.
SleepInterrupted ==
    /\ Go("sleep", "woken")
    /\ now < SleepDeadline(next_release)
    /\ UNCHANGED <<clockVars, current, gridVars, finishVars, count,
                   final_includes_termination, historyVars>>

\* The do-while around clock_nanosleep; an interrupted sleep is repeated.
Woken ==
    /\ pc = "woken"
    /\ ~StopSeen
    /\ current' = now
    /\ pc' = IF now < SleepDeadline(next_release) THEN "sleep" ELSE "spin"
    /\ UNCHANGED <<clockVars, gridVars, finishVars, count,
                   final_includes_termination, historyVars>>

\* One turn of the busy tail.
Spin ==
    /\ pc = "spin"
    /\ ~StopSeen
    /\ current < next_release
    /\ current' = now
    /\ UNCHANGED <<clockVars, pc, gridVars, finishVars, count,
                   final_includes_termination, historyVars>>

\* Mutant: first_release_ns is read after next_release_ns was advanced.
ReleaseFirstLate ==
    /\ Go("spin", "released")
    /\ ~StopSeen
    /\ current >= next_release
    /\ release' = next_release
    /\ next_release' = next_release + Period
    /\ first_release' = IF count["cycles"] = 0 THEN next_release' ELSE first_release
    /\ started' = current
    /\ count' = [count EXCEPT !["cycles"] = @ + 1]
    /\ step_active' = TRUE
    /\ UNCHANGED <<clockVars, current, entry, last_finished, status,
                   final_includes_termination, historyVars>>

\* The wait ends: this release is served from "current" on.
Release ==
    /\ Go("spin", "released")
    /\ ~StopSeen
    /\ current >= next_release
    /\ release' = next_release
    /\ next_release' = next_release + Period
    /\ first_release' = IF count["cycles"] = 0 THEN next_release ELSE first_release
    /\ started' = current
    /\ count' = [count EXCEPT !["cycles"] = @ + 1]
    /\ step_active' = TRUE
    /\ UNCHANGED <<clockVars, current, entry, last_finished, status,
                   final_includes_termination, historyVars>>

\* Mutant: step_begin runs before background_stop is looked at.
BackgroundBreakAfterBegin ==
    /\ Go("released", "terminate")
    /\ background_stop
    /\ count' = [count EXCEPT !["model_step_calls"] = @ + 1]
    /\ UNCHANGED <<clockVars, current, gridVars, finishVars,
                   final_includes_termination, historyVars>>

\* baseRateTask: a failed background loop ends the thread instead of a step.
BackgroundBreak ==
    /\ Go("released", "terminate")
    /\ background_stop
    /\ UNCHANGED <<clockVars, current, gridVars, finishVars, count,
                   final_includes_termination, historyVars>>

\* simrt_rt_step_begin
StepBegin ==
    /\ Go("released", "step")
    /\ ~background_stop
    /\ count' = [count EXCEPT !["model_step_calls"] = @ + 1]
    /\ late_steps' = late_steps + (IF stop_signal THEN 1 ELSE 0)
    /\ UNCHANGED <<clockVars, current, gridVars, finishVars,
                   final_includes_termination, idle_since>>

\* simrt_rt_step_end, then the model's own error or stop request is read.
StepEnd ==
    /\ pc = "step"
    /\ count' = [count EXCEPT !["model_step_completed_calls"] = @ + 1]
    /\ \E stopRequested \in BOOLEAN :
          pc' = IF stopRequested THEN "terminate" ELSE "wait"
    /\ UNCHANGED <<clockVars, current, gridVars, finishVars,
                   final_includes_termination, historyVars>>

\* terminateTask and __wrap_sem_post on stopSem: a release that is still open
\* is closed after the model's terminate function.
TerminateTask ==
    /\ Go("terminate", "done")
    /\ final_includes_termination' = step_active
    /\ FinishStep(now)
    /\ UNCHANGED <<clockVars, current, gridVars, historyVars>>

ModelThread ==
    \/ ModelEntry \/ WaitFinish \/ StopFromModelThread \/ AdvanceRelease
    \/ StartSleep \/ SleepElapsed \/ SleepInterrupted \/ Woken \/ Spin
    \/ Release \/ BackgroundBreak \/ StepBegin \/ StepEnd \/ TerminateTask

Next == Tick \/ SignalStop \/ BackgroundFailure \/ ModelThread

Spec == Init /\ [][Next]_vars

-----------------------------------------------------------------------------
(* Properties.                                                             *)

\* Every variable holds a value of its type.
TypeOK ==
    /\ now \in 0..MaxTime
    /\ pc \in PCs
    /\ current \in 0..MaxTime
    /\ stop_signal \in BOOLEAN /\ background_stop \in BOOLEAN
    /\ entry \in 0..MaxTime
    /\ next_release \in Int /\ release \in Nat /\ first_release \in Nat
    /\ started \in Nat /\ last_finished \in Nat
    /\ step_active \in BOOLEAN
    /\ count \in [Counters -> Nat]
    /\ final_includes_termination \in BOOLEAN
    /\ status \in [next_publish: Nat, snapshot: Snapshots]
    /\ idle_since \in 0..MaxTime /\ late_steps \in Nat

\* Every grid point up to the scheduled one is accounted for exactly once, as
\* a served cycle or as a skipped release, however late steps and wakeups are
\* (1ms_solution.md: overdue releases are counted and skipped).
ReleaseGrid ==
    pc # "entry" =>
        next_release = entry + Period * (1 + count["cycles"] + count["skipped_releases"])

\* "Missed periods never become a semaphore backlog": the release the thread
\* waits for is the first grid point after the moment it became idle, however
\* many points the previous step ran over.
NoBacklog ==
    pc \in {"armed", "sleep", "woken", "spin"} =>
        idle_since < next_release /\ next_release <= idle_since + Period

\* A step is never served before its release, so that no lateness computed by
\* simrt_rt_step_begin or finish_step as an unsigned difference wraps around.
NoEarlyStart ==
    step_active => /\ release <= started /\ started <= now
                   /\ first_release <= release

\* cycles, completed cycles and model_step calls differ only by the release
\* being served, and by the single release that a failed background loop drops.
CyclesAccounted ==
    /\ count["cycles"] =
          count["completed_cycles"] + (IF step_active THEN 1 ELSE 0)
    /\ count["model_step_completed_calls"] =
          count["model_step_calls"] - (IF pc = "step" THEN 1 ELSE 0)
    /\ count["cycles"] - count["model_step_calls"] \in
          CASE pc = "released"              -> {1}
            [] pc \in {"terminate", "done"} -> {0, 1}
            [] OTHER                        -> {0}

\* Every deadline miss also skips at least one release, unless the thread ends
\* before it schedules another one.
MissesAreSkipped ==
    count["deadline_misses"] <=
        count["skipped_releases"]
        + (IF pc \in {"finished", "terminate", "done"} THEN 1 ELSE 0)

\* A published snapshot is taken between model steps and never runs ahead of
\* the counters: the calls it shows are all completed, and it shows at most
\* one miss whose skipped releases are not counted yet.
SnapshotCoherent ==
    LET s == status.snapshot IN
    /\ s.calls = s.completed_calls
    /\ s.deadline_misses <= s.skipped_releases + 1
    /\ s.calls <= count["model_step_calls"]
    /\ s.skipped_releases <= count["skipped_releases"]

\* How the schedule relates to the point the thread is at: the strengthening
\* that makes NoBacklog, NoEarlyStart and ReleaseGrid inductive.
SchedulePoint ==
    /\ current <= now /\ idle_since <= now /\ entry <= now
    /\ next_release \in 0..(MaxTime + Period)
    /\ first_release <= next_release
    /\ pc # "failed"
    /\ pc = "entry" => /\ ~step_active /\ release = 0 /\ first_release = 0
                       /\ count = [c \in Counters |-> 0]
    /\ pc = "wait" => /\ next_release <= now + Period
                      /\ step_active \/ release = 0
    /\ pc = "finished" => /\ ~step_active /\ current = idle_since
                          /\ next_release <= current + Period
    /\ pc \in {"armed", "sleep", "woken", "spin"} => ~step_active
    /\ pc \in {"released", "step"} => step_active
    /\ pc = "done" => ~step_active
    /\ step_active => next_release = release + Period

\* What the counters add up to between the two halves of a wait, and which
\* points a model step begun after a stop signal can reach.
CountersAtPoint ==
    /\ count["deadline_misses"] <=
          count["skipped_releases"]
          + (IF \/ pc = "done"
                \/ pc = "terminate" /\ ~step_active
                \/ pc = "finished" /\ current >= next_release THEN 1 ELSE 0)
    /\ late_steps > 0 =>
          stop_signal /\ pc \in {"step", "wait", "finished", "terminate", "done"}

\* After a stop signal the model runs at most one more step.
StopIsPrompt == late_steps <= 1

\* The 64-bit release time stays in range while the clock is at least one
\* period below INT64_MAX: neither the fail() of __wrap_sem_wait nor an
\* overflow of next_release_ns + period_ns is reached.
NoReleaseOverflow == pc # "failed" /\ next_release \in 0..Int64Max

\* The counters agree with each other and with the steps, and their grid does
\* not overflow.
CountersAgree == CyclesAccounted /\ MissesAreSkipped /\ NoReleaseOverflow

-----------------------------------------------------------------------------
(* What the schedule promises, without its bookkeeping.                    *)

Phase == CASE pc = "entry"              -> "new"
           [] pc \in {"done", "failed"} -> "ended"
           [] OTHER                     -> "running"

Task == INSTANCE PeriodicTask WITH
            origin  <- entry,
            phase   <- Phase,
            served  <- release,
            serving <- step_active,
            idle    <- idle_since

\* The thread implements a periodic task that always serves the first grid
\* point after it became idle (ARCHITECTURE.md 5: a late step jumps to a
\* future release, the overdue periods are not run).
ImplementsPeriodicTask == Task!Spec
=============================================================================
