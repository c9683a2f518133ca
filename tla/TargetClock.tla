----------------------------- MODULE TargetClock -----------------------------
(***************************************************************************)
(* The clock synchronization of the target, services/target_clock.py: it   *)
(* is armed once for each SSH connection, waits for samples of an idle     *)
(* target, and then sends one request to the clock helper, which looks at  *)
(* the target again; a failure counts, a busy target does not.             *)
(*                                                                         *)
(* Samples and cancellations come on the GUI thread, the synchronization   *)
(* runs on the worker of the target page, which also makes connections, so *)
(* that arming never overlaps it.  Time passes in ticks.                   *)
(***************************************************************************)
EXTENDS Naturals, Sequences

CONSTANTS
    Samples,      \* idle samples needed, 3
    IdleTime,     \* IDLE_SECONDS
    Gap,          \* MAX_SAMPLE_GAP
    Retry,        \* RETRY_SECONDS
    MaxFailures,  \* MAX_FAILURES
    MaxArms,      \* bound: connections
    MaxNow        \* bound: ticks

ClockAssumption ==
    /\ Samples \in Nat \ {0} /\ IdleTime \in Nat /\ Gap \in Nat /\ Retry \in Nat
    /\ MaxFailures \in Nat \ {0} /\ MaxArms \in Nat /\ MaxNow \in Nat

VARIABLES
    now,
    arm,          \* connection of _cancelled and _password, 0 before the first
    pending,
    samples, idleSince, lastSample, failures, retryAt,
    sync,         \* step of synchronize
    seen,         \* ghost: samples since the last attempt: time and idle
    ended         \* ghost: failed and confirmed attempts of the current arm,
                  \* and when the last one ended

vars == <<now, arm, pending, samples, idleSince, lastSample, failures, retryAt,
          sync, seen, ended>>
counters == <<samples, idleSince, lastSample, failures, retryAt>>
ghosts == <<seen, ended>>

Never == MaxNow + Retry + 1      \* None of a time

Fresh == [failed |-> 0, confirmed |-> 0, at |-> Never]

Init ==
    /\ now = 0 /\ arm = 0 /\ pending = FALSE
    /\ samples = 0 /\ idleSince = Never /\ lastSample = Never
    /\ failures = 0 /\ retryAt = 0
    /\ sync = "rest"
    /\ seen = <<>> /\ ended = Fresh

\* _cancelled: set by cancel, which also ends pending; arming, which makes a
\* new one, never overlaps a synchronization.
cancelled == ~pending

Reset ==
    /\ samples' = 0 /\ idleSince' = Never /\ lastSample' = Never
    /\ failures' = 0 /\ retryAt' = 0

Tick ==
    /\ now < MaxNow /\ now' = now + 1
    /\ UNCHANGED <<arm, pending, counters, sync, ghosts>>

-----------------------------------------------------------------------------
(* The GUI thread.                                                         *)

\* After a connection was made, on the worker that would synchronize.
Arm ==
    /\ sync = "rest" /\ arm < MaxArms
    /\ arm' = arm + 1 /\ pending' = TRUE
    /\ Reset
    /\ seen' = <<>> /\ ended' = Fresh
    /\ UNCHANGED <<now, sync>>

\* Disconnecting, a lost connection, or the end of the application.
Cancel ==
    /\ pending
    /\ pending' = FALSE
    /\ Reset
    /\ UNCHANGED <<now, arm, sync, ghosts>>

\* Mutant: samples may be any time apart.
MutantAnyGap(idle) ==
    /\ pending /\ sync = "rest" /\ (lastSample = Never \/ lastSample < now)
    /\ LET start == IF ~idle THEN Never ELSE IF idleSince = Never THEN now ELSE idleSince
       IN idleSince' = start
    /\ samples' = IF ~idle THEN 0 ELSE samples + 1
    /\ lastSample' = now
    /\ seen' = Append(seen, [at |-> now, idle |-> idle])
    /\ UNCHANGED <<now, arm, pending, failures, retryAt, sync, ended>>

\* observe, with the result of a poll of the target.
Observe(idle) ==
    /\ pending /\ sync = "rest" /\ (lastSample = Never \/ lastSample < now)
    /\ LET again == ~idle \/ (lastSample # Never /\ now > lastSample + Gap)
           start == IF again THEN Never ELSE idleSince
           count == IF again THEN 0 ELSE samples
       IN /\ idleSince' = IF idle /\ start = Never THEN now ELSE start
          /\ samples' = IF idle THEN count + 1 ELSE count
    /\ lastSample' = now
    /\ seen' = Append(seen, [at |-> now, idle |-> idle])
    /\ UNCHANGED <<now, arm, pending, failures, retryAt, sync, ended>>

ready ==
    /\ pending /\ samples >= Samples
    /\ idleSince # Never /\ now >= idleSince + IdleTime
    /\ now >= retryAt
    /\ lastSample # Never /\ now <= lastSample + Gap

-----------------------------------------------------------------------------
(* synchronize, on the worker.                                             *)

Start ==
    /\ sync = "rest" /\ ready
    /\ sync' = "begin"
    /\ UNCHANGED <<now, arm, pending, counters, ghosts>>

\* Under the operation lock: nothing after a cancellation, and a model that
\* runs defers.
Begin ==
    /\ sync = "begin"
    /\ \/ ~cancelled /\ sync' = "probe"
       \/ sync' = "finally"
    /\ UNCHANGED <<now, arm, pending, counters, ghosts>>

\* The probe: idle and answered within a second, busy, or failing.
Probe ==
    /\ sync = "probe"
    /\ sync' \in {"check", "finally", "failed"}
    /\ UNCHANGED <<now, arm, pending, counters, ghosts>>

Check ==
    /\ sync = "check"
    /\ sync' = (IF cancelled THEN "finally" ELSE "apply")
    /\ UNCHANGED <<now, arm, pending, counters, ghosts>>

\* The helper: it defers when the target is not idle or a model runs, sets
\* the zone, hands a large offset to chrony, and may fail anywhere; its
\* answer may be lost after all was done.
Apply ==
    /\ sync = "apply"
    /\ sync' \in {"done", "finally", "failed"}
    /\ UNCHANGED <<now, arm, pending, counters, ghosts>>

Ends(failed, confirmed) ==
    ended' = [ended EXCEPT !.failed = @ + failed, !.confirmed = @ + confirmed]

\* A confirmed synchronization disarms.
Done ==
    /\ sync = "done"
    /\ IF cancelled THEN UNCHANGED <<pending, counters>>
       ELSE pending' = FALSE /\ Reset
    /\ Ends(0, 1)
    /\ sync' = "finally"
    /\ UNCHANGED <<now, arm, seen>>

\* Mutant: a failure is forgotten.
MutantNoCount ==
    /\ sync = "failed"
    /\ UNCHANGED <<pending, counters>>
    /\ Ends(1, 0)
    /\ sync' = "finally"
    /\ UNCHANGED <<now, arm, seen>>

\* A failure counts while the arm stands, and the last one disarms.
Failed ==
    /\ sync = "failed"
    /\ IF cancelled THEN UNCHANGED <<pending, counters>>
       ELSE IF failures + 1 >= MaxFailures THEN pending' = FALSE /\ Reset
       ELSE /\ failures' = failures + 1
            /\ UNCHANGED <<pending, samples, idleSince, lastSample, retryAt>>
    /\ Ends(1, 0)
    /\ sync' = "finally"
    /\ UNCHANGED <<now, arm, seen>>

Finally ==
    /\ sync = "finally"
    /\ IF cancelled THEN UNCHANGED counters
       ELSE /\ retryAt' = now + Retry
            /\ samples' = 0 /\ idleSince' = Never /\ lastSample' = Never
            /\ UNCHANGED failures
    /\ ended' = [ended EXCEPT !.at = now]
    /\ seen' = <<>>
    /\ sync' = "rest"
    /\ UNCHANGED <<now, arm, pending>>

Next ==
    \/ Tick \/ Arm \/ Cancel \/ (\E idle \in BOOLEAN : Observe(idle))
    \/ Start \/ Begin \/ Probe \/ Check \/ Apply
    \/ Done \/ Failed \/ Finally

Spec == Init /\ [][Next]_vars

-----------------------------------------------------------------------------
(* Properties.                                                             *)

\* When a synchronization may start, the samples since the connection was
\* made and since the last attempt end in enough idle ones that span the idle
\* time without a gap, and the last attempt is the retry time ago.
QuietBeforeSync ==
    sync = "rest" /\ ready =>
        /\ \E k \in DOMAIN seen :
            /\ Len(seen) - k + 1 >= Samples
            /\ \A i \in k..Len(seen) : seen[i].idle
            /\ \A i \in (k + 1)..Len(seen) : seen[i].at <= seen[i-1].at + Gap
            /\ now >= seen[k].at + IdleTime /\ now <= seen[Len(seen)].at + Gap
        /\ ended.at # Never => now >= ended.at + Retry

\* A connection is synchronized once at most, and after that, or after the
\* allowed failures, nothing more is tried: neither a lost answer nor an
\* attempt that outlives a cancellation brings more.
BoundedPerConnection ==
    /\ ended.confirmed <= 1 /\ ended.failed <= MaxFailures
    /\ ended.confirmed = 1 \/ ended.failed = MaxFailures => ~pending

=============================================================================
