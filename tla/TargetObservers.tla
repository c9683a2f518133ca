--------------------------- MODULE TargetObservers ---------------------------
(***************************************************************************)
(* The two programs that look at a running model from outside: the target  *)
(* console (linux/console/simrt_console.py) and the host's resource page   *)
(* through pyxcp_host/services/target_monitor.py.  Both put together, from *)
(* several reads of /proc and of files, a statement about one process,     *)
(* while models start, stall, crash and reuse process ids, the machine     *)
(* reboots and its clock is set.                                           *)
(*                                                                         *)
(* One ELF is followed.  A tick is five seconds, the age at which the      *)
(* console takes a status for stale; "inc" numbers the processes of the    *)
(* ELF and stands for the start time in /proc/<pid>/stat.                  *)
(***************************************************************************)
EXTENDS Integers, FiniteSets

CONSTANTS
    Pids,
    MaxAge,       \* ticks after which a status is stale
    MaxNow,       \* bound of the model: ticks after a boot
    MaxStarts     \* bound of the model: processes of the ELF

\* The kernel hands out a process id again only when more than MaxAge ticks
\* have passed, or after a reboot; a reboot takes that long, leaves the clock
\* later than the files on the disk, and from then on it is not set back.  A
\* round of the console is shorter than the age of a stale status.
ObserversAssumption ==
    0 \notin Pids /\ MaxAge \in Nat \ {0} /\ MaxNow \in Nat /\ MaxStarts \in Nat

VARIABLES
    follows,             \* the program a behaviour is about: neither changes what the
                         \* other reads, so the files of the other are left out
    now, wall, booted,   \* monotonic and wall clock, and whether there was a reboot
    proc,                \* the process of the ELF
    freed,               \* pid -> when its last process ended
    starts,              \* processes so far
    status,              \* <elf>.simrt-status.json
    marker,              \* <elf>.pyxcp-host.json, what the deployment has started
    c,                   \* the console: what it has read in this round
    shown,               \* what is on the screen
    m,                   \* the monitor: what it has read in this scan
    listed               \* its answer

machine == <<now, wall, booted, proc, freed, starts, status, marker>>
console == <<c, shown>>
monitor == <<m, listed, follows>>
vars == <<machine, console, monitor>>

None == [pid |-> 0, mtime |-> 0]
NoRound == [at |-> "idle"]

Init ==
    /\ follows \in {"console", "monitor"}
    /\ now = 0 /\ wall = 0 /\ booted = FALSE
    /\ proc = None /\ freed = [p \in Pids |-> -MaxAge - 1] /\ starts = 0
    /\ status = None /\ marker = None
    /\ c = NoRound /\ shown = [state |-> "IDLE"]
    /\ m = NoRound /\ listed = [running |-> FALSE, owned |-> FALSE]

Alive == proc # None

-----------------------------------------------------------------------------
(* The model's process, which other modules have in detail.                *)

Start ==
    /\ ~Alive /\ starts < MaxStarts
    /\ \E p \in Pids :
        /\ now - freed[p] > MaxAge
        /\ proc' = [pid |-> p, inc |-> starts + 1,
                    completed |-> 0, sampled |-> now]
    /\ starts' = starts + 1
    /\ UNCHANGED <<now, wall, booted, freed, status, marker, console, monitor>>

\* The deployment names the process it has started.
Mark ==
    /\ Alive /\ follows = "monitor" /\ marker' = [pid |-> proc.pid, inc |-> proc.inc]
    /\ UNCHANGED <<now, wall, booted, proc, freed, starts, status, console, monitor>>

\* A step of the model samples its statistics, the status thread writes what was
\* sampled last.
Step ==
    /\ Alive
    /\ proc' = [proc EXCEPT !.completed = 1, !.sampled = now]
    /\ UNCHANGED <<now, wall, booted, freed, starts, status, marker, console, monitor>>
WriteStatus(stopped) ==
    /\ Alive /\ follows = "console"
    /\ status' = [pid |-> proc.pid, inc |-> proc.inc, mtime |-> wall, sample |-> proc.sampled,
                  completed |-> proc.completed,
                  state |-> IF stopped THEN "STOPPED"
                            ELSE IF proc.completed = 0 THEN "STARTING" ELSE "RUNNING"]
    /\ UNCHANGED <<now, wall, booted, proc, freed, starts, marker, console, monitor>>
End ==
    /\ Alive /\ proc' = None /\ freed' = [freed EXCEPT ![proc.pid] = now]
    /\ UNCHANGED <<now, wall, booted, starts, status, marker, console, monitor>>

\* A round of the console ends within two ticks.
Tick ==
    /\ now < MaxNow /\ (c.at # "idle" => c.monotonic = now) /\ now' = now + 1 /\ wall' = wall + 1
    /\ UNCHANGED <<booted, proc, freed, starts, status, marker, console, monitor>>
SetClock ==
    /\ ~booted /\ wall # 0 /\ wall' = 0
    /\ UNCHANGED <<now, booted, proc, freed, starts, status, marker, console, monitor>>
Reboot ==
    /\ ~booted /\ booted' = TRUE /\ now' = 0
    /\ wall' = 2 * (MaxNow + 1) + MaxAge
    /\ proc' = None /\ freed' = [p \in Pids |-> -MaxAge - 1]
    /\ c' = NoRound /\ shown' = [state |-> "IDLE"]
    /\ m' = NoRound
    /\ UNCHANGED <<starts, status, marker, listed, follows>>

-----------------------------------------------------------------------------
(* The console.                                                            *)

\* collect takes the clocks, _processes finds the process by its exe link.
Collect ==
    /\ c.at = "idle" /\ follows = "console"
    /\ IF Alive
       THEN /\ c' = [at |-> "stat", pid |-> proc.pid, inc |-> proc.inc, now |-> wall, monotonic |-> now]
            /\ UNCHANGED shown
       ELSE shown' = [state |-> "IDLE"] /\ UNCHANGED c
    /\ UNCHANGED <<machine, monitor>>

\* Its stat; a process that is gone by now is left out, and so is here one that
\* is shown as paused.
ReadStat ==
    /\ c.at = "stat"
    /\ IF Alive /\ proc.pid = c.pid
       THEN c' = [at |-> "status", pid |-> c.pid, inc |-> proc.inc, now |-> c.now,
                  monotonic |-> c.monotonic]
            /\ UNCHANGED shown
       ELSE c' = NoRound /\ shown' = [state |-> "IDLE"]
    /\ UNCHANGED <<machine, monitor>>

Content == [status EXCEPT !.mtime = 0]
\* _telemetry: the content of the status and then its time stamp, of a file that
\* is replaced ten times a second.
ReadStatus ==
    /\ c.at = "status"
    /\ c' = [at |-> "mtime", pid |-> c.pid, inc |-> c.inc, now |-> c.now,
             monotonic |-> c.monotonic, status |-> Content]
    /\ UNCHANGED <<machine, shown, monitor>>
Fresh(age) == age \in 0..MaxAge
MutantNoSample(mtime) ==
    IF c.status.pid # c.pid THEN "UNVERIFIED"
    ELSE IF ~Fresh(c.now - mtime) THEN "STALE"
    ELSE c.status.state

Verdict(mtime) ==
    IF c.status.pid # c.pid THEN "UNVERIFIED"
    ELSE IF ~Fresh(c.now - mtime) \/ ~Fresh(c.monotonic - c.status.sample) THEN "STALE"
    ELSE IF c.status.state = "RUNNING" /\ c.status.completed = 0 THEN "STARTING"
    ELSE c.status.state

Show ==
    /\ c.at = "mtime"
    /\ LET state == Verdict(status.mtime)
       IN shown' = IF state # "RUNNING" THEN [state |-> state]
                   ELSE [state |-> state, own |-> c.status.inc = c.inc, torn |-> Content # c.status,
                         live |-> /\ c.status.completed > 0
                                  /\ c.monotonic - c.status.sample \in 0..MaxAge]
    /\ c' = NoRound
    /\ UNCHANGED <<machine, monitor>>

-----------------------------------------------------------------------------
(* The monitor.                                                            *)

\* process_map, then for the ELF is_owned with the identities found before.
Scan ==
    /\ m.at = "idle" /\ follows = "monitor"
    /\ m' = [at |-> "owned", found |-> IF Alive THEN {[pid |-> proc.pid, inc |-> proc.inc]} ELSE {}]
    /\ UNCHANGED <<machine, console, listed, follows>>
MutantPidOnly(identities) == \E i \in identities : marker # None /\ i.pid = marker.pid

IsOwned(identities) == \E i \in identities : marker # None /\ marker = i

ListModels ==
    /\ m.at = "owned"
    /\ listed' = [running |-> m.found # {}, owned |-> IsOwned(m.found), found |-> m.found,
                  marker |-> marker]
    /\ m' = NoRound
    /\ UNCHANGED <<machine, console, follows>>

Next ==
    \/ Start \/ Mark \/ Step \/ (\E b \in BOOLEAN : WriteStatus(b)) \/ End
    \/ Tick \/ SetClock \/ Reboot
    \/ Collect \/ ReadStat \/ ReadStatus \/ Show
    \/ Scan \/ ListModels

Spec == Init /\ [][Next]_vars

-----------------------------------------------------------------------------
\* The console calls a process RUNNING on the word of that very process, about a
\* step it completed a moment ago: never on a file left by an earlier process,
\* by an earlier boot or by a runtime that has stalled, whatever changed between
\* the console's reads (_telemetry) except the status file itself.
RunningIsTrue == shown.state = "RUNNING" => shown.live /\ (shown.own \/ shown.torn)

\* The same without the exception, as the tests have it: data of another process
\* is never shown.
NeverFake == shown.state = "RUNNING" => shown.own

\* "owned" is said of the process the deployment's marker names and that was
\* there in this scan, not of one that has inherited its pid (is_owned).
OwnedIsTrue == listed.owned => \E i \in listed.found : i.inc = listed.marker.inc

=============================================================================
