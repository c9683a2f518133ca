-------------------------- MODULE NetworkTransaction --------------------------
(***************************************************************************)
(* An online change of the target's IPv4 configuration: the host asks for  *)
(* the change, a detached daemon undoes it at a deadline, and a second     *)
(* request confirms and saves it before.  The requests run as helper       *)
(* processes on the target; a request the host has given up on still runs. *)
(*                                                                         *)
(* A configuration is the number of the transaction that asked for it, 0   *)
(* for the first one, or Mixed when only a part of its commands or files   *)
(* took effect.  live is what the kernel has, files what Netplan boots.    *)
(* Each transaction has a directory under /run with its saved state, its   *)
(* lock and the marker "confirmed"; it is gone after a reboot.  Commands   *)
(* that run under the lock are one step: nobody else looks at their middle,*)
(* and a failure or a reboot there is a step that fails.                   *)
(***************************************************************************)
EXTENDS Integers

CONSTANTS
    MaxTransactions,    \* bound: requests for a change
    MaxReboots,         \* bound: reboots of the target
    Deadline,           \* 45 s
    Margin,             \* 2 s
    Overlap             \* a change is requested while an older one is pending

ASSUME NetworkAssumption ==
    /\ MaxTransactions \in Nat \ {0} /\ MaxReboots \in Nat
    /\ Deadline \in Nat /\ Margin \in Nat /\ Margin < Deadline
    /\ Overlap \in BOOLEAN

Transactions == 1..MaxTransactions
Mixed == -1
Configurations == 0..MaxTransactions \cup {Mixed}

VARIABLES
    live, files,
    waiting,    \* the transaction the host waits for, or 0
    configure,  \* where each transaction's configure request is
    confirm,    \* where its confirm request is
    daemon,     \* where its rollback daemon is
    saved,      \* its state.json: live and files before the change
    written,    \* transactions whose state.json says netplan_written
    marked,     \* transactions with the marker "confirmed"
    age,        \* time since it began, up to Deadline
    reboots

requestVars == <<waiting, configure, confirm>>
stateVars   == <<saved, written, marked>>
vars == <<live, files, requestVars, daemon, stateVars, age, reboots>>

ConfigurePoints == {"idle", "begun", "apply", "undo", "applied", "failed", "dead"}
ConfirmPoints   == {"idle", "sent", "persist", "unwind", "mark", "done", "failed", "dead"}
DaemonPoints    == {"none", "wait", "restore", "ended", "error", "dead"}

Init ==
    /\ live = 0 /\ files = 0
    /\ waiting = 0
    /\ configure = [t \in Transactions |-> "idle"]
    /\ confirm = [t \in Transactions |-> "idle"]
    /\ daemon = [t \in Transactions |-> "none"]
    /\ saved = [t \in Transactions |-> [live |-> 0, files |-> 0]]
    /\ written = {} /\ marked = {}
    /\ age = [t \in Transactions |-> 0]
    /\ reboots = 0

Begun == {t \in Transactions : configure[t] # "idle"}

\* The directory exists; only the daemon removes it.
Directory(t) == daemon[t] \in {"wait", "restore", "error"}

\* Mutant of Locked: confirm does not take the lock.
LockedWithoutConfirm(t) == configure[t] \in {"apply", "undo"} \/ daemon[t] = "restore"

\* A helper of this transaction holds its lock.
Locked(t) ==
    \/ configure[t] \in {"apply", "undo"}
    \/ confirm[t] \in {"persist", "unwind", "mark"}
    \/ daemon[t] = "restore"

InTime(t) == age[t] < Deadline - Margin

\* What the kernel has after commands that lead from one configuration to another,
\* when one of them failed; and the files, each of which is replaced as a whole.
PartOf(from, to)      == {from, to, Mixed}
PartOfFiles(from, to) == IF from = to THEN {to} ELSE {from, to, Mixed}

-----------------------------------------------------------------------------
(* The host (NetworkConfiguration.configure).                              *)

\* The change is requested and begins: validation, the saved state, the daemon.
\* Nothing in the code keeps a change from beginning while another is pending.
HostConfigure(t) ==
    /\ waiting = 0
    /\ Begun = 1..(t - 1)
    /\ Overlap \/ \A s \in Begun : daemon[s] \notin {"wait", "restore"}
    /\ waiting' = t
    /\ configure' = [configure EXCEPT ![t] = "begun"]
    /\ daemon' = [daemon EXCEPT ![t] = "wait"]
    /\ saved' = [saved EXCEPT ![t] = [live |-> live, files |-> files]]
    /\ UNCHANGED <<live, files, confirm, written, marked, age, reboots>>

\* The answer to configure has arrived: the second request follows.
HostConfirm(t) ==
    /\ waiting = t
    /\ configure[t] = "applied" /\ confirm[t] = "idle"
    /\ confirm' = [confirm EXCEPT ![t] = "sent"]
    /\ UNCHANGED <<live, files, waiting, configure, daemon, stateVars, age, reboots>>

\* The host reports success or failure, or gives up on an answer that is late
\* or lost; what runs on the target goes on.
HostReturns ==
    /\ waiting # 0
    /\ waiting' = 0
    /\ UNCHANGED <<live, files, configure, confirm, daemon, stateVars, age, reboots>>

-----------------------------------------------------------------------------
(* configure on the target.                                                *)

ConfigureLock(t) ==
    /\ configure[t] = "begun"
    /\ Directory(t) /\ ~Locked(t)
    /\ configure' = [configure EXCEPT ![t] = "apply"]
    /\ UNCHANGED <<live, files, waiting, confirm, daemon, stateVars, age, reboots>>

\* Link, addresses, default route, and a look at the result.
Apply(t) ==
    /\ configure[t] = "apply"
    /\ \/ /\ live' = t
          /\ configure' = [configure EXCEPT ![t] = "applied"]
       \/ /\ live' \in PartOf(live, t)
          /\ configure' = [configure EXCEPT ![t] = "undo"]
    /\ UNCHANGED <<files, waiting, confirm, daemon, stateVars, age, reboots>>

\* restore, after which the daemon has nothing left to do; when restore itself
\* fails the daemon tries again.
Undo(t) ==
    /\ configure[t] = "undo"
    /\ \/ live' = saved[t].live /\ marked' = marked \cup {t}
       \/ live' \in PartOf(live, saved[t].live) /\ UNCHANGED marked
    /\ configure' = [configure EXCEPT ![t] = "failed"]
    /\ UNCHANGED <<files, waiting, confirm, daemon, saved, written, age, reboots>>

-----------------------------------------------------------------------------
(* confirm on the target.                                                  *)

\* The directory, the time and the live configuration are looked at.
ConfirmLock(t) ==
    /\ confirm[t] = "sent"
    /\ ~Locked(t)
    /\ confirm' = [confirm EXCEPT ![t] =
            IF Directory(t) /\ InTime(t) /\ live = t THEN "persist" ELSE "failed"]
    /\ UNCHANGED <<live, files, waiting, configure, daemon, stateVars, age, reboots>>

\* persist_netplan: files that changed meanwhile are refused; before the first
\* one is replaced, state.json says so.
Persist(t) ==
    /\ confirm[t] = "persist"
    /\ \/ /\ files # saved[t].files
          /\ confirm' = [confirm EXCEPT ![t] = "failed"]
          /\ UNCHANGED <<files, written>>
       \/ /\ files = saved[t].files
          /\ written' = written \cup {t}
          /\ \/ files' = t /\ confirm' = [confirm EXCEPT ![t] = "mark"]
             \/ files' \in PartOfFiles(files, t) /\ confirm' = [confirm EXCEPT ![t] = "unwind"]
    /\ UNCHANGED <<live, waiting, configure, daemon, saved, marked, age, reboots>>

\* restore_netplan in the except clause; it may fail as well.
Unwind(t) ==
    /\ confirm[t] = "unwind"
    /\ files' \in PartOfFiles(files, saved[t].files)
    /\ confirm' = [confirm EXCEPT ![t] = "failed"]
    /\ UNCHANGED <<live, waiting, configure, daemon, stateVars, age, reboots>>

\* Mutant of Mark: the lock is kept when the time has run out.
MarkKeepsLock(t) ==
    /\ confirm[t] = "mark"
    /\ InTime(t)
    /\ marked' = marked \cup {t}
    /\ confirm' = [confirm EXCEPT ![t] = "done"]
    /\ UNCHANGED <<live, files, waiting, configure, daemon, saved, written, age, reboots>>

\* The time is looked at once more.
Mark(t) ==
    /\ confirm[t] = "mark"
    /\ marked' = IF InTime(t) THEN marked \cup {t} ELSE marked
    /\ confirm' = [confirm EXCEPT ![t] = IF InTime(t) THEN "done" ELSE "failed"]
    /\ UNCHANGED <<live, files, waiting, configure, daemon, saved, written, age, reboots>>

-----------------------------------------------------------------------------
(* The rollback daemon.                                                    *)

DaemonSees(t) ==
    /\ daemon[t] = "wait"
    /\ t \in marked
    /\ daemon' = [daemon EXCEPT ![t] = "ended"]
    /\ UNCHANGED <<live, files, requestVars, stateVars, age, reboots>>

\* Mutant of DaemonLock: the marker is not looked at again under the lock.
DaemonLockUnchecked(t) ==
    /\ daemon[t] = "wait"
    /\ age[t] = Deadline
    /\ ~Locked(t)
    /\ daemon' = [daemon EXCEPT ![t] = "restore"]
    /\ UNCHANGED <<live, files, requestVars, stateVars, age, reboots>>

DaemonLock(t) ==
    /\ daemon[t] = "wait"
    /\ age[t] = Deadline
    /\ ~Locked(t)
    /\ daemon' = [daemon EXCEPT ![t] = IF t \in marked THEN "ended" ELSE "restore"]
    /\ UNCHANGED <<live, files, requestVars, stateVars, age, reboots>>

\* Mutant of Restored: state.json as the daemon read it when it started.
RestoredStale(t) == files

\* The files a daemon puts back: state.json is read again under the lock.
Restored(t) == IF t \in written THEN saved[t].files ELSE files

\* restore; after a failure rollback-error.txt is left and the daemon ends.
DaemonRestore(t) ==
    /\ daemon[t] = "restore"
    /\ \/ /\ live' = saved[t].live /\ files' = Restored(t)
          /\ daemon' = [daemon EXCEPT ![t] = "ended"]
       \/ /\ live' \in PartOf(live, saved[t].live)
          /\ files' \in PartOfFiles(files, Restored(t))
          /\ daemon' = [daemon EXCEPT ![t] = "error"]
    /\ UNCHANGED <<requestVars, stateVars, age, reboots>>

-----------------------------------------------------------------------------
\* Time passes for every pending transaction.  configure takes its lock within
\* the deadline: only a few commands come before.
Tick ==
    /\ \E t \in Begun : age[t] < Deadline
    /\ \A t \in Begun : configure[t] = "begun" => age[t] + 1 < Deadline
    /\ age' = [t \in Transactions |->
            IF t \in Begun /\ age[t] < Deadline THEN age[t] + 1 ELSE age[t]]
    /\ UNCHANGED <<live, files, requestVars, daemon, stateVars, reboots>>

\* The target (external) loses power or restarts: what runs ends, /run is empty,
\* and the kernel has what the files say.
Reboot ==
    /\ reboots < MaxReboots
    /\ reboots' = reboots + 1
    /\ live' = files
    /\ waiting' = 0
    /\ configure' = [t \in Transactions |->
            IF configure[t] \in {"begun", "apply", "undo"} THEN "dead" ELSE configure[t]]
    /\ confirm' = [t \in Transactions |->
            IF confirm[t] \in {"sent", "persist", "unwind", "mark"} THEN "dead" ELSE confirm[t]]
    /\ daemon' = [t \in Transactions |-> IF Directory(t) THEN "dead" ELSE daemon[t]]
    /\ UNCHANGED <<files, stateVars, age>>

Configure(t) == ConfigureLock(t) \/ Apply(t) \/ Undo(t)
Confirm(t)   == ConfirmLock(t) \/ Persist(t) \/ Unwind(t) \/ Mark(t)
Daemon(t)    == DaemonSees(t) \/ DaemonLock(t) \/ DaemonRestore(t)

Next ==
    \/ \E t \in Transactions :
            \/ HostConfigure(t) \/ HostConfirm(t)
            \/ Configure(t) \/ Confirm(t) \/ Daemon(t)
    \/ HostReturns \/ Tick \/ Reboot

\* Every helper and the daemon is a process that runs, every command in it has a
\* timeout, and time passes.  The host need not do anything.
Fairness ==
    /\ WF_vars(Tick)
    /\ \A t \in Transactions :
            WF_vars(Configure(t)) /\ WF_vars(Confirm(t)) /\ WF_vars(Daemon(t))

Spec == Init /\ [][Next]_vars /\ Fairness

-----------------------------------------------------------------------------
(* Properties.                                                             *)

\* Every variable has a value of its type, and at most one helper of a
\* transaction is inside the lock.
TypeOK ==
    /\ live \in Configurations /\ files \in Configurations
    /\ waiting \in Begun \cup {0}
    /\ configure \in [Transactions -> ConfigurePoints]
    /\ confirm \in [Transactions -> ConfirmPoints]
    /\ daemon \in [Transactions -> DaemonPoints]
    /\ saved \in [Transactions -> [live: Configurations, files: Configurations]]
    /\ written \subseteq Begun /\ marked \subseteq Begun
    /\ age \in [Transactions -> 0..Deadline]
    /\ reboots \in 0..MaxReboots
    /\ \A t \in Transactions :
            confirm[t] \in {"persist", "unwind", "mark"} => daemon[t] = "wait"

Newest(t) == Begun = 1..t

\* A change whose confirm has returned stays, in the kernel and in the files, across
\* the deadline and reboots, until the next change is requested (confirm, rollback).
ConfirmedStays ==
    \A t \in Begun : Newest(t) /\ confirm[t] = "done" => live = t /\ files = t

\* When the daemon has ended without an error, a change that was not confirmed has
\* left nothing behind, in the kernel or in the files, whatever step of configure
\* or confirm failed (restore, restore_netplan); a reboot after that loads the
\* files.  Of a daemon that a reboot has ended it says nothing: RebootsConfirmed
\* does.
UnconfirmedUndone ==
    \A t \in Begun :
        Newest(t) /\ daemon[t] = "ended" /\ confirm[t] # "done" =>
            /\ files = saved[t].files
            /\ live = saved[t].live \/ (reboots > 0 /\ live = files)

\* No change stays pending: it ends up confirmed or undone, its rollback reports
\* an error, or the target reboots.
ChangeSettles ==
    \A t \in Transactions :
        daemon[t] = "wait" ~> daemon[t] \in {"ended", "error", "dead"}

\* After a reboot that ended the daemon too the target runs a configuration that
\* was confirmed, or the one it had before any change: a change that nobody
\* confirmed is not booted.  The files are replaced before the marker is written
\* (confirm, persist_netplan), so a reboot between the two breaks it.
RebootsConfirmed ==
    \A t \in Begun :
        Newest(t) /\ daemon[t] = "dead" =>
            live \in {0} \cup {s \in Begun : confirm[s] = "done"}
=============================================================================
