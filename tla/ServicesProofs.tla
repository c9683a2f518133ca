--------------------------- MODULE ServicesProofs ---------------------------
(***************************************************************************)
(* The services and programs around a model: proofs about the network      *)
(* transaction and about MCServices, for every value of the constants.     *)
(*                                                                         *)
(* Network changes that do not overlap: a confirmed one stays and any      *)
(* other one is undone.  Without overlap nobody but the newest change      *)
(* touches the kernel or the files; what they hold is known at each point  *)
(* of its helpers and its daemon, who exclude each other by the lock, by   *)
(* the order in which they begin and by the marker.                        *)
(*                                                                         *)
(* The parts of MCServices have an inductive invariant each (DelInv,       *)
(* ClkInv, BuildInv, BunInv, ObsInv): what a process has read and not yet  *)
(* used, and how far that can be behind what is there now.                 *)
(*                                                                         *)
(* The sample store is sequential; its invariant StoreInv says that each   *)
(* ring is the ring of its history.  What its recursive functions return   *)
(* follows without an induction rule: the least number at which a claim    *)
(* fails would have a predecessor (LeastOf, InductionUpto).                *)
(***************************************************************************)
EXTENDS NetworkTransaction, MCServices, SequenceTheorems, FiniteSetTheorems,
        WellFoundedInduction, TLAPS

-----------------------------------------------------------------------------
(* Network changes that do not overlap.                                    *)

\* The types the proof needs.
Typed ==
    /\ live \in Configurations /\ files \in Configurations
    /\ configure \in [Transactions -> ConfigurePoints]
    /\ confirm \in [Transactions -> ConfirmPoints]
    /\ daemon \in [Transactions -> DaemonPoints]
    /\ saved \in [Transactions -> [live: Configurations, files: Configurations]]
    /\ age \in [Transactions -> 0..Deadline]
    /\ reboots \in Nat

\* The order in which the processes of a change begin and end.
Order(t) ==
    /\ daemon[t] = "none" => configure[t] = "idle"
    /\ configure[t] = "idle" => confirm[t] = "idle" /\ daemon[t] = "none"
    /\ confirm[t] # "idle" => configure[t] = "applied"
    /\ configure[t] \in {"begun", "apply", "undo"} => daemon[t] = "wait"
    /\ configure[t] = "begun" => age[t] < Deadline
    /\ confirm[t] \in {"persist", "unwind", "mark"} => daemon[t] = "wait"
    /\ daemon[t] \in {"restore", "error"} => age[t] = Deadline
    /\ daemon[t] \in {"wait", "restore", "error"} => confirm[t] # "dead" /\ configure[t] # "dead"
    /\ daemon[t] \in {"wait", "restore"} => Newest(t)
    /\ daemon[t] \in {"restore", "error"} => confirm[t] # "done"

\* Nothing of the change is in the files or in state.json.
NotPersisted(t) == files = saved[t].files /\ t \notin written

\* What the kernel and the files hold while the daemon of the newest change waits.
Waiting(t) ==
    /\ configure[t] \in {"begun", "apply"} =>
         live = saved[t].live /\ NotPersisted(t) /\ t \notin marked
    /\ configure[t] = "undo" => NotPersisted(t) /\ t \notin marked
    /\ configure[t] = "failed" => NotPersisted(t) /\ (t \in marked => live = saved[t].live)
    /\ configure[t] = "applied" =>
         /\ live = t
         /\ confirm[t] \in {"idle", "sent", "persist"} => NotPersisted(t) /\ t \notin marked
         /\ confirm[t] = "mark" => files = t /\ t \in written /\ t \notin marked
         /\ confirm[t] = "unwind" => t \in written /\ t \notin marked
         /\ confirm[t] = "failed" =>
              t \notin marked /\ (t \notin written => files = saved[t].files)
         /\ confirm[t] = "done" => files = t /\ t \in marked

\* What they hold while it rolls back and after it.
Settled(t) ==
    /\ daemon[t] = "restore" /\ t \notin written => files = saved[t].files
    /\ daemon[t] \in {"ended", "dead"} /\ confirm[t] = "done" => live = t /\ files = t
    /\ daemon[t] = "ended" /\ confirm[t] # "done" =>
         /\ files = saved[t].files
         /\ live = saved[t].live \/ (reboots > 0 /\ live = files)

\* Nothing is known of a change that has not begun.
Unbegun ==
    /\ written \subseteq Begun /\ marked \subseteq Begun
    /\ \A t \in Transactions \ Begun : age[t] = 0

IInv ==
    /\ Typed /\ Unbegun
    /\ \E n \in 0..MaxTransactions : Begun = 1..n
    /\ \A t \in Transactions : Order(t)
    /\ \A t \in Transactions :
         Newest(t) => (daemon[t] = "wait" => Waiting(t)) /\ Settled(t)

\* Begun as a function of the state of configure.
LEMMA BegunSame ==
    ASSUME NEW t \in Transactions, configure \in [Transactions -> ConfigurePoints],
           NEW p \in ConfigurePoints \ {"idle"},
           configure[t] # "idle", configure' = [configure EXCEPT ![t] = p]
    PROVE  Begun' = Begun
  BY DEF Begun

\* A change of the kernel, the files and the processes of one change that is under way.
LEMMA StepOfNewest ==
    ASSUME IInv, NEW t \in Transactions, Newest(t),
           Typed', Begun' = Begun, reboots' = reboots,
           \A s \in Transactions : s # t =>
             /\ configure'[s] = configure[s] /\ confirm'[s] = confirm[s]
             /\ daemon'[s] = daemon[s] /\ age'[s] = age[s],
           written' \subseteq written \cup {t}, marked' \subseteq marked \cup {t},
           Order(t)', daemon'[t] = "wait" => Waiting(t)', Settled(t)'
    PROVE  IInv'
  <1>1. \A s \in Transactions : Newest(s)' <=> Newest(s)
    BY DEF Newest
  <1>2. ASSUME NEW s \in Transactions PROVE Order(s)'
    <2>1. CASE s = t
      BY <2>1
    <2>2. CASE s # t
      BY <1>1, <2>2 DEF IInv, Order
    <2>3. QED  BY <2>1, <2>2
  <1>3. ASSUME NEW s \in Transactions, Newest(s)' PROVE s = t
    <2>1. Begun = 1..s /\ Begun = 1..t
      BY <1>1, <1>3 DEF Newest
    <2>2. s \in 1..t /\ t \in 1..s
      BY <2>1 DEF Transactions
    <2>3. QED  BY <2>2 DEF Transactions
  <1>4. t \in Begun
    BY DEF Newest, Transactions
  <1>5. Unbegun'
    BY <1>4 DEF IInv, Unbegun, Typed
  <1>6. QED  BY <1>2, <1>3, <1>5 DEF IInv

\* Those who work on a change work on the newest one.
LEMMA Active ==
    ASSUME IInv, NEW t \in Transactions,
           \/ configure[t] \in {"begun", "apply", "undo"}
           \/ confirm[t] \in {"persist", "unwind", "mark"}
           \/ daemon[t] \in {"wait", "restore"}
    PROVE  Newest(t) /\ Order(t) /\ (daemon[t] = "wait" => Waiting(t)) /\ Settled(t)
  BY DEF IInv, Order

-----------------------------------------------------------------------------
(* configure.                                                              *)

LEMMA ConfigureStep ==
    ASSUME IInv, NEW t \in Transactions, Configure(t)
    PROVE  IInv'
  <1>1. Typed /\ Newest(t) /\ Order(t) /\ daemon[t] = "wait" /\ Waiting(t)
        /\ configure[t] \in {"begun", "apply", "undo"} /\ confirm[t] = "idle"
    BY Active DEF Configure, ConfigureLock, Apply, Undo, IInv, Order
  <1>2. PICK p \in ConfigurePoints \ {"idle"} : configure' = [configure EXCEPT ![t] = p]
    BY DEF Configure, ConfigureLock, Apply, Undo, ConfigurePoints
  <1>3. /\ UNCHANGED <<files, waiting, confirm, daemon, saved, written, age, reboots>>
        /\ configure'[t] = p /\ configure' \in [Transactions -> ConfigurePoints]
        /\ \A s \in Transactions : s # t => configure'[s] = configure[s]
    BY <1>1, <1>2 DEF Configure, ConfigureLock, Apply, Undo, stateVars, Typed
  <1>typed. live' \in Configurations /\ files' \in Configurations
        /\ written' \subseteq written \cup {t} /\ marked' \subseteq marked \cup {t}
    <2>1. t \in Configurations /\ Mixed \in Configurations
          /\ saved[t].live \in Configurations /\ saved[t].files \in Configurations
      BY <1>1, NetworkAssumption DEF Typed, Configurations, Transactions
    <2>2. QED
      BY <1>1, <1>3, <2>1 DEF Configure, ConfigureLock, Apply, Undo, PartOf, Typed, stateVars
  <1>4. Typed' /\ Begun' = Begun /\ Newest(t)'
    BY <1>1, <1>2, <1>3, <1>typed, BegunSame DEF Typed, Newest
  <1>5. p \in {"apply", "applied", "undo", "failed"}
    BY <1>1, <1>2, <1>3 DEF Configure, ConfigureLock, Apply, Undo
  <1>6. Order(t)'
    BY <1>1, <1>3, <1>4, <1>5 DEF Order
  <1>7. Settled(t)'
    BY <1>1, <1>3 DEF Settled
  <1>8. Waiting(t)'
    <2>1. CASE ConfigureLock(t)
      BY <1>1, <1>3, <2>1 DEF ConfigureLock, Waiting, NotPersisted, stateVars, Typed
    <2>2. CASE Apply(t)
      BY <1>1, <1>3, <2>2 DEF Apply, Waiting, NotPersisted, stateVars, Typed
    <2>3. CASE Undo(t)
      BY <1>1, <1>3, <2>3 DEF Undo, Waiting, NotPersisted, Typed
    <2>4. QED  BY <2>1, <2>2, <2>3 DEF Configure
  <1>9. QED  BY <1>1, <1>3, <1>4, <1>6, <1>7, <1>8, <1>typed, StepOfNewest

-----------------------------------------------------------------------------
(* confirm.                                                                *)

\* A request that finds no change waiting does nothing.
LEMMA LateConfirm ==
    ASSUME IInv, NEW t \in Transactions, ConfirmLock(t), daemon[t] # "wait"
    PROVE  IInv'
  <1>1. Typed /\ Order(t) /\ confirm[t] = "sent"
    BY DEF IInv, ConfirmLock
  <1>2. ~(Directory(t) /\ InTime(t))
    BY <1>1, NetworkAssumption DEF Order, Directory, InTime, ConfirmLock, Locked, Typed
  <1>3. confirm' = [confirm EXCEPT ![t] = "failed"]
    BY <1>2 DEF ConfirmLock
  <1>4. UNCHANGED <<live, files, waiting, configure, daemon, saved, written, marked, age, reboots>>
    BY DEF ConfirmLock, stateVars
  <1>5. /\ Typed' /\ confirm'[t] = "failed"
        /\ \A s \in Transactions : s # t => confirm'[s] = confirm[s]
    BY <1>1, <1>3, <1>4 DEF Typed, ConfirmPoints
  <1>6. Unbegun' /\ Begun' = Begun /\ \A s \in Transactions : Newest(s)' = Newest(s)
    BY <1>4 DEF Begun, Newest, Unbegun, IInv
  <1>7. ASSUME NEW s \in Transactions PROVE Order(s)'
    BY <1>1, <1>4, <1>5, <1>6 DEF IInv, Order
  <1>8. ASSUME NEW s \in Transactions, Newest(s)'
        PROVE  (daemon'[s] = "wait" => Waiting(s)') /\ Settled(s)'
    <2>1. Newest(s)
      BY <1>6, <1>8
    <2>2. CASE s = t
      BY <1>1, <1>4, <1>5, <2>1, <2>2 DEF IInv, Settled
    <2>3. CASE s # t
      BY <1>4, <1>5, <2>1, <2>3 DEF IInv, Waiting, NotPersisted, Settled
    <2>4. QED  BY <2>2, <2>3
  <1>9. QED  BY <1>5, <1>6, <1>7, <1>8 DEF IInv

LEMMA ConfirmStep ==
    ASSUME IInv, NEW t \in Transactions, Confirm(t), daemon[t] = "wait"
    PROVE  IInv'
  <1>1. Typed /\ Newest(t) /\ Order(t) /\ daemon[t] = "wait" /\ Waiting(t)
        /\ confirm[t] \in {"sent", "persist", "unwind", "mark"} /\ configure[t] = "applied"
    BY Active DEF Confirm, ConfirmLock, Persist, Unwind, Mark, IInv, Order
  <1>2. PICK p \in ConfirmPoints : confirm' = [confirm EXCEPT ![t] = p]
    BY DEF Confirm, ConfirmLock, Persist, Unwind, Mark, ConfirmPoints
  <1>3. /\ UNCHANGED <<live, waiting, configure, daemon, saved, age, reboots>>
        /\ confirm'[t] = p /\ confirm' \in [Transactions -> ConfirmPoints]
        /\ \A s \in Transactions : s # t => confirm'[s] = confirm[s]
    BY <1>1, <1>2 DEF Confirm, ConfirmLock, Persist, Unwind, Mark, stateVars, Typed
  <1>typed. live' \in Configurations /\ files' \in Configurations
        /\ written' \subseteq written \cup {t} /\ marked' \subseteq marked \cup {t}
    <2>1. t \in Configurations /\ Mixed \in Configurations
          /\ saved[t].live \in Configurations /\ saved[t].files \in Configurations
      BY <1>1, NetworkAssumption DEF Typed, Configurations, Transactions
    <2>2. QED
      BY <1>1, <1>3, <2>1 DEF Confirm, ConfirmLock, Persist, Unwind, Mark, PartOfFiles, Typed,
                              stateVars
  <1>4. Typed' /\ Begun' = Begun /\ Newest(t)'
    BY <1>1, <1>3, <1>typed DEF Typed, Newest, Begun
  <1>5. p \in {"persist", "unwind", "mark", "done", "failed"}
    BY <1>1, <1>2, <1>3 DEF Confirm, ConfirmLock, Persist, Unwind, Mark
  <1>6. Order(t)'
    BY <1>1, <1>3, <1>4, <1>5 DEF Order
  <1>7. Settled(t)'
    BY <1>1, <1>3 DEF Settled
  <1>8. Waiting(t)'
    <2>1. CASE ConfirmLock(t)
      BY <1>1, <1>2, <1>3, <2>1 DEF ConfirmLock, Waiting, NotPersisted, stateVars
    <2>2. CASE Persist(t)
      BY <1>1, <1>2, <1>3, <2>2 DEF Persist, Waiting, NotPersisted
    <2>3. CASE Unwind(t)
      BY <1>1, <1>2, <1>3, <2>3 DEF Unwind, Waiting, NotPersisted, stateVars
    <2>4. CASE Mark(t)
      BY <1>1, <1>2, <1>3, <2>4 DEF Mark, Waiting, NotPersisted
    <2>5. QED  BY <2>1, <2>2, <2>3, <2>4 DEF Confirm
  <1>9. QED  BY <1>1, <1>3, <1>4, <1>6, <1>7, <1>8, <1>typed, StepOfNewest

-----------------------------------------------------------------------------
(* The rollback daemon.                                                    *)

LEMMA DaemonStep ==
    ASSUME IInv, NEW t \in Transactions, Daemon(t)
    PROVE  IInv'
  <1>1. Typed /\ Newest(t) /\ Order(t) /\ daemon[t] \in {"wait", "restore"}
        /\ (daemon[t] = "wait" => Waiting(t)) /\ Settled(t)
    BY Active DEF Daemon, DaemonSees, DaemonLock, DaemonRestore, IInv
  <1>2. PICK p \in {"ended", "restore", "error"} : daemon' = [daemon EXCEPT ![t] = p]
    BY DEF Daemon, DaemonSees, DaemonLock, DaemonRestore
  <1>3. /\ UNCHANGED <<waiting, configure, confirm, saved, written, marked, age, reboots>>
        /\ daemon'[t] = p /\ daemon' \in [Transactions -> DaemonPoints]
        /\ \A s \in Transactions : s # t => daemon'[s] = daemon[s]
    BY <1>1, <1>2 DEF Daemon, DaemonSees, DaemonLock, DaemonRestore, stateVars,
                     requestVars, Typed, DaemonPoints
  <1>typed. live' \in Configurations /\ files' \in Configurations
    <2>1. t \in Configurations /\ Mixed \in Configurations
          /\ saved[t].live \in Configurations /\ saved[t].files \in Configurations
      BY <1>1, NetworkAssumption DEF Typed, Configurations, Transactions
    <2>2. QED
      BY <1>1, <1>3, <2>1 DEF Daemon, DaemonSees, DaemonLock, DaemonRestore, Restored, PartOf,
                              PartOfFiles, Typed
  <1>4. Typed' /\ Begun' = Begun /\ Newest(t)'
    BY <1>1, <1>3, <1>typed DEF Typed, Newest, Begun
  <1>5. CASE DaemonSees(t)
    <2>1. p = "ended" /\ t \in marked /\ daemon[t] = "wait" /\ UNCHANGED <<live, files>>
      BY <1>1, <1>3, <1>5 DEF DaemonSees
    <2>2. configure[t] \in {"applied", "failed"}
      BY <1>1, <2>1 DEF Waiting, Order, Typed, ConfigurePoints
    <2>3. configure[t] = "applied" => confirm[t] = "done"
      BY <1>1, <2>1 DEF Waiting, Order, Typed, ConfirmPoints
    <2>4. Order(t)'
      BY <1>1, <1>3, <1>4, <2>1, <2>2, <2>3 DEF Order
    <2>5. Settled(t)'
      BY <1>1, <1>3, <2>1, <2>2, <2>3 DEF Settled, Waiting, NotPersisted, Order
    <2>6. QED  BY <1>1, <1>3, <1>4, <2>1, <2>4, <2>5, StepOfNewest
  <1>6. CASE DaemonLock(t)
    <2>1. /\ daemon[t] = "wait" /\ age[t] = Deadline /\ ~Locked(t) /\ UNCHANGED <<live, files>>
          /\ p = IF t \in marked THEN "ended" ELSE "restore"
      BY <1>1, <1>3, <1>6 DEF DaemonLock
    <2>2. configure[t] \in {"applied", "failed"}
      BY <1>1, <2>1 DEF Order, Typed, ConfigurePoints, Locked
    <2>3. confirm[t] \in {"idle", "sent", "failed", "done"}
      BY <1>1, <2>1 DEF Order, Typed, ConfirmPoints, Locked
    <2>4. configure[t] = "applied" => (t \in marked <=> confirm[t] = "done")
      BY <1>1, <2>1, <2>3 DEF Waiting
    <2>5. configure[t] = "failed" => confirm[t] = "idle"
      BY <1>1 DEF Order
    <2>6. Order(t)'
      BY <1>1, <1>3, <1>4, <2>1, <2>2, <2>3, <2>4, <2>5 DEF Order
    <2>7. Settled(t)'
      BY <1>1, <1>3, <2>1, <2>2, <2>3, <2>4, <2>5 DEF Settled, Waiting, NotPersisted
    <2>8. QED  BY <1>1, <1>3, <1>4, <2>1, <2>6, <2>7, StepOfNewest
  <1>7. CASE DaemonRestore(t)
    <2>1. daemon[t] = "restore" /\ p \in {"ended", "error"}
      BY <1>1, <1>3, <1>7 DEF DaemonRestore
    <2>2. Restored(t) = saved[t].files
      BY <1>1, <2>1 DEF Settled, Restored
    <2>3. p = "ended" => live' = saved[t].live /\ files' = saved[t].files
      BY <1>1, <1>3, <1>7, <2>2 DEF DaemonRestore
    <2>4. Order(t)'
      BY <1>1, <1>3, <1>4, <2>1 DEF Order
    <2>5. Settled(t)'
      BY <1>1, <1>3, <2>1, <2>3 DEF Settled, Order
    <2>6. QED  BY <1>1, <1>3, <1>4, <2>1, <2>4, <2>5, StepOfNewest
  <1>8. QED  BY <1>5, <1>6, <1>7 DEF Daemon

-----------------------------------------------------------------------------
(* The host and the target.                                                *)

LEMMA BeginStep ==
    ASSUME ~Overlap, IInv, NEW t \in Transactions, HostConfigure(t)
    PROVE  IInv'
  <1>1. /\ Typed /\ Begun = 1..(t - 1) /\ t \in Nat \ {0} /\ t <= MaxTransactions
        /\ \A s \in Begun : daemon[s] \notin {"wait", "restore"}
        /\ \A s \in Transactions : Order(s)
    BY NetworkAssumption DEF HostConfigure, IInv, Transactions
  <1>2. /\ configure' = [configure EXCEPT ![t] = "begun"]
        /\ daemon' = [daemon EXCEPT ![t] = "wait"]
        /\ saved' = [saved EXCEPT ![t] = [live |-> live, files |-> files]]
        /\ UNCHANGED <<live, files, confirm, written, marked, age, reboots>>
    BY DEF HostConfigure
  <1>3. t \notin Begun /\ configure[t] = "idle"
    BY <1>1 DEF Begun
  <1>4. Begun' = 1..t
    <2>1. Begun' = Begun \cup {t}
      BY <1>1, <1>2 DEF Begun, Typed
    <2>2. QED  BY <1>1, <2>1
  <1>5. /\ confirm[t] = "idle" /\ t \notin written /\ t \notin marked
        /\ age[t] = 0 /\ 0 < Deadline
    BY <1>1, <1>3, NetworkAssumption DEF Order, IInv, Unbegun
  <1>6. /\ configure'[t] = "begun" /\ daemon'[t] = "wait"
        /\ saved'[t] = [live |-> live, files |-> files]
        /\ \A s \in Transactions : s # t =>
             configure'[s] = configure[s] /\ daemon'[s] = daemon[s]
    BY <1>1, <1>2 DEF Typed
  <1>7. Typed'
    <2>1. [live |-> live, files |-> files] \in [live: Configurations, files: Configurations]
      BY DEF IInv, Typed
    <2>2. "begun" \in ConfigurePoints /\ "wait" \in DaemonPoints
      BY DEF ConfigurePoints, DaemonPoints
    <2>3. QED  BY <1>1, <1>2, <2>1, <2>2 DEF Typed
  <1>8. Unbegun'
    BY <1>1, <1>2, <1>4 DEF IInv, Unbegun
  <1>9. ASSUME NEW s \in Transactions PROVE Order(s)'
    <2>1. CASE s = t
      BY <1>2, <1>4, <1>5, <1>6, <2>1 DEF Order, Newest
    <2>2. CASE s # t
      <3>1. daemon[s] \notin {"wait", "restore"}
        BY <1>1 DEF Begun, Order
      <3>2. QED  BY <1>1, <1>2, <1>6, <2>2, <3>1 DEF Order
    <2>3. QED  BY <2>1, <2>2
  <1>10. ASSUME NEW s \in Transactions, Newest(s)'
         PROVE  (daemon'[s] = "wait" => Waiting(s)') /\ Settled(s)'
    <2>1. s = t
      <3>1. 1..s = 1..t
        BY <1>4, <1>10 DEF Newest
      <3>2. s \in 1..t /\ t \in 1..s
        BY <1>1, <3>1 DEF Transactions
      <3>3. QED  BY <3>2 DEF Transactions
    <2>2. Waiting(t)'
      BY <1>2, <1>5, <1>6 DEF Waiting, NotPersisted
    <2>3. Settled(t)'
      BY <1>2, <1>5, <1>6 DEF Settled
    <2>4. QED  BY <2>1, <2>2, <2>3
  <1>11. t \in 0..MaxTransactions
    BY <1>1, NetworkAssumption
  <1>12. QED  BY <1>4, <1>7, <1>8, <1>9, <1>10, <1>11 DEF IInv

LEMMA HostConfirmStep ==
    ASSUME IInv, NEW t \in Transactions, HostConfirm(t)
    PROVE  IInv'
  <1>1. /\ Typed /\ Order(t) /\ configure[t] = "applied" /\ confirm[t] = "idle"
        /\ confirm' = [confirm EXCEPT ![t] = "sent"]
        /\ UNCHANGED <<live, files, configure, daemon, saved, written, marked, age, reboots>>
    BY DEF HostConfirm, IInv, stateVars
  <1>2. /\ Typed' /\ confirm'[t] = "sent"
        /\ \A s \in Transactions : s # t => confirm'[s] = confirm[s]
    BY <1>1 DEF Typed, ConfirmPoints
  <1>3. Unbegun' /\ Begun' = Begun /\ \A s \in Transactions : Newest(s)' = Newest(s)
    BY <1>1 DEF Begun, Newest, Unbegun, IInv
  <1>4. ASSUME NEW s \in Transactions PROVE Order(s)'
    BY <1>1, <1>2, <1>3 DEF IInv, Order
  <1>5. ASSUME NEW s \in Transactions, Newest(s)'
        PROVE  (daemon'[s] = "wait" => Waiting(s)') /\ Settled(s)'
    <2>1. (daemon[s] = "wait" => Waiting(s)) /\ Settled(s)
      BY <1>3, <1>5 DEF IInv
    <2>2. Settled(s)'
      BY <1>1, <1>2, <2>1 DEF Settled
    <2>3. ASSUME daemon[s] = "wait" PROVE Waiting(s)'
      <3>1. CASE s = t
        BY <1>1, <1>2, <2>1, <2>3, <3>1 DEF Waiting, NotPersisted
      <3>2. CASE s # t
        BY <1>1, <1>2, <2>1, <2>3, <3>2 DEF Waiting, NotPersisted
      <3>3. QED  BY <3>1, <3>2
    <2>4. QED  BY <1>1, <2>2, <2>3
  <1>6. QED  BY <1>2, <1>3, <1>4, <1>5 DEF IInv

\* Time changes nothing but the ages.
LEMMA TickStep == ASSUME IInv, Tick PROVE IInv'
  <1>1. /\ Typed
        /\ \A s \in Begun : configure[s] = "begun" => age[s] + 1 < Deadline
        /\ age' = [s \in Transactions |->
              IF s \in Begun /\ age[s] < Deadline THEN age[s] + 1 ELSE age[s]]
        /\ UNCHANGED <<live, files, configure, confirm, daemon, saved, written, marked, reboots>>
    BY DEF IInv, Tick, requestVars, stateVars
  <1>2. \A s \in Transactions :
           /\ age'[s] \in 0..Deadline /\ (age[s] = Deadline => age'[s] = Deadline)
           /\ s \notin Begun => age'[s] = age[s]
           /\ configure[s] = "begun" => age'[s] < Deadline
    BY <1>1, NetworkAssumption DEF Typed, Begun
  <1>3. Typed'
    BY <1>1, <1>2 DEF Typed
  <1>4. Unbegun' /\ Begun' = Begun /\ \A s \in Transactions : Newest(s)' = Newest(s)
    BY <1>1, <1>2 DEF Begun, Newest, Unbegun, IInv
  <1>5. ASSUME NEW s \in Transactions PROVE Order(s)'
    BY <1>1, <1>2, <1>4 DEF IInv, Order
  <1>6. ASSUME NEW s \in Transactions, Newest(s)'
        PROVE  (daemon'[s] = "wait" => Waiting(s)') /\ Settled(s)'
    BY <1>1, <1>4, <1>6 DEF IInv, Waiting, NotPersisted, Settled
  <1>7. QED  BY <1>3, <1>4, <1>5, <1>6 DEF IInv

\* A restart ends every process, so that no change is pending.
LEMMA RebootStep == ASSUME IInv, Reboot PROVE IInv'
  <1>1. /\ Typed /\ live' = files /\ reboots' = reboots + 1
        /\ configure' = [s \in Transactions |->
              IF configure[s] \in {"begun", "apply", "undo"} THEN "dead" ELSE configure[s]]
        /\ confirm' = [s \in Transactions |->
              IF confirm[s] \in {"sent", "persist", "unwind", "mark"} THEN "dead" ELSE confirm[s]]
        /\ daemon' = [s \in Transactions |-> IF Directory(s) THEN "dead" ELSE daemon[s]]
        /\ UNCHANGED <<files, saved, written, marked, age>>
    BY DEF IInv, Reboot, stateVars
  <1>2. \A s \in Transactions :
           /\ configure'[s] =
                IF configure[s] \in {"begun", "apply", "undo"} THEN "dead" ELSE configure[s]
           /\ confirm'[s] =
                IF confirm[s] \in {"sent", "persist", "unwind", "mark"} THEN "dead" ELSE confirm[s]
           /\ daemon'[s] =
                IF daemon[s] \in {"wait", "restore", "error"} THEN "dead" ELSE daemon[s]
    BY <1>1 DEF Directory
  <1>3. Typed'
    BY <1>1, <1>2 DEF Typed, ConfigurePoints, ConfirmPoints, DaemonPoints
  <1>4. Begun' = Begun
    BY <1>2 DEF Begun
  <1>5. Unbegun' /\ \A s \in Transactions : Newest(s)' = Newest(s)
    BY <1>1, <1>4 DEF Newest, Unbegun, IInv
  <1>6. ASSUME NEW s \in Transactions PROVE Order(s)'
    BY <1>1, <1>2, <1>5 DEF IInv, Order
  <1>7. ASSUME NEW s \in Transactions, Newest(s)'
        PROVE  (daemon'[s] = "wait" => Waiting(s)') /\ Settled(s)'
    <2>1. Order(s) /\ (daemon[s] = "wait" => Waiting(s)) /\ Settled(s)
      BY <1>5, <1>7 DEF IInv
    <2>2. confirm'[s] = "done" => confirm[s] = "done" /\ configure[s] = "applied"
      BY <1>2, <2>1 DEF Order
    <2>3. daemon'[s] \in {"ended", "dead"} /\ confirm[s] = "done" => files = s
      BY <1>2, <2>1, <2>2 DEF Order, Settled, Waiting
    <2>4. daemon'[s] = "ended" => daemon[s] = "ended"
      BY <1>2
    <2>5. Settled(s)'
      BY <1>1, <1>2, <2>1, <2>2, <2>3, <2>4 DEF Settled, Typed
    <2>6. QED  BY <1>2, <2>5
  <1>8. QED  BY <1>3, <1>4, <1>5, <1>6, <1>7 DEF IInv

-----------------------------------------------------------------------------
(* The theorems.                                                           *)

LEMMA InitIInv == Init => IInv
  <1> SUFFICES ASSUME Init PROVE IInv
    OBVIOUS
  <1>1. Begun = {} /\ Begun = 1..0 /\ 0 \in 0..MaxTransactions
    BY NetworkAssumption DEF Init, Begun
  <1>2. Typed /\ Unbegun
    BY <1>1, NetworkAssumption DEF Init, Typed, Unbegun, ConfigurePoints, ConfirmPoints,
                                   DaemonPoints, Configurations
  <1>3. \A t \in Transactions : Order(t)
    BY DEF Init, Order
  <1>4. \A t \in Transactions : ~Newest(t)
    BY <1>1 DEF Newest, Transactions
  <1>5. QED  BY <1>1, <1>2, <1>3, <1>4 DEF IInv

LEMMA NextIInv == ASSUME ~Overlap PROVE IInv /\ [Next]_vars => IInv'
  <1> SUFFICES ASSUME IInv, [Next]_vars PROVE IInv'
    OBVIOUS
  <1>1. ASSUME NEW t \in Transactions, HostConfigure(t) PROVE IInv'
    BY <1>1, BeginStep
  <1>2. ASSUME NEW t \in Transactions, HostConfirm(t) PROVE IInv'
    BY <1>2, HostConfirmStep
  <1>3. ASSUME NEW t \in Transactions, Configure(t) PROVE IInv'
    BY <1>3, ConfigureStep
  <1>4. ASSUME NEW t \in Transactions, Confirm(t) PROVE IInv'
    <2>1. CASE daemon[t] = "wait"
      BY <1>4, <2>1, ConfirmStep
    <2>2. CASE daemon[t] # "wait"
      <3>1. ConfirmLock(t)
        BY <1>4, <2>2 DEF Confirm, Persist, Unwind, Mark, IInv, Order
      <3>2. QED  BY <2>2, <3>1, LateConfirm
    <2>3. QED  BY <2>1, <2>2
  <1>5. ASSUME NEW t \in Transactions, Daemon(t) PROVE IInv'
    BY <1>5, DaemonStep
  <1>6. CASE HostReturns \/ UNCHANGED vars
    <2>1. /\ UNCHANGED <<live, files, configure, confirm, daemon, saved, written, marked>>
          /\ UNCHANGED <<age, reboots>>
      BY <1>6 DEF HostReturns, vars, requestVars, stateVars
    <2>2. Begun' = Begun /\ Typed' /\ Unbegun'
      BY <2>1 DEF IInv, Typed, Unbegun, Begun
    <2>3. \A t \in Transactions : Order(t)' /\ Newest(t)' = Newest(t)
      BY <2>1, <2>2 DEF IInv, Order, Newest
    <2>4. \A t \in Transactions : Waiting(t)' = Waiting(t) /\ Settled(t)' = Settled(t)
      BY <2>1 DEF Waiting, NotPersisted, Settled
    <2>5. QED  BY <2>1, <2>2, <2>3, <2>4 DEF IInv
  <1>7. CASE Tick
    BY <1>7, TickStep
  <1>8. CASE Reboot
    BY <1>8, RebootStep
  <1>9. QED  BY <1>1, <1>2, <1>3, <1>4, <1>5, <1>6, <1>7, <1>8 DEF Next

LEMMA Invariance == ASSUME ~Overlap PROVE Spec => []IInv
  BY InitIInv, NextIInv, PTL DEF Spec

\* A change that was confirmed stays in the kernel and in the files until the
\* next one is requested, across every deadline, late helper and restart, when
\* no change is requested while another is pending (confirm, rollback).
THEOREM ConfirmedChangeStays ==
    ASSUME ~Overlap
    PROVE  Spec => []ConfirmedStays
  <1>1. IInv => ConfirmedStays
    <2> SUFFICES ASSUME IInv, NEW t \in Begun, Newest(t), confirm[t] = "done"
                 PROVE  live = t /\ files = t
      BY DEF ConfirmedStays
    <2>1. t \in Transactions /\ Typed
      BY DEF Begun, IInv
    <2>2. Order(t) /\ (daemon[t] = "wait" => Waiting(t)) /\ Settled(t)
      BY <2>1 DEF IInv
    <2>3. configure[t] = "applied" /\ daemon[t] \in {"wait", "ended", "dead"}
      BY <2>1, <2>2 DEF Order, Typed, DaemonPoints
    <2>4. QED  BY <2>2, <2>3 DEF Waiting, Settled
  <1>2. QED  BY <1>1, Invariance, PTL

\* Once the daemon has ended without an error, a change that was not confirmed
\* has left nothing in the kernel or in the files, whichever step of configure
\* or confirm failed (restore, restore_netplan).
THEOREM UnconfirmedChangeUndone ==
    ASSUME ~Overlap
    PROVE  Spec => []UnconfirmedUndone
  <1>1. IInv => UnconfirmedUndone
    <2> SUFFICES ASSUME IInv, NEW t \in Begun, Newest(t),
                        daemon[t] = "ended", confirm[t] # "done"
                 PROVE  /\ files = saved[t].files
                        /\ live = saved[t].live \/ (reboots > 0 /\ live = files)
      BY DEF UnconfirmedUndone
    <2>1. Settled(t)
      BY DEF IInv, Begun
    <2>2. QED  BY <2>1 DEF Settled
  <1>2. QED  BY <1>1, Invariance, PTL

-----------------------------------------------------------------------------
(* Deletion and boot selection.                                            *)

DelPcs == {"rest", "clear", "disable", "unconfigure", "ununit", "recheck", "rename", "again",
           "remove", "moveback", "restore", "failed", "undone",
           "runner", "unit", "enable", "status", "rollback"}
DelBoots == [config: {"none", "model", "other"}, runner: BOOLEAN, unit: BOOLEAN,
             enabled: BOOLEAN]
DelOps == [pc: DelPcs, saved: DelBoots, cleared: BOOLEAN, moved: BOOLEAN, removing: BOOLEAN]

DelTyped ==
    /\ where \in [Del!Dirs -> {"path", "hidden", "absent"}]
    /\ procs \in SUBSET [dir: Del!Dirs, auto: BOOLEAN]
    /\ boot \in DelBoots
    /\ op \in DelOps

\* The model that was started at boot keeps the lock until it ends, and the
\* helper holds it from the clearing of autostart to the end of the deletion.
DelLocked ==
    /\ \A p \in procs : p.auto => lock = "model" /\ runner # "exec"
    /\ \A p, q \in procs : p.auto /\ q.auto => p = q
    /\ runner = "exec" => lock = "model"
    /\ op.pc \in {"disable", "unconfigure", "ununit"} => lock = "helper"
    /\ op.pc \in {"recheck", "rename", "again", "remove", "moveback"} =>
           (op.cleared <=> lock = "helper")
    /\ op.cleared => op.pc \in {"recheck", "rename", "again", "remove", "moveback", "restore",
                                "failed", "undone"}
    /\ lock = "helper" =>
           op.pc \in {"disable", "unconfigure", "ununit", "recheck", "rename", "again",
                      "remove", "moveback", "restore"}

\* One directory at most is at the path; the helper knows where it put its own.
DelPlaced ==
    /\ where[Model] # "path" \/ where[Later] # "path"
    /\ op.pc \in {"again", "remove", "moveback"} => where[Model] = "hidden"
    /\ op.moved => op.pc \in {"again", "remove", "moveback", "restore", "failed", "undone"}
    /\ op.removing => op.pc \in {"remove", "moveback", "failed"}
    /\ op.moved /\ ~op.removing /\ op.pc \in {"restore", "failed"} =>
           where[Model] = "path" \/ where[Later] = "path"

\* What the helper can still restore.
DelSaved ==
    /\ op.pc \in {"clear", "recheck", "rename", "again", "remove", "moveback", "restore"}
       /\ lock # "helper" => boot = op.saved
    /\ lock = "helper" => boot.runner = op.saved.runner
                          /\ (boot.enabled => op.saved.enabled)
    /\ op.pc = "failed" /\ ~op.removing => boot = op.saved

DelInv == DelTyped /\ DelLocked /\ DelPlaced /\ DelSaved /\ Del!NeverDeletesRunning

LEMMA DelConstants == Model # Later /\ Model \in Del!Dirs /\ Later \in Del!Dirs
                      /\ \A d \in Del!Dirs : d = Model \/ d = Later
  BY ServicesAssumption DEF ServicesAssumption, Del!DeletionAssumption, Del!Dirs

\* The helper goes on to another step.
LEMMA DelGoes ==
    ASSUME op \in DelOps, NEW to \in DelPcs, op' = [op EXCEPT !.pc = to]
    PROVE  /\ op' \in DelOps /\ op'.pc = to /\ op'.saved = op.saved /\ op'.cleared = op.cleared
           /\ op'.moved = op.moved /\ op'.removing = op.removing
  BY DEF DelOps

\* It ends, or another operation begins, with what there was to restore.
LEMMA DelBegins ==
    ASSUME NEW to \in DelPcs, NEW before \in DelBoots,
           op' = [pc |-> to, saved |-> before, cleared |-> FALSE, moved |-> FALSE,
                  removing |-> FALSE]
    PROVE  /\ op' \in DelOps /\ op'.pc = to /\ op'.saved = before /\ op'.cleared = FALSE
           /\ op'.moved = FALSE /\ op'.removing = FALSE
  BY DEF DelOps

LEMMA DelRest == /\ Del!NoSelection \in DelBoots
                 /\ Del!Rest.pc = "rest" /\ Del!Rest \in DelOps
                 /\ Del!Rest = [pc |-> "rest", saved |-> Del!NoSelection, cleared |-> FALSE,
                                moved |-> FALSE, removing |-> FALSE]
  BY DEF Del!NoSelection, Del!Rest, DelBoots, DelOps, DelPcs

\* A step of the helper within clear_autostart changes the boot selection and
\* the lock only.
LEMMA DelClearSteps ==
    ASSUME DelInv, Del!ClearNone \/ Del!ClearLock \/ Del!ClearDisable \/ Del!ClearConfig \/ Del!ClearUnit
    PROVE  DelInv'
  <1> USE DEF DelInv
  <1>1. op \in DelOps /\ boot \in DelBoots
    BY DEF DelTyped
  <1>2. UNCHANGED <<where, procs, runner>>
    BY DEF Del!ClearNone, Del!ClearLock, Del!ClearDisable, Del!ClearConfig, Del!ClearUnit
  <1>3. ~op.moved /\ ~op.removing
    BY DEF DelPlaced, Del!ClearNone, Del!ClearLock, Del!ClearDisable, Del!ClearConfig, Del!ClearUnit,
           Del!Step
  <1>4. CASE Del!ClearNone
    <2>1. /\ op' \in DelOps /\ op'.pc = "recheck" /\ op'.saved = op.saved
          /\ op'.cleared = op.cleared /\ op'.moved = op.moved /\ op'.removing = op.removing
      BY <1>1, <1>4, DelGoes DEF Del!ClearNone, Del!Step, DelPcs
    <2>2. op.pc = "clear" /\ UNCHANGED <<boot, lock>>
      BY <1>4 DEF Del!ClearNone, Del!Step
    <2>3. DelTyped' /\ DelPlaced' /\ Del!NeverDeletesRunning'
      BY <1>2, <1>3, <2>1, <2>2 DEF DelTyped, DelPlaced, Del!NeverDeletesRunning
    <2>4. DelLocked' /\ DelSaved'
      BY <1>2, <2>1, <2>2 DEF DelLocked, DelSaved
    <2>5. QED  BY <2>3, <2>4
  <1>5. CASE Del!ClearLock
    <2>1. op.pc = "clear" /\ UNCHANGED boot
      BY <1>5 DEF Del!ClearLock, Del!Step
    <2>2. CASE lock = "free"
      <3>1. /\ op' \in DelOps /\ op'.pc = "disable" /\ op'.saved = op.saved
            /\ op'.cleared = op.cleared /\ op'.moved = op.moved /\ op'.removing = op.removing
        BY <1>1, <1>5, <2>2, DelGoes DEF Del!ClearLock, Del!Step, DelPcs
      <3>2. lock' = "helper"
        BY <1>5, <2>2 DEF Del!ClearLock
      <3>3. DelTyped' /\ DelPlaced' /\ Del!NeverDeletesRunning'
        BY <1>2, <1>3, <2>1, <3>1 DEF DelTyped, DelPlaced, Del!NeverDeletesRunning
      <3>4. DelLocked' /\ DelSaved'
        BY <1>2, <2>1, <2>2, <3>1, <3>2 DEF DelLocked, DelSaved
      <3>5. QED  BY <3>3, <3>4
    <2>3. CASE lock # "free"
      <3>1. /\ op' \in DelOps /\ op'.pc = "failed" /\ op'.saved = op.saved
            /\ op'.cleared = op.cleared /\ op'.moved = op.moved /\ op'.removing = op.removing
        BY <1>1, <1>5, <2>3, DelGoes DEF Del!ClearLock, Del!Step, DelPcs
      <3>2. UNCHANGED lock
        BY <1>5, <2>3 DEF Del!ClearLock
      <3>3. DelTyped' /\ DelPlaced' /\ Del!NeverDeletesRunning'
        BY <1>2, <1>3, <2>1, <3>1 DEF DelTyped, DelPlaced, Del!NeverDeletesRunning
      <3>4. DelLocked' /\ DelSaved'
        BY <1>2, <2>1, <3>1, <3>2 DEF DelLocked, DelSaved
      <3>5. QED  BY <3>3, <3>4
    <2>4. QED  BY <2>2, <2>3
  <1>6. CASE Del!ClearDisable \/ Del!ClearConfig \/ Del!ClearUnit
    <2>1. /\ op.pc \in {"disable", "unconfigure", "ununit"} /\ lock = "helper" /\ UNCHANGED lock
          /\ ~op.cleared
      BY <1>6 DEF Del!ClearDisable, Del!ClearConfig, Del!ClearUnit, Del!Step, DelLocked
    <2>2. /\ boot' \in DelBoots /\ boot'.runner = boot.runner
          /\ boot'.enabled => boot.enabled
      BY <1>1, <1>6 DEF Del!ClearDisable, Del!ClearConfig, Del!ClearUnit, DelBoots
    <2>3. /\ op' \in DelOps /\ op'.saved = op.saved /\ op'.moved = op.moved
          /\ op'.removing = op.removing
          /\ op'.pc \in {"unconfigure", "ununit", "recheck"}
          /\ op'.cleared <=> op'.pc = "recheck"
      <3>1. CASE Del!ClearDisable
        BY <1>1, <2>1, <3>1 DEF Del!ClearDisable, Del!Step, DelOps, DelPcs
      <3>2. CASE Del!ClearConfig
        BY <1>1, <2>1, <3>2 DEF Del!ClearConfig, Del!Step, DelOps, DelPcs
      <3>3. CASE Del!ClearUnit
        <4>1. op' = [op EXCEPT !.pc = "recheck", !.cleared = TRUE]
          BY <3>3 DEF Del!ClearUnit
        <4>2. QED  BY <1>1, <4>1 DEF DelOps, DelPcs
      <3>4. QED  BY <1>6, <3>1, <3>2, <3>3
    <2>4. DelTyped' /\ DelPlaced' /\ Del!NeverDeletesRunning'
      BY <1>2, <1>3, <2>2, <2>3 DEF DelTyped, DelPlaced, Del!NeverDeletesRunning
    <2>5. DelLocked' /\ DelSaved'
      BY <1>2, <2>1, <2>2, <2>3 DEF DelLocked, DelSaved
    <2>6. QED  BY <2>4, <2>5
  <1>7. QED  BY <1>4, <1>5, <1>6

\* A failed step of the helper changes nothing but where the helper goes on.
LEMMA DelFaultSteps ==
    ASSUME DelInv, Del!DeleteFault \/ Del!ConfigureFault
    PROVE  DelInv'
  <1> USE DEF DelInv
  <1>1. op \in DelOps
    BY DEF DelTyped
  <1>2. UNCHANGED <<where, procs, boot, lock, runner>>
    BY DEF Del!DeleteFault, Del!ConfigureFault, Del!Fault
  <1>3. PICK from, to :
          /\ Del!Step(from, to)
          /\ \/ from \in {"disable", "unconfigure", "ununit", "recheck", "rename"} /\ to = "restore"
             \/ from \in {"again", "remove"} /\ to = "moveback"
             \/ from = "clear" /\ to = "failed"
             \/ from \in {"runner", "unit", "enable", "status"} /\ to = "rollback"
    <2>1. CASE Del!DeleteFault
      BY <2>1 DEF Del!DeleteFault, Del!Fault
    <2>2. CASE Del!ConfigureFault
      BY <2>2 DEF Del!ConfigureFault, Del!Fault
    <2>3. QED  BY <2>1, <2>2
  <1>4. op.pc = from /\ to \in DelPcs /\ op' = [op EXCEPT !.pc = to]
    BY <1>3 DEF Del!Step, DelPcs
  <1>5. /\ op' \in DelOps /\ op'.pc = to /\ op'.saved = op.saved /\ op'.cleared = op.cleared
        /\ op'.moved = op.moved /\ op'.removing = op.removing
    BY <1>1, <1>4, DelGoes
  <1>6. DelTyped' /\ DelPlaced' /\ Del!NeverDeletesRunning'
    BY <1>2, <1>3, <1>4, <1>5 DEF DelTyped, DelPlaced, Del!NeverDeletesRunning
  <1>7. DelLocked'
    BY <1>2, <1>3, <1>4, <1>5 DEF DelLocked
  <1>8. DelSaved'
    BY <1>2, <1>3, <1>4, <1>5 DEF DelSaved, DelLocked, DelPlaced
  <1>9. QED  BY <1>6, <1>7, <1>8

\* The directory is looked at, moved aside, looked at again, and then removed or
\* moved back.
LEMMA DelMoveSteps ==
    ASSUME DelInv, Del!Recheck \/ Del!Rename \/ Del!CheckAgain \/ Del!Remove \/ Del!MoveBack
    PROVE  DelInv'
  <1> USE DEF DelInv
  <1>1. op \in DelOps /\ where \in [Del!Dirs -> {"path", "hidden", "absent"}]
    BY DEF DelTyped
  <1>2. UNCHANGED <<procs, boot, runner>>
    BY DEF Del!Recheck, Del!Rename, Del!CheckAgain, Del!Remove, Del!MoveBack
  <1>3. CASE Del!Recheck
    <2>1. PICK to \in {"rename", "restore"} : Del!Step("recheck", to)
      BY <1>3 DEF Del!Recheck
    <2>2. op.pc = "recheck" /\ op' = [op EXCEPT !.pc = to] /\ to \in DelPcs
      BY <2>1 DEF Del!Step, DelPcs
    <2>3. /\ op' \in DelOps /\ op'.pc = to /\ op'.saved = op.saved /\ op'.cleared = op.cleared
          /\ op'.moved = op.moved /\ op'.removing = op.removing
      BY <1>1, <2>2, DelGoes
    <2>4. UNCHANGED <<where, lock>>
      BY <1>3 DEF Del!Recheck
    <2>5. DelTyped' /\ DelPlaced' /\ Del!NeverDeletesRunning'
      BY <1>2, <2>1, <2>2, <2>3, <2>4 DEF DelTyped, DelPlaced, Del!NeverDeletesRunning
    <2>6. DelLocked' /\ DelSaved'
      BY <1>2, <2>1, <2>2, <2>3, <2>4 DEF DelLocked, DelSaved
    <2>7. QED  BY <2>5, <2>6
  <1>4. CASE Del!Rename
    <2>1. op.pc = "rename" /\ ~op.removing /\ UNCHANGED lock
      BY <1>4 DEF Del!Rename, DelPlaced
    <2>2. /\ op' \in DelOps /\ op'.pc = "again" /\ op'.saved = op.saved
          /\ op'.cleared = op.cleared /\ op'.moved /\ op'.removing = op.removing
      BY <1>1, <1>4 DEF Del!Rename, DelOps, DelPcs
    <2>3. /\ where' \in [Del!Dirs -> {"path", "hidden", "absent"}]
          /\ where'[Model] = "hidden" /\ where'[Later] = where[Later]
      BY <1>1, <1>4, DelConstants DEF Del!Rename
    <2>4. DelTyped' /\ DelPlaced' /\ Del!NeverDeletesRunning'
      BY <1>2, <2>1, <2>2, <2>3 DEF DelTyped, DelPlaced, Del!NeverDeletesRunning
    <2>5. DelLocked' /\ DelSaved'
      BY <1>2, <2>1, <2>2 DEF DelLocked, DelSaved
    <2>6. QED  BY <2>4, <2>5
  <1>5. CASE Del!CheckAgain
    <2>1. op.pc = "again" /\ where[Model] = "hidden" /\ ~op.removing /\ UNCHANGED <<where, lock>>
      BY <1>5 DEF Del!CheckAgain, DelPlaced
    <2>2. CASE Del!RunsFrom("hidden") = {} /\ Del!RunsFrom("path") = {}
      <3>1. op' = [op EXCEPT !.pc = "remove", !.removing = TRUE]
        BY <1>5, <2>2 DEF Del!CheckAgain
      <3>2. /\ op' \in DelOps /\ op'.pc = "remove" /\ op'.saved = op.saved
            /\ op'.cleared = op.cleared /\ op'.moved = op.moved /\ op'.removing
        BY <1>1, <3>1 DEF DelOps, DelPcs
      <3>3. \A p \in procs : p.dir # Model
        BY <2>1, <2>2 DEF Del!RunsFrom
      <3>4. DelTyped' /\ DelPlaced' /\ Del!NeverDeletesRunning'
        BY <1>2, <2>1, <3>2, <3>3 DEF DelTyped, DelPlaced, Del!NeverDeletesRunning
      <3>5. DelLocked' /\ DelSaved'
        BY <1>2, <2>1, <3>2 DEF DelLocked, DelSaved
      <3>6. QED  BY <3>4, <3>5
    <2>3. CASE ~(Del!RunsFrom("hidden") = {} /\ Del!RunsFrom("path") = {})
      <3>1. op' = [op EXCEPT !.pc = "moveback"]
        BY <1>5, <2>3, Zenon DEF Del!CheckAgain
      <3>2. /\ op' \in DelOps /\ op'.pc = "moveback" /\ op'.saved = op.saved
            /\ op'.cleared = op.cleared /\ op'.moved = op.moved /\ op'.removing = op.removing
        BY <1>1, <3>1, DelGoes DEF DelPcs
      <3>3. DelTyped' /\ DelPlaced' /\ Del!NeverDeletesRunning'
        BY <1>2, <2>1, <3>2 DEF DelTyped, DelPlaced, Del!NeverDeletesRunning
      <3>4. DelLocked' /\ DelSaved'
        BY <1>2, <2>1, <3>2 DEF DelLocked, DelSaved
      <3>5. QED  BY <3>3, <3>4
    <2>4. QED  BY <2>2, <2>3
  <1>6. CASE Del!Remove
    <2>1. op.pc = "remove" /\ op' = Del!Rest
      BY <1>6 DEF Del!Remove
    <2>2. /\ op' \in DelOps /\ op'.pc = "rest" /\ op'.saved = Del!NoSelection /\ ~op'.cleared
          /\ ~op'.moved /\ ~op'.removing
      BY <2>1, DelRest
    <2>3. /\ where' \in [Del!Dirs -> {"path", "hidden", "absent"}]
          /\ where'[Model] = "absent" /\ where'[Later] = where[Later]
      BY <1>1, <1>6, DelConstants DEF Del!Remove
    <2>4. /\ lock = "helper" => lock' = "free"
          /\ lock # "helper" => lock' = lock
      BY <1>6, <2>1 DEF Del!Remove, DelLocked
    <2>5. DelTyped' /\ DelPlaced' /\ Del!NeverDeletesRunning'
      BY <1>2, <2>2, <2>3 DEF DelTyped, DelPlaced, Del!NeverDeletesRunning
    <2>6. DelLocked'
      BY <1>2, <2>1, <2>2, <2>4 DEF DelLocked
    <2>7. DelSaved'
      BY <1>2, <2>2, <2>4 DEF DelSaved
    <2>8. QED  BY <2>5, <2>6, <2>7
  <1>7. CASE Del!MoveBack
    <2>1. op.pc = "moveback" /\ where[Model] = "hidden"
      BY <1>7 DEF Del!MoveBack, DelPlaced
    <2>2. /\ where' \in [Del!Dirs -> {"path", "hidden", "absent"}]
          /\ where'[Later] = where[Later]
          /\ where'[Model] = IF Del!AtPath = {} THEN "path" ELSE "hidden"
      BY <1>1, <1>7, DelConstants DEF Del!MoveBack
    <2>3. /\ where'[Model] # "path" \/ where'[Later] # "path"
          /\ where'[Model] = "path" \/ where'[Later] = "path"
      BY <2>1, <2>2, DelConstants DEF Del!AtPath
    <2>4. CASE op.removing
      <3>1. op' = [op EXCEPT !.pc = "failed"]
        BY <1>7, <2>4 DEF Del!MoveBack
      <3>2. /\ op' \in DelOps /\ op'.pc = "failed" /\ op'.saved = op.saved
            /\ op'.cleared = op.cleared /\ op'.moved = op.moved /\ op'.removing
        BY <1>1, <2>4, <3>1, DelGoes DEF DelPcs
      <3>3. /\ lock = "helper" => lock' = "free"
            /\ lock # "helper" => lock' = lock
        BY <1>7, <2>1, <2>4 DEF Del!MoveBack, DelLocked
      <3>4. where'[Model] = "hidden" => \A p \in procs : p.dir # Model
        BY <2>1, <2>4 DEF Del!NeverDeletesRunning
      <3>5. DelTyped' /\ DelPlaced' /\ Del!NeverDeletesRunning'
        BY <1>2, <2>2, <2>3, <3>2, <3>4 DEF DelTyped, DelPlaced, Del!NeverDeletesRunning
      <3>6. DelLocked'
        BY <1>2, <2>1, <3>2, <3>3 DEF DelLocked
      <3>7. DelSaved'
        BY <1>2, <3>2, <3>3 DEF DelSaved
      <3>8. QED  BY <3>5, <3>6, <3>7
    <2>5. CASE ~op.removing
      <3>1. op' = [op EXCEPT !.pc = "restore"] /\ UNCHANGED lock
        BY <1>7, <2>5 DEF Del!MoveBack
      <3>2. /\ op' \in DelOps /\ op'.pc = "restore" /\ op'.saved = op.saved
            /\ op'.cleared = op.cleared /\ op'.moved = op.moved /\ ~op'.removing
        BY <1>1, <2>5, <3>1, DelGoes DEF DelPcs
      <3>3. DelTyped' /\ DelPlaced' /\ Del!NeverDeletesRunning'
        BY <1>2, <2>2, <2>3, <3>2 DEF DelTyped, DelPlaced, Del!NeverDeletesRunning
      <3>4. DelLocked' /\ DelSaved'
        BY <1>2, <2>1, <3>1, <3>2 DEF DelLocked, DelSaved
      <3>5. QED  BY <3>3, <3>4
    <2>6. QED  BY <2>4, <2>5
  <1>8. QED  BY <1>3, <1>4, <1>5, <1>6, <1>7

\* What a failed operation puts back.
LEMMA DelUndoSteps ==
    ASSUME DelInv, Del!Restore \/ Del!Rollback \/ Del!UndoFault
    PROVE  DelInv'
  <1> USE DEF DelInv
  <1>1. op \in DelOps /\ boot \in DelBoots /\ op.saved \in DelBoots
    BY DEF DelTyped, DelOps
  <1>2. UNCHANGED <<where, procs, runner>>
    BY DEF Del!Restore, Del!Rollback, Del!UndoFault
  <1>3. ~op.removing
    BY DEF DelPlaced, Del!Restore, Del!Rollback, Del!UndoFault, Del!Step
  <1>4. CASE Del!Restore
    <2>1. op.pc = "restore" /\ op' = [op EXCEPT !.pc = "failed"]
      BY <1>4 DEF Del!Restore
    <2>2. /\ op' \in DelOps /\ op'.pc = "failed" /\ op'.saved = op.saved
          /\ op'.cleared = op.cleared /\ op'.moved = op.moved /\ op'.removing = op.removing
      BY <1>1, <2>1, DelGoes DEF DelPcs
    <2>3. /\ lock = "helper" => lock' = "free"
          /\ lock # "helper" => lock' = lock
      BY <1>4 DEF Del!Restore
    <2>4. boot' = op.saved
      <3>1. CASE lock = "helper"
        <4>1. boot' = [boot EXCEPT !.config = op.saved.config, !.unit = op.saved.unit,
                                   !.enabled = boot.enabled \/ op.saved.enabled]
          BY <1>4, <3>1 DEF Del!Restore
        <4>2. PICK e \in BOOLEAN : e = (boot.enabled \/ op.saved.enabled)
          OBVIOUS
        <4>3. e = op.saved.enabled /\ boot.runner = op.saved.runner
          BY <1>1, <3>1, <4>2, Zenon DEF DelSaved, DelBoots
        <4>4. boot' = [boot EXCEPT !.config = op.saved.config, !.unit = op.saved.unit, !.enabled = e]
          BY <4>1, <4>2
        <4>5. /\ boot' \in DelBoots
              /\ boot'.config = op.saved.config /\ boot'.unit = op.saved.unit
              /\ boot'.enabled = e /\ boot'.runner = boot.runner
          BY <1>1, <4>4 DEF DelBoots
        <4>6. QED  BY <1>1, <4>3, <4>5 DEF DelBoots
      <3>2. CASE lock # "helper"
        BY <1>4, <2>1, <3>2 DEF Del!Restore, DelSaved
      <3>3. QED  BY <3>1, <3>2
    <2>5. DelTyped' /\ DelPlaced' /\ Del!NeverDeletesRunning'
      BY <1>1, <1>2, <1>3, <2>1, <2>2, <2>4 DEF DelTyped, DelPlaced, Del!NeverDeletesRunning
    <2>6. DelLocked' /\ DelSaved'
      BY <1>2, <2>1, <2>2, <2>3, <2>4 DEF DelLocked, DelSaved
    <2>7. QED  BY <2>5, <2>6
  <1>5. CASE Del!Rollback
    <2>1. op.pc = "rollback" /\ op' = [op EXCEPT !.pc = "failed"]
      BY <1>5 DEF Del!Rollback, Del!Step
    <2>2. /\ op' \in DelOps /\ op'.pc = "failed" /\ op'.saved = op.saved
          /\ op'.cleared = op.cleared /\ op'.moved = op.moved /\ op'.removing = op.removing
      BY <1>1, <2>1, DelGoes DEF DelPcs
    <2>3. boot' = op.saved /\ UNCHANGED lock
      BY <1>5 DEF Del!Rollback
    <2>4. DelTyped' /\ DelPlaced' /\ Del!NeverDeletesRunning'
      BY <1>1, <1>2, <1>3, <2>1, <2>2, <2>3 DEF DelTyped, DelPlaced, Del!NeverDeletesRunning
    <2>5. DelLocked' /\ DelSaved'
      BY <1>2, <2>1, <2>2, <2>3 DEF DelLocked, DelSaved
    <2>6. QED  BY <2>4, <2>5
  <1>6. CASE Del!UndoFault
    <2>1. op.pc \in {"rollback", "restore"} /\ op' = [op EXCEPT !.pc = "undone"]
      BY <1>6 DEF Del!UndoFault
    <2>2. /\ op' \in DelOps /\ op'.pc = "undone" /\ op'.saved = op.saved
          /\ op'.cleared = op.cleared /\ op'.moved = op.moved /\ op'.removing = op.removing
      BY <1>1, <2>1, DelGoes DEF DelPcs
    <2>3. boot' \in DelBoots
      BY <1>1, <1>6 DEF Del!UndoFault, DelBoots
    <2>4. /\ lock = "helper" => lock' = "free"
          /\ lock # "helper" => lock' = lock
      BY <1>6 DEF Del!UndoFault
    <2>5. DelTyped' /\ DelPlaced' /\ Del!NeverDeletesRunning'
      BY <1>2, <1>3, <2>1, <2>2, <2>3 DEF DelTyped, DelPlaced, Del!NeverDeletesRunning
    <2>6. DelLocked' /\ DelSaved'
      BY <1>2, <2>1, <2>2, <2>4 DEF DelLocked, DelSaved
    <2>7. QED  BY <2>5, <2>6
  <1>7. QED  BY <1>4, <1>5, <1>6

\* An operation begins, or ends with its report, and holds no lock.
LEMMA DelBeginSteps ==
    ASSUME DelInv,
           \/ Del!DeleteCheck \/ Del!Disable \/ (\E config \in {"model", "other"} : Del!Select(config))
           \/ Del!Confirm \/ Del!Failed
    PROVE  DelInv'
  <1> USE DEF DelInv
  <1>1. op \in DelOps /\ boot \in DelBoots
    BY DEF DelTyped
  <1>2. UNCHANGED <<where, procs, lock, runner>>
    BY DEF Del!DeleteCheck, Del!Disable, Del!Select, Del!Confirm, Del!Failed
  <1>3. op = Del!Rest \/ op.pc \in {"status", "failed", "undone"}
    BY DEF Del!DeleteCheck, Del!Disable, Del!Select, Del!Confirm, Del!Failed
  <1>4. lock # "helper"
    BY <1>3, DelRest DEF DelLocked
  <1>5. /\ op' \in DelOps /\ op'.pc \in {"rest", "clear", "runner"}
        /\ op'.pc = "clear" => op'.saved = boot /\ UNCHANGED boot
        /\ ~op'.cleared /\ ~op'.moved /\ ~op'.removing
    <2>1. CASE Del!DeleteCheck
      <3>1. /\ op' = [pc |-> "clear", saved |-> boot, cleared |-> FALSE, moved |-> FALSE,
                      removing |-> FALSE]
            /\ UNCHANGED boot
        BY <2>1, DelRest DEF Del!DeleteCheck
      <3>2. QED  BY <1>1, <3>1 DEF DelOps, DelPcs
    <2>2. CASE Del!Disable
      BY <2>2, DelRest DEF Del!Disable
    <2>3. ASSUME NEW config \in {"model", "other"}, Del!Select(config)
          PROVE  /\ op' \in DelOps /\ op'.pc = "runner"
                 /\ ~op'.cleared /\ ~op'.moved /\ ~op'.removing
      <3>1. op' = [pc |-> "runner", saved |-> boot, cleared |-> FALSE, moved |-> FALSE,
                   removing |-> FALSE]
        BY <2>3, DelRest DEF Del!Select
      <3>2. QED  BY <1>1, <3>1 DEF DelOps, DelPcs
    <2>4. CASE Del!Confirm \/ Del!Failed
      <3>1. op' = Del!Rest
        BY <2>4 DEF Del!Confirm, Del!Failed
      <3>2. /\ op' \in DelOps /\ op'.pc = "rest"
            /\ ~op'.cleared /\ ~op'.moved /\ ~op'.removing
        BY <3>1, DelRest
      <3>3. QED  BY <3>2
    <2>5. QED  BY <2>1, <2>2, <2>3, <2>4
  <1>6. boot' \in DelBoots
    <2>1. CASE Del!Disable
      BY <1>1, <2>1 DEF Del!Disable, DelBoots
    <2>2. ASSUME NEW config \in {"model", "other"}, Del!Select(config)
          PROVE  boot' \in DelBoots
      BY <1>1, <2>2 DEF Del!Select, DelBoots
    <2>3. CASE Del!DeleteCheck \/ Del!Confirm \/ Del!Failed
      BY <1>1, <2>3 DEF Del!DeleteCheck, Del!Confirm, Del!Failed
    <2>4. QED  BY <2>1, <2>2, <2>3
  <1>7. DelTyped' /\ DelPlaced' /\ Del!NeverDeletesRunning'
    BY <1>2, <1>5, <1>6 DEF DelTyped, DelPlaced, Del!NeverDeletesRunning
  <1>8. DelLocked' /\ DelSaved'
    BY <1>2, <1>4, <1>5 DEF DelLocked, DelSaved
  <1>9. QED  BY <1>7, <1>8

\* The steps of a configuration before its last check.
LEMMA DelConfigureSteps ==
    ASSUME DelInv, Del!WriteRunner \/ Del!WriteUnit \/ Del!Enable
    PROVE  DelInv'
  <1> USE DEF DelInv
  <1>1. op \in DelOps /\ boot \in DelBoots
    BY DEF DelTyped
  <1>2. UNCHANGED <<where, procs, lock, runner>>
    BY DEF Del!WriteRunner, Del!WriteUnit, Del!Enable
  <1>3. boot' \in DelBoots
    BY <1>1 DEF Del!WriteRunner, Del!WriteUnit, Del!Enable, DelBoots
  <1>4. PICK to \in {"unit", "enable", "status"} :
          op.pc \in {"runner", "unit", "enable"} /\ op' = [op EXCEPT !.pc = to]
    BY DEF Del!WriteRunner, Del!WriteUnit, Del!Enable, Del!Step
  <1>5. /\ op' \in DelOps /\ op'.pc = to /\ op'.saved = op.saved /\ op'.cleared = op.cleared
        /\ op'.moved = op.moved /\ op'.removing = op.removing
    BY <1>1, <1>4, DelGoes DEF DelPcs
  <1>6. DelTyped' /\ DelPlaced' /\ Del!NeverDeletesRunning'
    BY <1>2, <1>3, <1>4, <1>5 DEF DelTyped, DelPlaced, Del!NeverDeletesRunning
  <1>7. DelLocked' /\ DelSaved'
    BY <1>2, <1>4, <1>5 DEF DelLocked, DelSaved
  <1>8. QED  BY <1>6, <1>7

\* What starts, starts from the path, where no directory is that is being
\* removed.
LEMMA DelProcessSteps ==
    ASSUME DelInv,
           \/ Del!StartCheck \/ Del!Spawn \/ Del!RunnerCheck \/ Del!RunnerLock \/ Del!RunnerExec
           \/ Del!Exit
    PROVE  DelInv'
  <1> USE DEF DelInv
  <1>1. UNCHANGED <<where, boot, op>>
    BY DEF Del!StartCheck, Del!Spawn, Del!RunnerCheck, Del!RunnerLock, Del!RunnerExec, Del!Exit
  <1>2. ASSUME NEW auto \in BOOLEAN,
               procs' = procs \union {[dir |-> d, auto |-> auto] : d \in Del!AtPath}
        PROVE  /\ procs' \in SUBSET [dir: Del!Dirs, auto: BOOLEAN]
               /\ Del!NeverDeletesRunning'
    <2>1. \A p \in procs' \ procs : p.dir \in Del!Dirs /\ where[p.dir] = "path" /\ p.auto = auto
                                    /\ p \in [dir: Del!Dirs, auto: BOOLEAN]
      BY <1>2 DEF Del!AtPath
    <2>2. procs' \in SUBSET [dir: Del!Dirs, auto: BOOLEAN]
      BY <2>1 DEF DelTyped
    <2>3. Del!NeverDeletesRunning'
      BY <1>1, <2>1 DEF Del!NeverDeletesRunning
    <2>4. QED  BY <2>2, <2>3
  <1>3. CASE Del!StartCheck
    BY <1>1, <1>3 DEF Del!StartCheck, DelTyped, DelLocked, DelPlaced, DelSaved, Del!NeverDeletesRunning
  <1>4. CASE Del!Spawn
    <2>1. procs' = procs \union {[dir |-> d, auto |-> FALSE] : d \in Del!AtPath}
          /\ UNCHANGED <<lock, runner>>
      BY <1>4 DEF Del!Spawn
    <2>2. \A p \in procs' : p.auto => p \in procs
      BY <2>1
    <2>3. DelLocked'
      BY <1>1, <2>1, <2>2 DEF DelLocked
    <2>4. DelTyped' /\ DelPlaced' /\ DelSaved' /\ Del!NeverDeletesRunning'
      BY <1>1, <1>2, <2>1 DEF DelTyped, DelPlaced, DelSaved
    <2>5. QED  BY <2>3, <2>4
  <1>5. CASE Del!RunnerCheck
    <2>1. UNCHANGED <<procs, lock>> /\ runner' # "exec"
      BY <1>5 DEF Del!RunnerCheck
    <2>2. QED
      BY <1>1, <2>1 DEF DelTyped, DelLocked, DelPlaced, DelSaved, Del!NeverDeletesRunning
  <1>6. CASE Del!RunnerLock
    <2>1. /\ UNCHANGED procs
          /\ \/ runner' = "exec" /\ lock' = "model" /\ lock = "free"
             \/ runner' = "rest" /\ lock' = lock
      BY <1>6 DEF Del!RunnerLock
    <2>2. DelLocked'
      BY <1>1, <2>1 DEF DelLocked
    <2>3. DelTyped' /\ DelPlaced' /\ DelSaved' /\ Del!NeverDeletesRunning'
      BY <1>1, <2>1 DEF DelTyped, DelPlaced, DelSaved, Del!NeverDeletesRunning
    <2>4. QED  BY <2>2, <2>3
  <1>7. CASE Del!RunnerExec
    <2>1. /\ procs' = procs \union {[dir |-> d, auto |-> TRUE] : d \in Del!AtPath}
          /\ runner = "exec" /\ runner' = "rest" /\ lock = "model"
          /\ lock' = IF Del!AtPath = {} THEN "free" ELSE lock
      BY <1>7 DEF Del!RunnerExec, DelLocked
    <2>2. \A p \in procs : ~p.auto
      BY <2>1 DEF DelLocked
    <2>3. \A d, e \in Del!AtPath : d = e
      BY DelConstants DEF Del!AtPath, DelPlaced
    <2>4. \A p, q \in procs' : p.auto /\ q.auto => p = q
      BY <2>1, <2>2, <2>3
    <2>5. \A p \in procs' : p.auto => lock' = "model"
      BY <2>1, <2>2
    <2>6. DelLocked'
      BY <1>1, <2>1, <2>4, <2>5 DEF DelLocked
    <2>7. DelTyped' /\ DelPlaced' /\ DelSaved' /\ Del!NeverDeletesRunning'
      BY <1>1, <1>2, <2>1 DEF DelTyped, DelPlaced, DelSaved
    <2>8. QED  BY <2>6, <2>7
  <1>8. CASE Del!Exit
    <2>1. PICK p \in procs : /\ procs' = procs \ {p}
                             /\ lock' = IF p.auto THEN "free" ELSE lock
                             /\ UNCHANGED runner
      BY <1>8 DEF Del!Exit
    <2>2. DelLocked'
      BY <1>1, <2>1 DEF DelLocked
    <2>3. p.auto => lock = "model"
      BY <2>1 DEF DelLocked
    <2>4. DelTyped' /\ DelPlaced' /\ DelSaved' /\ Del!NeverDeletesRunning'
      BY <1>1, <2>1, <2>3 DEF DelTyped, DelPlaced, DelSaved, Del!NeverDeletesRunning
    <2>5. QED  BY <2>2, <2>4
  <1>9. QED  BY <1>3, <1>4, <1>5, <1>6, <1>7, <1>8

\* An upload takes the free path; a restart of the target ends what was under
\* way.
LEMMA DelOtherSteps ==
    ASSUME DelInv, Del!Upload \/ Del!Reboot
    PROVE  DelInv'
  <1> USE DEF DelInv
  <1>1. CASE Del!Upload
    <2>1. /\ Del!AtPath = {} /\ where' = [where EXCEPT ![Later] = "path"]
          /\ UNCHANGED <<procs, boot, lock, op, runner>>
      BY <1>1 DEF Del!Upload
    <2>2. /\ where' \in [Del!Dirs -> {"path", "hidden", "absent"}]
          /\ where'[Model] = where[Model] /\ where'[Later] = "path" /\ where[Model] # "path"
      BY <2>1, DelConstants DEF DelTyped, Del!AtPath
    <2>3. DelTyped' /\ DelPlaced' /\ Del!NeverDeletesRunning'
      BY <2>1, <2>2 DEF DelTyped, DelPlaced, Del!NeverDeletesRunning
    <2>4. DelLocked' /\ DelSaved'
      BY <2>1 DEF DelLocked, DelSaved
    <2>5. QED  BY <2>3, <2>4
  <1>2. CASE Del!Reboot
    <2>1. /\ procs' = {} /\ lock' = "free" /\ op' = Del!Rest /\ runner' # "exec"
          /\ UNCHANGED <<where, boot>>
      BY <1>2 DEF Del!Reboot
    <2>2. op'.pc = "rest" /\ op' \in DelOps /\ ~op'.cleared /\ ~op'.moved /\ ~op'.removing
      BY <2>1, DelRest
    <2>3. DelTyped' /\ DelPlaced' /\ Del!NeverDeletesRunning'
      BY <2>1, <2>2 DEF DelTyped, DelPlaced, Del!NeverDeletesRunning
    <2>4. DelLocked' /\ DelSaved'
      BY <2>1, <2>2 DEF DelLocked, DelSaved
    <2>5. QED  BY <2>3, <2>4
  <1>3. QED  BY <1>1, <1>2

LEMMA DelNextInv == DelInv /\ Del!Next => DelInv'
  BY DelClearSteps, DelFaultSteps, DelMoveSteps, DelUndoSteps, DelBeginSteps, DelConfigureSteps,
     DelProcessSteps, DelOtherSteps DEF Del!Next

LEMMA DelInitInv == Del!Init => DelInv
  <1> SUFFICES ASSUME Del!Init PROVE DelInv
    OBVIOUS
  <1>1. /\ op.pc = "rest" /\ op \in DelOps /\ ~op.cleared /\ ~op.moved /\ ~op.removing
        /\ boot \in DelBoots
    BY DelRest DEF Del!Init
  <1>2. /\ where \in [Del!Dirs -> {"path", "hidden", "absent"}] /\ where[Later] = "absent"
        /\ procs = {} /\ lock = "free" /\ runner = "rest"
    BY DelConstants DEF Del!Init
  <1>3. QED
    BY <1>1, <1>2 DEF DelInv, DelTyped, DelLocked, DelPlaced, DelSaved, Del!NeverDeletesRunning

LEMMA DelSafe == DelInv => Del!NeverDeletesRunning /\ Del!FailureChangesNothing
  BY DEF DelInv, DelLocked, DelPlaced, DelSaved, Del!FailureChangesNothing

-----------------------------------------------------------------------------
(* The clock of the target.                                                *)

ClkSyncs == {"rest", "begin", "probe", "check", "apply", "done", "failed", "finally"}
ClkTyped ==
    /\ now \in 0..MaxNow /\ pending \in BOOLEAN
    /\ samples \in Nat /\ failures \in Nat /\ retryAt \in Nat
    /\ idleSince \in Nat /\ lastSample \in Nat
    /\ sync \in ClkSyncs
    /\ seen \in Seq([at: Nat, idle: BOOLEAN])
    /\ ended \in [failed: Nat, confirmed: Nat, at: Nat]

\* The counted samples are the last ones taken, and follow each other.
ClkCounted ==
    /\ samples <= Len(seen)
    /\ samples > 0 =>
           /\ idleSince = seen[Len(seen) - samples + 1].at
           /\ lastSample = seen[Len(seen)].at
    /\ samples = 0 => idleSince = Clk!Never
    /\ \A i \in 1..Len(seen) : seen[i].at <= now /\ (i > Len(seen) - samples => seen[i].idle)
    /\ \A i \in 2..Len(seen) : i > Len(seen) - samples + 1 => seen[i].at <= seen[i - 1].at + Gap
    /\ ~pending => samples = 0

\* An attempt is made by an arm that has not ended, and its failures are counted.
ClkTried ==
    /\ pending => /\ ended.confirmed = 0 /\ ended.failed = failures /\ failures < MaxFailures
                  /\ ended.at # Clk!Never => retryAt = ended.at + Retry
    /\ ended.confirmed <= 1 /\ ended.failed <= MaxFailures
    /\ sync \notin {"rest", "finally"} => ended.confirmed = 0 /\ ended.failed < MaxFailures

ClkInv == ClkTyped /\ ClkCounted /\ ClkTried

LEMMA ClkConstants ==
    /\ Samples \in Nat \ {0} /\ IdleTime \in Nat /\ Gap \in Nat /\ Retry \in Nat
    /\ MaxFailures \in Nat \ {0} /\ MaxNow \in Nat
    /\ Clk!Never \in Nat /\ Clk!Never > MaxNow
  BY ServicesAssumption DEF ServicesAssumption, Clk!ClockAssumption, Clk!Never

\* Without a counted sample there is nothing that they have to be.
LEMMA ClkForgets ==
    ASSUME ClkInv, samples' = 0, idleSince' = Clk!Never, lastSample' \in Nat, UNCHANGED <<now, seen>>
    PROVE  ClkCounted'
  <1>1. \A i \in 1..Len(seen) : ~(i > Len(seen) - 0) /\ seen[i].at <= now
    BY DEF ClkInv, ClkCounted, ClkTyped
  <1>2. \A i \in 2..Len(seen) : ~(i > Len(seen) - 0 + 1)
    BY DEF ClkInv, ClkTyped
  <1>3. Len(seen) \in Nat
    BY DEF ClkInv, ClkTyped
  <1>4. QED  BY <1>1, <1>2, <1>3 DEF ClkCounted

\* A sample is counted with those before it, or begins a new count.
LEMMA ClkObserves ==
    ASSUME ClkInv, NEW idle \in BOOLEAN, Clk!Observe(idle)
    PROVE  ClkInv'
  <1>1. /\ now \in 0..MaxNow /\ samples \in Nat /\ idleSince \in Nat /\ lastSample \in Nat
        /\ seen \in Seq([at: Nat, idle: BOOLEAN]) /\ pending = TRUE /\ now \in Nat
    BY ClkConstants DEF ClkInv, ClkTyped, Clk!Observe
  <1>2. PICK e \in [at: Nat, idle: BOOLEAN] : e = [at |-> now, idle |-> idle]
    BY <1>1
  <1>3. PICK n \in Nat : n = Len(seen)
    BY <1>1
  <1>4. /\ seen' \in Seq([at: Nat, idle: BOOLEAN]) /\ Len(seen') = n + 1
        /\ \A i \in 1..n : seen'[i] = seen[i]
        /\ seen'[n + 1] = e
    BY <1>1, <1>2, <1>3, AppendProperties DEF Clk!Observe
  <1>5. /\ lastSample' = now
        /\ UNCHANGED <<now, arm, pending, failures, retryAt, sync, ended>>
    BY DEF Clk!Observe
  <1>6. ClkTried'
    BY <1>5 DEF ClkInv, ClkTried, Clk!Never
  <1>7. now # Clk!Never
    BY <1>1, ClkConstants
  <1>8. /\ samples <= n
        /\ samples > 0 => idleSince = seen[n - samples + 1].at /\ lastSample = seen[n].at
        /\ samples = 0 => idleSince = Clk!Never
        /\ \A i \in 1..n : seen[i].at <= now /\ (i > n - samples => seen[i].idle)
        /\ \A i \in 2..n : i > n - samples + 1 => seen[i].at <= seen[i - 1].at + Gap
    BY <1>3 DEF ClkInv, ClkCounted
  <1>9. CASE ~idle
    <2>1. samples' = 0 /\ idleSince' = Clk!Never
      BY <1>9 DEF Clk!Observe
    <2>2. \A i \in 1..(n + 1) : seen'[i].at <= now
      <3>1. \A i \in 1..(n + 1) : i \in 1..n \/ i = n + 1
        BY <1>3
      <3>2. e.at <= now
        BY <1>1, <1>2
      <3>3. QED  BY <1>4, <1>8, <3>1, <3>2
    <2>3. ClkCounted'
      <3>1. /\ \A i \in 1..(n + 1) : ~(i > (n + 1) - 0)
            /\ \A i \in 2..(n + 1) : ~(i > (n + 1) - 0 + 1)
            /\ 0 <= n + 1
        BY <1>3
      <3>2. QED  BY <1>4, <1>5, <2>1, <2>2, <3>1 DEF ClkCounted, Clk!Never
    <2>4. ClkTyped'
      BY <1>1, <1>4, <1>5, <2>1, ClkConstants DEF ClkInv, ClkTyped, Clk!Never
    <2>5. QED  BY <1>6, <2>3, <2>4 DEF ClkInv
  <1>10. CASE idle
    <2>1. PICK s \in Nat : /\ samples' = s + 1 /\ s <= n
                           /\ s = 0 => idleSince' = now
                           /\ s > 0 => /\ s = samples /\ idleSince' = idleSince
                                       /\ now <= lastSample + Gap
      <3>1. CASE lastSample # Clk!Never /\ now > lastSample + Gap
        BY <1>1, <1>3, <1>10, <3>1 DEF Clk!Observe
      <3>2. CASE ~(lastSample # Clk!Never /\ now > lastSample + Gap)
        <4>1. /\ samples' = samples + 1
              /\ idleSince' = IF idleSince = Clk!Never THEN now ELSE idleSince
          BY <1>10, <3>2 DEF Clk!Observe
        <4>2. samples > 0 => /\ idleSince <= now /\ lastSample <= now
          <5>1. samples > 0 => n - samples + 1 \in 1..n /\ n \in 1..n
            BY <1>1, <1>3, <1>8
          <5>2. QED  BY <1>8, <5>1
        <4>3. samples > 0 => idleSince # Clk!Never /\ lastSample # Clk!Never
          BY <1>1, <4>2, ClkConstants
        <4>4. samples = 0 => idleSince' = now
          BY <1>8, <4>1
        <4>5. samples > 0 => idleSince' = idleSince /\ now <= lastSample + Gap
          BY <1>1, <3>2, <4>1, <4>3, ClkConstants
        <4>6. QED  BY <1>1, <1>8, <4>1, <4>4, <4>5
      <3>3. QED  BY <3>1, <3>2
    <2>2. e.at = now /\ e.idle
      BY <1>2, <1>10
    <2>3. \A i \in 1..(n + 1) : seen'[i].at <= now /\ (i > (n + 1) - (s + 1) => seen'[i].idle)
      <3> TAKE i \in 1..(n + 1)
      <3>1. CASE i = n + 1
        BY <1>1, <1>4, <2>2, <3>1
      <3>2. CASE i # n + 1
        <4>1. i \in 1..n /\ seen'[i] = seen[i]
          BY <1>3, <1>4, <3>2
        <4>2. i > (n + 1) - (s + 1) => s > 0 /\ i > n - s
          BY <1>3, <2>1, <4>1
        <4>3. QED  BY <1>8, <2>1, <4>1, <4>2
      <3>3. QED  BY <3>1, <3>2
    <2>4. \A i \in 2..(n + 1) : i > (n + 1) - (s + 1) + 1 => seen'[i].at <= seen'[i - 1].at + Gap
      <3> TAKE i \in 2..(n + 1)
      <3> SUFFICES ASSUME i > (n + 1) - (s + 1) + 1 PROVE seen'[i].at <= seen'[i - 1].at + Gap
        OBVIOUS
      <3>1. s > 0 /\ i > n - s + 1 /\ i - 1 \in 1..n
        BY <1>3, <2>1
      <3>2. CASE i = n + 1
        <4>1. seen'[i].at = now /\ seen'[i - 1] = seen[n] /\ now <= lastSample + Gap
          BY <1>3, <1>4, <2>1, <2>2, <3>1, <3>2
        <4>2. lastSample = seen[n].at
          BY <1>8, <2>1, <3>1
        <4>3. QED  BY <4>1, <4>2
      <3>3. CASE i # n + 1
        <4>1. i \in 2..n /\ seen'[i] = seen[i] /\ seen'[i - 1] = seen[i - 1]
          BY <1>3, <1>4, <3>1, <3>3
        <4>2. i > n - samples + 1
          BY <2>1, <3>1
        <4>3. QED  BY <1>8, <4>1, <4>2
      <3>4. QED  BY <3>2, <3>3
    <2>5. idleSince' = seen'[(n + 1) - (s + 1) + 1].at
      <3>1. (n + 1) - (s + 1) + 1 = n - s + 1
        BY <1>3, <2>1
      <3>2. CASE s = 0
        <4>1. n - s + 1 = n + 1
          BY <1>3, <3>2
        <4>2. QED  BY <1>4, <2>1, <2>2, <3>1, <3>2, <4>1
      <3>3. CASE s > 0
        <4>1. n - s + 1 \in 1..n /\ s = samples
          BY <1>3, <2>1, <3>3
        <4>2. QED  BY <1>4, <1>8, <2>1, <3>1, <3>3, <4>1
      <3>4. QED  BY <2>1, <3>2, <3>3
    <2>6. s + 1 > 0 /\ s + 1 # 0 /\ s + 1 <= n + 1 /\ s + 1 \in Nat
      BY <1>3, <2>1
    <2>7. ClkCounted'
      BY <1>1, <1>4, <1>5, <2>1, <2>2, <2>3, <2>4, <2>5, <2>6 DEF ClkCounted, Clk!Never
    <2>8. idleSince' \in Nat
      BY <1>1, <2>1
    <2>9. ClkTyped'
      BY <1>1, <1>4, <1>5, <2>1, <2>6, <2>8 DEF ClkInv, ClkTyped
    <2>10. QED  BY <1>6, <2>7, <2>9 DEF ClkInv
  <1>11. QED  BY <1>9, <1>10

\* Time passes, an arm begins or is cancelled.
LEMMA ClkGuiSteps ==
    ASSUME ClkInv, Clk!Tick \/ Clk!Arm \/ Clk!Cancel
    PROVE  ClkInv'
  <1>1. CASE Clk!Tick
    <2>1. /\ now' = now + 1 /\ now' \in 0..MaxNow
          /\ UNCHANGED <<arm, pending, samples, idleSince, lastSample, failures, retryAt, sync,
                         seen, ended>>
      BY <1>1, ClkConstants DEF Clk!Tick, Clk!counters, Clk!ghosts, ClkInv, ClkTyped
    <2>2. \A i \in 1..Len(seen) : seen[i].at <= now'
      <3>1. \A i \in 1..Len(seen) : seen[i].at \in Nat /\ seen[i].at <= now
        <4>1. \A i \in 1..Len(seen) : seen[i] \in [at: Nat, idle: BOOLEAN]
          BY ElementOfSeq DEF ClkInv, ClkTyped
        <4>2. QED  BY <4>1 DEF ClkInv, ClkCounted
      <3>2. now \in Nat
        BY ClkConstants DEF ClkInv, ClkTyped
      <3>3. QED  BY <2>1, <3>1, <3>2
    <2>3. ClkTyped' /\ ClkTried'
      BY <2>1 DEF ClkInv, ClkTyped, ClkTried, Clk!Never
    <2>4. ClkCounted'
      BY <2>1, <2>2 DEF ClkInv, ClkCounted, Clk!Never
    <2>5. QED  BY <2>3, <2>4 DEF ClkInv
  <1>2. CASE Clk!Arm
    <2>1. /\ samples' = 0 /\ idleSince' = Clk!Never /\ lastSample' = Clk!Never /\ failures' = 0
          /\ retryAt' = 0 /\ seen' = <<>> /\ pending' = TRUE /\ sync = "rest"
          /\ ended' = [failed |-> 0, confirmed |-> 0, at |-> Clk!Never]
          /\ UNCHANGED <<now, sync>>
      BY <1>2 DEF Clk!Arm, Clk!Reset, Clk!Fresh
    <2>2. ClkTyped'
      BY <2>1, ClkConstants DEF ClkInv, ClkTyped, Clk!Never
    <2>3. ClkCounted'
      BY <2>1 DEF ClkCounted, Clk!Never
    <2>4. ClkTried'
      BY <2>1, ClkConstants DEF ClkTried, Clk!Never
    <2>5. QED  BY <2>2, <2>3, <2>4 DEF ClkInv
  <1>3. CASE Clk!Cancel
    <2>1. /\ samples' = 0 /\ idleSince' = Clk!Never /\ lastSample' = Clk!Never /\ failures' = 0
          /\ retryAt' = 0 /\ pending' = FALSE
          /\ UNCHANGED <<now, arm, sync, seen, ended>>
      BY <1>3 DEF Clk!Cancel, Clk!Reset, Clk!ghosts
    <2>2. ClkTyped'
      BY <2>1, ClkConstants DEF ClkInv, ClkTyped, Clk!Never
    <2>3. ClkCounted'
      BY <2>1, ClkForgets, ClkConstants
    <2>4. ClkTried'
      BY <2>1 DEF ClkInv, ClkTried, Clk!Never
    <2>5. QED  BY <2>2, <2>3, <2>4 DEF ClkInv
  <1>4. QED  BY <1>1, <1>2, <1>3

\* An attempt goes on, and ends.
LEMMA ClkSyncSteps ==
    ASSUME ClkInv, Clk!Start \/ Clk!Begin \/ Clk!Probe \/ Clk!Check \/ Clk!Apply
    PROVE  ClkInv'
  <1>1. /\ sync' \in ClkSyncs
        /\ UNCHANGED <<now, arm, pending, samples, idleSince, lastSample, failures, retryAt, seen,
                       ended>>
    BY DEF Clk!Start, Clk!Begin, Clk!Probe, Clk!Check, Clk!Apply, Clk!counters, Clk!ghosts, ClkSyncs
  <1>2. sync' \notin {"rest", "finally"} => sync \notin {"rest", "finally"} \/ pending
    BY DEF Clk!Start, Clk!Begin, Clk!Probe, Clk!Check, Clk!Apply, Clk!ready
  <1>3. ClkTyped' /\ ClkCounted'
    BY <1>1 DEF ClkInv, ClkTyped, ClkCounted, Clk!Never
  <1>4. pending => ended.confirmed = 0 /\ ended.failed < MaxFailures
    BY DEF ClkInv, ClkTried
  <1>5. ClkTried'
    BY <1>1, <1>2, <1>4 DEF ClkInv, ClkTried, Clk!Never
  <1>6. QED  BY <1>3, <1>5 DEF ClkInv

LEMMA ClkEndSteps ==
    ASSUME ClkInv, Clk!Done \/ Clk!Failed
    PROVE  ClkInv'
  <1>1. /\ ended.confirmed = 0 /\ ended.failed \in Nat /\ ended.failed < MaxFailures
        /\ ended \in [failed: Nat, confirmed: Nat, at: Nat]
    BY DEF ClkInv, ClkTyped, ClkTried, Clk!Done, Clk!Failed
  <1>2. /\ UNCHANGED <<now, arm, seen>> /\ sync' = "finally" /\ sync' \in ClkSyncs
    BY DEF Clk!Done, Clk!Failed, ClkSyncs
  <1>3. PICK f, k : /\ f \in {0, 1} /\ k = 1 - f
                    /\ ended' = [ended EXCEPT !.failed = @ + f, !.confirmed = @ + k]
                    /\ Clk!Done => f = 0
                    /\ Clk!Failed => f = 1
    <2>1. CASE Clk!Done
      <3>1. ended' = [ended EXCEPT !.failed = @ + 0, !.confirmed = @ + 1]
        BY <2>1 DEF Clk!Done, Clk!Ends
      <3>2. ~Clk!Failed
        BY <2>1 DEF Clk!Done, Clk!Failed
      <3>3. 1 = 1 - 0 /\ 0 \in {0, 1}
        OBVIOUS
      <3>4. QED  BY <3>1, <3>2, <3>3, Zenon
    <2>2. CASE Clk!Failed
      <3>1. ended' = [ended EXCEPT !.failed = @ + 1, !.confirmed = @ + 0]
        BY <2>2 DEF Clk!Failed, Clk!Ends
      <3>2. ~Clk!Done
        BY <2>2 DEF Clk!Done, Clk!Failed
      <3>3. 0 = 1 - 1 /\ 1 \in {0, 1}
        OBVIOUS
      <3>4. QED  BY <3>1, <3>2, <3>3, Zenon
    <2>3. QED  BY <2>1, <2>2
  <1>4. /\ ended' \in [failed: Nat, confirmed: Nat, at: Nat]
        /\ ended'.failed = ended.failed + f /\ ended'.confirmed = k /\ ended'.at = ended.at
    <2>1. ended' = [ended EXCEPT !.failed = ended.failed + f, !.confirmed = ended.confirmed + k]
      BY <1>3
    <2>2. ended.failed + f \in Nat /\ ended.confirmed + k \in Nat /\ ended.confirmed + k = k
      BY <1>1, <1>3
    <2>3. QED  BY <1>1, <2>1, <2>2
  <1>5. ended'.confirmed <= 1 /\ ended'.failed <= MaxFailures
    BY <1>1, <1>3, <1>4, ClkConstants
  <1>6. CASE /\ samples' = 0 /\ idleSince' = Clk!Never /\ lastSample' = Clk!Never
             /\ failures' = 0 /\ retryAt' = 0 /\ pending' = FALSE
    <2>1. ClkTyped'
      BY <1>2, <1>4, <1>6, ClkConstants DEF ClkInv, ClkTyped, Clk!Never
    <2>2. ClkCounted'
      BY <1>2, <1>6, ClkForgets, ClkConstants
    <2>3. ClkTried'
      BY <1>2, <1>5, <1>6 DEF ClkTried, Clk!Never
    <2>4. QED  BY <2>1, <2>2, <2>3 DEF ClkInv
  <1>7. CASE UNCHANGED <<samples, idleSince, lastSample, failures, retryAt, pending>> /\ ~pending
    <2>1. ClkTyped'
      BY <1>2, <1>4, <1>7 DEF ClkInv, ClkTyped
    <2>2. ClkCounted'
      BY <1>2, <1>7 DEF ClkInv, ClkCounted, Clk!Never
    <2>3. ClkTried'
      BY <1>2, <1>5, <1>7 DEF ClkTried, Clk!Never
    <2>4. QED  BY <2>1, <2>2, <2>3 DEF ClkInv
  <1>8. CASE /\ UNCHANGED <<samples, idleSince, lastSample, retryAt, pending>> /\ pending
             /\ Clk!Failed /\ failures' = failures + 1 /\ ~(failures + 1 >= MaxFailures)
    <2>1. f = 1 /\ k = 0
      BY <1>3, <1>8
    <2>2. failures \in Nat /\ ended.failed = failures
      BY <1>8 DEF ClkInv, ClkTyped, ClkTried
    <2>3. ClkTyped'
      BY <1>2, <1>4, <1>8, <2>2 DEF ClkInv, ClkTyped
    <2>4. ClkCounted'
      BY <1>2, <1>8 DEF ClkInv, ClkCounted, Clk!Never
    <2>5. ended'.confirmed = 0 /\ ended'.failed = failures' /\ failures' < MaxFailures
      BY <1>4, <1>8, <2>1, <2>2, ClkConstants
    <2>6. ended.at # Clk!Never => retryAt = ended.at + Retry
      BY <1>8 DEF ClkInv, ClkTried
    <2>7. ClkTried'
      BY <1>2, <1>4, <1>5, <1>8, <2>5, <2>6 DEF ClkTried, Clk!Never
    <2>8. QED  BY <2>3, <2>4, <2>7 DEF ClkInv
  <1>9. CASE Clk!Done
    BY <1>6, <1>7, <1>9 DEF Clk!Done, Clk!cancelled, Clk!Reset, Clk!counters
  <1>10. CASE Clk!Failed
    BY <1>6, <1>7, <1>8, <1>10 DEF Clk!Failed, Clk!cancelled, Clk!Reset, Clk!counters
  <1>11. QED  BY <1>9, <1>10

LEMMA ClkFinallyStep ==
    ASSUME ClkInv, Clk!Finally
    PROVE  ClkInv'
  <1>1. /\ UNCHANGED <<now, arm, pending>> /\ sync' = "rest" /\ seen' = <<>>
        /\ ended' = [ended EXCEPT !.at = now]
    BY DEF Clk!Finally
  <1>2. /\ ended' \in [failed: Nat, confirmed: Nat, at: Nat] /\ ended'.at = now /\ now \in Nat
        /\ ended'.failed = ended.failed /\ ended'.confirmed = ended.confirmed
    <2>1. now \in Nat
      BY ClkConstants DEF ClkInv, ClkTyped
    <2>2. ended \in [failed: Nat, confirmed: Nat, at: Nat]
      BY DEF ClkInv, ClkTyped
    <2>3. QED  BY <1>1, <2>1, <2>2
  <1>3. /\ samples' = 0 /\ idleSince' = Clk!Never /\ lastSample' \in Nat /\ failures' = failures
        /\ retryAt' \in Nat /\ (pending => retryAt' = now + Retry)
    <2>1. CASE pending
      BY <1>2, <2>1, ClkConstants DEF Clk!Finally, Clk!cancelled
    <2>2. CASE ~pending
      BY <2>2 DEF Clk!Finally, Clk!cancelled, Clk!counters, ClkInv, ClkTyped, ClkCounted
    <2>3. QED  BY <2>1, <2>2
  <1>4. ClkTyped'
    BY <1>1, <1>2, <1>3, ClkConstants DEF ClkInv, ClkTyped, ClkSyncs
  <1>5. ClkCounted'
    BY <1>1, <1>3 DEF ClkCounted, Clk!Never
  <1>6. ClkTried'
    BY <1>1, <1>2, <1>3 DEF ClkInv, ClkTried, Clk!Never
  <1>7. QED  BY <1>4, <1>5, <1>6 DEF ClkInv

LEMMA ClkNextInv == ClkInv /\ Clk!Next => ClkInv'
  BY ClkObserves, ClkGuiSteps, ClkSyncSteps, ClkEndSteps, ClkFinallyStep DEF Clk!Next

LEMMA ClkInitInv == Clk!Init => ClkInv
  <1> SUFFICES ASSUME Clk!Init PROVE ClkInv
    OBVIOUS
  <1>1. /\ now = 0 /\ samples = 0 /\ idleSince = Clk!Never /\ lastSample = Clk!Never /\ failures = 0
        /\ retryAt = 0 /\ sync = "rest" /\ seen = <<>> /\ pending = FALSE
        /\ ended = [failed |-> 0, confirmed |-> 0, at |-> Clk!Never]
    BY DEF Clk!Init, Clk!Fresh
  <1>2. ClkTyped
    <2>1. now \in 0..MaxNow /\ retryAt \in Nat /\ idleSince \in Nat /\ lastSample \in Nat
          /\ samples \in Nat /\ failures \in Nat
      BY <1>1, ClkConstants
    <2>2. seen \in Seq([at: Nat, idle: BOOLEAN])
      BY <1>1
    <2>3. ended \in [failed: Nat, confirmed: Nat, at: Nat]
      BY <1>1, ClkConstants
    <2>4. QED  BY <1>1, <2>1, <2>2, <2>3 DEF ClkTyped, ClkSyncs
  <1>3. ClkCounted
    BY <1>1 DEF ClkCounted
  <1>4. ClkTried
    BY <1>1, ClkConstants DEF ClkTried
  <1>5. QED  BY <1>2, <1>3, <1>4 DEF ClkInv

LEMMA ClkSafe == ClkInv => Clk!QuietBeforeSync /\ Clk!BoundedPerConnection
  <1> SUFFICES ASSUME ClkInv PROVE Clk!QuietBeforeSync /\ Clk!BoundedPerConnection
    OBVIOUS
  <1>1. Clk!BoundedPerConnection
    <2>1. pending => ended.confirmed = 0 /\ ended.failed # MaxFailures
      BY ClkConstants DEF ClkInv, ClkTyped, ClkTried
    <2>2. ended.confirmed <= 1 /\ ended.failed <= MaxFailures
      BY DEF ClkInv, ClkTried
    <2>3. QED  BY <2>1, <2>2 DEF Clk!BoundedPerConnection
  <1>2. Clk!QuietBeforeSync
    <2> SUFFICES ASSUME Clk!ready
                 PROVE  /\ \E k \in DOMAIN seen :
                            /\ Len(seen) - k + 1 >= Samples
                            /\ \A i \in k..Len(seen) : seen[i].idle
                            /\ \A i \in (k + 1)..Len(seen) : seen[i].at <= seen[i-1].at + Gap
                            /\ now >= seen[k].at + IdleTime /\ now <= seen[Len(seen)].at + Gap
                        /\ ended.at # Clk!Never => now >= ended.at + Retry
      BY DEF Clk!QuietBeforeSync
    <2>1. pending /\ samples >= Samples /\ now >= idleSince + IdleTime /\ now >= retryAt
          /\ now <= lastSample + Gap
      BY DEF Clk!ready
    <2>2. ended.at # Clk!Never => now >= ended.at + Retry
      BY <2>1 DEF ClkInv, ClkTried
    <2>3. PICK n \in Nat : n = Len(seen) /\ DOMAIN seen = 1..n
      BY DEF ClkInv, ClkTyped
    <2>4. samples > 0 /\ samples \in Nat /\ samples <= n
      BY <2>1, <2>3, ClkConstants DEF ClkInv, ClkTyped, ClkCounted
    <2>5. PICK k \in 1..n : k = n - samples + 1
      BY <2>3, <2>4
    <2>6. n - k + 1 = samples
      BY <2>3, <2>4, <2>5
    <2>7. idleSince = seen[k].at /\ lastSample = seen[n].at
      BY <2>3, <2>4, <2>5 DEF ClkInv, ClkCounted
    <2>8. \A i \in k..n : seen[i].idle
      <3>1. \A i \in k..n : i \in 1..n /\ i > n - samples
        BY <2>3, <2>4, <2>5
      <3>2. QED  BY <2>3, <3>1 DEF ClkInv, ClkCounted
    <2>9. \A i \in (k + 1)..n : seen[i].at <= seen[i - 1].at + Gap
      <3>1. \A i \in (k + 1)..n : i \in 2..n /\ i > n - samples + 1
        BY <2>3, <2>4, <2>5
      <3>2. QED  BY <2>3, <3>1 DEF ClkInv, ClkCounted
    <2>10. QED  BY <2>1, <2>2, <2>3, <2>5, <2>6, <2>7, <2>8, <2>9
  <1>3. QED  BY <1>1, <1>2

-----------------------------------------------------------------------------
(* The build of a bundle.                                                  *)

\* What an invocation is doing, field by field.
BuildRecord(i) ==
    [at |-> i.at, check |-> i.check, rebuild |-> i.rebuild, hashes |-> i.hashes,
     tools |-> i.tools, work |-> i.work, read |-> i.read, out |-> i.out]

BuildWorks == {"todo", "source", "header", "extra", "checksource", "checkheader",
               "checkextra", "replace", "record", "done", "failed"}

\* What a source compiles to with the hashes h and the compilers t, when the
\* compiler has read "text" and the two headers.
Made(s, text, header, extra, h, t) ==
    [source |-> s, text |-> text, header |-> header, extra |-> extra, spec |-> h["spec"],
     tools |-> t]

\* A content only grows, so that between the hash and a content equal to it
\* nothing else was read.
Since(f, h, x) == x \in Nat /\ h[f] <= x /\ x <= content[f]
SinceExtra(h, z) ==
    \E n : Since("extra", h, n) /\ z = (IF Build!There(n) THEN n ELSE 0)

CompilePoint(i, s) ==
    /\ i.work[s] \in {"header", "extra", "checksource", "checkheader", "checkextra", "replace"}
           => s \in DOMAIN i.read
    /\ i.work[s] = "header" =>
           \E x : /\ Since(s, i.hashes, x)
                  /\ i.read[s] = Made(s, x, i.hashes["header"], i.hashes["extra"],
                                      i.hashes, i.tools)
    /\ i.work[s] = "extra" =>
           \E x, y : /\ Since(s, i.hashes, x) /\ Since("header", i.hashes, y)
                     /\ i.read[s] = Made(s, x, y, i.hashes["extra"], i.hashes, i.tools)
    /\ i.work[s] = "checksource" =>
           \E x, y, z : /\ Since(s, i.hashes, x) /\ Since("header", i.hashes, y)
                        /\ SinceExtra(i.hashes, z)
                        /\ i.read[s] = Made(s, x, y, z, i.hashes, i.tools)
    /\ i.work[s] = "checkheader" =>
           \E y, z : /\ Since("header", i.hashes, y) /\ SinceExtra(i.hashes, z)
                     /\ i.read[s] = Made(s, i.hashes[s], y, z, i.hashes, i.tools)
    /\ i.work[s] = "checkextra" =>
           \E z : /\ SinceExtra(i.hashes, z)
                  /\ i.read[s] = Made(s, i.hashes[s], i.hashes["header"], z,
                                      i.hashes, i.tools)
    /\ i.work[s] = "replace" =>
           Build!MadeFrom(i.read[s], Build!Inputs(s, i.hashes, i.tools))
    /\ i.work[s] \in {"record", "done"} =>
           /\ Build!Inputs(s, i.hashes, i.tools) \in DOMAIN object
           /\ Build!MadeFrom(object[Build!Inputs(s, i.hashes, i.tools)],
                             Build!Inputs(s, i.hashes, i.tools))

\* The invocation that has the lock.
BuildActive(i) ==
    /\ i = BuildRecord(i) /\ i.work \in [Sources -> BuildWorks]
    /\ i.at \in {"validate", "tools", "compile", "revalidate", "report"}
    /\ DOMAIN i.hashes \subseteq Build!Files
    /\ \A f \in DOMAIN i.hashes : i.hashes[f] \in Nat /\ i.hashes[f] <= content[f]
    /\ i.at \in {"tools", "compile"} => DOMAIN i.hashes = Build!Files
    /\ i.at \in {"validate", "tools"} => \A s \in Sources : i.work[s] = "todo"
    /\ i.at = "compile" => \A s \in Sources : CompilePoint(i, s)
    /\ i.at \in {"revalidate", "report"} =>
           /\ \A s \in Sources : i.work[s] = "done"
           /\ \A s \in Sources : Build!MadeFrom(i.out[s], Build!Inputs(s, i.read, i.tools))
    /\ i.at \in {"tools", "compile", "revalidate", "report"} => report.status = "running"
    /\ i.at = "report" => elf = i.out /\ i.hashes = i.read

BuildInv ==
    /\ content \in [Build!Files -> Nat] /\ DOMAIN b = Builds
    /\ \A k \in DOMAIN record : Build!MadeFrom(record[k], k)
    /\ \A p, q \in Builds : Build!Holder(p) /\ Build!Holder(q) => p = q
    /\ \A p \in Builds : IF Build!Holder(p) THEN BuildActive(b[p])
                         ELSE \A s \in Sources : b[p].work[s] = "todo"
    /\ Build!ReportTrue

LEMMA BldWork ==
    ASSUME NEW i, i = BuildRecord(i), i.work \in [Sources -> BuildWorks],
           NEW s \in Sources, NEW x \in BuildWorks, NEW v, v = [i EXCEPT !.work[s] = x]
    PROVE  /\ v = BuildRecord(v) /\ v.work \in [Sources -> BuildWorks]
           /\ v.at = i.at /\ v.check = i.check /\ v.rebuild = i.rebuild
           /\ v.hashes = i.hashes /\ v.tools = i.tools /\ v.read = i.read /\ v.out = i.out
           /\ v.work[s] = x /\ \A t \in Sources \ {s} : v.work[t] = i.work[t]
  <1> DEFINE w == [i.work EXCEPT ![s] = x]
  <1>1. w \in [Sources -> BuildWorks] /\ w[s] = x /\ \A t \in Sources \ {s} : w[t] = i.work[t]
    OBVIOUS
  <1>2. v = [i EXCEPT !.work = w]
    OBVIOUS
  <1> HIDE DEF w
  <1>3. v = [at |-> i.at, check |-> i.check, rebuild |-> i.rebuild, hashes |-> i.hashes,
             tools |-> i.tools, work |-> w, read |-> i.read, out |-> i.out]
    BY <1>2 DEF BuildRecord
  <1>4. QED  BY <1>1, <1>3 DEF BuildRecord

LEMMA BldFiles ==
    /\ Build!Files = Sources \union {"header", "extra", "spec"}
    /\ "header" \notin Sources /\ "extra" \notin Sources /\ "spec" \notin Sources
  BY ServicesAssumption DEF Build!BuildAssumption, Build!Files

LEMMA BldPut ==
    ASSUME BuildInv, NEW p \in Builds, NEW v, b' = [b EXCEPT ![p] = v]
    PROVE  DOMAIN b' = Builds /\ b'[p] = v /\ \A q \in Builds \ {p} : b'[q] = b[q]
  BY DEF BuildInv

LEMMA BldActive ==
    ASSUME BuildInv, NEW p \in Builds, Build!Holder(p)
    PROVE  /\ BuildActive(b[p])
           /\ \A q \in Builds \ {p} : ~Build!Holder(q)
  BY DEF BuildInv

\* A step of the invocation that has the lock.
LEMMA BldHolderStep ==
    ASSUME BuildInv, NEW p \in Builds, Build!Holder(p), UNCHANGED content,
           DOMAIN b' = Builds, \A q \in Builds \ {p} : b'[q] = b[q],
           \A k \in DOMAIN record' : Build!MadeFrom(record'[k], k),
           IF Build!Holder(p)' THEN BuildActive(b[p])'
           ELSE \A s \in Sources : b'[p].work[s] = "todo",
           Build!ReportTrue'
    PROVE  BuildInv'
  <1>1. \A q \in Builds \ {p} : /\ ~Build!Holder(q)'
                                /\ \A s \in Sources : b'[q].work[s] = "todo"
    BY BldActive DEF Build!Holder, BuildInv
  <1>2. \A q, u \in Builds : Build!Holder(q)' /\ Build!Holder(u)' => q = u
    BY <1>1
  <1>3. \A q \in Builds : IF Build!Holder(q)' THEN BuildActive(b[q])'
                         ELSE \A s \in Sources : b'[q].work[s] = "todo"
    BY <1>1
  <1>4. content' \in [Build!Files -> Nat]
    BY DEF BuildInv
  <1>5. QED  BY <1>2, <1>3, <1>4 DEF BuildInv

LEMMA BldFinishes ==
    ASSUME BuildInv, NEW p \in Builds, Build!Holder(p), NEW outcome, Build!Finish(p, outcome),
           Build!ReportTrue'
    PROVE  BuildInv'
  <1>1. b' = [b EXCEPT ![p] = Build!Idle] /\ UNCHANGED <<content, record>>
    BY DEF Build!Finish
  <1>2. DOMAIN b' = Builds /\ b'[p] = Build!Idle /\ \A q \in Builds \ {p} : b'[q] = b[q]
    BY <1>1, BldPut
  <1>3. ~Build!Holder(p)' /\ \A s \in Sources : b'[p].work[s] = "todo"
    BY <1>2 DEF Build!Holder, Build!Idle
  <1>4. \A k \in DOMAIN record' : Build!MadeFrom(record'[k], k)
    BY <1>1 DEF BuildInv
  <1>5. QED  BY <1>1, <1>2, <1>3, <1>4, BldHolderStep

\* An invocation begins.
LEMMA BldBegin ==
    ASSUME BuildInv, NEW p \in Builds, Build!Begin(p)
    PROVE  BuildInv'
  <1>1. /\ \A q \in Builds : ~Build!Holder(q)
        /\ UNCHANGED <<content, tools, object, record, elf, report>>
    BY DEF Build!Begin, Build!LockFree, Build!disk
  <1>2. PICK check, rebuild \in BOOLEAN :
            b' = [b EXCEPT ![p] = [Build!Idle EXCEPT !.at = "validate", !.check = check,
                                                     !.rebuild = rebuild]]
    BY DEF Build!Begin
  <1> DEFINE h == Build!Nothing
             t == [s \in Sources |-> "todo"]
             v == [at |-> "validate", check |-> check, rebuild |-> rebuild, hashes |-> h,
                   tools |-> 0, work |-> t, read |-> h, out |-> h]
  <1>3. b' = [b EXCEPT ![p] = v]
    <2> DEFINE e == FALSE
               i == Build!Idle
    <2>1. i = [at |-> "idle", check |-> e, rebuild |-> e, hashes |-> h, tools |-> 0,
               work |-> t, read |-> h, out |-> h]
      BY DEF Build!Idle
    <2> HIDE DEF h
    <2> HIDE DEF t
    <2> HIDE DEF e
    <2> HIDE DEF i
    <2>2. [i EXCEPT !.at = "validate", !.check = check, !.rebuild = rebuild] = v
      <3> DEFINE u == [i EXCEPT !.at = "validate"]
                 w == [u EXCEPT !.check = check]
      <3>1. u = [at |-> "validate", check |-> e, rebuild |-> e, hashes |-> h, tools |-> 0,
                 work |-> t, read |-> h, out |-> h]
        BY <2>1
      <3>2. [i EXCEPT !.at = "validate", !.check = check, !.rebuild = rebuild]
                = [w EXCEPT !.rebuild = rebuild]
        OBVIOUS
      <3> HIDE DEF u
      <3>3. w = [at |-> "validate", check |-> check, rebuild |-> e, hashes |-> h, tools |-> 0,
                 work |-> t, read |-> h, out |-> h]
        BY <3>1
      <3> HIDE DEF w
      <3>4. QED  BY <3>2, <3>3
    <2> HIDE DEF v
    <2>3. QED  BY <1>2, <2>2 DEF i
  <1>4. DOMAIN b' = Builds /\ b'[p] = v /\ \A q \in Builds \ {p} : b'[q] = b[q]
    <2> HIDE DEF v
    <2>1. QED  BY <1>3, BldPut
  <1>5. BuildActive(b[p])'
    <2>1. /\ v = BuildRecord(v) /\ v.at = "validate" /\ v.hashes = Build!Nothing
          /\ v.work = [s \in Sources |-> "todo"] /\ v.work \in [Sources -> BuildWorks]
      BY DEF BuildRecord, BuildWorks
    <2>2. DOMAIN Build!Nothing = {}
      BY DEF Build!Nothing
    <2>3. \A s \in Sources : v.work[s] = "todo"
      BY <2>1
    <2> HIDE DEF v
    <2>4. QED  BY <1>4, <2>1, <2>2, <2>3 DEF BuildActive, BuildRecord
  <1>6. \A q, u \in Builds : Build!Holder(q)' /\ Build!Holder(u)' => q = u
    BY <1>1, <1>4 DEF Build!Holder
  <1>7. \A q \in Builds \ {p} : /\ ~Build!Holder(q)'
                                /\ \A s \in Sources : b'[q].work[s] = "todo"
    BY <1>1, <1>4 DEF Build!Holder, BuildInv
  <1>8. Build!ReportTrue' /\ content' \in [Build!Files -> Nat]
        /\ \A k \in DOMAIN record' : Build!MadeFrom(record'[k], k)
    BY <1>1 DEF BuildInv, Build!ReportTrue
  <1>9. Build!Holder(p)'
    BY <1>4 DEF Build!Holder
  <1>10. QED  BY <1>4, <1>5, <1>6, <1>7, <1>8, <1>9 DEF BuildInv

\* It ends: it has failed, it was only a check, it is killed.
LEMMA BldEnds ==
    ASSUME BuildInv, NEW p \in Builds, Build!Fail(p) \/ Build!Checked(p) \/ Build!Kill(p)
    PROVE  BuildInv'
  <1>1. Build!Holder(p)
    BY DEF Build!Fail, Build!Checked, Build!Kill, Build!Holder
  <1>2. CASE Build!Fail(p)
    <2>1. Build!Finish(p, [status |-> "failed"]) /\ report' = [status |-> "failed"]
      BY <1>2 DEF Build!Fail, Build!Finish
    <2>2. Build!ReportTrue'
      BY <2>1 DEF Build!ReportTrue
    <2>3. QED  BY <1>1, <2>1, <2>2, BldFinishes
  <1>3. CASE Build!Checked(p)
    <2>1. Build!Finish(p, [status |-> "checked"]) /\ report' = [status |-> "checked"]
      BY <1>3 DEF Build!Checked, Build!Finish
    <2>2. Build!ReportTrue'
      BY <2>1 DEF Build!ReportTrue
    <2>3. QED  BY <1>1, <2>1, <2>2, BldFinishes
  <1>4. CASE Build!Kill(p)
    <2>1. b' = [b EXCEPT ![p] = Build!Idle] /\ UNCHANGED <<content, record, elf, report>>
      BY <1>4 DEF Build!Kill
    <2>2. DOMAIN b' = Builds /\ b'[p] = Build!Idle /\ \A q \in Builds \ {p} : b'[q] = b[q]
      BY <2>1, BldPut
    <2>3. ~Build!Holder(p)' /\ \A s \in Sources : b'[p].work[s] = "todo"
      BY <2>2 DEF Build!Holder, Build!Idle
    <2>4. Build!ReportTrue' /\ \A k \in DOMAIN record' : Build!MadeFrom(record'[k], k)
      BY <2>1 DEF BuildInv, Build!ReportTrue
    <2>5. QED  BY <1>1, <2>1, <2>2, <2>3, <2>4, BldHolderStep
  <1>5. QED  BY <1>2, <1>3, <1>4

\* What a validation knows of the files grows, before compilation or again
\* after it.
LEMMA BldHashes ==
    ASSUME BuildInv, NEW p \in Builds, b[p].at \in {"validate", "revalidate"}, NEW h,
           DOMAIN h \subseteq Build!Files,
           \A g \in DOMAIN h : h[g] \in Nat /\ h[g] <= content[g],
           b' = [b EXCEPT ![p].hashes = h],
           UNCHANGED <<content, object, record, elf, report>>
    PROVE  BuildInv'
  <1> DEFINE i == b[p]
             v == [i EXCEPT !.hashes = h]
  <1>1. Build!Holder(p)
    BY DEF Build!Holder
  <1>2. BuildActive(i)
    BY <1>1, BldActive
  <1>3. b' = [b EXCEPT ![p] = v]
    OBVIOUS
  <1>4. v = [at |-> i.at, check |-> i.check, rebuild |-> i.rebuild, hashes |-> h,
             tools |-> i.tools, work |-> i.work, read |-> i.read, out |-> i.out]
    BY <1>2 DEF BuildActive, BuildRecord
  <1> HIDE DEF v
  <1>5. /\ v = BuildRecord(v) /\ v.at = i.at /\ v.hashes = h /\ v.tools = i.tools
        /\ v.work = i.work /\ v.read = i.read /\ v.out = i.out
    BY <1>4 DEF BuildRecord
  <1>6. DOMAIN b' = Builds /\ b'[p] = v /\ \A q \in Builds \ {p} : b'[q] = b[q]
    BY <1>3, BldPut
  <1> HIDE DEF i
  <1>7. BuildActive(b[p])'
    <2>1. i.at \in {"validate", "revalidate"}
      BY DEF i
    <2>2. /\ i.work \in [Sources -> BuildWorks]
          /\ i.at = "validate" => \A s \in Sources : i.work[s] = "todo"
          /\ i.at = "revalidate" =>
                 /\ \A s \in Sources : i.work[s] = "done"
                 /\ \A s \in Sources :
                        Build!MadeFrom(i.out[s], Build!Inputs(s, i.read, i.tools))
                 /\ report.status = "running"
      BY <1>2, <2>1 DEF BuildActive
    <2>3. QED  BY <1>5, <1>6, <2>1, <2>2 DEF BuildActive, BuildRecord
  <1>8. Build!ReportTrue' /\ \A k \in DOMAIN record' : Build!MadeFrom(record'[k], k)
    BY DEF BuildInv, Build!ReportTrue
  <1>9. Build!Holder(p)'
    BY <1>5, <1>6 DEF Build!Holder, i
  <1>10. QED  BY <1>1, <1>6, <1>7, <1>8, <1>9, BldHolderStep

\* The specification is hashed and src is listed.
LEMMA BldList ==
    ASSUME BuildInv, NEW p \in Builds, Build!List(p)
    PROVE  BuildInv'
  <1> DEFINE h == [f \in {"spec"} \union (IF Build!Extra = 0 THEN {"extra"} ELSE {}) |->
                      IF f = "spec" THEN content["spec"] ELSE 0]
  <1>1. /\ b[p].at \in {"validate", "revalidate"} /\ b' = [b EXCEPT ![p].hashes = h]
        /\ UNCHANGED <<content, object, record, elf, report>>
    BY DEF Build!List, Build!disk
  <1>2. "spec" \in Build!Files /\ "extra" \in Build!Files
    BY BldFiles
  <1>3. content["spec"] \in Nat /\ content["extra"] \in Nat
    BY <1>2 DEF BuildInv
  <1>4. DOMAIN h \subseteq Build!Files /\ \A g \in DOMAIN h : h[g] \in Nat /\ h[g] <= content[g]
    BY <1>2, <1>3
  <1> HIDE DEF h
  <1>5. QED  BY <1>1, <1>4, BldHashes

\* A file is hashed.
LEMMA BldHash ==
    ASSUME BuildInv, NEW p \in Builds, Build!Hash(p)
    PROVE  BuildInv'
  <1>1. /\ b[p].at \in {"validate", "revalidate"} /\ Build!Holder(p)
        /\ UNCHANGED <<content, object, record, elf, report>>
    BY DEF Build!Hash, Build!Holder, Build!disk
  <1>2. BuildActive(b[p])
    BY <1>1, BldActive
  <1>3. PICK f \in Build!Files \ DOMAIN b[p].hashes :
            b' = [b EXCEPT ![p].hashes = [g \in DOMAIN b[p].hashes \union {f} |->
                                            IF g = f THEN content[f] ELSE b[p].hashes[g]]]
    BY DEF Build!Hash
  <1> DEFINE i == b[p]
             h == [g \in DOMAIN i.hashes \union {f} |-> IF g = f THEN content[f] ELSE i.hashes[g]]
  <1>4. /\ DOMAIN h \subseteq Build!Files
        /\ \A g \in DOMAIN h : h[g] \in Nat /\ h[g] <= content[g]
    <2>1. content[f] \in Nat
      BY <1>3 DEF BuildInv
    <2>2. \A g \in DOMAIN i.hashes : i.hashes[g] \in Nat /\ i.hashes[g] <= content[g]
      BY <1>2 DEF BuildActive
    <2>3. DOMAIN i.hashes \subseteq Build!Files
      BY <1>2 DEF BuildActive
    <2>4. QED  BY <1>3, <2>1, <2>2, <2>3
  <1>5. b' = [b EXCEPT ![p].hashes = h]
    BY <1>3
  <1> HIDE DEF h
  <1>6. QED  BY <1>1, <1>4, <1>5, BldHashes

\* The report of the last build is withdrawn.
LEMMA BldRunning ==
    ASSUME BuildInv, NEW p \in Builds, Build!Running(p)
    PROVE  BuildInv'
  <1> DEFINE i == b[p]
             v == [i EXCEPT !.at = "tools"]
  <1>1. /\ i.at = "validate" /\ DOMAIN i.hashes = Build!Files /\ Build!Holder(p)
        /\ report' = [status |-> "running"] /\ b' = [b EXCEPT ![p] = v]
        /\ UNCHANGED <<content, object, record, elf>>
    BY DEF Build!Running, Build!Holder, Build!Hashed
  <1>2. BuildActive(i)
    BY <1>1, BldActive
  <1>3. v = [at |-> "tools", check |-> i.check, rebuild |-> i.rebuild, hashes |-> i.hashes,
             tools |-> i.tools, work |-> i.work, read |-> i.read, out |-> i.out]
    BY <1>2 DEF BuildActive, BuildRecord
  <1> HIDE DEF v
  <1>4. /\ v = BuildRecord(v) /\ v.at = "tools" /\ v.hashes = i.hashes /\ v.work = i.work
    BY <1>3 DEF BuildRecord
  <1>5. DOMAIN b' = Builds /\ b'[p] = v /\ \A q \in Builds \ {p} : b'[q] = b[q]
    BY <1>1, BldPut
  <1> HIDE DEF i
  <1>6. BuildActive(b[p])'
    <2>1. report'.status = "running"
      BY <1>1
    <2>2. QED  BY <1>1, <1>2, <1>4, <1>5, <2>1 DEF BuildActive, BuildRecord
  <1>7. Build!ReportTrue' /\ \A k \in DOMAIN record' : Build!MadeFrom(record'[k], k)
    BY <1>1 DEF BuildInv, Build!ReportTrue
  <1>8. Build!Holder(p)'
    BY <1>4, <1>5 DEF Build!Holder
  <1>9. QED  BY <1>1, <1>5, <1>6, <1>7, <1>8, BldHolderStep

LEMMA BldSelectToolchain ==
    ASSUME BuildInv, NEW p \in Builds, Build!SelectToolchain(p)
    PROVE  BuildInv'
  <1> DEFINE i == b[p]
             v == [i EXCEPT !.at = "compile", !.tools = tools]
  <1>1. /\ i.at = "tools" /\ Build!Holder(p) /\ b' = [b EXCEPT ![p] = v]
        /\ UNCHANGED <<content, object, record, elf, report>>
    BY DEF Build!SelectToolchain, Build!Holder, Build!disk
  <1>2. BuildActive(i)
    BY <1>1, BldActive
  <1>3. v = [at |-> "compile", check |-> i.check, rebuild |-> i.rebuild, hashes |-> i.hashes,
             tools |-> tools, work |-> i.work, read |-> i.read, out |-> i.out]
    <2>1. i = BuildRecord(i)
      BY <1>2 DEF BuildActive
    <2> DEFINE u == [i EXCEPT !.at = "compile"]
    <2>2. u = [at |-> "compile", check |-> i.check, rebuild |-> i.rebuild, hashes |-> i.hashes,
               tools |-> i.tools, work |-> i.work, read |-> i.read, out |-> i.out]
      BY <2>1 DEF BuildRecord
    <2>3. v = [u EXCEPT !.tools = tools]
      OBVIOUS
    <2> HIDE DEF u
    <2> HIDE DEF v
    <2>4. QED  BY <2>2, <2>3
  <1> HIDE DEF v
  <1>4. /\ v = BuildRecord(v) /\ v.at = "compile" /\ v.hashes = i.hashes /\ v.work = i.work
    BY <1>3 DEF BuildRecord
  <1>5. DOMAIN b' = Builds /\ b'[p] = v /\ \A q \in Builds \ {p} : b'[q] = b[q]
    BY <1>1, BldPut
  <1> HIDE DEF i
  <1>6. BuildActive(b[p])'
    <2>1. /\ \A s \in Sources : v.work[s] = "todo"
          /\ report.status = "running" /\ DOMAIN i.hashes = Build!Files
          /\ i.work \in [Sources -> BuildWorks]
          /\ \A f \in DOMAIN i.hashes : i.hashes[f] \in Nat /\ i.hashes[f] <= content[f]
      BY <1>1, <1>2, <1>4 DEF BuildActive
    <2>2. \A s \in Sources : CompilePoint(b[p], s)'
      BY <1>5, <2>1 DEF CompilePoint
    <2>3. QED  BY <1>1, <1>4, <1>5, <2>1, <2>2 DEF BuildActive, BuildRecord
  <1>7. Build!ReportTrue' /\ \A k \in DOMAIN record' : Build!MadeFrom(record'[k], k)
    BY <1>1 DEF BuildInv, Build!ReportTrue
  <1>8. Build!Holder(p)'
    BY <1>4, <1>5 DEF Build!Holder
  <1>9. QED  BY <1>1, <1>5, <1>6, <1>7, <1>8, BldHolderStep

\* One source gets on.  "x" is where it is now; the objects that other sources
\* need are left as they are.
LEMMA BldWorkStep ==
    ASSUME BuildInv, NEW p \in Builds, NEW s \in Sources, NEW x \in BuildWorks,
           b[p].at = "compile", UNCHANGED <<content, elf, report>>,
           DOMAIN b' = Builds, \A q \in Builds \ {p} : b'[q] = b[q],
           b'[p] = BuildRecord(b'[p]), b'[p].at = "compile", b'[p].hashes = b[p].hashes,
           b'[p].tools = b[p].tools, b'[p].work \in [Sources -> BuildWorks],
           b'[p].work[s] = x, \A t \in Sources \ {s} : b'[p].work[t] = b[p].work[t],
           \A t \in Sources \ {s} : t \in DOMAIN b[p].read =>
               t \in DOMAIN b'[p].read /\ b'[p].read[t] = b[p].read[t],
           \A k \in DOMAIN object : Build!MadeFrom(object[k], k) =>
               k \in DOMAIN object' /\ Build!MadeFrom(object'[k], k),
           \A k \in DOMAIN record' : Build!MadeFrom(record'[k], k),
           CompilePoint(b[p], s)'
    PROVE  BuildInv'
  <1> DEFINE i == b[p]
             v == b'[p]
  <1>1. Build!Holder(p)
    BY DEF Build!Holder
  <1>2. BuildActive(i)
    BY <1>1, BldActive
  <1>3. /\ \A t \in Sources : CompilePoint(i, t)
        /\ DOMAIN i.hashes = Build!Files /\ report.status = "running"
        /\ \A f \in DOMAIN i.hashes : i.hashes[f] \in Nat /\ i.hashes[f] <= content[f]
    BY <1>2 DEF BuildActive
  <1>4. \A t \in Sources \ {s} : CompilePoint(b[p], t)'
    <2> SUFFICES ASSUME NEW t \in Sources \ {s} PROVE CompilePoint(b[p], t)'
      OBVIOUS
    <2>1. /\ CompilePoint(i, t) /\ v.work[t] = i.work[t] /\ v.hashes = i.hashes
          /\ v.tools = i.tools
      BY <1>3
    <2>2. t \in DOMAIN i.read => t \in DOMAIN v.read /\ v.read[t] = i.read[t]
      OBVIOUS
    <2>3. i.work[t] \in {"record", "done"} =>
              /\ Build!Inputs(t, i.hashes, i.tools) \in DOMAIN object'
              /\ Build!MadeFrom(object'[Build!Inputs(t, i.hashes, i.tools)],
                                Build!Inputs(t, i.hashes, i.tools))
      BY <2>1 DEF CompilePoint
    <2>4. /\ \A f, y : Since(f, i.hashes, y) => Since(f, b[p].hashes, y)'
          /\ \A z : SinceExtra(i.hashes, z) => SinceExtra(b[p].hashes, z)'
      BY <2>1 DEF Since, SinceExtra
    <2>5. /\ i.work[t] = "header" =>
               \E y : /\ Since(t, b[p].hashes, y)'
                      /\ v.read[t] = Made(t, y, v.hashes["header"], v.hashes["extra"],
                                          v.hashes, v.tools)
          /\ i.work[t] = "extra" =>
               \E x1, y : /\ Since(t, b[p].hashes, x1)' /\ Since("header", b[p].hashes, y)'
                          /\ v.read[t] = Made(t, x1, y, v.hashes["extra"], v.hashes, v.tools)
          /\ i.work[t] = "checksource" =>
               \E x1, y, z : /\ Since(t, b[p].hashes, x1)' /\ Since("header", b[p].hashes, y)'
                             /\ SinceExtra(b[p].hashes, z)'
                             /\ v.read[t] = Made(t, x1, y, z, v.hashes, v.tools)
      BY <2>1, <2>2, <2>4 DEF CompilePoint
    <2>6. /\ i.work[t] = "checkheader" =>
               \E y, z : /\ Since("header", b[p].hashes, y)' /\ SinceExtra(b[p].hashes, z)'
                         /\ v.read[t] = Made(t, v.hashes[t], y, z, v.hashes, v.tools)
          /\ i.work[t] = "checkextra" =>
               \E z : /\ SinceExtra(b[p].hashes, z)'
                      /\ v.read[t] = Made(t, v.hashes[t], v.hashes["header"], z,
                                          v.hashes, v.tools)
          /\ i.work[t] = "replace" =>
               Build!MadeFrom(v.read[t], Build!Inputs(t, v.hashes, v.tools))
      BY <2>1, <2>2, <2>4 DEF CompilePoint
    <2>7. i.work[t] \in {"header", "extra", "checksource", "checkheader", "checkextra",
                         "replace"} => t \in DOMAIN v.read
      BY <2>1, <2>2 DEF CompilePoint
    <2>8. QED  BY <2>1, <2>3, <2>5, <2>6, <2>7 DEF CompilePoint
  <1>5. BuildActive(b[p])'
    BY <1>3, <1>4 DEF BuildActive, BuildRecord
  <1>6. Build!ReportTrue'
    BY DEF BuildInv, Build!ReportTrue
  <1>7. Build!Holder(p)'
    BY DEF Build!Holder
  <1>8. QED  BY <1>1, <1>5, <1>6, <1>7, BldHolderStep

\* An invocation that compiles, and what is known of it.
LEMMA BldCompiling ==
    ASSUME BuildInv, NEW p \in Builds, NEW s \in Sources, b[p].work[s] # "todo",
           b[p].work[s] # "done"
    PROVE  b[p].at = "compile"
  <1>1. Build!Holder(p)
    BY DEF BuildInv
  <1>2. QED  BY <1>1, BldActive DEF Build!Holder, BuildActive

LEMMA BldCompileFacts ==
    ASSUME BuildInv, NEW p \in Builds, NEW s \in Sources, b[p].at = "compile"
    PROVE  /\ b[p] = BuildRecord(b[p]) /\ b[p].work \in [Sources -> BuildWorks]
           /\ CompilePoint(b[p], s)
           /\ b[p].hashes[s] \in Nat /\ b[p].hashes[s] <= content[s] /\ content[s] \in Nat
           /\ b[p].hashes["header"] \in Nat /\ b[p].hashes["header"] <= content["header"]
           /\ b[p].hashes["extra"] \in Nat /\ b[p].hashes["extra"] <= content["extra"]
           /\ content["header"] \in Nat /\ content["extra"] \in Nat
           /\ Build!Key(p, s) = Build!Inputs(s, b[p].hashes, b[p].tools)
           /\ \A k \in DOMAIN record : Build!MadeFrom(record[k], k)
  <1>1. BuildActive(b[p])
    BY BldActive DEF Build!Holder
  <1>2. s \in Build!Files /\ "header" \in Build!Files /\ "extra" \in Build!Files
    BY BldFiles
  <1>3. Build!Key(p, s) = Build!Inputs(s, b[p].hashes, b[p].tools)
    BY DEF Build!Key
  <1>4. QED  BY <1>1, <1>2, <1>3 DEF BuildActive, BuildInv

BldMoves(p, s, x) == b' = [b EXCEPT ![p].work[s] = x]

\* The step that changes nothing of the invocation but where it is with a source.
LEMMA BldOnlyWork ==
    ASSUME BuildInv, NEW p \in Builds, NEW s \in Sources, NEW x \in BuildWorks,
           b[p].at = "compile", BldMoves(p, s, x)
    PROVE  /\ DOMAIN b' = Builds /\ \A q \in Builds \ {p} : b'[q] = b[q]
           /\ b'[p] = BuildRecord(b'[p]) /\ b'[p].at = "compile"
           /\ b'[p].hashes = b[p].hashes /\ b'[p].tools = b[p].tools
           /\ b'[p].read = b[p].read /\ b'[p].work \in [Sources -> BuildWorks]
           /\ b'[p].work[s] = x /\ \A t \in Sources \ {s} : b'[p].work[t] = b[p].work[t]
  <1> DEFINE v == [b[p] EXCEPT !.work[s] = x]
  <1>1. b[p] = BuildRecord(b[p]) /\ b[p].work \in [Sources -> BuildWorks]
    BY BldCompileFacts
  <1>2. b' = [b EXCEPT ![p] = v]
    BY DEF BldMoves
  <1>3. /\ v = BuildRecord(v) /\ v.work \in [Sources -> BuildWorks]
        /\ v.at = b[p].at /\ v.hashes = b[p].hashes /\ v.tools = b[p].tools
        /\ v.read = b[p].read
        /\ v.work[s] = x /\ \A t \in Sources \ {s} : v.work[t] = b[p].work[t]
    BY <1>1, BldWork
  <1> HIDE DEF v
  <1>4. DOMAIN b' = Builds /\ b'[p] = v /\ \A q \in Builds \ {p} : b'[q] = b[q]
    BY <1>2, BldPut
  <1>5. QED  BY <1>3, <1>4

\* The cache is looked up; a compiler fails.
LEMMA BldLookup ==
    ASSUME BuildInv, NEW p \in Builds, NEW s \in Sources, Build!Lookup(p, s)
    PROVE  BuildInv'
  <1>1. /\ b[p].at = "compile" /\ UNCHANGED <<content, object, record, elf, report>>
    BY DEF Build!Lookup, Build!disk
  <1>2. PICK x \in BuildWorks :
            /\ b' = [b EXCEPT ![p].work[s] = x]
            /\ \/ x = "source"
               \/ x = "done" /\ Build!Reusable(Build!Key(p, s))
    <2> DEFINE hit == ~b[p].rebuild /\ Build!Reusable(Build!Key(p, s))
    <2>1. b' = [b EXCEPT ![p].work[s] = IF hit THEN "done" ELSE "source"]
      BY DEF Build!Lookup
    <2>2. CASE hit
      <3>1. "done" \in BuildWorks /\ b' = [b EXCEPT ![p].work[s] = "done"]
        BY <2>1, <2>2 DEF BuildWorks
      <3>2. QED  BY <2>2, <3>1
    <2>3. CASE ~hit
      <3>1. "source" \in BuildWorks /\ b' = [b EXCEPT ![p].work[s] = "source"]
        BY <2>1, <2>3 DEF BuildWorks
      <3>2. QED  BY <3>1
    <2>4. QED  BY <2>2, <2>3
  <1>3. /\ DOMAIN b' = Builds /\ \A q \in Builds \ {p} : b'[q] = b[q]
        /\ b'[p] = BuildRecord(b'[p]) /\ b'[p].at = "compile"
        /\ b'[p].hashes = b[p].hashes /\ b'[p].tools = b[p].tools
        /\ b'[p].read = b[p].read /\ b'[p].work \in [Sources -> BuildWorks]
        /\ b'[p].work[s] = x /\ \A t \in Sources \ {s} : b'[p].work[t] = b[p].work[t]
    <2>1. BldMoves(p, s, x)
      BY <1>2 DEF BldMoves
    <2>2. QED  BY <1>1, <2>1, BldOnlyWork
  <1>4. CompilePoint(b[p], s)'
    <2>1. x = "done" =>
              /\ Build!Inputs(s, b[p].hashes, b[p].tools) \in DOMAIN object
              /\ Build!MadeFrom(object[Build!Inputs(s, b[p].hashes, b[p].tools)],
                                Build!Inputs(s, b[p].hashes, b[p].tools))
      BY <1>1, <1>2, BldCompileFacts DEF Build!Reusable
    <2>2. QED  BY <1>1, <1>2, <1>3, <2>1 DEF CompilePoint
  <1>5. \A k \in DOMAIN record' : Build!MadeFrom(record'[k], k)
    BY <1>1, BldCompileFacts
  <1>6. QED  BY <1>1, <1>2, <1>3, <1>4, <1>5, BldWorkStep

LEMMA BldCompileFails ==
    ASSUME BuildInv, NEW p \in Builds, NEW s \in Sources, b[p].at = "compile",
           b' = [b EXCEPT ![p].work[s] = "failed"],
           UNCHANGED <<content, object, record, elf, report>>
    PROVE  BuildInv'
  <1>1. "failed" \in BuildWorks
    BY DEF BuildWorks
  <1>2. /\ DOMAIN b' = Builds /\ \A q \in Builds \ {p} : b'[q] = b[q]
        /\ b'[p] = BuildRecord(b'[p]) /\ b'[p].at = "compile"
        /\ b'[p].hashes = b[p].hashes /\ b'[p].tools = b[p].tools
        /\ b'[p].read = b[p].read /\ b'[p].work \in [Sources -> BuildWorks]
        /\ b'[p].work[s] = "failed" /\ \A t \in Sources \ {s} : b'[p].work[t] = b[p].work[t]
    <2>1. BldMoves(p, s, "failed")
      BY DEF BldMoves
    <2>2. QED  BY <1>1, <2>1, BldOnlyWork
  <1>3. CompilePoint(b[p], s)'
    BY <1>2 DEF CompilePoint
  <1>4. \A k \in DOMAIN record' : Build!MadeFrom(record'[k], k)
    BY BldCompileFacts
  <1>5. QED  BY <1>1, <1>2, <1>3, <1>4, BldWorkStep

\* The source and the listed headers are compared with their hashes: the
\* compiler has read what was hashed if they are still the same.
LEMMA BldChecks ==
    ASSUME BuildInv, NEW p \in Builds, NEW s \in Sources,
           Build!CheckSource(p, s) \/ Build!CheckHeader(p, s) \/ Build!CheckExtra(p, s)
    PROVE  BuildInv'
  <1>1. /\ b[p].work[s] \in {"checksource", "checkheader", "checkextra"}
        /\ UNCHANGED <<content, object, record, elf, report>>
    BY DEF Build!CheckSource, Build!CheckHeader, Build!CheckExtra, Build!disk
  <1>2. b[p].at = "compile"
    BY <1>1, BldCompiling
  <1> DEFINE i == b[p]
             h == b[p].hashes
  <1>3. /\ CompilePoint(i, s) /\ h[s] \in Nat /\ h["header"] \in Nat /\ h["extra"] \in Nat
        /\ content[s] \in Nat /\ content["header"] \in Nat /\ content["extra"] \in Nat
        /\ \A k \in DOMAIN record : Build!MadeFrom(record[k], k)
    BY <1>2, BldCompileFacts
  <1>4. CASE Build!CheckSource(p, s) /\ content[s] = h[s]
    <2>1. BldMoves(p, s, "checkheader") /\ "checkheader" \in BuildWorks
          /\ i.work[s] = "checksource"
      BY <1>4 DEF Build!CheckSource, BldMoves, BuildWorks
    <2>2. /\ DOMAIN b' = Builds /\ \A q \in Builds \ {p} : b'[q] = b[q]
          /\ b'[p] = BuildRecord(b'[p]) /\ b'[p].at = "compile"
          /\ b'[p].hashes = b[p].hashes /\ b'[p].tools = b[p].tools
          /\ b'[p].read = b[p].read /\ b'[p].work \in [Sources -> BuildWorks]
          /\ b'[p].work[s] = "checkheader"
          /\ \A t \in Sources \ {s} : b'[p].work[t] = b[p].work[t]
      BY <1>2, <2>1, BldOnlyWork
    <2>3. PICK x, y, z : /\ Since(s, h, x) /\ Since("header", h, y) /\ SinceExtra(h, z)
                         /\ i.read[s] = Made(s, x, y, z, h, i.tools)
      BY <1>3, <2>1 DEF CompilePoint
    <2>4. x = h[s] /\ s \in DOMAIN i.read
      <3>1. \A u, w \in Nat : u <= w /\ w <= u => w = u
        OBVIOUS
      <3>2. QED  BY <1>3, <1>4, <2>1, <2>3, <3>1 DEF Since, CompilePoint
    <2>5. Since("header", b[p].hashes, y)' /\ SinceExtra(b[p].hashes, z)'
      BY <1>1, <2>2, <2>3 DEF Since, SinceExtra
    <2>6. CompilePoint(b[p], s)'
      BY <2>2, <2>3, <2>4, <2>5 DEF CompilePoint
    <2>7. \A k \in DOMAIN record' : Build!MadeFrom(record'[k], k)
      BY <1>1, <1>3
    <2>8. QED  BY <1>1, <1>2, <2>1, <2>2, <2>6, <2>7, BldWorkStep
  <1>5. CASE Build!CheckHeader(p, s) /\ content["header"] = h["header"]
    <2>1. BldMoves(p, s, "checkextra") /\ "checkextra" \in BuildWorks
          /\ i.work[s] = "checkheader"
      BY <1>5 DEF Build!CheckHeader, BldMoves, BuildWorks
    <2>2. /\ DOMAIN b' = Builds /\ \A q \in Builds \ {p} : b'[q] = b[q]
          /\ b'[p] = BuildRecord(b'[p]) /\ b'[p].at = "compile"
          /\ b'[p].hashes = b[p].hashes /\ b'[p].tools = b[p].tools
          /\ b'[p].read = b[p].read /\ b'[p].work \in [Sources -> BuildWorks]
          /\ b'[p].work[s] = "checkextra"
          /\ \A t \in Sources \ {s} : b'[p].work[t] = b[p].work[t]
      BY <1>2, <2>1, BldOnlyWork
    <2>3. PICK y, z : /\ Since("header", h, y) /\ SinceExtra(h, z)
                      /\ i.read[s] = Made(s, h[s], y, z, h, i.tools)
      BY <1>3, <2>1 DEF CompilePoint
    <2>4. y = h["header"] /\ s \in DOMAIN i.read
      <3>1. \A u, w \in Nat : u <= w /\ w <= u => w = u
        OBVIOUS
      <3>2. QED  BY <1>3, <1>5, <2>1, <2>3, <3>1 DEF Since, CompilePoint
    <2>5. SinceExtra(b[p].hashes, z)'
      BY <1>1, <2>2, <2>3 DEF Since, SinceExtra
    <2>6. CompilePoint(b[p], s)'
      BY <2>2, <2>3, <2>4, <2>5 DEF CompilePoint
    <2>7. \A k \in DOMAIN record' : Build!MadeFrom(record'[k], k)
      BY <1>1, <1>3
    <2>8. QED  BY <1>1, <1>2, <2>1, <2>2, <2>6, <2>7, BldWorkStep
  <1>6. CASE Build!CheckExtra(p, s) /\ h["extra"] \in {0, Build!Extra}
    <2>1. BldMoves(p, s, "replace") /\ "replace" \in BuildWorks
          /\ i.work[s] = "checkextra"
      BY <1>6 DEF Build!CheckExtra, BldMoves, BuildWorks
    <2>2. /\ DOMAIN b' = Builds /\ \A q \in Builds \ {p} : b'[q] = b[q]
          /\ b'[p] = BuildRecord(b'[p]) /\ b'[p].at = "compile"
          /\ b'[p].hashes = b[p].hashes /\ b'[p].tools = b[p].tools
          /\ b'[p].read = b[p].read /\ b'[p].work \in [Sources -> BuildWorks]
          /\ b'[p].work[s] = "replace"
          /\ \A t \in Sources \ {s} : b'[p].work[t] = b[p].work[t]
      BY <1>2, <2>1, BldOnlyWork
    <2>3. PICK z : /\ SinceExtra(h, z)
                   /\ i.read[s] = Made(s, h[s], h["header"], z, h, i.tools)
      BY <1>3, <2>1 DEF CompilePoint
    <2>4. h["extra"] = 0 \/ z = h["extra"]
      <3> SUFFICES ASSUME h["extra"] # 0 PROVE z = h["extra"]
        OBVIOUS
      <3>1. Build!There(content["extra"]) /\ content["extra"] = h["extra"]
        BY <1>6 DEF Build!Extra
      <3>2. PICK n : Since("extra", h, n) /\ z = (IF Build!There(n) THEN n ELSE 0)
        BY <2>3 DEF SinceExtra
      <3>3. \A u, w \in Nat : u <= w /\ w <= u => w = u
        OBVIOUS
      <3>4. n = h["extra"]
        BY <1>3, <3>1, <3>2, <3>3 DEF Since
      <3>5. QED  BY <3>1, <3>2, <3>4
    <2>5. Build!MadeFrom(i.read[s], Build!Inputs(s, h, i.tools))
      BY <2>3, <2>4 DEF Made, Build!MadeFrom, Build!Inputs
    <2>6. CompilePoint(b[p], s)'
      <3>1. s \in DOMAIN i.read
        BY <1>3, <2>1 DEF CompilePoint
      <3>2. QED  BY <2>2, <2>5, <3>1 DEF CompilePoint
    <2>7. \A k \in DOMAIN record' : Build!MadeFrom(record'[k], k)
      BY <1>1, <1>3
    <2>8. QED  BY <1>1, <1>2, <2>1, <2>2, <2>6, <2>7, BldWorkStep
  <1>7. CASE \/ Build!CheckSource(p, s) /\ content[s] # h[s]
             \/ Build!CheckHeader(p, s) /\ content["header"] # h["header"]
             \/ Build!CheckExtra(p, s) /\ h["extra"] \notin {0, Build!Extra}
    <2>1. b' = [b EXCEPT ![p].work[s] = "failed"]
      BY <1>7 DEF Build!CheckSource, Build!CheckHeader, Build!CheckExtra
    <2>2. QED  BY <1>1, <1>2, <2>1, BldCompileFails
  <1>8. QED  BY <1>4, <1>5, <1>6, <1>7

\* The object is put in the cache, and then its record.
LEMMA BldCaches ==
    ASSUME BuildInv, NEW p \in Builds, NEW s \in Sources,
           Build!Replace(p, s) \/ Build!Record(p, s)
    PROVE  BuildInv'
  <1>1. /\ b[p].work[s] \in {"replace", "record"} /\ UNCHANGED <<content, elf, report>>
    BY DEF Build!Replace, Build!Record
  <1>2. b[p].at = "compile"
    BY <1>1, BldCompiling
  <1> DEFINE i == b[p]
             key == Build!Inputs(s, i.hashes, i.tools)
  <1>3. CompilePoint(i, s) /\ Build!Key(p, s) = key /\ \A k \in DOMAIN record : Build!MadeFrom(record[k], k)
    BY <1>2, BldCompileFacts
  <1>4. CASE Build!Replace(p, s)
    <2>1. /\ i.work[s] = "replace" /\ BldMoves(p, s, "record") /\ "record" \in BuildWorks
          /\ object' = Build!Store(object, key, i.read[s]) /\ UNCHANGED record
      BY <1>3, <1>4 DEF Build!Replace, BldMoves, BuildWorks
    <2>2. /\ DOMAIN b' = Builds /\ \A q \in Builds \ {p} : b'[q] = b[q]
          /\ b'[p] = BuildRecord(b'[p]) /\ b'[p].at = "compile"
          /\ b'[p].hashes = b[p].hashes /\ b'[p].tools = b[p].tools
          /\ b'[p].read = b[p].read /\ b'[p].work \in [Sources -> BuildWorks]
          /\ b'[p].work[s] = "record"
          /\ \A t \in Sources \ {s} : b'[p].work[t] = b[p].work[t]
      BY <1>2, <2>1, BldOnlyWork
    <2>3. Build!MadeFrom(i.read[s], key)
      BY <1>3, <2>1 DEF CompilePoint
    <2> HIDE DEF key
    <2>4. /\ key \in DOMAIN object' /\ Build!MadeFrom(object'[key], key)
          /\ \A k \in DOMAIN object : Build!MadeFrom(object[k], k) =>
                 k \in DOMAIN object' /\ Build!MadeFrom(object'[k], k)
      BY <2>1, <2>3 DEF Build!Store
    <2>5. CompilePoint(b[p], s)'
      BY <2>2, <2>4 DEF CompilePoint, key
    <2>6. \A k \in DOMAIN record' : Build!MadeFrom(record'[k], k)
      BY <1>3, <2>1
    <2>7. QED  BY <1>1, <1>2, <2>1, <2>2, <2>4, <2>5, <2>6, BldWorkStep
  <1>5. CASE Build!Record(p, s)
    <2>1. /\ i.work[s] = "record" /\ BldMoves(p, s, "done") /\ "done" \in BuildWorks
          /\ record' = Build!Store(record, key, object[key]) /\ UNCHANGED object
      BY <1>3, <1>5 DEF Build!Record, BldMoves, BuildWorks
    <2>2. /\ DOMAIN b' = Builds /\ \A q \in Builds \ {p} : b'[q] = b[q]
          /\ b'[p] = BuildRecord(b'[p]) /\ b'[p].at = "compile"
          /\ b'[p].hashes = b[p].hashes /\ b'[p].tools = b[p].tools
          /\ b'[p].read = b[p].read /\ b'[p].work \in [Sources -> BuildWorks]
          /\ b'[p].work[s] = "done"
          /\ \A t \in Sources \ {s} : b'[p].work[t] = b[p].work[t]
      BY <1>2, <2>1, BldOnlyWork
    <2>3. key \in DOMAIN object /\ Build!MadeFrom(object[key], key)
      BY <1>3, <2>1 DEF CompilePoint
    <2> HIDE DEF key
    <2>4. \A k \in DOMAIN record' : Build!MadeFrom(record'[k], k)
      BY <1>3, <2>1, <2>3 DEF Build!Store
    <2>5. CompilePoint(b[p], s)'
      BY <2>1, <2>2, <2>3 DEF CompilePoint, key
    <2>6. QED  BY <1>1, <1>2, <2>1, <2>2, <2>4, <2>5, BldWorkStep
  <1>6. QED  BY <1>4, <1>5

\* The compiler reads the source.
LEMMA BldReadSource ==
    ASSUME BuildInv, NEW p \in Builds, NEW s \in Sources, Build!ReadSource(p, s)
    PROVE  BuildInv'
  <1> DEFINE i == b[p]
             key == Build!Key(p, s)
             e == [key EXCEPT !.text = content[s]]
             d == Build!Store(i.read, s, e)
             u == [i EXCEPT !.work[s] = "header"]
             v == [i EXCEPT !.work[s] = "header", !.read = d]
  <1>1. /\ i.work[s] = "source" /\ b' = [b EXCEPT ![p] = v]
        /\ UNCHANGED <<content, object, record, elf, report>>
    BY DEF Build!ReadSource, Build!disk
  <1>2. b[p].at = "compile"
    BY <1>1, BldCompiling
  <1>3. /\ i = BuildRecord(i) /\ i.work \in [Sources -> BuildWorks]
        /\ i.hashes[s] \in Nat /\ i.hashes["header"] \in Nat
        /\ i.hashes[s] <= content[s] /\ content[s] \in Nat
        /\ \A k \in DOMAIN record : Build!MadeFrom(record[k], k)
    BY <1>2, BldCompileFacts
  <1>4. e = Made(s, content[s], i.hashes["header"], i.hashes["extra"], i.hashes, i.tools)
    BY DEF Build!Key, Build!Inputs, Made
  <1> HIDE DEF e
  <1>5. /\ s \in DOMAIN d /\ d[s] = e
        /\ \A t \in Sources \ {s} : t \in DOMAIN i.read => t \in DOMAIN d /\ d[t] = i.read[t]
    BY DEF Build!Store
  <1> HIDE DEF d
  <1>6. "header" \in BuildWorks
    BY DEF BuildWorks
  <1>7. /\ u = BuildRecord(u) /\ u.work \in [Sources -> BuildWorks] /\ u.at = i.at
        /\ u.check = i.check /\ u.rebuild = i.rebuild /\ u.hashes = i.hashes
        /\ u.tools = i.tools /\ u.out = i.out
        /\ u.work[s] = "header" /\ \A t \in Sources \ {s} : u.work[t] = i.work[t]
    BY <1>3, <1>6, BldWork
  <1>8. v = [u EXCEPT !.read = d]
    OBVIOUS
  <1> HIDE DEF u
  <1>9. v = [at |-> u.at, check |-> u.check, rebuild |-> u.rebuild, hashes |-> u.hashes,
             tools |-> u.tools, work |-> u.work, read |-> d, out |-> u.out]
    <2> HIDE DEF v
    <2>1. QED  BY <1>7, <1>8 DEF BuildRecord
  <1> HIDE DEF v
  <1>10. /\ v = BuildRecord(v) /\ v.at = u.at /\ v.hashes = u.hashes /\ v.tools = u.tools
         /\ v.work = u.work /\ v.read = d
    BY <1>9 DEF BuildRecord
  <1>11. DOMAIN b' = Builds /\ b'[p] = v /\ \A q \in Builds \ {p} : b'[q] = b[q]
    BY <1>1, BldPut
  <1>12. CompilePoint(b[p], s)'
    <2>1. Since(s, b[p].hashes, content[s])'
      BY <1>1, <1>3, <1>7, <1>10, <1>11 DEF Since
    <2>2. QED  BY <1>1, <1>4, <1>5, <1>7, <1>10, <1>11, <2>1 DEF CompilePoint
  <1>13. \A k \in DOMAIN record' : Build!MadeFrom(record'[k], k)
    BY <1>1, <1>3
  <1>14. QED  BY <1>1, <1>2, <1>5, <1>6, <1>7, <1>10, <1>11, <1>12, <1>13, BldWorkStep

\* It reads the header.
LEMMA BldReadHeader ==
    ASSUME BuildInv, NEW p \in Builds, NEW s \in Sources, Build!ReadHeader(p, s)
    PROVE  BuildInv'
  <1> DEFINE i == b[p]
             e == [i.read[s] EXCEPT !.header = content["header"]]
             d == [i.read EXCEPT ![s].header = content["header"]]
             u == [i EXCEPT !.work[s] = "extra"]
             v == [i EXCEPT !.work[s] = "extra", !.read[s].header = content["header"]]
  <1>1. /\ i.work[s] = "header" /\ b' = [b EXCEPT ![p] = v]
        /\ UNCHANGED <<content, object, record, elf, report>>
    BY DEF Build!ReadHeader, Build!disk
  <1>2. b[p].at = "compile"
    BY <1>1, BldCompiling
  <1>3. /\ i = BuildRecord(i) /\ i.work \in [Sources -> BuildWorks] /\ CompilePoint(i, s)
        /\ i.hashes["header"] \in Nat
        /\ i.hashes["header"] <= content["header"] /\ content["header"] \in Nat
        /\ \A k \in DOMAIN record : Build!MadeFrom(record[k], k)
    BY <1>2, BldCompileFacts
  <1>4. PICK x : /\ Since(s, i.hashes, x)
                 /\ i.read[s] = Made(s, x, i.hashes["header"], i.hashes["extra"], i.hashes, i.tools)
    BY <1>1, <1>3 DEF CompilePoint
  <1>5. s \in DOMAIN i.read
    BY <1>1, <1>3 DEF CompilePoint
  <1>6. e = Made(s, x, content["header"], i.hashes["extra"], i.hashes, i.tools)
    BY <1>4 DEF Made
  <1>7. d = [i.read EXCEPT ![s] = e]
    OBVIOUS
  <1> HIDE DEF e
  <1> HIDE DEF d
  <1>8. /\ s \in DOMAIN d /\ d[s] = e
        /\ \A t \in Sources \ {s} : t \in DOMAIN i.read => t \in DOMAIN d /\ d[t] = i.read[t]
    BY <1>5, <1>7
  <1>9. "extra" \in BuildWorks
    BY DEF BuildWorks
  <1>10. /\ u = BuildRecord(u) /\ u.work \in [Sources -> BuildWorks] /\ u.at = i.at
         /\ u.check = i.check /\ u.rebuild = i.rebuild /\ u.hashes = i.hashes
         /\ u.tools = i.tools /\ u.out = i.out /\ u.read = i.read
         /\ u.work[s] = "extra" /\ \A t \in Sources \ {s} : u.work[t] = i.work[t]
    BY <1>3, <1>9, BldWork
  <1>11. v = [u EXCEPT !.read = d]
    BY <1>10 DEF d
  <1> HIDE DEF u
  <1>12. v = [at |-> u.at, check |-> u.check, rebuild |-> u.rebuild, hashes |-> u.hashes,
             tools |-> u.tools, work |-> u.work, read |-> d, out |-> u.out]
    <2> HIDE DEF v
    <2>1. QED  BY <1>10, <1>11 DEF BuildRecord
  <1> HIDE DEF v
  <1>13. /\ v = BuildRecord(v) /\ v.at = u.at /\ v.hashes = u.hashes /\ v.tools = u.tools
         /\ v.work = u.work /\ v.read = d
    BY <1>12 DEF BuildRecord
  <1>14. DOMAIN b' = Builds /\ b'[p] = v /\ \A q \in Builds \ {p} : b'[q] = b[q]
    BY <1>1, BldPut
  <1>15. CompilePoint(b[p], s)'
    <2>1. Since(s, b[p].hashes, x)' /\ Since("header", b[p].hashes, content["header"])'
      BY <1>1, <1>3, <1>4, <1>10, <1>13, <1>14 DEF Since
    <2>2. QED  BY <1>1, <1>6, <1>8, <1>10, <1>13, <1>14, <2>1 DEF CompilePoint
  <1>16. \A k \in DOMAIN record' : Build!MadeFrom(record'[k], k)
    BY <1>1, <1>3
  <1>17. QED  BY <1>1, <1>2, <1>8, <1>9, <1>10, <1>13, <1>14, <1>15, <1>16, BldWorkStep

\* It looks for the extra header under src.
LEMMA BldReadExtra ==
    ASSUME BuildInv, NEW p \in Builds, NEW s \in Sources, Build!ReadExtra(p, s)
    PROVE  BuildInv'
  <1> DEFINE i == b[p]
             e == [i.read[s] EXCEPT !.extra = Build!Extra]
             d == [i.read EXCEPT ![s].extra = Build!Extra]
             u == [i EXCEPT !.work[s] = "checksource"]
             v == [i EXCEPT !.work[s] = "checksource", !.read[s].extra = Build!Extra]
  <1>1. /\ i.work[s] = "extra" /\ b' = [b EXCEPT ![p] = v]
        /\ UNCHANGED <<content, object, record, elf, report>>
    BY DEF Build!ReadExtra, Build!disk
  <1>2. b[p].at = "compile"
    BY <1>1, BldCompiling
  <1>3. /\ i = BuildRecord(i) /\ i.work \in [Sources -> BuildWorks] /\ CompilePoint(i, s)
        /\ i.hashes["extra"] \in Nat
        /\ i.hashes["extra"] <= content["extra"] /\ content["extra"] \in Nat
        /\ \A k \in DOMAIN record : Build!MadeFrom(record[k], k)
    BY <1>2, BldCompileFacts
  <1>4. PICK x, y : /\ Since(s, i.hashes, x) /\ Since("header", i.hashes, y)
                    /\ i.read[s] = Made(s, x, y, i.hashes["extra"], i.hashes, i.tools)
    BY <1>1, <1>3 DEF CompilePoint
  <1>5. s \in DOMAIN i.read
    BY <1>1, <1>3 DEF CompilePoint
  <1>6. e = Made(s, x, y, Build!Extra, i.hashes, i.tools)
    BY <1>4 DEF Made
  <1>7. d = [i.read EXCEPT ![s] = e]
    OBVIOUS
  <1> HIDE DEF e
  <1> HIDE DEF d
  <1>8. /\ s \in DOMAIN d /\ d[s] = e
        /\ \A t \in Sources \ {s} : t \in DOMAIN i.read => t \in DOMAIN d /\ d[t] = i.read[t]
    BY <1>5, <1>7
  <1>9. "checksource" \in BuildWorks
    BY DEF BuildWorks
  <1>10. /\ u = BuildRecord(u) /\ u.work \in [Sources -> BuildWorks] /\ u.at = i.at
         /\ u.check = i.check /\ u.rebuild = i.rebuild /\ u.hashes = i.hashes
         /\ u.tools = i.tools /\ u.out = i.out /\ u.read = i.read
         /\ u.work[s] = "checksource" /\ \A t \in Sources \ {s} : u.work[t] = i.work[t]
    BY <1>3, <1>9, BldWork
  <1>11. v = [u EXCEPT !.read = d]
    BY <1>10 DEF d
  <1> HIDE DEF u
  <1>12. v = [at |-> u.at, check |-> u.check, rebuild |-> u.rebuild, hashes |-> u.hashes,
             tools |-> u.tools, work |-> u.work, read |-> d, out |-> u.out]
    <2> HIDE DEF v
    <2>1. QED  BY <1>10, <1>11 DEF BuildRecord
  <1> HIDE DEF v
  <1>13. /\ v = BuildRecord(v) /\ v.at = u.at /\ v.hashes = u.hashes /\ v.tools = u.tools
         /\ v.work = u.work /\ v.read = d
    BY <1>12 DEF BuildRecord
  <1>14. DOMAIN b' = Builds /\ b'[p] = v /\ \A q \in Builds \ {p} : b'[q] = b[q]
    BY <1>1, BldPut
  <1>15. CompilePoint(b[p], s)'
    <2>1. Since(s, b[p].hashes, x)' /\ Since("header", b[p].hashes, y)'
      BY <1>1, <1>4, <1>10, <1>13, <1>14 DEF Since
    <2>2. SinceExtra(b[p].hashes, Build!Extra)'
      <3>1. Since("extra", b[p].hashes, content["extra"])'
        BY <1>1, <1>3, <1>10, <1>13, <1>14 DEF Since
      <3>2. QED  BY <3>1 DEF SinceExtra, Build!Extra
    <2>3. Build!Extra' = Build!Extra
      BY <1>1 DEF Build!Extra
    <2>4. QED  BY <1>1, <1>6, <1>8, <1>10, <1>13, <1>14, <2>1, <2>2, <2>3 DEF CompilePoint
  <1>16. \A k \in DOMAIN record' : Build!MadeFrom(record'[k], k)
    BY <1>1, <1>3
  <1>17. QED  BY <1>1, <1>2, <1>8, <1>9, <1>10, <1>13, <1>14, <1>15, <1>16, BldWorkStep

\* The objects are linked; the first hashes are kept for comparison.
LEMMA BldLink ==
    ASSUME BuildInv, NEW p \in Builds, Build!Link(p)
    PROVE  BuildInv'
  <1> DEFINE i == b[p]
             o == [s \in Sources |-> object[Build!Key(p, s)]]
             n == Build!Nothing
             v == [i EXCEPT !.at = "revalidate", !.out = o, !.read = i.hashes, !.hashes = n]
  <1>1. /\ i.at = "compile" /\ \A s \in Sources : i.work[s] = "done"
        /\ UNCHANGED <<content, object, record, elf, report>>
    BY DEF Build!Link, Build!disk
  <1>2. BuildActive(i) /\ Build!Holder(p)
    BY <1>1, BldActive DEF Build!Holder
  <1>3. b' = [b EXCEPT ![p] = v]
    BY DEF Build!Link
  <1>4. \A s \in Sources : Build!MadeFrom(o[s], Build!Inputs(s, i.hashes, i.tools))
    BY <1>1, BldCompileFacts DEF CompilePoint
  <1> HIDE DEF o
  <1>5. DOMAIN n = {}
    BY DEF Build!Nothing
  <1> HIDE DEF n
  <1>6. v = [at |-> "revalidate", check |-> i.check, rebuild |-> i.rebuild, hashes |-> n,
             tools |-> i.tools, work |-> i.work, read |-> i.hashes, out |-> o]
    <2>1. i = BuildRecord(i)
      BY <1>2 DEF BuildActive
    <2> DEFINE u == [i EXCEPT !.at = "revalidate"]
               w == [u EXCEPT !.out = o]
               x == [w EXCEPT !.read = i.hashes]
    <2>2. u = [at |-> "revalidate", check |-> i.check, rebuild |-> i.rebuild,
               hashes |-> i.hashes, tools |-> i.tools, work |-> i.work, read |-> i.read,
               out |-> i.out]
      BY <2>1 DEF BuildRecord
    <2>3. v = [x EXCEPT !.hashes = n]
      OBVIOUS
    <2> HIDE DEF u
    <2>4. w = [at |-> "revalidate", check |-> i.check, rebuild |-> i.rebuild,
               hashes |-> i.hashes, tools |-> i.tools, work |-> i.work, read |-> i.read,
               out |-> o]
      BY <2>2
    <2> HIDE DEF w
    <2>5. x = [at |-> "revalidate", check |-> i.check, rebuild |-> i.rebuild,
               hashes |-> i.hashes, tools |-> i.tools, work |-> i.work, read |-> i.hashes,
               out |-> o]
      BY <2>4
    <2> HIDE DEF x
    <2> HIDE DEF v
    <2>6. QED  BY <2>3, <2>5
  <1> HIDE DEF v
  <1>7. /\ v = BuildRecord(v) /\ v.at = "revalidate" /\ v.hashes = n /\ v.tools = i.tools
        /\ v.work = i.work /\ v.read = i.hashes /\ v.out = o
    BY <1>6 DEF BuildRecord
  <1>8. DOMAIN b' = Builds /\ b'[p] = v /\ \A q \in Builds \ {p} : b'[q] = b[q]
    BY <1>3, BldPut
  <1>9. Build!Holder(p)'
    BY <1>7, <1>8 DEF Build!Holder
  <1> HIDE DEF i
  <1>10. BuildActive(b[p])'
    <2>1. i.work \in [Sources -> BuildWorks] /\ report.status = "running"
      BY <1>1, <1>2 DEF BuildActive
    <2>2. QED  BY <1>1, <1>4, <1>5, <1>7, <1>8, <2>1 DEF BuildActive, BuildRecord
  <1>11. Build!ReportTrue' /\ \A k \in DOMAIN record' : Build!MadeFrom(record'[k], k)
    BY <1>1 DEF BuildInv, Build!ReportTrue
  <1>12. QED  BY <1>1, <1>2, <1>8, <1>9, <1>10, <1>11, BldHolderStep

\* The ELF is published, while the report is withdrawn.
LEMMA BldPublish ==
    ASSUME BuildInv, NEW p \in Builds, Build!Publish(p)
    PROVE  BuildInv'
  <1> DEFINE i == b[p]
             v == [i EXCEPT !.at = "report"]
  <1>1. /\ i.at = "revalidate" /\ DOMAIN i.hashes = Build!Files /\ i.hashes = i.read
        /\ elf' = i.out /\ b' = [b EXCEPT ![p] = v]
        /\ UNCHANGED <<content, object, record, report>>
    BY DEF Build!Publish, Build!Hashed
  <1>2. BuildActive(i) /\ Build!Holder(p)
    BY <1>1, BldActive DEF Build!Holder
  <1>3. v = [at |-> "report", check |-> i.check, rebuild |-> i.rebuild, hashes |-> i.hashes,
             tools |-> i.tools, work |-> i.work, read |-> i.read, out |-> i.out]
    BY <1>2 DEF BuildActive, BuildRecord
  <1> HIDE DEF v
  <1>4. /\ v = BuildRecord(v) /\ v.at = "report" /\ v.hashes = i.hashes /\ v.work = i.work
        /\ v.tools = i.tools /\ v.read = i.read /\ v.out = i.out
    BY <1>3 DEF BuildRecord
  <1>5. DOMAIN b' = Builds /\ b'[p] = v /\ \A q \in Builds \ {p} : b'[q] = b[q]
    BY <1>1, BldPut
  <1>6. Build!Holder(p)'
    BY <1>4, <1>5 DEF Build!Holder
  <1> HIDE DEF i
  <1>7. BuildActive(b[p])'
    <2>1. /\ i.work \in [Sources -> BuildWorks] /\ report.status = "running"
          /\ \A s \in Sources : i.work[s] = "done"
          /\ \A s \in Sources : Build!MadeFrom(i.out[s], Build!Inputs(s, i.read, i.tools))
          /\ DOMAIN i.hashes \subseteq Build!Files
          /\ \A f \in DOMAIN i.hashes : i.hashes[f] \in Nat /\ i.hashes[f] <= content[f]
      BY <1>1, <1>2 DEF BuildActive
    <2>2. QED  BY <1>1, <1>4, <1>5, <2>1 DEF BuildActive, BuildRecord
  <1>8. report.status = "running"
    BY <1>1, <1>2 DEF BuildActive
  <1>9. Build!ReportTrue' /\ \A k \in DOMAIN record' : Build!MadeFrom(record'[k], k)
    BY <1>1, <1>8 DEF BuildInv, Build!ReportTrue
  <1>10. QED  BY <1>1, <1>2, <1>5, <1>6, <1>7, <1>9, BldHolderStep

\* The report names what the ELF was linked from.
LEMMA BldSuccess ==
    ASSUME BuildInv, NEW p \in Builds, Build!Success(p)
    PROVE  BuildInv'
  <1> DEFINE i == b[p]
             outcome == [status |-> "success", sources_hash |-> i.hashes,
                        toolchain |-> i.tools, elf |-> i.out]
  <1>1. i.at = "report" /\ Build!Finish(p, outcome)
    BY DEF Build!Success
  <1>2. BuildActive(i) /\ Build!Holder(p)
    BY <1>1, BldActive DEF Build!Holder
  <1>3. report' = outcome /\ elf' = elf
    BY <1>1 DEF Build!Finish
  <1>4. /\ report'.elf = i.out /\ report'.sources_hash = i.hashes
        /\ report'.toolchain = i.tools
    BY <1>3
  <1>5. /\ elf = i.out /\ i.hashes = i.read
        /\ \A s \in Sources : Build!MadeFrom(i.out[s], Build!Inputs(s, i.read, i.tools))
    BY <1>1, <1>2 DEF BuildActive
  <1>6. \A s \in Sources :
            Build!MadeFrom(elf'[s], Build!Inputs(s, report'.sources_hash, report'.toolchain))
    BY <1>3, <1>4, <1>5
  <1>7. Build!ReportTrue'
    BY <1>3, <1>4, <1>5, <1>6 DEF Build!ReportTrue
  <1>8. QED  BY <1>1, <1>2, <1>7, BldFinishes

\* A file is saved.
LEMMA BldEdit ==
    ASSUME BuildInv, Build!Edit
    PROVE  BuildInv'
  <1>1. UNCHANGED <<object, record, elf, report, b>>
    BY DEF Build!Edit
  <1>2. /\ content' \in [Build!Files -> Nat]
        /\ \A f \in Build!Files : content[f] \in Nat /\ content[f] <= content'[f]
    <2>1. content \in [Build!Files -> Nat]
      BY DEF BuildInv
    <2>2. CASE UNCHANGED content
      BY <2>1, <2>2
    <2>3. CASE \E f \in Build!Files : content' = [content EXCEPT ![f] = @ + 1]
      BY <2>1, <2>3
    <2>4. QED  BY <2>2, <2>3 DEF Build!Edit
  <1>3. ASSUME NEW p \in Builds, Build!Holder(p)
        PROVE  BuildActive(b[p])'
    <2>1. BuildActive(b[p])
      BY <1>3, BldActive
    <2>2. \A f \in DOMAIN b[p].hashes : b[p].hashes[f] \in Nat /\ b[p].hashes[f] <= content'[f]
      <3>1. \A x, y, z \in Nat : x <= y /\ y <= z => x <= z
        OBVIOUS
      <3>2. \A f \in DOMAIN b[p].hashes :
                /\ f \in Build!Files /\ b[p].hashes[f] \in Nat /\ b[p].hashes[f] <= content[f]
        BY <2>1 DEF BuildActive
      <3>3. QED  BY <1>2, <3>1, <3>2
    <2>3. b[p].at = "compile" => \A s \in Sources : CompilePoint(b[p], s)'
      <3> SUFFICES ASSUME b[p].at = "compile", NEW s \in Sources PROVE CompilePoint(b[p], s)'
        OBVIOUS
      <3>1. CompilePoint(b[p], s)
        BY BldCompileFacts
      <3>2. s \in Build!Files /\ "header" \in Build!Files /\ "extra" \in Build!Files
        BY BldFiles
      <3>3. \A x : /\ Since(s, b[p].hashes, x) => Since(s, b[p].hashes, x)'
                   /\ Since("header", b[p].hashes, x) => Since("header", b[p].hashes, x)'
                   /\ Since("extra", b[p].hashes, x) => Since("extra", b[p].hashes, x)'
        BY <1>1, <1>2, <3>2 DEF Since
      <3>4. \A z : SinceExtra(b[p].hashes, z) => SinceExtra(b[p].hashes, z)'
        BY <1>1, <3>3 DEF SinceExtra
      <3>5. QED  BY <1>1, <3>1, <3>3, <3>4 DEF CompilePoint
    <2>4. QED  BY <1>1, <2>1, <2>2, <2>3 DEF BuildActive, BuildRecord
  <1>4. Build!ReportTrue'
    BY <1>1 DEF BuildInv, Build!ReportTrue
  <1>5. \A p \in Builds : Build!Holder(p)' <=> Build!Holder(p)
    BY <1>1 DEF Build!Holder
  <1>6. QED  BY <1>1, <1>2, <1>3, <1>4, <1>5 DEF BuildInv

LEMMA BuildInitInv ==
    ASSUME Build!Init
    PROVE  BuildInv
  <1>1. /\ content = [f \in Build!Files |-> 0] /\ record = Build!Nothing
        /\ report = [status |-> "none"] /\ b = [p \in Builds |-> Build!Idle]
    BY DEF Build!Init
  <1>2. \A p \in Builds : ~Build!Holder(p) /\ \A s \in Sources : b[p].work[s] = "todo"
    BY <1>1 DEF Build!Holder, Build!Idle
  <1>3. \A k \in DOMAIN record : Build!MadeFrom(record[k], k)
    BY <1>1 DEF Build!Nothing
  <1>4. Build!ReportTrue
    BY <1>1 DEF Build!ReportTrue
  <1>5. content \in [Build!Files -> Nat] /\ DOMAIN b = Builds
    BY <1>1
  <1>6. QED  BY <1>2, <1>3, <1>4, <1>5 DEF BuildInv

LEMMA BuildNextInv ==
    ASSUME BuildInv, Build!Next
    PROVE  BuildInv'
  <1>1. ASSUME NEW p \in Builds, NEW s \in Sources, Build!CompileFails(p, s)
        PROVE  BuildInv'
    <2>1. /\ b[p].work[s] # "todo" /\ b[p].work[s] # "done"
          /\ b' = [b EXCEPT ![p].work[s] = "failed"]
          /\ UNCHANGED <<content, object, record, elf, report>>
      BY <1>1 DEF Build!CompileFails, Build!disk
    <2>2. QED  BY <2>1, BldCompiling, BldCompileFails
  <1>2. QED  BY <1>1, BldBegin, BldList, BldHash, BldEnds, BldRunning, BldSelectToolchain,
                BldLookup, BldReadSource, BldReadHeader, BldReadExtra, BldChecks, BldCaches,
                BldLink, BldPublish, BldSuccess, BldEdit DEF Build!Next

LEMMA BuildSafe ==
    ASSUME BuildInv
    PROVE  Build!CacheTrue /\ Build!ReportTrue
  BY DEF BuildInv, Build!CacheTrue, Build!Reusable

-----------------------------------------------------------------------------
(* The delivery of bundles.                                                *)

BunActive == {"check", "copy", "copying", "copied", "build", "raise", "built", "publish",
              "record"}
BunOwning == BunActive \union {"prepare", "next", "done"}
BunPcs == BunOwning \union {"select", "claim", "refused", "dead"}
BunModels == [status: {"pending", "running", "success", "failed", "not_attempted"},
              source: Nat, elf: Nat]
BunReports == [status: {"running", "success", "failed"}, models: [Bundle!Indices -> BunModels]]
BunRuns == [at: BunPcs, active: 0..Models, seen: Nat, report: BunReports]

BunTyped ==
    /\ bundle \in [Bundle!Indices -> Nat \ {0}]
    /\ copy \in [Bundle!Indices -> Nat] /\ artifact \in [Bundle!Indices -> Nat]
    /\ built \in [Bundle!Indices -> Nat]
    /\ r \in [Runs -> BunRuns]
    /\ report # Bundle!None => report \in BunReports

\* How far an invocation has come with its models.
BunProgress(i) ==
    /\ i.at \in {"select", "claim", "prepare"} =>
           \A k \in Bundle!Indices : i.report.models[k].status = "pending"
    /\ i.at \in {"claim", "prepare"} => i.active = 0
    /\ i.at = "next" =>
           \A k \in Bundle!Indices : /\ k <= i.active => i.report.models[k].status = "success"
                                     /\ k > i.active => i.report.models[k].status = "pending"
    /\ i.at \in BunActive =>
           /\ i.active \in Bundle!Indices
           /\ \A k \in Bundle!Indices : /\ k < i.active => i.report.models[k].status = "success"
                                        /\ k = i.active => i.report.models[k].status = "running"
                                        /\ k > i.active => i.report.models[k].status = "pending"
    /\ i.at \notin {"refused", "dead", "done"} => i.report.status = "running"
    /\ i.at = "done" =>
           \A k \in Bundle!Indices :
               i.report.models[k].status \in {"success", "failed", "not_attempted"}

\* The owner of the output has written its report, and what it goes on with is
\* made from the version the report names.
BunOwner(i) ==
    i.at \in BunOwning =>
        /\ report = i.report
        /\ i.at \in BunActive \ {"check", "raise"} => i.report.models[i.active].source # 0
        /\ i.at = "build" => copy[i.active] = i.report.models[i.active].source
        /\ i.at \in {"built", "publish", "record"} =>
               artifact[i.active] = i.report.models[i.active].source
        /\ i.at = "record" => built[i.active] = artifact[i.active]

BunInv ==
    /\ BunTyped /\ Bundle!DeliveryTrue
    /\ \A p \in Runs : BunProgress(r[p]) /\ BunOwner(r[p])
    /\ \A p, q \in Runs : r[p].at \in BunOwning /\ r[q].at \in BunOwning => p = q
    /\ report = Bundle!None => \A p \in Runs : r[p].at \notin BunOwning

LEMMA BunConstants ==
    /\ Models \in Nat \ {0} /\ 0 \in 0..Models
    /\ \A k \in Bundle!Indices : k \in Nat /\ k # 0 /\ k <= Models /\ k \in 0..Models
    /\ \A k \in Nat : k < Models => k + 1 \in Bundle!Indices
    /\ Bundle!Working = BunOwning \ {"build", "done"}
  BY ServicesAssumption DEF Bundle!DeliveryAssumption, Bundle!Indices, Bundle!Working, BunOwning,
     BunActive

LEMMA BunRunTyped ==
    ASSUME BunInv, NEW p \in Runs
    PROVE  /\ r[p] \in BunRuns /\ r[p].at \in BunPcs /\ r[p].active \in 0..Models
           /\ r[p].seen \in Nat /\ r[p].report \in BunReports
           /\ r[p].report.models \in [Bundle!Indices -> BunModels]
           /\ BunProgress(r[p]) /\ BunOwner(r[p])
  <1>1. r[p] \in BunRuns /\ BunProgress(r[p]) /\ BunOwner(r[p])
    BY DEF BunInv, BunTyped
  <1>2. r[p].report \in BunReports
    BY <1>1 DEF BunRuns
  <1>3. r[p].report.models \in [Bundle!Indices -> BunModels]
    BY <1>2 DEF BunReports
  <1>4. QED  BY <1>1, <1>2, <1>3 DEF BunRuns

\* Only the program counter of an invocation changes.
LEMMA BunAt ==
    ASSUME BunInv, NEW p \in Runs, NEW x \in BunPcs, r' = [r EXCEPT ![p].at = x]
    PROVE  /\ r' \in [Runs -> BunRuns] /\ \A q \in Runs \ {p} : r'[q] = r[q]
           /\ r'[p].at = x /\ r'[p].active = r[p].active /\ r'[p].report = r[p].report
  <1>1. r \in [Runs -> BunRuns] /\ r[p] \in BunRuns
    BY DEF BunInv, BunTyped
  <1>2. /\ [r[p] EXCEPT !.at = x] \in BunRuns
        /\ [r[p] EXCEPT !.at = x].at = x /\ [r[p] EXCEPT !.at = x].active = r[p].active
        /\ [r[p] EXCEPT !.at = x].report = r[p].report
    BY <1>1 DEF BunRuns
  <1>3. r' = [r EXCEPT ![p] = [r[p] EXCEPT !.at = x]]
    OBVIOUS
  <1>4. r'[p] = [r[p] EXCEPT !.at = x] /\ r' \in [Runs -> BunRuns]
        /\ \A q \in Runs \ {p} : r'[q] = r[q]
    BY <1>1, <1>2, <1>3
  <1>5. QED  BY <1>2, <1>4

\* The same with the version that is about to be copied.
LEMMA BunAtSeen ==
    ASSUME BunInv, NEW p \in Runs, NEW x \in BunPcs, NEW y \in Nat,
           r' = [r EXCEPT ![p].at = x, ![p].seen = y]
    PROVE  /\ r' \in [Runs -> BunRuns] /\ \A q \in Runs \ {p} : r'[q] = r[q]
           /\ r'[p].at = x /\ r'[p].active = r[p].active /\ r'[p].report = r[p].report
  <1>1. r \in [Runs -> BunRuns] /\ r[p] \in BunRuns
    BY DEF BunInv, BunTyped
  <1> DEFINE v == [r[p] EXCEPT !.at = x, !.seen = y]
  <1>2. /\ v \in BunRuns
        /\ v.at = x /\ v.active = r[p].active /\ v.report = r[p].report
    BY <1>1 DEF BunRuns
  <1>3. r' = [r EXCEPT ![p] = v]
    BY <1>1
  <1> HIDE DEF v
  <1>4. r'[p] = v /\ r' \in [Runs -> BunRuns] /\ \A q \in Runs \ {p} : r'[q] = r[q]
    BY <1>1, <1>2, <1>3
  <1>5. QED  BY <1>2, <1>4

\* An invocation goes on with the record v.
LEMMA BunPut ==
    ASSUME BunInv, NEW p \in Runs, NEW v \in BunRuns, r' = [r EXCEPT ![p] = v]
    PROVE  /\ r' \in [Runs -> BunRuns] /\ \A q \in Runs \ {p} : r'[q] = r[q]
           /\ r'[p] = v
  BY DEF BunInv, BunTyped

\* A step of the owner of the output.
LEMMA BunOwnerStep ==
    ASSUME BunInv, NEW p \in Runs, r[p].at \in BunOwning, r' \in [Runs -> BunRuns],
           \A q \in Runs \ {p} : r'[q] = r[q], BunTyped', Bundle!DeliveryTrue',
           BunProgress(r[p])', BunOwner(r[p])', report' # Bundle!None
    PROVE  BunInv'
  <1>1. \A q \in Runs \ {p} : r[q].at \notin BunOwning /\ r'[q] = r[q] /\ BunProgress(r[q])
    BY DEF BunInv
  <1>2. ASSUME NEW q \in Runs \ {p} PROVE BunProgress(r[q])' /\ BunOwner(r[q])'
    <2>1. r'[q] = r[q] /\ BunProgress(r[q]) /\ r[q].at \notin BunOwning
      BY <1>1
    <2>2. BunProgress(r[q])'
      <3>1. BunProgress(r'[q])
        BY <2>1
      <3>2. QED  BY <3>1 DEF BunProgress
    <2>3. BunOwner(r[q])'
      BY <2>1 DEF BunOwner
    <2>4. QED  BY <2>2, <2>3
  <1>3. \A q, u \in Runs : r'[q].at \in BunOwning /\ r'[u].at \in BunOwning => q = u
    BY <1>1
  <1>4. QED  BY <1>2, <1>3 DEF BunInv

\* A step of an invocation that does not own it, and leaves the output alone.
LEMMA BunOutsideStep ==
    ASSUME BunInv, NEW p \in Runs, r' \in [Runs -> BunRuns],
           \A q \in Runs \ {p} : r'[q] = r[q], r'[p].at \notin BunOwning,
           UNCHANGED <<bundle, report, dirs, copy, artifact, result, built>>, BunProgress(r[p])'
    PROVE  BunInv'
  <1>1. \A q \in Runs \ {p} : r'[q] = r[q] /\ BunProgress(r[q]) /\ BunOwner(r[q])
    BY DEF BunInv
  <1>2. ASSUME NEW q \in Runs \ {p} PROVE BunProgress(r[q])' /\ BunOwner(r[q])'
    <2>1. r'[q] = r[q] /\ BunProgress(r[q]) /\ BunOwner(r[q])
      BY <1>1
    <2>2. BunProgress(r[q])'
      <3>1. BunProgress(r'[q])
        BY <2>1
      <3>2. QED  BY <3>1 DEF BunProgress
    <2>3. BunOwner(r[q])'
      BY <2>1 DEF BunOwner
    <2>4. QED  BY <2>2, <2>3
  <1>3. BunOwner(r[p])'
    BY DEF BunOwner
  <1>4. BunTyped' /\ Bundle!DeliveryTrue'
    BY DEF BunInv, BunTyped, Bundle!DeliveryTrue
  <1>5. \A q, u \in Runs : r'[q].at \in BunOwning /\ r'[u].at \in BunOwning => q = u
    BY <1>1 DEF BunInv
  <1>6. report' = Bundle!None => \A q \in Runs : r'[q].at \notin BunOwning
    BY <1>1 DEF BunInv
  <1>7. QED  BY <1>2, <1>3, <1>4, <1>5, <1>6 DEF BunInv

\* The bundles are fingerprinted.
LEMMA BunSelect ==
    ASSUME BunInv, NEW p \in Runs, Bundle!Select(p)
    PROVE  BunInv'
  <1>1. r[p].at = "select" /\ UNCHANGED <<bundle, report, dirs, copy, artifact, result, built>>
    BY Zenon DEF Bundle!Select, Bundle!output
  <1>2. /\ r \in [Runs -> BunRuns] /\ r[p] \in BunRuns /\ r[p].report \in BunReports
        /\ r[p].report.models \in [Bundle!Indices -> BunModels] /\ BunProgress(r[p])
        /\ bundle \in [Bundle!Indices -> Nat \ {0}]
    BY BunRunTyped DEF BunInv, BunTyped
  <1>3. CASE r[p].active = 0 /\ ~(r[p].active \in Bundle!Indices)
    <2>1. PICK x \in {"select", "refused"} : r' = [r EXCEPT ![p].active = 1, ![p].at = x]
      BY <1>3, <1>2 DEF Bundle!Select
    <2> DEFINE v == [r[p] EXCEPT !.active = 1, !.at = x]
    <2>2. v \in BunRuns /\ v.at = x /\ v.report = r[p].report
      <3>1. 1 \in 0..Models /\ x \in BunPcs
        BY <2>1, BunConstants DEF BunPcs
      <3>2. QED  BY <1>2, <3>1 DEF BunRuns
    <2>3. r' = [r EXCEPT ![p] = v]
      BY <1>2, <2>1
    <2> HIDE DEF v
    <2>4. r'[p] = v /\ r' \in [Runs -> BunRuns] /\ \A q \in Runs \ {p} : r'[q] = r[q]
      BY <1>2, <2>2, <2>3
    <2>5. BunProgress(r[p])' /\ r'[p].at \notin BunOwning
      BY <1>1, <1>2, <2>1, <2>2, <2>4 DEF BunProgress, BunActive, BunOwning
    <2>6. QED  BY <1>1, <2>4, <2>5, BunOutsideStep
  <1>4. CASE r[p].active \in Bundle!Indices
    <2>1. PICK x \in {"select", "claim"}, k \in 0..Models :
              /\ x = "claim" => k = 0
              /\ r' = [r EXCEPT ![p].report.models[r[p].active].source = bundle[r[p].active],
                                ![p].active = k, ![p].at = x]
      <3>1. r[p].active # 0 /\ (r[p].active < Models => r[p].active + 1 \in 0..Models)
        BY <1>4, BunConstants
      <3>2. r' = [r EXCEPT ![p].report.models[r[p].active].source = bundle[r[p].active],
                           ![p].active = IF r[p].active < Models THEN r[p].active + 1 ELSE 0,
                           ![p].at = IF r[p].active < Models THEN "select" ELSE "claim"]
        BY <3>1, Zenon DEF Bundle!Select
      <3>3. CASE r[p].active < Models
        BY <3>1, <3>2, <3>3, Zenon
      <3>4. CASE ~(r[p].active < Models)
        BY <3>2, <3>4, BunConstants, Zenon
      <3>5. QED  BY <3>3, <3>4, Zenon
    <2> DEFINE a == r[p].active
               e == [r[p].report.models[a] EXCEPT !.source = bundle[a]]
               w == [r[p].report EXCEPT !.models[a].source = bundle[a]]
               v == [r[p] EXCEPT !.report.models[a].source = bundle[a], !.active = k, !.at = x]
    <2>2. r[p].report.models[a] \in BunModels /\ bundle[a] \in Nat
      BY <1>2, <1>4
    <2>3. e \in BunModels /\ e.status = r[p].report.models[a].status
      BY <2>2 DEF BunModels
    <2>4. w = [r[p].report EXCEPT !.models = [r[p].report.models EXCEPT ![a] = e]]
      BY <1>2, <1>4
    <2>5. /\ w \in BunReports /\ w.status = r[p].report.status
          /\ w.models = [r[p].report.models EXCEPT ![a] = e]
      <3> HIDE DEF e
      <3> HIDE DEF w
      <3>1. [r[p].report.models EXCEPT ![a] = e] \in [Bundle!Indices -> BunModels]
        BY <1>2, <2>3
      <3>2. QED  BY <1>2, <2>4, <3>1 DEF BunReports
    <2>6. \A j \in Bundle!Indices : w.models[j].status = r[p].report.models[j].status
      <3> HIDE DEF e
      <3> HIDE DEF w
      <3>1. QED  BY <1>2, <1>4, <2>3, <2>5
    <2>7. v = [r[p] EXCEPT !.report = w, !.active = k, !.at = x]
      BY <1>2
    <2>8. v \in BunRuns /\ v.at = x /\ v.active = k /\ v.report = w
      <3> HIDE DEF w
      <3> HIDE DEF v
      <3>1. QED  BY <1>2, <2>1, <2>5, <2>7 DEF BunRuns, BunPcs
    <2>9. r' = [r EXCEPT ![p] = v]
      BY <1>2, <2>1
    <2>10. r'[p] = v /\ r' \in [Runs -> BunRuns] /\ \A q \in Runs \ {p} : r'[q] = r[q]
      <3> HIDE DEF v
      <3>1. QED  BY <1>2, <2>8, <2>9
    <2>11. BunProgress(r[p])' /\ r'[p].at \notin BunOwning
      <3> HIDE DEF e
      <3> HIDE DEF w
      <3> HIDE DEF v
      <3>1. /\ r'[p].at \in {"select", "claim"} /\ r'[p].report = w
            /\ r'[p].at = "claim" => r'[p].active = 0
        BY <2>1, <2>8, <2>10
      <3>2. /\ w.status = "running"
            /\ \A j \in Bundle!Indices : w.models[j].status = "pending"
        BY <1>1, <1>2, <2>5, <2>6 DEF BunProgress
      <3>3. QED  BY <3>1, <3>2 DEF BunProgress, BunActive, BunOwning
    <2>12. QED  BY <1>1, <2>10, <2>11, BunOutsideStep
  <1>5. QED  BY <1>3, <1>4 DEF Bundle!Select

\* The output is claimed, or refused.
LEMMA BunClaim ==
    ASSUME BunInv, NEW p \in Runs, Bundle!Claim(p)
    PROVE  BunInv'
  <1>1. /\ r[p].at = "claim" /\ UNCHANGED <<bundle, dirs, copy, artifact, result, built>>
    BY DEF Bundle!Claim
  <1>2. /\ r[p].report \in BunReports /\ BunProgress(r[p])
    BY BunRunTyped
  <1>3. CASE report = Bundle!None
    <2>1. report' = r[p].report /\ r' = [r EXCEPT ![p].at = "prepare"]
      BY <1>3 DEF Bundle!Claim
    <2>2. /\ r' \in [Runs -> BunRuns] /\ \A q \in Runs \ {p} : r'[q] = r[q]
          /\ r'[p].at = "prepare" /\ r'[p].active = r[p].active /\ r'[p].report = r[p].report
      <3>1. "prepare" \in BunPcs
        BY DEF BunPcs, BunOwning
      <3>2. QED  BY <2>1, <3>1, BunAt
    <2>3. report'.status = "running" /\ report' # Bundle!None
          /\ \A k \in Bundle!Indices : report'.models[k].status = "pending"
      BY <1>1, <1>2, <2>1 DEF BunProgress, Bundle!None
    <2>4. BunTyped' /\ Bundle!DeliveryTrue'
      <3>1. BunTyped'
        BY <1>1, <1>2, <2>1, <2>2 DEF BunInv, BunTyped
      <3>2. QED  BY <2>3, <3>1 DEF Bundle!DeliveryTrue
    <2>5. BunProgress(r[p])' /\ BunOwner(r[p])'
      BY <1>1, <1>2, <2>1, <2>2 DEF BunProgress, BunOwner, BunActive
    <2>6. \A q \in Runs \ {p} : r'[q] = r[q] /\ r[q].at \notin BunOwning /\ BunProgress(r[q])
      BY <1>3, <2>2 DEF BunInv
    <2>7. \A q \in Runs \ {p} : BunProgress(r[q])' /\ BunOwner(r[q])'
      BY <2>6 DEF BunProgress, BunOwner
    <2>8. \A q, u \in Runs : r'[q].at \in BunOwning /\ r'[u].at \in BunOwning => q = u
      BY <2>6
    <2>9. QED  BY <2>3, <2>4, <2>5, <2>7, <2>8 DEF BunInv
  <1>4. CASE report # Bundle!None
    <2>1. r' = [r EXCEPT ![p].at = "refused"] /\ UNCHANGED report
      BY <1>4 DEF Bundle!Claim
    <2>2. /\ r' \in [Runs -> BunRuns] /\ \A q \in Runs \ {p} : r'[q] = r[q]
          /\ r'[p].at = "refused"
      <3>1. "refused" \in BunPcs
        BY DEF BunPcs
      <3>2. QED  BY <2>1, <3>1, BunAt
    <2>3. BunProgress(r[p])' /\ r'[p].at \notin BunOwning
      BY <2>2 DEF BunProgress, BunActive, BunOwning
    <2>4. QED  BY <1>1, <2>1, <2>2, <2>3, BunOutsideStep
  <1>5. QED  BY <1>3, <1>4

\* An invocation is killed.
LEMMA BunKill ==
    ASSUME BunInv, NEW p \in Runs, Bundle!Kill(p)
    PROVE  BunInv'
  <1>1. /\ r' = [r EXCEPT ![p].at = "dead"]
        /\ UNCHANGED <<bundle, report, dirs, copy, artifact, result, built>>
    BY DEF Bundle!Kill, Bundle!output
  <1>2. /\ r' \in [Runs -> BunRuns] /\ \A q \in Runs \ {p} : r'[q] = r[q]
        /\ r'[p].at = "dead"
    <2>1. "dead" \in BunPcs
      BY DEF BunPcs
    <2>2. QED  BY <1>1, <2>1, BunAt
  <1>3. BunProgress(r[p])' /\ r'[p].at \notin BunOwning
    BY <1>2 DEF BunProgress, BunActive, BunOwning
  <1>4. QED  BY <1>1, <1>2, <1>3, BunOutsideStep

LEMMA BunReportReal ==
    ASSUME NEW y \in BunReports
    PROVE  y # Bundle!None
  BY DEF BunReports, Bundle!None

\* A step of the owner that leaves its report as it was.
LEMMA BunKeepsReport ==
    ASSUME BunInv, NEW p \in Runs, r[p].at \in BunOwning, r' \in [Runs -> BunRuns],
           \A q \in Runs \ {p} : r'[q] = r[q], UNCHANGED bundle,
           r'[p].report = r[p].report, report' = r[p].report,
           copy' \in [Bundle!Indices -> Nat], artifact' \in [Bundle!Indices -> Nat],
           built' \in [Bundle!Indices -> Nat],
           \A k \in Bundle!Indices : built[k] # 0 => built'[k] = built[k],
           BunProgress(r[p])', BunOwner(r[p])'
    PROVE  BunInv'
  <1>1. report = r[p].report /\ r[p].report \in BunReports
    BY BunRunTyped DEF BunOwner
  <1>2. report' # Bundle!None /\ report # Bundle!None
    BY <1>1, BunReportReal
  <1>3. BunTyped'
    BY <1>1 DEF BunInv, BunTyped
  <1>4. Bundle!DeliveryTrue'
    BY <1>1, <1>2 DEF BunInv, Bundle!DeliveryTrue
  <1>5. QED  BY <1>2, <1>3, <1>4, BunOwnerStep

\* The directories are made, the bundle and its copy compared, a copy made, a
\* result accepted.
LEMMA BunQuietSteps ==
    ASSUME BunInv, NEW p \in Runs,
           Bundle!Prepare(p) \/ Bundle!Check(p) \/ Bundle!CheckCopy(p) \/ Bundle!Accept(p)
    PROVE  BunInv'
  <1>1. r[p].at \in BunOwning
    BY DEF Bundle!Prepare, Bundle!Check, Bundle!CheckCopy, Bundle!Accept, BunOwning, BunActive
  <1>2. /\ BunProgress(r[p]) /\ BunOwner(r[p]) /\ report = r[p].report
        /\ r[p].active \in 0..Models
    BY <1>1, BunRunTyped DEF BunOwner
  <1>3. /\ bundle \in [Bundle!Indices -> Nat \ {0}] /\ copy \in [Bundle!Indices -> Nat]
        /\ artifact \in [Bundle!Indices -> Nat] /\ built \in [Bundle!Indices -> Nat]
    BY DEF BunInv, BunTyped
  <1>4. CASE Bundle!Prepare(p)
    <2>1. /\ r[p].at = "prepare" /\ r' = [r EXCEPT ![p].at = "next"]
          /\ UNCHANGED <<bundle, report, copy, artifact, built>>
      BY <1>4 DEF Bundle!Prepare
    <2>2. "next" \in BunPcs
      BY DEF BunPcs, BunOwning
    <2>3. /\ r' \in [Runs -> BunRuns] /\ \A q \in Runs \ {p} : r'[q] = r[q]
          /\ r'[p].at = "next" /\ r'[p].active = r[p].active /\ r'[p].report = r[p].report
      BY <2>1, <2>2, BunAt
    <2>4. BunProgress(r[p])'
      BY <1>2, <2>1, <2>3, BunConstants DEF BunProgress, BunActive
    <2>5. BunOwner(r[p])'
      BY <1>2, <2>1, <2>3 DEF BunOwner, BunActive
    <2>6. QED  BY <1>1, <1>2, <1>3, <2>1, <2>3, <2>4, <2>5, BunKeepsReport
  <1>5. CASE Bundle!Check(p)
    <2>1. /\ r[p].at = "check" /\ bundle[r[p].active] = r[p].report.models[r[p].active].source
          /\ r' = [r EXCEPT ![p].at = "copy", ![p].seen = bundle[r[p].active]]
          /\ UNCHANGED <<bundle, report, copy, artifact, built>>
      BY <1>5 DEF Bundle!Check, Bundle!output
    <2>2. r[p].active \in Bundle!Indices
      BY <1>2, <2>1 DEF BunProgress, BunActive
    <2>3. "copy" \in BunPcs /\ bundle[r[p].active] \in Nat /\ bundle[r[p].active] # 0
      BY <1>3, <2>2 DEF BunPcs, BunOwning, BunActive
    <2>4. /\ r' \in [Runs -> BunRuns] /\ \A q \in Runs \ {p} : r'[q] = r[q]
          /\ r'[p].at = "copy" /\ r'[p].active = r[p].active /\ r'[p].report = r[p].report
      BY <2>1, <2>3, BunAtSeen, Zenon
    <2>5. BunProgress(r[p])'
      <3>1. BunProgress(r[p]) /\ r[p].at \in BunActive /\ r'[p].at \in BunActive
            /\ r'[p].at \notin {"select", "claim", "prepare", "next", "refused", "dead", "done"}
            /\ r[p].at \notin {"select", "claim", "prepare", "next", "refused", "dead", "done"}
        BY <1>2, <2>1, <2>4 DEF BunActive
      <3>2. QED  BY <2>4, <3>1 DEF BunProgress
    <2>6. BunOwner(r[p])'
      BY <1>2, <2>1, <2>3, <2>4 DEF BunOwner
    <2>7. QED  BY <1>1, <1>2, <1>3, <2>1, <2>4, <2>5, <2>6, BunKeepsReport, Zenon
  <1>6. CASE Bundle!CheckCopy(p)
    <2>1. /\ r[p].at = "copied" /\ copy[r[p].active] = r[p].report.models[r[p].active].source
          /\ r' = [r EXCEPT ![p].at = "build"] /\ report' = r'[p].report
          /\ UNCHANGED <<bundle, copy, artifact, built>>
      BY <1>6 DEF Bundle!CheckCopy
    <2>2. "build" \in BunPcs
      BY DEF BunPcs, BunOwning, BunActive
    <2>3. /\ r' \in [Runs -> BunRuns] /\ \A q \in Runs \ {p} : r'[q] = r[q]
          /\ r'[p].at = "build" /\ r'[p].active = r[p].active /\ r'[p].report = r[p].report
      BY <2>1, <2>2, BunAt
    <2>4. BunProgress(r[p])'
      <3>1. BunProgress(r[p]) /\ r[p].at \in BunActive /\ r'[p].at \in BunActive
            /\ r'[p].at \notin {"select", "claim", "prepare", "next", "refused", "dead", "done"}
            /\ r[p].at \notin {"select", "claim", "prepare", "next", "refused", "dead", "done"}
        BY <1>2, <2>1, <2>3 DEF BunActive
      <3>2. QED  BY <2>3, <3>1 DEF BunProgress
    <2>5. BunOwner(r[p])'
      BY <1>2, <2>1, <2>3 DEF BunOwner, BunActive, BunOwning
    <2>6. QED  BY <1>1, <1>2, <1>3, <2>1, <2>3, <2>4, <2>5, BunKeepsReport
  <1>7. CASE Bundle!Accept(p)
    <2>1. /\ r[p].at = "built" /\ r' = [r EXCEPT ![p].at = "publish"]
          /\ UNCHANGED <<bundle, report, copy, artifact, built>>
      BY <1>7 DEF Bundle!Accept, Bundle!output
    <2>2. "publish" \in BunPcs
      BY DEF BunPcs, BunOwning, BunActive
    <2>3. /\ r' \in [Runs -> BunRuns] /\ \A q \in Runs \ {p} : r'[q] = r[q]
          /\ r'[p].at = "publish" /\ r'[p].active = r[p].active /\ r'[p].report = r[p].report
      BY <2>1, <2>2, BunAt
    <2>4. BunProgress(r[p])'
      BY <1>2, <2>1, <2>3 DEF BunProgress, BunActive
    <2>5. BunOwner(r[p])'
      BY <1>2, <2>1, <2>3 DEF BunOwner, BunActive, BunOwning
    <2>6. QED  BY <1>1, <1>2, <1>3, <2>1, <2>3, <2>4, <2>5, BunKeepsReport
  <1>8. QED  BY <1>4, <1>5, <1>6, <1>7

\* The copy is made, the build runs, the ELF is published.
LEMMA BunFileSteps ==
    ASSUME BunInv, NEW p \in Runs, Bundle!Copy(p) \/ Bundle!Build(p) \/ Bundle!Publish(p)
    PROVE  BunInv'
  <1>1. r[p].at \in BunActive /\ r[p].at \in BunOwning
    BY DEF Bundle!Copy, Bundle!Build, Bundle!Publish, BunOwning, BunActive
  <1>2. /\ BunProgress(r[p]) /\ BunOwner(r[p]) /\ report = r[p].report
        /\ r[p].active \in Bundle!Indices
        /\ r[p].report.models[r[p].active] \in BunModels
    <2>1. BunProgress(r[p]) /\ BunOwner(r[p]) /\ r[p].active \in Bundle!Indices
      BY <1>1, BunRunTyped DEF BunProgress
    <2>2. r[p].report.models \in [Bundle!Indices -> BunModels]
      BY BunRunTyped
    <2>3. QED  BY <1>1, <2>1, <2>2 DEF BunOwner
  <1>3. /\ bundle \in [Bundle!Indices -> Nat \ {0}] /\ copy \in [Bundle!Indices -> Nat]
        /\ artifact \in [Bundle!Indices -> Nat] /\ built \in [Bundle!Indices -> Nat]
    BY DEF BunInv, BunTyped
  <1> DEFINE a == r[p].active
  <1>4. CASE Bundle!Copy(p)
    <2>1. UNCHANGED <<bundle, report, artifact, built>>
      BY <1>4 DEF Bundle!Copy
    <2>2. CASE /\ r[p].at = "copy" /\ UNCHANGED copy
               /\ r' = [r EXCEPT ![p].at = "copying", ![p].seen = bundle[a]]
      <3>1. "copying" \in BunPcs /\ bundle[a] \in Nat
        BY <1>2, <1>3 DEF BunPcs, BunOwning, BunActive
      <3>2. /\ r' \in [Runs -> BunRuns] /\ \A q \in Runs \ {p} : r'[q] = r[q]
            /\ r'[p].at = "copying" /\ r'[p].active = r[p].active /\ r'[p].report = r[p].report
        BY <2>2, <3>1, BunAtSeen
      <3>3. BunProgress(r[p])'
        BY <1>2, <2>2, <3>2 DEF BunProgress, BunActive
      <3>4. BunOwner(r[p])'
        BY <1>2, <2>1, <2>2, <3>2 DEF BunOwner, BunActive, BunOwning
      <3>5. QED  BY <1>1, <1>2, <1>3, <2>1, <2>2, <3>2, <3>3, <3>4, BunKeepsReport
    <2>3. CASE /\ r[p].at = "copying" /\ r' = [r EXCEPT ![p].at = "copied"]
               /\ copy' = [copy EXCEPT ![a] = IF bundle[a] = r[p].seen THEN bundle[a] ELSE 0]
      <3>1. "copied" \in BunPcs /\ copy' \in [Bundle!Indices -> Nat]
        BY <1>2, <1>3, <2>3 DEF BunPcs, BunOwning, BunActive
      <3>2. /\ r' \in [Runs -> BunRuns] /\ \A q \in Runs \ {p} : r'[q] = r[q]
            /\ r'[p].at = "copied" /\ r'[p].active = r[p].active /\ r'[p].report = r[p].report
        BY <2>3, <3>1, BunAt
      <3>3. BunProgress(r[p])'
        BY <1>2, <2>3, <3>2 DEF BunProgress, BunActive
      <3>4. BunOwner(r[p])'
        BY <1>2, <2>1, <2>3, <3>2 DEF BunOwner, BunActive, BunOwning
      <3>5. QED  BY <1>1, <1>2, <1>3, <2>1, <3>1, <3>2, <3>3, <3>4, BunKeepsReport
    <2>4. QED  BY <1>4, <2>2, <2>3 DEF Bundle!Copy
  <1>5. CASE Bundle!Build(p)
    <2>1. r[p].at = "build" /\ UNCHANGED <<bundle, report, copy, built>>
          /\ copy[a] = r[p].report.models[a].source
      BY <1>2, <1>5 DEF Bundle!Build, BunOwner, BunOwning, BunActive
    <2>2. [artifact EXCEPT ![a] = copy[a]] \in [Bundle!Indices -> Nat]
      BY <1>2, <1>3
    <2>3. CASE artifact' = [artifact EXCEPT ![a] = copy[a]] /\ r' = [r EXCEPT ![p].at = "built"]
      <3>1. "built" \in BunPcs
        BY DEF BunPcs, BunOwning, BunActive
      <3>2. /\ r' \in [Runs -> BunRuns] /\ \A q \in Runs \ {p} : r'[q] = r[q]
            /\ r'[p].at = "built" /\ r'[p].active = r[p].active /\ r'[p].report = r[p].report
        BY <2>3, <3>1, BunAt
      <3>3. BunProgress(r[p])'
        BY <1>2, <2>1, <3>2 DEF BunProgress, BunActive
      <3>4. artifact'[a] = copy[a]
        BY <1>2, <1>3, <2>3
      <3>5. BunOwner(r[p])'
        BY <1>2, <2>1, <3>2, <3>4 DEF BunOwner, BunActive, BunOwning
      <3>6. QED  BY <1>1, <1>2, <1>3, <2>1, <2>2, <2>3, <3>2, <3>3, <3>5, BunKeepsReport
    <2>4. CASE /\ artifact' \in {artifact, [artifact EXCEPT ![a] = copy[a]]}
               /\ r' = [r EXCEPT ![p].at = "raise"]
      <3>1. "raise" \in BunPcs
        BY DEF BunPcs, BunOwning, BunActive
      <3>2. /\ r' \in [Runs -> BunRuns] /\ \A q \in Runs \ {p} : r'[q] = r[q]
            /\ r'[p].at = "raise" /\ r'[p].active = r[p].active /\ r'[p].report = r[p].report
        BY <2>4, <3>1, BunAt
      <3>3. BunProgress(r[p])'
        BY <1>2, <2>1, <3>2 DEF BunProgress, BunActive
      <3>4. BunOwner(r[p])'
        BY <1>2, <2>1, <3>2 DEF BunOwner, BunActive, BunOwning
      <3>5. artifact' \in [Bundle!Indices -> Nat]
        BY <1>3, <2>2, <2>4
      <3>6. QED  BY <1>1, <1>2, <1>3, <2>1, <3>2, <3>3, <3>4, <3>5, BunKeepsReport
    <2>5. QED  BY <1>5, <2>3, <2>4 DEF Bundle!Build
  <1>6. CASE Bundle!Publish(p)
    <2>1. /\ r[p].at = "publish" /\ built[a] = 0 /\ built' = [built EXCEPT ![a] = artifact[a]]
          /\ r' = [r EXCEPT ![p].at = "record"]
          /\ UNCHANGED <<bundle, report, copy, artifact>>
      BY <1>6 DEF Bundle!Publish
    <2>2. /\ "record" \in BunPcs /\ built' \in [Bundle!Indices -> Nat]
          /\ built'[a] = artifact[a]
          /\ \A k \in Bundle!Indices : built[k] # 0 => built'[k] = built[k]
      BY <1>2, <1>3, <2>1 DEF BunPcs, BunOwning, BunActive
    <2>3. /\ r' \in [Runs -> BunRuns] /\ \A q \in Runs \ {p} : r'[q] = r[q]
          /\ r'[p].at = "record" /\ r'[p].active = r[p].active /\ r'[p].report = r[p].report
      BY <2>1, <2>2, BunAt
    <2>4. BunProgress(r[p])'
      BY <1>2, <2>1, <2>3 DEF BunProgress, BunActive
    <2>5. BunOwner(r[p])'
      BY <1>2, <2>1, <2>2, <2>3 DEF BunOwner, BunActive, BunOwning
    <2>6. QED  BY <1>1, <1>2, <1>3, <2>1, <2>2, <2>3, <2>4, <2>5, BunKeepsReport
  <1>7. QED  BY <1>4, <1>5, <1>6

\* A model begins: it is the next one, and now running.
LEMMA BunBeginModel ==
    ASSUME BunInv, NEW p \in Runs, Bundle!BeginModel(p)
    PROVE  BunInv'
  <1> DEFINE a == r[p].active + 1
             e == [r[p].report.models[a] EXCEPT !.status = "running"]
             y == [r[p].report EXCEPT !.models[a].status = "running"]
  <1>1. /\ r[p].at = "next" /\ r[p].active < Models /\ report' = r'[p].report
        /\ r' = [r EXCEPT ![p].at = "check", ![p].active = a,
                          ![p].report.models[a].status = "running"]
        /\ UNCHANGED <<bundle, copy, artifact, built>>
    BY DEF Bundle!BeginModel
  <1>2. /\ r \in [Runs -> BunRuns] /\ r[p] \in BunRuns /\ r[p].report \in BunReports
        /\ r[p].report.models \in [Bundle!Indices -> BunModels] /\ BunProgress(r[p])
        /\ r[p].active \in 0..Models
    BY BunRunTyped DEF BunInv, BunTyped
  <1>3. report = r[p].report /\ r[p].at \in BunOwning
    BY <1>1, BunRunTyped DEF BunOwner, BunOwning
  <1>4. a \in Bundle!Indices /\ a \in 0..Models /\ r[p].active \in Nat /\ a = r[p].active + 1
    BY <1>1, <1>2, BunConstants
  <1> HIDE DEF a
  <1>5. e \in BunModels /\ e.status = "running"
    BY <1>2, <1>4 DEF BunModels
  <1>6. y = [r[p].report EXCEPT !.models = [r[p].report.models EXCEPT ![a] = e]]
    BY <1>2, <1>4
  <1>7. r' = [r EXCEPT ![p].at = "check", ![p].active = a, ![p].report = y]
    BY <1>1, <1>2 DEF a
  <1> HIDE DEF e
  <1> HIDE DEF y
  <1>8. y \in BunReports /\ y.status = r[p].report.status
        /\ y.models = [r[p].report.models EXCEPT ![a] = e]
    <2>1. [r[p].report.models EXCEPT ![a] = e] \in [Bundle!Indices -> BunModels]
      BY <1>2, <1>5
    <2>2. QED  BY <1>2, <1>6, <2>1 DEF BunReports
  <1>9. /\ y.models[a].status = "running"
        /\ \A k \in Bundle!Indices : k # a => y.models[k] = r[p].report.models[k]
    BY <1>2, <1>4, <1>5, <1>8
  <1>10. /\ r' \in [Runs -> BunRuns] /\ \A q \in Runs \ {p} : r'[q] = r[q]
         /\ r'[p].at = "check" /\ r'[p].active = a /\ r'[p].report = y
    <2> DEFINE v == [r[p] EXCEPT !.at = "check", !.active = a, !.report = y]
    <2>1. "check" \in BunPcs
      BY DEF BunPcs, BunOwning, BunActive
    <2>2. v \in BunRuns /\ v.at = "check" /\ v.active = a /\ v.report = y
      BY <1>2, <1>4, <1>7, <1>8, <2>1 DEF BunRuns
    <2>3. r' = [r EXCEPT ![p] = v]
      BY <1>2, <1>7, <1>8
    <2> HIDE DEF v
    <2>4. QED  BY <2>2, <2>3, BunPut
  <1>11. \A k \in Bundle!Indices : /\ k < a => y.models[k].status = "success"
                                   /\ k > a => y.models[k].status = "pending"
    <2>0. \A i, j, k \in Nat :
              i = j + 1 => /\ k < i => k # i /\ k <= j
                           /\ k > i => k # i /\ k > j
      OBVIOUS
    <2>1. \A k \in Bundle!Indices :
              /\ k < a => k # a /\ k <= r[p].active
              /\ k > a => k # a /\ k > r[p].active
      <3>1. SUFFICES ASSUME NEW k \in Bundle!Indices
                     PROVE  /\ k < a => k # a /\ k <= r[p].active
                            /\ k > a => k # a /\ k > r[p].active
        OBVIOUS
      <3>2. k \in Nat /\ a \in Nat /\ r[p].active \in Nat /\ a = r[p].active + 1
        BY <1>4, BunConstants
      <3>3. QED  BY <2>0, <3>2
    <2>2. \A k \in Bundle!Indices :
              /\ k <= r[p].active => r[p].report.models[k].status = "success"
              /\ k > r[p].active => r[p].report.models[k].status = "pending"
      BY <1>1, <1>2 DEF BunProgress
    <2>3. QED  BY <1>9, <2>1, <2>2
  <1>12. r[p].report.status = "running"
    BY <1>1, <1>2 DEF BunProgress
  <1>13. BunProgress(r[p])'
    BY <1>4, <1>8, <1>9, <1>10, <1>11, <1>12 DEF BunProgress, BunActive
  <1>14. BunOwner(r[p])'
    BY <1>1, <1>10 DEF BunOwner
  <1>15. report # Bundle!None /\ report' # Bundle!None /\ report' = y
    BY <1>1, <1>2, <1>3, <1>8, <1>10, BunReportReal
  <1>16. BunTyped'
    BY <1>1, <1>8, <1>10, <1>15 DEF BunInv, BunTyped
  <1>17. Bundle!DeliveryTrue'
    <2>1. \A k \in Bundle!Indices : y.models[k].status = "success" =>
              y.models[k] = r[p].report.models[k]
      BY <1>9
    <2>2. \A k \in Bundle!Indices : r[p].report.models[k].status = "success" =>
              /\ built[k] # 0 /\ built[k] = r[p].report.models[k].elf
              /\ built[k] = r[p].report.models[k].source
      BY <1>3, <1>15 DEF BunInv, Bundle!DeliveryTrue
    <2>3. y.status # "success"
      BY <1>8, <1>12
    <2>4. \A k \in Bundle!Indices : y.models[k].status = "success" =>
              /\ built'[k] # 0 /\ built'[k] = y.models[k].elf
              /\ built'[k] = y.models[k].source
      BY <1>1, <2>1, <2>2
    <2>5. QED  BY <1>15, <2>3, <2>4 DEF Bundle!DeliveryTrue
  <1>18. QED  BY <1>3, <1>10, <1>13, <1>14, <1>15, <1>16, <1>17, BunOwnerStep

\* A model has been published, and is reported.
LEMMA BunRecordModel ==
    ASSUME BunInv, NEW p \in Runs, Bundle!RecordModel(p)
    PROVE  BunInv'
  <1> DEFINE a == r[p].active
             e == [r[p].report.models[a] EXCEPT !.status = "success", !.elf = artifact[a]]
             y == Bundle!Succeeded(p, a)
  <1>1. /\ r[p].at = "record" /\ report' = r'[p].report
        /\ r' = [r EXCEPT ![p].at = "next", ![p].report = y]
        /\ UNCHANGED <<bundle, copy, artifact, built>>
    BY DEF Bundle!RecordModel
  <1>2. /\ r \in [Runs -> BunRuns] /\ r[p] \in BunRuns /\ r[p].report \in BunReports
        /\ r[p].report.models \in [Bundle!Indices -> BunModels] /\ BunProgress(r[p])
        /\ r[p].active \in 0..Models /\ artifact \in [Bundle!Indices -> Nat]
    BY BunRunTyped DEF BunInv, BunTyped
  <1>3. report = r[p].report /\ r[p].at \in BunOwning /\ r[p].at \in BunActive
        /\ r[p].report.models[a].source # 0
        /\ artifact[a] = r[p].report.models[a].source /\ built[a] = artifact[a]
    BY <1>1, BunRunTyped DEF BunOwner, BunOwning, BunActive
  <1>4. a \in Bundle!Indices /\ a \in 0..Models
    BY <1>2, <1>3 DEF BunProgress
  <1>5. e \in BunModels /\ e.status = "success" /\ e.elf = artifact[a]
        /\ e.source = r[p].report.models[a].source
    BY <1>2, <1>4 DEF BunModels
  <1>6. y = [r[p].report EXCEPT !.models = [r[p].report.models EXCEPT ![a] = e]]
    BY <1>2, <1>4 DEF Bundle!Succeeded
  <1>7. r' = [r EXCEPT ![p].at = "next", ![p].active = a, ![p].report = y]
    BY <1>1, <1>2 DEF BunRuns
  <1> HIDE DEF e
  <1> HIDE DEF y
  <1>8. y \in BunReports /\ y.status = r[p].report.status
        /\ y.models = [r[p].report.models EXCEPT ![a] = e]
    <2>1. [r[p].report.models EXCEPT ![a] = e] \in [Bundle!Indices -> BunModels]
      BY <1>2, <1>5
    <2>2. QED  BY <1>2, <1>6, <2>1 DEF BunReports
  <1>9. /\ y.models[a] = e
        /\ \A k \in Bundle!Indices : k # a => y.models[k] = r[p].report.models[k]
    BY <1>2, <1>4, <1>8
  <1>10. /\ r' \in [Runs -> BunRuns] /\ \A q \in Runs \ {p} : r'[q] = r[q]
         /\ r'[p].at = "next" /\ r'[p].active = a /\ r'[p].report = y
    <2> DEFINE v == [r[p] EXCEPT !.at = "next", !.active = a, !.report = y]
    <2>1. "next" \in BunPcs
      BY DEF BunPcs, BunOwning
    <2>2. v \in BunRuns /\ v.at = "next" /\ v.active = a /\ v.report = y
      BY <1>2, <1>4, <1>7, <1>8, <2>1 DEF BunRuns
    <2>3. r' = [r EXCEPT ![p] = v]
      BY <1>2, <1>7, <1>8
    <2> HIDE DEF v
    <2>4. QED  BY <2>2, <2>3, BunPut
  <1>11. \A k \in Bundle!Indices : /\ k <= a => y.models[k].status = "success"
                                   /\ k > a => y.models[k].status = "pending"
    <2>1. \A k \in Bundle!Indices :
              /\ k <= a => k = a \/ (k # a /\ k < a)
              /\ k > a => k # a
      BY <1>4, BunConstants
    <2>2. \A k \in Bundle!Indices :
              /\ k < a => r[p].report.models[k].status = "success"
              /\ k > a => r[p].report.models[k].status = "pending"
      BY <1>2, <1>3 DEF BunProgress
    <2>3. QED  BY <1>5, <1>9, <2>1, <2>2
  <1>12. r[p].report.status = "running"
    BY <1>1, <1>2 DEF BunProgress
  <1>13. BunProgress(r[p])'
    BY <1>8, <1>10, <1>11, <1>12 DEF BunProgress, BunActive
  <1>14. BunOwner(r[p])'
    BY <1>1, <1>10 DEF BunOwner, BunActive
  <1>15. report # Bundle!None /\ report' # Bundle!None /\ report' = y
    BY <1>1, <1>2, <1>3, <1>8, <1>10, BunReportReal
  <1>16. BunTyped'
    BY <1>1, <1>8, <1>10, <1>15 DEF BunInv, BunTyped
  <1>17. Bundle!DeliveryTrue'
    <2>1. \A k \in Bundle!Indices : k # a => y.models[k] = r[p].report.models[k]
      BY <1>9
    <2>2. built[a] # 0 /\ built[a] = y.models[a].elf /\ built[a] = y.models[a].source
      BY <1>3, <1>5, <1>9
    <2>3. \A k \in Bundle!Indices : r[p].report.models[k].status = "success" =>
              /\ built[k] # 0 /\ built[k] = r[p].report.models[k].elf
              /\ built[k] = r[p].report.models[k].source
      BY <1>3, <1>15 DEF BunInv, Bundle!DeliveryTrue
    <2>4. y.status # "success"
      BY <1>8, <1>12
    <2>5. \A k \in Bundle!Indices : y.models[k].status = "success" =>
              /\ built'[k] # 0 /\ built'[k] = y.models[k].elf
              /\ built'[k] = y.models[k].source
      BY <1>1, <2>1, <2>2, <2>3
    <2>6. QED  BY <1>15, <2>4, <2>5 DEF Bundle!DeliveryTrue
  <1>18. QED  BY <1>3, <1>10, <1>13, <1>14, <1>15, <1>16, <1>17, BunOwnerStep

\* All models are delivered.
LEMMA BunFinish ==
    ASSUME BunInv, NEW p \in Runs, Bundle!Finish(p)
    PROVE  BunInv'
  <1> DEFINE y == [r[p].report EXCEPT !.status = "success"]
  <1>1. /\ r[p].at = "next" /\ r[p].active = Models /\ report' = r'[p].report
        /\ r' = [r EXCEPT ![p].at = "done", ![p].report.status = "success"]
        /\ UNCHANGED <<bundle, copy, artifact, built>>
    BY DEF Bundle!Finish
  <1>2. /\ r \in [Runs -> BunRuns] /\ r[p] \in BunRuns /\ r[p].report \in BunReports
        /\ r[p].report.models \in [Bundle!Indices -> BunModels] /\ BunProgress(r[p])
        /\ r[p].active \in 0..Models
    BY BunRunTyped DEF BunInv, BunTyped
  <1>3. report = r[p].report /\ r[p].at \in BunOwning
    BY <1>1, BunRunTyped DEF BunOwner, BunOwning
  <1>4. y \in BunReports /\ y.status = "success" /\ y.models = r[p].report.models
    BY <1>2 DEF BunReports
  <1>5. r' = [r EXCEPT ![p].at = "done", ![p].active = r[p].active, ![p].report = y]
    BY <1>1, <1>2 DEF BunRuns
  <1> HIDE DEF y
  <1>6. /\ r' \in [Runs -> BunRuns] /\ \A q \in Runs \ {p} : r'[q] = r[q]
        /\ r'[p].at = "done" /\ r'[p].active = r[p].active /\ r'[p].report = y
    <2> DEFINE v == [r[p] EXCEPT !.at = "done", !.active = r[p].active, !.report = y]
    <2>1. "done" \in BunPcs
      BY DEF BunPcs, BunOwning
    <2>2. v \in BunRuns /\ v.at = "done" /\ v.active = r[p].active /\ v.report = y
      BY <1>2, <1>2, <1>4, <1>5, <2>1 DEF BunRuns
    <2>3. r' = [r EXCEPT ![p] = v]
      BY <1>2, <1>4, <1>5
    <2> HIDE DEF v
    <2>4. QED  BY <2>2, <2>3, BunPut
  <1>7. \A k \in Bundle!Indices : y.models[k].status = "success"
    BY <1>1, <1>2, <1>4, BunConstants DEF BunProgress
  <1>8. BunProgress(r[p])' /\ BunOwner(r[p])'
    BY <1>1, <1>6, <1>7 DEF BunProgress, BunOwner, BunActive
  <1>9. report # Bundle!None /\ report' # Bundle!None /\ report' = y
    BY <1>1, <1>2, <1>3, <1>4, <1>6, BunReportReal
  <1>10. BunTyped'
    BY <1>1, <1>4, <1>6, <1>9 DEF BunInv, BunTyped
  <1>11. Bundle!DeliveryTrue'
    <2>1. \A k \in Bundle!Indices : report.models[k].status = "success" =>
              built[k] # 0 /\ built[k] = report.models[k].elf /\ built[k] = report.models[k].source
      BY <1>9 DEF BunInv, Bundle!DeliveryTrue
    <2>2. built' = built /\ report'.models = report.models
      BY <1>1, <1>3, <1>4, <1>9
    <2>3. QED  BY <1>4, <1>7, <1>9, <2>1, <2>2 DEF Bundle!DeliveryTrue
  <1>12. QED  BY <1>3, <1>6, <1>8, <1>9, <1>10, <1>11, BunOwnerStep

\* A step of the owner raises: every model is settled.
LEMMA BunRaise ==
    ASSUME BunInv, NEW p \in Runs, Bundle!Raise(p)
    PROVE  BunInv'
  <1> DEFINE old(k) == r[p].report.models[k]
             y == Bundle!Outcome(p)
  <1>1. /\ r[p].at \in Bundle!Working /\ report' = r'[p].report
        /\ r' = [r EXCEPT ![p].at = "done", ![p].report = y]
        /\ UNCHANGED <<bundle, copy, artifact, built>>
    BY DEF Bundle!Raise
  <1>2. /\ r \in [Runs -> BunRuns] /\ r[p] \in BunRuns /\ r[p].report \in BunReports
        /\ r[p].report.models \in [Bundle!Indices -> BunModels] /\ BunProgress(r[p])
        /\ r[p].active \in 0..Models
    BY BunRunTyped DEF BunInv, BunTyped
  <1>3. report = r[p].report /\ r[p].at \in BunOwning
    BY <1>1, BunRunTyped, BunConstants DEF BunOwner
  <1>4. \A k \in Bundle!Indices :
            /\ old(k).status = "running" => k = r[p].active
            /\ old(k).status \in {"pending", "running", "success"}
    <2>1. r[p].at \in BunActive \/ r[p].at = "prepare" \/ r[p].at = "next"
      BY <1>1 DEF Bundle!Working, BunActive
    <2>2. CASE r[p].at \in BunActive
      BY <1>2, <2>2, BunConstants DEF BunProgress
    <2>3. CASE r[p].at = "prepare" \/ r[p].at = "next"
      BY <1>2, <2>3, BunConstants DEF BunProgress
    <2>4. QED  BY <2>1, <2>2, <2>3
  <1>5. \A k \in Bundle!Indices : old(k) \in BunModels
    BY <1>2
  <1>6. \A k \in Bundle!Indices :
            /\ [old(k) EXCEPT !.status = "failed"] \in BunModels
            /\ [old(k) EXCEPT !.status = "failed"].status = "failed"
            /\ [old(k) EXCEPT !.status = "not_attempted"] \in BunModels
            /\ [old(k) EXCEPT !.status = "not_attempted"].status = "not_attempted"
    BY <1>5 DEF BunModels
  <1> HIDE DEF old
  <1> DEFINE new(k) == IF k = r[p].active /\ old(k).status # "success"
                       THEN [old(k) EXCEPT !.status = "failed"]
                       ELSE IF old(k).status = "pending"
                            THEN [old(k) EXCEPT !.status = "not_attempted"] ELSE old(k)
  <1>7. y = [status |-> "failed", models |-> [k \in Bundle!Indices |-> new(k)]]
    BY DEF Bundle!Outcome, old
  <1>8. \A k \in Bundle!Indices :
            /\ new(k) \in BunModels
            /\ new(k).status \in {"success", "failed", "not_attempted"}
            /\ new(k).status = "success" => new(k) = old(k)
    BY <1>4, <1>5, <1>6
  <1> HIDE DEF new
  <1>9. y \in BunReports /\ y.status = "failed"
        /\ \A k \in Bundle!Indices : y.models[k] = new(k)
    BY <1>7, <1>8 DEF BunReports
  <1> HIDE DEF y
  <1>10. r' = [r EXCEPT ![p].at = "done", ![p].active = r[p].active, ![p].report = y]
    BY <1>1, <1>2 DEF BunRuns
  <1>11. /\ r' \in [Runs -> BunRuns] /\ \A q \in Runs \ {p} : r'[q] = r[q]
         /\ r'[p].at = "done" /\ r'[p].active = r[p].active /\ r'[p].report = y
    <2> DEFINE v == [r[p] EXCEPT !.at = "done", !.active = r[p].active, !.report = y]
    <2>1. "done" \in BunPcs
      BY DEF BunPcs, BunOwning
    <2>2. v \in BunRuns /\ v.at = "done" /\ v.active = r[p].active /\ v.report = y
      BY <1>2, <1>2, <1>9, <1>10, <2>1 DEF BunRuns
    <2>3. r' = [r EXCEPT ![p] = v]
      BY <1>2, <1>9, <1>10
    <2> HIDE DEF v
    <2>4. QED  BY <2>2, <2>3, BunPut
  <1>12. BunProgress(r[p])' /\ BunOwner(r[p])'
    BY <1>1, <1>8, <1>9, <1>11 DEF BunProgress, BunOwner, BunActive
  <1>13. report # Bundle!None /\ report' # Bundle!None /\ report' = y
    BY <1>1, <1>2, <1>3, <1>9, <1>11, BunReportReal
  <1>14. BunTyped'
    BY <1>1, <1>9, <1>11, <1>13 DEF BunInv, BunTyped
  <1>15. Bundle!DeliveryTrue'
    <2>1. \A k \in Bundle!Indices : y.models[k].status = "success" =>
              y.models[k] = r[p].report.models[k]
      BY <1>8, <1>9 DEF old
    <2>2. QED  BY <1>1, <1>3, <1>9, <1>13, <2>1 DEF BunInv, Bundle!DeliveryTrue
  <1>16. QED  BY <1>3, <1>11, <1>12, <1>13, <1>14, <1>15, BunOwnerStep

\* Nothing but the sources changes.
LEMMA BunSame ==
    ASSUME BunInv, UNCHANGED <<report, copy, artifact, built, r>>,
           bundle' \in [Bundle!Indices -> Nat \ {0}]
    PROVE  BunInv'
  <1>1. BunTyped'
    BY DEF BunInv, BunTyped
  <1>2. Bundle!DeliveryTrue'
    BY DEF BunInv, Bundle!DeliveryTrue
  <1>3. ASSUME NEW p \in Runs PROVE BunProgress(r[p])' /\ BunOwner(r[p])'
    <2>1. r'[p] = r[p] /\ BunProgress(r[p]) /\ BunOwner(r[p])
      BY DEF BunInv
    <2>2. BunProgress(r[p])'
      BY <2>1 DEF BunProgress
    <2>3. BunOwner(r[p])'
      BY <2>1 DEF BunOwner
    <2>4. QED  BY <2>2, <2>3
  <1>4. /\ \A p, q \in Runs : r'[p].at \in BunOwning /\ r'[q].at \in BunOwning => p = q
        /\ report' = Bundle!None => \A p \in Runs : r'[p].at \notin BunOwning
    BY DEF BunInv
  <1>5. QED  BY <1>1, <1>2, <1>3, <1>4 DEF BunInv

LEMMA BunEdit ==
    ASSUME BunInv, Bundle!Edit
    PROVE  BunInv'
  <1>1. /\ UNCHANGED <<report, dirs, copy, artifact, result, built, r>>
        /\ bundle' \in [Bundle!Indices -> Nat \ {0}]
    BY DEF Bundle!Edit, Bundle!output, BunInv, BunTyped
  <1>2. QED  BY <1>1, BunSame

LEMMA BunInitInv ==
    ASSUME Bundle!Init
    PROVE  BunInv
  <1>1. \A p \in Runs : r[p] = Bundle!Fresh
    BY DEF Bundle!Init
  <1>2. /\ Bundle!Fresh \in BunRuns /\ Bundle!Fresh.at = "select"
        /\ Bundle!Fresh.report.status = "running"
        /\ \A k \in Bundle!Indices : Bundle!Fresh.report.models[k].status = "pending"
    <2>1. Bundle!Pending \in BunModels /\ Bundle!Pending.status = "pending"
      BY DEF Bundle!Pending, BunModels
    <2>2. [k \in Bundle!Indices |-> Bundle!Pending] \in [Bundle!Indices -> BunModels]
      BY <2>1
    <2>3. QED  BY <2>1, <2>2, BunConstants DEF Bundle!Fresh, BunRuns, BunReports, BunPcs
  <1>3. BunTyped
    BY <1>2 DEF Bundle!Init, BunTyped
  <1>4. \A p \in Runs : BunProgress(r[p]) /\ BunOwner(r[p]) /\ r[p].at \notin BunOwning
    BY <1>1, <1>2 DEF BunProgress, BunOwner, BunActive, BunOwning
  <1>5. Bundle!DeliveryTrue
    BY DEF Bundle!Init, Bundle!DeliveryTrue
  <1>6. QED  BY <1>3, <1>4, <1>5 DEF BunInv

LEMMA BunNextInv ==
    ASSUME BunInv, Bundle!Next
    PROVE  BunInv'
  BY BunSelect, BunClaim, BunKill, BunQuietSteps, BunFileSteps, BunBeginModel, BunRecordModel,
     BunFinish, BunRaise, BunEdit DEF Bundle!Next

LEMMA BunSafe ==
    ASSUME BunInv
    PROVE  Bundle!DeliveryTrue /\ Bundle!ReportSettled
  <1>1. Bundle!Working \union {"build", "done"} \subseteq BunOwning
    BY DEF Bundle!Working, BunOwning, BunActive
  <1>2. \A p \in Runs : r[p].at = "done" =>
            /\ report = r[p].report
            /\ \A k \in Bundle!Indices :
                  report.models[k].status \in {"success", "failed", "not_attempted"}
    BY DEF BunInv, BunProgress, BunOwner, BunOwning
  <1>3. QED  BY <1>1, <1>2 DEF BunInv, Bundle!ReportSettled

-----------------------------------------------------------------------------
(* The console of the target.                                              *)

ObsStates == {"STOPPED", "STARTING", "RUNNING"}
ObsProcs == [pid: Pids, inc: Nat, completed: {0, 1}, sampled: Nat]
ObsFiles == [pid: Pids, inc: Nat, mtime: Nat, sample: Nat, completed: {0, 1}, state: ObsStates]

ObsTyped ==
    /\ now \in 0..MaxTicks /\ wall \in Nat /\ booted \in BOOLEAN /\ starts \in Nat
    /\ freed \in [Pids -> Int]
    /\ Watch!Alive => proc \in ObsProcs
    /\ status # Watch!None => status \in ObsFiles
    /\ c.at \in {"idle", "stat", "status", "mtime"}
    /\ c.at # "idle" => c.pid \in Pids /\ c.inc \in Nat /\ c.now \in Nat /\ c.monotonic \in Nat
    /\ c.at = "mtime" => c.status = Watch!None \/ c.status \in ObsFiles

AfterBoot == 2 * (MaxTicks + 1) + MaxAge

\* The present process is the last one, and its id had been free for long.
ObsProc ==
    /\ IF booted THEN wall >= AfterBoot ELSE wall <= now
    /\ Watch!Alive => proc.inc = starts /\ proc.sampled <= now /\ now - freed[proc.pid] > MaxAge

\* Whether the status was written since the machine came up.
Current == booted => status.mtime > MaxTicks

\* A status of this boot is that of the process, or of one that has ended since.
ObsStatus ==
    status # Watch!None =>
        /\ status.inc <= starts
        /\ ~booted => status.mtime <= MaxTicks
        /\ Watch!Alive /\ proc.inc = status.inc => proc.pid = status.pid
        /\ Current =>
               /\ status.sample <= now
               /\ ~(Watch!Alive /\ proc.inc = status.inc) => status.sample <= freed[status.pid]

\* The process seen at the beginning of a round keeps its id throughout, and a
\* status with that id is its own, of an earlier boot, or stale.
ObsRound ==
    c.at # "idle" =>
        /\ c.monotonic <= now /\ now <= c.monotonic + 1
        /\ booted => c.now >= AfterBoot
        /\ IF Watch!Alive /\ proc.pid = c.pid THEN proc.inc = c.inc
           ELSE freed[c.pid] >= c.monotonic
        /\ status # Watch!None /\ status.pid = c.pid /\ status.inc # c.inc /\ Current =>
               status.sample < c.monotonic - MaxAge

ObsInv == ObsTyped /\ ObsProc /\ ObsStatus /\ ObsRound /\ Watch!RunningIsTrue

LEMMA ObsConstants ==
    /\ MaxAge \in Nat /\ MaxAge >= 1 /\ MaxTicks \in Nat /\ 0 \notin Pids
    /\ AfterBoot \in Nat /\ \A x \in Nat : AfterBoot - x <= MaxAge => x > MaxTicks
  BY ServicesAssumption DEF Watch!ObserversAssumption, AfterBoot

\* What is known of each variable, as integers.
LEMMA ObsFacts ==
    ASSUME ObsInv
    PROVE  /\ now \in Nat /\ wall \in Nat /\ starts \in Nat /\ now <= MaxTicks
           /\ \A p \in Pids : freed[p] \in Int
           /\ Watch!Alive => /\ proc.pid \in Pids /\ proc.inc \in Nat /\ proc.sampled \in Nat
                             /\ proc.completed \in {0, 1}
           /\ status # Watch!None =>
                  /\ status.pid \in Pids /\ status.inc \in Nat /\ status.mtime \in Nat
                  /\ status.sample \in Nat
           /\ c.at # "idle" =>
                  c.pid \in Pids /\ c.inc \in Nat /\ c.now \in Nat /\ c.monotonic \in Nat
  BY ObsConstants DEF ObsInv, ObsTyped, ObsProcs, ObsFiles

\* A process starts under an id that has been free for long.
LEMMA ObsStart ==
    ASSUME ObsInv, Watch!Start
    PROVE  ObsInv'
  <1>1. /\ ~Watch!Alive /\ starts' = starts + 1
        /\ UNCHANGED <<now, wall, booted, freed, status, c, shown>>
    BY DEF Watch!Start, Watch!console
  <1>2. PICK p \in Pids : /\ now - freed[p] > MaxAge
                          /\ proc' = [pid |-> p, inc |-> starts + 1, completed |-> 0,
                                      sampled |-> now]
    BY DEF Watch!Start
  <1>3. /\ proc'.pid = p /\ proc'.inc = starts + 1 /\ proc'.sampled = now
        /\ proc' \in ObsProcs /\ starts + 1 \in Nat
    BY <1>2, ObsFacts DEF ObsProcs
  <1>4. ObsTyped'
    BY <1>1, <1>3 DEF ObsInv, ObsTyped
  <1>5. ObsProc'
    BY <1>1, <1>2, <1>3, ObsFacts DEF ObsInv, ObsProc
  <1>6. ObsStatus'
    <2>1. status # Watch!None => status.inc # starts + 1 /\ status.inc <= starts + 1
      BY ObsFacts DEF ObsInv, ObsStatus
    <2>2. QED  BY <1>1, <1>3, <2>1 DEF ObsInv, ObsStatus, Current
  <1>7. ObsRound'
    <2>1. c.at # "idle" => c.pid # p
      <3>1. c.at # "idle" => freed[c.pid] >= c.monotonic /\ now <= c.monotonic + 1
        BY <1>1 DEF ObsInv, ObsRound
      <3>2. \A x, y, z \in Int : x >= y /\ z <= y + 1 => ~(z - x > MaxAge)
        BY ObsConstants
      <3>3. QED  BY <1>2, <3>1, <3>2, ObsFacts
    <2>2. QED  BY <1>1, <1>3, <2>1 DEF ObsInv, ObsRound, Current
  <1>8. QED  BY <1>1, <1>4, <1>5, <1>6, <1>7 DEF ObsInv, Watch!RunningIsTrue

\* The process takes a step, or ends.
LEMMA ObsStep ==
    ASSUME ObsInv, Watch!Step
    PROVE  ObsInv'
  <1>1. /\ Watch!Alive /\ proc' = [proc EXCEPT !.completed = 1, !.sampled = now]
        /\ UNCHANGED <<now, wall, booted, freed, starts, status, c, shown>>
    BY DEF Watch!Step, Watch!console
  <1>2. proc \in ObsProcs
    BY <1>1 DEF ObsInv, ObsTyped
  <1>3. /\ proc' \in ObsProcs /\ proc'.pid = proc.pid /\ proc'.inc = proc.inc
        /\ proc'.sampled = now
    BY <1>1, <1>2, ObsFacts DEF ObsProcs
  <1>4. Watch!Alive'
    BY <1>3 DEF Watch!Alive, Watch!None, ObsProcs
  <1>5. ObsTyped'
    BY <1>1, <1>3 DEF ObsInv, ObsTyped
  <1>6. ObsProc'
    BY <1>1, <1>3, <1>4, ObsFacts DEF ObsInv, ObsProc
  <1>7. ObsStatus' /\ ObsRound'
    BY <1>1, <1>3, <1>4 DEF ObsInv, ObsStatus, ObsRound, Current
  <1>8. QED  BY <1>1, <1>5, <1>6, <1>7 DEF ObsInv, Watch!RunningIsTrue

LEMMA ObsEnd ==
    ASSUME ObsInv, Watch!End
    PROVE  ObsInv'
  <1>1. /\ Watch!Alive /\ proc' = Watch!None /\ freed' = [freed EXCEPT ![proc.pid] = now]
        /\ UNCHANGED <<now, wall, booted, starts, status, c, shown>>
    BY DEF Watch!End, Watch!console
  <1>2. /\ ~Watch!Alive' /\ proc.pid \in Pids /\ freed \in [Pids -> Int] /\ now \in Int
        /\ freed[proc.pid] \in Int /\ now - freed[proc.pid] > MaxAge
    BY <1>1, ObsFacts DEF Watch!Alive, ObsInv, ObsTyped, ObsProc
  <1>3. /\ freed' \in [Pids -> Int] /\ freed'[proc.pid] = now
        /\ \A q \in Pids : q # proc.pid => freed'[q] = freed[q]
    BY <1>1, <1>2
  <1>4. ObsTyped'
    BY <1>1, <1>2, <1>3 DEF ObsInv, ObsTyped
  <1>5. ObsProc'
    BY <1>1, <1>2 DEF ObsInv, ObsProc
  <1>6. freed[proc.pid] <= now
    BY <1>2, ObsConstants
  <1>7. ObsStatus'
    <2>1. status # Watch!None /\ Current => status.sample <= freed'[status.pid]
      <3> SUFFICES ASSUME status # Watch!None, Current PROVE status.sample <= freed'[status.pid]
        OBVIOUS
      <3>1. status.pid \in Pids /\ status.sample <= now
        BY ObsFacts DEF ObsInv, ObsStatus
      <3>2. CASE status.pid = proc.pid
        BY <1>3, <3>1, <3>2
      <3>3. CASE status.pid # proc.pid
        <4>1. status.sample <= freed[status.pid]
          BY <3>3 DEF ObsInv, ObsStatus
        <4>2. QED  BY <1>3, <3>1, <3>3, <4>1
      <3>4. QED  BY <3>2, <3>3
    <2>2. Current' = Current
      BY <1>1 DEF Current
    <2>3. QED  BY <1>1, <1>2, <2>1, <2>2 DEF ObsInv, ObsStatus
  <1>8. ObsRound'
    <2>1. c.at # "idle" => freed'[c.pid] >= c.monotonic
      <3>1. c.at # "idle" /\ c.pid = proc.pid => freed'[c.pid] >= c.monotonic
        BY <1>3, ObsFacts DEF ObsInv, ObsRound
      <3>2. c.at # "idle" /\ c.pid # proc.pid => freed'[c.pid] >= c.monotonic
        BY <1>3, ObsFacts DEF ObsInv, ObsRound
      <3>3. QED  BY <3>1, <3>2
    <2>2. QED  BY <1>1, <1>2, <2>1 DEF ObsInv, ObsRound, Current
  <1>9. QED  BY <1>1, <1>4, <1>5, <1>7, <1>8 DEF ObsInv, Watch!RunningIsTrue

LEMMA ObsWriteStatus ==
    ASSUME ObsInv, NEW stopped, Watch!WriteStatus(stopped)
    PROVE  ObsInv'
  <1>1. /\ Watch!Alive /\ UNCHANGED <<now, wall, booted, proc, freed, starts, c, shown>>
    BY DEF Watch!WriteStatus, Watch!console
  <1>2. PICK state \in ObsStates :
            status' = [pid |-> proc.pid, inc |-> proc.inc, mtime |-> wall,
                       sample |-> proc.sampled, completed |-> proc.completed, state |-> state]
    <2>1. (IF stopped THEN "STOPPED" ELSE IF proc.completed = 0 THEN "STARTING" ELSE "RUNNING")
              \in ObsStates
      BY DEF ObsStates
    <2>2. QED  BY <2>1 DEF Watch!WriteStatus
  <1>3. /\ status' \in ObsFiles /\ status'.pid = proc.pid /\ status'.inc = proc.inc
        /\ status'.mtime = wall /\ status'.sample = proc.sampled
    BY <1>1, <1>2, ObsFacts DEF ObsFiles
  <1>4. ObsTyped' /\ ObsProc'
    BY <1>1, <1>3 DEF ObsInv, ObsTyped, ObsProc, Watch!Alive
  <1>5. proc.inc = starts /\ proc.sampled <= now /\ (~booted => wall <= MaxTicks)
    BY <1>1, ObsFacts, ObsConstants DEF ObsInv, ObsProc
  <1>6. ObsStatus'
    BY <1>1, <1>3, <1>5, ObsFacts DEF ObsStatus, Watch!Alive
  <1>7. ObsRound'
    BY <1>1, <1>3 DEF ObsInv, ObsRound, Watch!Alive
  <1>8. QED  BY <1>1, <1>4, <1>6, <1>7 DEF ObsInv, Watch!RunningIsTrue

\* Time passes, the clock is set, the machine reboots.
LEMMA ObsTick ==
    ASSUME ObsInv, Watch!Tick
    PROVE  ObsInv'
  <1>1. /\ now < MaxTicks /\ (c.at # "idle" => c.monotonic = now)
        /\ now' = now + 1 /\ wall' = wall + 1
        /\ UNCHANGED <<booted, proc, freed, starts, status, c, shown>>
    BY DEF Watch!Tick, Watch!console
  <1>2. /\ now \in Nat /\ wall \in Nat /\ MaxTicks \in Nat /\ MaxAge \in Nat /\ AfterBoot \in Nat
    BY ObsFacts, ObsConstants
  <1>3. ObsTyped'
    BY <1>1, <1>2 DEF ObsInv, ObsTyped, Watch!Alive
  <1>4. ObsProc'
    <2>1. Watch!Alive => /\ proc.pid \in Pids /\ freed[proc.pid] \in Int /\ proc.sampled \in Int
                         /\ proc.sampled <= now /\ now - freed[proc.pid] > MaxAge
      BY ObsFacts DEF ObsInv, ObsProc
    <2>2. Watch!Alive => proc.sampled <= now' /\ now' - freed[proc.pid] > MaxAge
      BY <1>1, <1>2, <2>1
    <2>3. IF booted THEN wall' >= AfterBoot ELSE wall' <= now'
      BY <1>1, <1>2 DEF ObsInv, ObsProc
    <2>4. AfterBoot' = AfterBoot
      BY DEF AfterBoot
    <2>5. QED  BY <1>1, <2>2, <2>3, <2>4 DEF ObsInv, ObsProc, Watch!Alive
  <1>5. ObsStatus'
    BY <1>1, <1>2, ObsFacts DEF ObsInv, ObsStatus, Current, Watch!Alive
  <1>6. ObsRound'
    <2>1. c.at # "idle" => c.monotonic <= now' /\ now' <= c.monotonic + 1
      BY <1>1, <1>2
    <2>2. QED  BY <1>1, <2>1 DEF ObsInv, ObsRound, Current, Watch!Alive, AfterBoot
  <1>7. QED  BY <1>1, <1>3, <1>4, <1>5, <1>6 DEF ObsInv, Watch!RunningIsTrue

LEMMA ObsSetClock ==
    ASSUME ObsInv, Watch!SetClock
    PROVE  ObsInv'
  <1>1. /\ ~booted /\ wall' = 0
        /\ UNCHANGED <<now, booted, proc, freed, starts, status, c, shown>>
    BY DEF Watch!SetClock, Watch!console
  <1>2. ObsTyped' /\ ObsProc'
    BY <1>1, ObsFacts DEF ObsInv, ObsTyped, ObsProc, Watch!Alive
  <1>3. ObsStatus' /\ ObsRound' /\ Watch!RunningIsTrue'
    BY <1>1 DEF ObsInv, ObsStatus, ObsRound, Current, Watch!Alive, Watch!RunningIsTrue, AfterBoot
  <1>4. QED  BY <1>2, <1>3 DEF ObsInv

LEMMA ObsReboot ==
    ASSUME ObsInv, Watch!Reboot
    PROVE  ObsInv'
  <1>1. /\ ~booted /\ booted' = TRUE /\ now' = 0 /\ wall' = AfterBoot /\ proc' = Watch!None
        /\ freed' = [p \in Pids |-> -MaxAge - 1]
        /\ c' = Watch!NoRound /\ shown' = [state |-> "IDLE"] /\ UNCHANGED <<starts, status>>
    BY DEF Watch!Reboot, AfterBoot
  <1>2. ~Watch!Alive' /\ c'.at = "idle" /\ shown'.state = "IDLE"
    BY <1>1 DEF Watch!Alive, Watch!NoRound
  <1>3. ObsTyped' /\ ObsProc'
    <2>1. freed' \in [Pids -> Int] /\ AfterBoot \in Nat /\ 0 \in 0..MaxTicks
      BY <1>1, ObsConstants
    <2>2. AfterBoot' = AfterBoot
      BY DEF AfterBoot
    <2>3. ObsTyped'
      BY <1>1, <1>2, <2>1 DEF ObsInv, ObsTyped
    <2>4. ObsProc'
      BY <1>1, <1>2, <2>1, <2>2 DEF ObsProc
    <2>5. QED  BY <2>3, <2>4
  <1>4. ObsStatus'
    <2>1. status # Watch!None => status.inc <= starts /\ ~(status.mtime > MaxTicks)
      BY <1>1, ObsFacts, ObsConstants DEF ObsInv, ObsStatus
    <2>2. QED  BY <1>1, <1>2, <2>1 DEF ObsStatus, Current
  <1>5. ObsRound' /\ Watch!RunningIsTrue'
    BY <1>2 DEF ObsRound, Watch!RunningIsTrue
  <1>6. QED  BY <1>3, <1>4, <1>5 DEF ObsInv

\* The console finds the process.
LEMMA ObsCollect ==
    ASSUME ObsInv, Watch!Collect
    PROVE  ObsInv'
  <1>1. UNCHANGED <<now, wall, booted, proc, freed, starts, status>>
    BY DEF Watch!Collect, Watch!machine
  <1>2. ObsProc' /\ ObsStatus'
    BY <1>1 DEF ObsInv, ObsProc, ObsStatus, Current, Watch!Alive, AfterBoot
  <1>3. CASE Watch!Alive
    <2>1. /\ c' = [at |-> "stat", pid |-> proc.pid, inc |-> proc.inc, now |-> wall,
                   monotonic |-> now]
          /\ UNCHANGED shown
      BY <1>3 DEF Watch!Collect
    <2>2. /\ c'.at = "stat" /\ c'.pid = proc.pid /\ c'.inc = proc.inc /\ c'.now = wall
          /\ c'.monotonic = now
      BY <2>1
    <2>3. ObsTyped'
      BY <1>1, <1>3, <2>2, ObsFacts DEF ObsInv, ObsTyped, Watch!Alive
    <2>4. status # Watch!None /\ status.pid = proc.pid /\ status.inc # proc.inc /\ Current =>
              status.sample < now - MaxAge
      <3>1. status # Watch!None /\ status.pid = proc.pid /\ status.inc # proc.inc /\ Current =>
                status.sample <= freed[proc.pid] /\ status.sample \in Nat
        BY ObsFacts DEF ObsInv, ObsStatus
      <3>2. now - freed[proc.pid] > MaxAge /\ freed[proc.pid] \in Int
        BY <1>3, ObsFacts DEF ObsInv, ObsProc
      <3>3. \A x, y \in Int : x <= y /\ now - y > MaxAge => x < now - MaxAge
        BY ObsFacts, ObsConstants
      <3>4. QED  BY <3>1, <3>2, <3>3
    <2>5. ObsRound'
      BY <1>1, <1>3, <2>2, <2>4, ObsFacts DEF ObsInv, ObsProc, ObsRound, Current, Watch!Alive,
         AfterBoot
    <2>6. QED  BY <1>2, <2>1, <2>3, <2>5 DEF ObsInv, Watch!RunningIsTrue
  <1>4. CASE ~Watch!Alive
    <2>1. shown' = [state |-> "IDLE"] /\ UNCHANGED c
      BY <1>4 DEF Watch!Collect
    <2>2. ObsTyped' /\ ObsRound'
      BY <1>1, <2>1 DEF ObsInv, ObsTyped, ObsRound, Current, Watch!Alive, AfterBoot
    <2>3. QED  BY <1>2, <2>1, <2>2 DEF ObsInv, Watch!RunningIsTrue
  <1>5. QED  BY <1>3, <1>4

\* It reads the stat of the process, and the status.
LEMMA ObsReads ==
    ASSUME ObsInv, Watch!ReadStat \/ Watch!ReadStatus
    PROVE  ObsInv'
  <1>1. UNCHANGED <<now, wall, booted, proc, freed, starts, status>>
    BY DEF Watch!ReadStat, Watch!ReadStatus, Watch!machine
  <1>2. ObsProc' /\ ObsStatus'
    BY <1>1 DEF ObsInv, ObsProc, ObsStatus, Current, Watch!Alive, AfterBoot
  <1>3. CASE Watch!ReadStat
    <2>1. CASE Watch!Alive /\ proc.pid = c.pid
      <3>1. /\ c.at = "stat" /\ UNCHANGED shown
            /\ c' = [at |-> "status", pid |-> c.pid, inc |-> proc.inc, now |-> c.now,
                     monotonic |-> c.monotonic]
        BY <1>3, <2>1 DEF Watch!ReadStat
      <3>2. proc.inc = c.inc
        BY <2>1, <3>1 DEF ObsInv, ObsRound
      <3>3. /\ c'.at = "status" /\ c'.pid = c.pid /\ c'.inc = c.inc /\ c'.now = c.now
            /\ c'.monotonic = c.monotonic
        BY <3>1, <3>2
      <3>4. ObsTyped' /\ ObsRound'
        BY <1>1, <3>1, <3>3 DEF ObsInv, ObsTyped, ObsRound, Current, Watch!Alive, AfterBoot
      <3>5. QED  BY <1>2, <3>1, <3>4 DEF ObsInv, Watch!RunningIsTrue
    <2>2. CASE ~(Watch!Alive /\ proc.pid = c.pid)
      <3>1. c' = Watch!NoRound /\ shown' = [state |-> "IDLE"]
        BY <1>3, <2>2 DEF Watch!ReadStat
      <3>2. ObsTyped' /\ ObsRound'
        BY <1>1, <3>1 DEF ObsInv, ObsTyped, ObsRound, Watch!NoRound, Watch!Alive
      <3>3. QED  BY <1>2, <3>1, <3>2 DEF ObsInv, Watch!RunningIsTrue
    <2>3. QED  BY <2>1, <2>2
  <1>4. CASE Watch!ReadStatus
    <2>1. /\ c.at = "status" /\ UNCHANGED shown
          /\ c' = [at |-> "mtime", pid |-> c.pid, inc |-> c.inc, now |-> c.now,
                   monotonic |-> c.monotonic, status |-> Watch!Content]
      BY <1>4 DEF Watch!ReadStatus
    <2>2. /\ c'.at = "mtime" /\ c'.pid = c.pid /\ c'.inc = c.inc /\ c'.now = c.now
          /\ c'.monotonic = c.monotonic /\ c'.status = Watch!Content
      BY <2>1
    <2>3. Watch!Content = Watch!None \/ Watch!Content \in ObsFiles
      <3>1. CASE status = Watch!None
        BY <3>1 DEF Watch!Content, Watch!None
      <3>2. CASE status \in ObsFiles
        BY <3>2 DEF Watch!Content, ObsFiles
      <3>3. QED  BY <3>1, <3>2 DEF ObsInv, ObsTyped
    <2>4. ObsTyped' /\ ObsRound'
      BY <1>1, <2>1, <2>2, <2>3 DEF ObsInv, ObsTyped, ObsRound, Current, Watch!Alive, AfterBoot
    <2>5. QED  BY <1>2, <2>1, <2>4 DEF ObsInv, Watch!RunningIsTrue
  <1>5. QED  BY <1>3, <1>4

\* It says what it has found.  A status that has not been replaced since it was
\* read is of this boot if its time stamp is fresh, and then its sample is that
\* of the process unless it is stale.
LEMMA ObsShow ==
    ASSUME ObsInv, Watch!Show
    PROVE  ObsInv'
  <1>1. /\ c.at = "mtime" /\ c' = Watch!NoRound
        /\ UNCHANGED <<now, wall, booted, proc, freed, starts, status>>
    BY DEF Watch!Show, Watch!machine
  <1>2. ObsTyped' /\ ObsProc' /\ ObsStatus' /\ ObsRound'
    BY <1>1 DEF ObsInv, ObsTyped, ObsProc, ObsStatus, ObsRound, Current, Watch!Alive,
       Watch!NoRound, AfterBoot
  <1> DEFINE verdict == Watch!Verdict(status.mtime)
  <1>3. CASE verdict # "RUNNING"
    <2>1. shown' = [state |-> verdict]
      BY <1>3 DEF Watch!Show
    <2>2. QED  BY <1>2, <1>3, <2>1 DEF ObsInv, Watch!RunningIsTrue
  <1>4. CASE verdict = "RUNNING"
    <2>1. shown' = [state |-> verdict, own |-> c.status.inc = c.inc,
                    torn |-> Watch!Content # c.status,
                    live |-> /\ c.status.completed > 0
                             /\ c.monotonic - c.status.sample \in 0..MaxAge]
      BY <1>4 DEF Watch!Show
    <2>2. /\ shown'.own = (c.status.inc = c.inc) /\ shown'.torn = (Watch!Content # c.status)
          /\ shown'.live = (/\ c.status.completed > 0
                            /\ c.monotonic - c.status.sample \in 0..MaxAge)
      BY <2>1
    <2>3. /\ c.status.pid = c.pid /\ c.now - status.mtime \in 0..MaxAge
          /\ c.monotonic - c.status.sample \in 0..MaxAge
          /\ c.status.completed # 0
      BY <1>4 DEF Watch!Verdict, Watch!Fresh
    <2>4. c.status # Watch!None /\ c.status \in ObsFiles
      <3>1. c.pid # 0
        BY <1>1, ObsFacts, ObsConstants
      <3>2. c.status # Watch!None
        BY <2>3, <3>1 DEF Watch!None
      <3>3. QED  BY <1>1, <3>2 DEF ObsInv, ObsTyped
    <2>5. c.status.completed > 0
      <3>1. c.status.completed \in {0, 1}
        BY <2>4 DEF ObsFiles
      <3>2. QED  BY <2>3, <3>1
    <2>6. Watch!Content = c.status => c.status.inc = c.inc
      <3> SUFFICES ASSUME Watch!Content = c.status, c.status.inc # c.inc PROVE FALSE
        OBVIOUS
      <3>1. status # Watch!None
        <4>1. status = Watch!None => Watch!Content = Watch!None
          BY DEF Watch!Content, Watch!None
        <4>2. QED  BY <2>4, <4>1
      <3>2. status \in ObsFiles
        BY <3>1 DEF ObsInv, ObsTyped
      <3>3. /\ Watch!Content.pid = status.pid /\ Watch!Content.inc = status.inc
            /\ Watch!Content.sample = status.sample
        BY <3>2 DEF Watch!Content, ObsFiles
      <3>4. /\ status.pid = c.pid /\ status.inc # c.inc
            /\ c.monotonic - status.sample \in 0..MaxAge
        BY <2>3, <3>3
      <3>5. Current
        <4>1. booted => c.now >= AfterBoot
          BY <1>1 DEF ObsInv, ObsRound
        <4>2. c.now \in Nat /\ status.mtime \in Nat /\ c.now - status.mtime <= MaxAge
          BY <1>1, <2>3, <3>1, ObsFacts, ObsConstants
        <4>3. booted => AfterBoot - status.mtime <= MaxAge
          BY <4>1, <4>2, ObsConstants
        <4>4. QED  BY <4>2, <4>3, ObsConstants DEF Current
      <3>6. status.sample < c.monotonic - MaxAge
        BY <1>1, <3>1, <3>4, <3>5 DEF ObsInv, ObsRound
      <3>7. status.sample \in Int /\ c.monotonic \in Int
        BY <1>1, <3>1, ObsFacts
      <3>8. QED  BY <3>4, <3>6, <3>7, ObsConstants
    <2>7. Watch!RunningIsTrue'
      BY <2>2, <2>3, <2>5, <2>6 DEF Watch!RunningIsTrue
    <2>8. QED  BY <1>2, <2>7 DEF ObsInv
  <1>5. QED  BY <1>3, <1>4

\* The deployment and the monitor change nothing of this.
LEMMA ObsOthers ==
    ASSUME ObsInv, Watch!Mark \/ Watch!Scan \/ Watch!ListModels
    PROVE  ObsInv'
  <1>1. UNCHANGED <<now, wall, booted, proc, freed, starts, status, c, shown>>
    BY DEF Watch!Mark, Watch!Scan, Watch!ListModels, Watch!machine, Watch!console
  <1>2. QED  BY <1>1 DEF ObsInv, ObsTyped, ObsProc, ObsStatus, ObsRound, Current, Watch!Alive,
                         Watch!RunningIsTrue, AfterBoot

LEMMA ObsInitInv ==
    ASSUME Watch!Init
    PROVE  ObsInv
  <1>1. ~Watch!Alive /\ status = Watch!None /\ c.at = "idle" /\ shown.state = "IDLE"
    BY DEF Watch!Init, Watch!Alive, Watch!NoRound
  <1>2. /\ now = 0 /\ wall = 0 /\ booted = FALSE /\ starts = 0
        /\ freed = [p \in Pids |-> -MaxAge - 1]
    BY DEF Watch!Init
  <1>3. freed \in [Pids -> Int] /\ 0 \in 0..MaxTicks
    BY <1>2, ObsConstants
  <1>4. ObsTyped /\ ObsProc
    <2>1. ObsTyped
      BY <1>1, <1>2, <1>3 DEF ObsTyped
    <2>2. ObsProc
      <3> HIDE DEF AfterBoot
      <3>1. QED  BY <1>1, <1>2 DEF ObsProc
    <2>3. QED  BY <2>1, <2>2
  <1>5. QED  BY <1>1, <1>4 DEF ObsInv, ObsStatus, ObsRound, Watch!RunningIsTrue

LEMMA ObsNextInv ==
    ASSUME ObsInv, Watch!Next
    PROVE  ObsInv'
  BY ObsStart, ObsStep, ObsEnd, ObsWriteStatus, ObsTick, ObsSetClock, ObsReboot, ObsCollect,
     ObsReads, ObsShow, ObsOthers DEF Watch!Next

-----------------------------------------------------------------------------
(* The sample store.                                                       *)
(* Each ring is the ring of its history (StoreInv).  What a reader gets is  *)
(* computed from the rings alone, by recursive functions; what these return *)
(* follows by the least number at which it would fail.                     *)

\* Numbers: every set of them has a least one, which is what the inductions
\* over data below rest on.
LEMMA LeastOf ==
    ASSUME NEW T, T \subseteq Nat, T # {}
    PROVE  \E n \in T : \A i \in T : n <= i
  <1>1. PICK n \in T : \A i \in T : ~ (<<i, n>> \in OpToRel(<, Nat))
    BY NatLessThanWellFounded, WFMin
  <1>2. ASSUME NEW i \in T, i < n
        PROVE  FALSE
    <2>1. <<i, n>> \in Nat \X Nat /\ <<i, n>>[1] < <<i, n>>[2]
      BY <1>2
    <2>2. <<i, n>> \in OpToRel(<, Nat)
      BY <2>1 DEF OpToRel
    <2>3. QED  BY <1>1, <2>2
  <1>3. QED  BY <1>2

\* A recursive function over 0..n, and that there is one.
Recursion(f, n, base, step) == f[0] = base /\ \A i \in 1..n : f[i] = step[i][f[i - 1]]

\* A function can be defined over 0..N from a base and steps.
LEMMA RecursionExists ==
    ASSUME NEW N \in Nat, NEW S, NEW base \in S, NEW step \in [1..N -> [S -> S]]
    PROVE  \E f \in [0..N -> S] : Recursion(f, N, base, step)
  <1> DEFINE Upto(k) == \E f \in [0..k -> S] :
                            f[0] = base /\ \A n \in 1..k : f[n] = step[n][f[n - 1]]
             T == {k \in 0..N : ~Upto(k)}
  <1>1. Upto(0)
    <2>1. [n \in 0..0 |-> base] \in [0..0 -> S] /\ [n \in 0..0 |-> base][0] = base
      OBVIOUS
    <2>2. \A n \in 1..0 : FALSE
      OBVIOUS
    <2>3. QED  BY <2>1, <2>2
  <1>2. ASSUME NEW k \in 1..N, Upto(k - 1)
        PROVE  Upto(k)
    <2>1. PICK f \in [0..(k - 1) -> S] :
            f[0] = base /\ \A n \in 1..(k - 1) : f[n] = step[n][f[n - 1]]
      BY <1>2
    <2> DEFINE g == [n \in 0..k |-> IF n = k THEN step[k][f[k - 1]] ELSE f[n]]
    <2>2. step[k] \in [S -> S] /\ f[k - 1] \in S
      BY <2>1
    <2>3. g \in [0..k -> S]
      BY <2>2, <2>1
    <2>4. g[0] = base
      BY <2>1
    <2>5. \A n \in 1..k : g[n] = step[n][g[n - 1]]
      BY <2>1
    <2>6. QED  BY <2>3, <2>4, <2>5
  <1> HIDE DEF Upto
  <1>3. T = {}
    <2> SUFFICES ASSUME T # {} PROVE FALSE
      OBVIOUS
    <2>1. T \subseteq Nat
      OBVIOUS
    <2>2. PICK k \in T : \A i \in T : k <= i
      BY LeastOf, <2>1
    <2>3. k # 0
      BY <1>1
    <2>4. k - 1 \in 0..N /\ k \in 1..N
      BY <2>3
    <2>5. Upto(k - 1)
      BY <2>2, <2>4
    <2>6. QED  BY <1>2, <2>4, <2>5
  <1>4. Upto(N)
    BY <1>3
  <1>5. QED  BY <1>4 DEF Upto, Recursion

\* The least of a set of numbers, and the greatest of a bounded one.
LEMMA SmallestIs ==
    ASSUME NEW T, T \subseteq Nat, T # {}
    PROVE  Sto!SmallestOf(T) \in T /\ \A i \in T : Sto!SmallestOf(T) <= i
  <1>1. \E n \in T : \A i \in T : n <= i
    BY LeastOf
  <1>2. QED  BY <1>1 DEF Sto!SmallestOf

LEMMA LargestIs ==
    ASSUME NEW n \in Nat, NEW T, T \subseteq 0..n, T # {}
    PROVE  Sto!LargestOf(T) \in T /\ \A i \in T : i <= Sto!LargestOf(T)
  <1> DEFINE R == {n - i : i \in T}
  <1>1. R \subseteq Nat /\ R # {}
    <2>1. \A i \in T : i \in 0..n
      OBVIOUS
    <2>2. \A i \in T : n - i \in Nat
      BY <2>1
    <2>3. QED  BY <2>2
  <1>2. PICK k \in R : \A i \in R : k <= i
    BY <1>1, LeastOf
  <1>3. PICK g \in T : k = n - g
    BY <1>2
  <1>4. \A i \in T : i <= g
    BY <1>2, <1>3
  <1>5. QED  BY <1>3, <1>4 DEF Sto!LargestOf

-----------------------------------------------------------------------------
(* The deques of a ring.                                                   *)

StoreSample == [time : Times, value : SampleValues]
StoreEntry == [at : Nat, value : SampleValues]

\* What the deque of the minima holds after the samples h of which those from
\* position first on are kept; the deque of the maxima holds it for the values
\* turned around.
DequeOf(deque, h, first, w) ==
    /\ deque \in Seq(StoreEntry)
    /\ \A i \in 1..Len(deque) :
        deque[i].at \in first..(Len(h) - 1) /\ deque[i].value = h[deque[i].at + 1].value
    /\ \A i, j \in 1..Len(deque) :
        i < j => deque[i].at < deque[j].at /\ w[deque[i].value] < w[deque[j].value]
    /\ \A p \in first..(Len(h) - 1) : \E i \in 1..Len(deque) :
        deque[i].at >= p /\ w[deque[i].value] <= w[h[p + 1].value]

\* Elements of a deque and of a history.
LEMMA EntryOf ==
    ASSUME NEW deque \in Seq(StoreEntry), NEW i \in 1..Len(deque)
    PROVE  deque[i] \in StoreEntry /\ deque[i].at \in Nat /\ deque[i].value \in SampleValues
  <1>1. deque[i] \in StoreEntry
    BY ElementOfSeq
  <1>2. QED  BY <1>1 DEF StoreEntry

LEMMA SampleAt ==
    ASSUME NEW h \in Seq(StoreSample), NEW i \in 1..Len(h)
    PROVE  h[i] \in StoreSample /\ h[i].time \in Times /\ h[i].value \in SampleValues
  <1>1. h[i] \in StoreSample
    BY ElementOfSeq
  <1>2. QED  BY <1>1 DEF StoreSample

\* Popping the back leaves the entries up to the last that is kept; popping the
\* front leaves those from the first that is not too old.
LEMMA PopBackKeeps ==
    ASSUME NEW deque \in Seq(StoreEntry), NEW kept
    PROVE  \E k \in 0..Len(deque) :
            /\ Sto!PopBack(deque, kept) = SubSeq(deque, 1, k)
            /\ k > 0 => deque[k].value \in kept
            /\ \A i \in (k + 1)..Len(deque) : deque[i].value \notin kept
  <1> DEFINE T == {0} \union {i \in DOMAIN deque : deque[i].value \in kept}
             k == Sto!LargestOf(T)
  <1>1. Len(deque) \in Nat /\ DOMAIN deque = 1..Len(deque)
    OBVIOUS
  <1>2. T \subseteq 0..Len(deque) /\ T # {}
    BY <1>1
  <1>3. k \in T /\ \A i \in T : i <= k
    BY <1>1, <1>2, LargestIs
  <1>4. Sto!PopBack(deque, kept) = SubSeq(deque, 1, k)
    BY DEF Sto!PopBack
  <1> HIDE DEF k
  <1>5. QED  BY <1>1, <1>2, <1>3, <1>4

LEMMA PopFrontKeeps ==
    ASSUME NEW deque \in Seq(StoreEntry), NEW next \in Nat,
           NEW n \in 1..Len(deque), deque[n].at >= next
    PROVE  \E k \in 1..Len(deque) :
            /\ Sto!PopFront(deque, next) = SubSeq(deque, k, Len(deque))
            /\ deque[k].at >= next
            /\ \A i \in 1..(k - 1) : deque[i].at < next
  <1> DEFINE T == {i \in DOMAIN deque : deque[i].at >= next}
             k == Sto!SmallestOf(T)
  <1>1. Len(deque) \in Nat /\ DOMAIN deque = 1..Len(deque)
    OBVIOUS
  <1>2. T \subseteq Nat /\ n \in T
    BY <1>1
  <1>3. k \in T /\ \A i \in T : k <= i
    BY <1>2, SmallestIs
  <1>4. Sto!PopFront(deque, next) = SubSeq(deque, k, Len(deque))
    BY DEF Sto!PopFront
  <1> HIDE DEF k
  <1>5. \A i \in 1..Len(deque) : deque[i].at \in Nat
    BY EntryOf
  <1>6. k \in 1..Len(deque) /\ deque[k].at >= next
    BY <1>1, <1>3
  <1>7. ASSUME NEW i \in 1..(k - 1)
        PROVE  deque[i].at < next
    <2>1. i \in 1..Len(deque) /\ i < k
      BY <1>1, <1>6
    <2>2. i \notin T
      BY <1>3, <1>6, <2>1
    <2>3. QED  BY <1>1, <1>5, <2>1, <2>2
  <1>8. QED  BY <1>4, <1>6, <1>7

\* The deque of a history, by any weight of its values, after one more sample: it
\* still has the least weight of the samples kept at its front.
LEMMA DequeAppend ==
    ASSUME NEW h \in Seq(StoreSample), NEW x \in StoreSample,
           NEW first \in Nat, NEW next \in first..Len(h),
           NEW w \in [SampleValues -> Int], NEW deque, DequeOf(deque, h, first, w),
           NEW kept, kept = {v \in SampleValues : w[v] < w[x.value]}
    PROVE  DequeOf(Sto!PopFront(Append(Sto!PopBack(deque, kept),
                                       [at |-> Len(h), value |-> x.value]), next),
                   Append(h, x), next, w)
  <1> DEFINE entry == [at |-> Len(h), value |-> x.value]
             all == Append(h, x)
  <1>1. PICK k \in 0..Len(deque) :
            /\ Sto!PopBack(deque, kept) = SubSeq(deque, 1, k)
            /\ k > 0 => deque[k].value \in kept
            /\ \A i \in (k + 1)..Len(deque) : deque[i].value \notin kept
    BY PopBackKeeps DEF DequeOf
  <1> DEFINE full == Append(SubSeq(deque, 1, k), entry)
  <1>2. /\ deque \in Seq(StoreEntry) /\ entry \in StoreEntry /\ Len(h) \in Nat
        /\ Len(deque) \in Nat /\ x.value \in SampleValues
    BY DEF DequeOf, StoreEntry, StoreSample
  <1>3. /\ full \in Seq(StoreEntry) /\ Len(full) = k + 1 /\ full[k + 1] = entry
        /\ \A i \in 1..k : full[i] = deque[i]
    BY <1>2
  <1>4. /\ Len(all) = Len(h) + 1 /\ all[Len(h) + 1] = x
        /\ \A i \in 1..Len(h) : all[i] = h[i]
    BY <1>2
  <1> HIDE DEF full, all
  <1>5. \A i \in 1..Len(deque) : /\ deque[i].at \in Nat /\ deque[i].value \in SampleValues
                                 /\ w[deque[i].value] \in Int
    BY <1>2, EntryOf
  <1>6. \A i \in 1..k : w[deque[i].value] < w[x.value]
    <2> SUFFICES ASSUME NEW i \in 1..k PROVE w[deque[i].value] < w[x.value]
      OBVIOUS
    <2>1. w[deque[k].value] < w[x.value] /\ k \in 1..Len(deque)
      BY <1>1
    <2>2. i < k => w[deque[i].value] < w[deque[k].value]
      BY <2>1 DEF DequeOf
    <2>3. w[x.value] \in Int /\ i \in 1..Len(deque)
      BY <1>2
    <2>4. QED  BY <1>5, <2>1, <2>2, <2>3
  <1>7. PICK z \in 1..Len(full) :
            /\ Sto!PopFront(full, next) = SubSeq(full, z, Len(full))
            /\ full[z].at >= next
            /\ \A i \in 1..(z - 1) : full[i].at < next
    <2>1. k + 1 \in 1..Len(full) /\ full[k + 1].at >= next /\ next \in Nat
      BY <1>2, <1>3
    <2>2. QED  BY <1>3, <2>1, PopFrontKeeps
  <1> DEFINE out == SubSeq(full, z, Len(full))
  <1>8. /\ out \in Seq(StoreEntry) /\ Len(out) = k + 2 - z
        /\ \A i \in 1..Len(out) : out[i] = full[z + i - 1]
    <2>1. z \in Int /\ k + 1 \in Int /\ z <= k + 1 /\ z >= 1
      BY <1>3
    <2>2. \A i \in z..(k + 1) : full[i] \in StoreEntry
      BY <1>3, <2>1, ElementOfSeq
    <2>3. /\ SubSeq(full, z, k + 1) \in Seq(StoreEntry)
          /\ Len(SubSeq(full, z, k + 1)) = k + 1 - z + 1
          /\ \A i \in 1..(k + 1 - z + 1) : SubSeq(full, z, k + 1)[i] = full[z + i - 1]
      BY <2>1, <2>2, SubSeqProperties, SMTT(30)
    <2>4. QED  BY <1>3, <2>1, <2>3
  <1> HIDE DEF out
  <1>9. \A i \in 1..(k + 1) : full[i].at \in Nat /\ w[full[i].value] \in Int
    BY <1>3, EntryOf
  <1>10. \A i, j \in 1..(k + 1) :
            i < j => full[i].at < full[j].at /\ w[full[i].value] < w[full[j].value]
    <2> SUFFICES ASSUME NEW i \in 1..(k + 1), NEW j \in 1..(k + 1), i < j
                 PROVE  full[i].at < full[j].at /\ w[full[i].value] < w[full[j].value]
      OBVIOUS
    <2>1. CASE j = k + 1
      <3>1. full[i] = deque[i] /\ deque[i].at < Len(h) /\ i \in 1..k
        BY <1>3, <2>1 DEF DequeOf
      <3>2. QED  BY <1>3, <1>6, <2>1, <3>1
    <2>2. CASE j # k + 1
      <3>1. i \in 1..k /\ j \in 1..k
        BY <2>2
      <3>2. i \in 1..Len(deque) /\ j \in 1..Len(deque)
        BY <1>2, <3>1
      <3>3. QED  BY <1>3, <3>1, <3>2 DEF DequeOf
    <2>3. QED  BY <2>1, <2>2
  <1>11. ASSUME NEW i \in 1..(k + 1)
         PROVE  full[i].at <= Len(h) /\ full[i].value = all[full[i].at + 1].value
    <2>1. CASE i = k + 1
      BY <1>2, <1>3, <1>4, <2>1
    <2>2. CASE i # k + 1
      <3>1. full[i] = deque[i] /\ i \in 1..Len(deque)
        BY <1>2, <1>3, <2>2, SMTT(30)
      <3>2. /\ deque[i].at \in first..(Len(h) - 1)
            /\ deque[i].value = h[deque[i].at + 1].value
        BY <3>1 DEF DequeOf
      <3>3. QED  BY <1>2, <1>4, <3>1, <3>2, SMTT(30)
    <2>3. QED  BY <2>1, <2>2
  <1>12. \A i \in 1..Len(out) :
            out[i].at \in next..(Len(all) - 1) /\ out[i].value = all[out[i].at + 1].value
    <2> SUFFICES ASSUME NEW i \in 1..Len(out)
                 PROVE  out[i].at \in next..(Len(all) - 1) /\ out[i].value = all[out[i].at + 1].value
      OBVIOUS
    <2> DEFINE g == z + i - 1
    <2>1. g \in 1..(k + 1) /\ out[i] = full[g] /\ g >= z /\ z \in 1..(k + 1)
      BY <1>3, <1>8
    <2> HIDE DEF g
    <2>2. full[g].at >= full[z].at
      <3>1. CASE g = z
        BY <1>9, <2>1, <3>1
      <3>2. CASE g # z
        <4>1. z < g
          BY <2>1, <3>2
        <4>2. full[z].at < full[g].at
          BY <1>10, <2>1, <4>1
        <4>3. full[z].at \in Nat /\ full[g].at \in Nat
          BY <1>9, <2>1
        <4>4. QED  BY <4>2, <4>3, SMTT(30)
      <3>3. QED  BY <3>1, <3>2
    <2>3. full[g].at \in Nat /\ full[z].at \in Nat /\ full[z].at >= next
      BY <1>7, <1>9, <2>1
    <2>4. full[g].at <= Len(h) /\ full[g].value = all[full[g].at + 1].value
      BY <1>11, <2>1
    <2>5. Len(all) - 1 = Len(h) /\ next \in Nat
      BY <1>2, <1>4
    <2>6. full[g].at >= next
      BY <2>2, <2>3, <2>5
    <2>7. full[g].at \in next..Len(h)
      BY <1>2, <2>3, <2>4, <2>5, <2>6
    <2>8. QED  BY <2>1, <2>4, <2>5, <2>7
  <1>13. \A i, j \in 1..Len(out) :
            i < j => out[i].at < out[j].at /\ w[out[i].value] < w[out[j].value]
    <2> SUFFICES ASSUME NEW i \in 1..Len(out), NEW j \in 1..Len(out), i < j
                 PROVE  out[i].at < out[j].at /\ w[out[i].value] < w[out[j].value]
      OBVIOUS
    <2>1. /\ z + i - 1 \in 1..(k + 1) /\ z + j - 1 \in 1..(k + 1) /\ z + i - 1 < z + j - 1
          /\ out[i] = full[z + i - 1] /\ out[j] = full[z + j - 1]
      BY <1>3, <1>8
    <2>2. QED  BY <1>10, <2>1
  <1>14. \A p \in next..(Len(all) - 1) : \E i \in 1..Len(out) :
            out[i].at >= p /\ w[out[i].value] <= w[all[p + 1].value]
    <2> SUFFICES ASSUME NEW p \in next..(Len(all) - 1)
                 PROVE  \E i \in 1..Len(out) :
                            out[i].at >= p /\ w[out[i].value] <= w[all[p + 1].value]
      OBVIOUS
    <2>1. \E g \in 1..(k + 1) : full[g].at >= p /\ w[full[g].value] <= w[all[p + 1].value]
      <3>1. w[x.value] \in Int
        BY <1>2
      <3>2. CASE p = Len(h)
        BY <1>2, <1>3, <1>4, <3>1, <3>2
      <3>3. CASE p # Len(h)
        <4>1. p \in first..(Len(h) - 1) /\ all[p + 1] = h[p + 1]
          BY <1>2, <1>4, <3>3
        <4>2. PICK i \in 1..Len(deque) :
                    deque[i].at >= p /\ w[deque[i].value] <= w[h[p + 1].value]
          BY <4>1 DEF DequeOf
        <4>3. CASE i <= k
          BY <1>3, <4>1, <4>2, <4>3
        <4>4. CASE i > k
          <5>1. ~(w[deque[i].value] < w[x.value])
            BY <1>1, <1>5, <4>4
          <5>2. h[p + 1].value \in SampleValues
            BY <1>2, <4>1, SampleAt
          <5>3. w[x.value] <= w[h[p + 1].value]
            BY <1>5, <3>1, <4>2, <5>1, <5>2, SMTT(30)
          <5>4. full[k + 1].at >= p /\ full[k + 1].value = x.value
            BY <1>2, <1>3, <4>1
          <5>5. k + 1 \in 1..(k + 1)
            OBVIOUS
          <5>6. QED  BY <4>1, <5>3, <5>4, <5>5
        <4>5. QED  BY <4>3, <4>4, SMTT(30)
      <3>4. QED  BY <3>2, <3>3
    <2>2. PICK g \in 1..(k + 1) : full[g].at >= p /\ w[full[g].value] <= w[all[p + 1].value]
      BY <2>1
    <2>3. g >= z
      <3>1. full[g].at >= next /\ full[g].at \in Nat
        BY <1>2, <1>9, <2>2, SMTT(30)
      <3>2. g \notin 1..(z - 1)
        BY <1>7, <3>1
      <3>3. QED  BY <1>3, <1>7, <3>2
    <2>4. g - z + 1 \in 1..Len(out) /\ z + (g - z + 1) - 1 = g
      BY <1>3, <1>8, <2>3
    <2>5. out[g - z + 1] = full[g]
      BY <1>8, <2>4
    <2>6. QED  BY <2>2, <2>4, <2>5
  <1>15. DequeOf(out, all, next, w)
    BY <1>8, <1>12, <1>13, <1>14 DEF DequeOf
  <1>16. QED  BY <1>1, <1>7, <1>15 DEF full, out, all

-----------------------------------------------------------------------------
(* A ring.                                                                 *)

\* Quotient and remainder are the only ones with their property.
LEMMA DivisionUnique ==
    ASSUME NEW a \in Int, NEW n \in Nat \ {0}, NEW q \in Int, NEW k \in 0..(n - 1), a = n * q + k
    PROVE  a % n = k /\ a \div n = q
  <1>1. a % n \in 0..(n - 1) /\ a = n * (a \div n) + (a % n) /\ a \div n \in Int
    BY SMT
  <1> DEFINE p == a \div n
             g == a % n
  <1> HIDE DEF p, g
  <1>2. g \in 0..(n - 1) /\ a = n * p + g /\ p \in Int
    BY <1>1 DEF p, g
  <1>3. CASE p > q
    <2>1. n * p >= n * (q + 1)
      BY <1>2, <1>3, SMT
    <2>2. n * (q + 1) = n * q + n
      BY SMT
    <2>3. QED  BY <1>2, <2>1, <2>2
  <1>4. CASE q > p
    <2>1. n * q >= n * (p + 1)
      BY <1>2, <1>4, SMT
    <2>2. n * (p + 1) = n * p + n
      BY <1>2, SMT
    <2>3. QED  BY <1>2, <2>1, <2>2
  <1>5. CASE p = q
    <2>1. g = k
      BY <1>2, <1>5
    <2>2. QED  BY <1>5, <2>1 DEF p, g
  <1>6. QED  BY <1>2, <1>3, <1>4, <1>5

\* Quotient and remainder, and when two remainders differ or agree.
LEMMA Division ==
    ASSUME NEW a \in Nat, NEW n \in Nat \ {0}
    PROVE  \E q \in Nat, k \in 0..(n - 1) :
                a = n * q + k /\ k = a % n /\ q = a \div n
  <1>1. a % n \in 0..(n - 1) /\ a = n * (a \div n) + (a % n) /\ a \div n \in Nat
    BY SMT
  <1>2. QED  BY <1>1

LEMMA RemaindersDiffer ==
    ASSUME NEW a \in Nat, NEW z \in Nat, NEW n \in Nat \ {0}, a < z, z < a + n
    PROVE  a % n # z % n
  <1> SUFFICES ASSUME a % n = z % n PROVE FALSE
    OBVIOUS
  <1>1. PICK q \in Nat, k \in 0..(n - 1) : a = n * q + k /\ k = a % n
    BY Division
  <1>2. PICK q2 \in Nat, k2 \in 0..(n - 1) : z = n * q2 + k2 /\ k2 = z % n
    BY Division
  <1>3. k = k2
    BY <1>1, <1>2
  <1>4. PICK x \in Int, x2 \in Int, x3 \in Int : x = n * q /\ x2 = n * q2 /\ x3 = n * (q + 1)
    BY SMT
  <1>5. x3 = x + n
    BY <1>4, SMT
  <1>6. CASE q2 >= q + 1
    <2>1. x2 >= x3
      BY <1>4, <1>6, SMT
    <2>2. QED  BY <1>1, <1>2, <1>3, <1>4, <1>5, <2>1
  <1>7. CASE q2 <= q
    <2>1. x2 <= x
      BY <1>4, <1>7, SMT
    <2>2. QED  BY <1>1, <1>2, <1>3, <1>4, <2>1
  <1>8. QED  BY <1>6, <1>7

LEMMA RemainderShift ==
    ASSUME NEW a \in Nat, NEW n \in Nat \ {0}, a >= n, NEW i \in Nat
    PROVE  ((a % n) + i) % n = ((a - n) + i) % n
  <1>1. PICK q \in Nat, k \in 0..(n - 1) : a = n * q + k /\ k = a % n
    BY Division
  <1>2. k + i \in Nat
    OBVIOUS
  <1>3. PICK q2 \in Nat, k2 \in 0..(n - 1) : k + i = n * q2 + k2 /\ k2 = (k + i) % n
    BY <1>2, Division
  <1>4. PICK x \in Int, x2 \in Int : x = n * q /\ x2 = n * q2 /\ n * (q - 1 + q2) = (x - n) + x2
    <2>1. n * (q - 1 + q2) = (n * q - n) + n * q2
      BY SMT
    <2>2. n * q \in Int /\ n * q2 \in Int
      BY SMT
    <2>3. QED  BY <2>1, <2>2
  <1>5. (a - n) + i = n * (q - 1 + q2) + k2
    <2>1. a = x + k
      BY <1>1, <1>4
    <2>2. k + i = x2 + k2
      BY <1>3, <1>4
    <2>3. (a - n) + i = ((x - n) + x2) + k2
      BY <2>1, <2>2
    <2>4. QED  BY <1>4, <2>3
  <1>6. (a - n) + i \in Int /\ q - 1 + q2 \in Int
    OBVIOUS
  <1>7. ((a - n) + i) % n = k2
    BY <1>5, <1>6, DivisionUnique
  <1>8. QED  BY <1>1, <1>3, <1>7

-----------------------------------------------------------------------------
(* A ring and the samples it was given.                                    *)

Rising == [v \in SampleValues |-> v]
Falling == [v \in SampleValues |-> -v]

RingType == [sequence : Nat, points : Seq(StoreSample),
             minima : Seq(StoreEntry), maxima : Seq(StoreEntry)]

\* The position of the oldest of the samples h that is still in the ring.
Oldest(h) == IF Len(h) > size.capacity THEN Len(h) - size.capacity ELSE 0

\* A ring that was given the samples h.
RingOf(ring, h) ==
    /\ ring \in RingType /\ h \in Seq(StoreSample)
    /\ ring.sequence = Len(h) /\ Len(ring.points) = Len(h) - Oldest(h)
    /\ \A p \in Oldest(h)..(Len(h) - 1) : ring.points[(p % size.capacity) + 1] = h[p + 1]
    /\ DequeOf(ring.minima, h, Oldest(h), Rising)
    /\ DequeOf(ring.maxima, h, Oldest(h), Falling)

\* What the constants and the core leave to assume of the numbers.
StoreNumbers ==
    /\ Times \subseteq Nat /\ SampleValues \subseteq Int /\ BatchSize \in Nat
    /\ size.capacity \in Nat \ {0}

\* The weights of the two deques.
LEMMA WeightTypes ==
    ASSUME StoreNumbers
    PROVE  /\ Rising \in [SampleValues -> Int] /\ Falling \in [SampleValues -> Int]
           /\ \A v \in SampleValues : v \in Int /\ Rising[v] = v /\ Falling[v] = -v
  BY DEF StoreNumbers, Rising, Falling

\* xcp_core_append keeps a ring a ring.
LEMMA RingAppendType ==
    ASSUME StoreNumbers, NEW ring \in RingType, NEW x \in StoreSample
    PROVE  Sto!RingAppend(ring, x) \in RingType
  <1> DEFINE next == IF ring.sequence + 1 > size.capacity
                       THEN ring.sequence + 1 - size.capacity ELSE 0
             entry == [at |-> ring.sequence, value |-> x.value]
  <1>1. /\ ring.sequence \in Nat /\ ring.points \in Seq(StoreSample)
        /\ ring.minima \in Seq(StoreEntry) /\ ring.maxima \in Seq(StoreEntry)
        /\ size.capacity \in Nat \ {0}
    BY DEF RingType, StoreNumbers
  <1>2. entry \in StoreEntry /\ next \in Nat /\ next <= ring.sequence /\ entry.at = ring.sequence
    <2>1. x.value \in SampleValues
      BY DEF StoreSample
    <2>2. QED  BY <1>1, <2>1 DEF StoreEntry
  <1> HIDE DEF entry, next
  <1>3. ASSUME NEW deque \in Seq(StoreEntry), NEW kept
        PROVE  Sto!PopFront(Append(Sto!PopBack(deque, kept), entry), next) \in Seq(StoreEntry)
    <2>1. PICK k \in 0..Len(deque) : Sto!PopBack(deque, kept) = SubSeq(deque, 1, k)
      BY PopBackKeeps
    <2> DEFINE full == Append(SubSeq(deque, 1, k), entry)
    <2>2. full \in Seq(StoreEntry) /\ Len(full) = k + 1 /\ full[k + 1] = entry
      BY <1>2
    <2>3. k + 1 \in 1..Len(full)
      BY <2>2
    <2> HIDE DEF full
    <2>4. PICK i \in 1..Len(full) : Sto!PopFront(full, next) = SubSeq(full, i, Len(full))
      BY <1>2, <2>2, <2>3, PopFrontKeeps
    <2>5. SubSeq(full, i, Len(full)) \in Seq(StoreEntry)
      BY <2>2, SubSeqProperties, ElementOfSeq
    <2>6. QED  BY <2>1, <2>4, <2>5 DEF full
  <1>4. Append(ring.points, x) \in Seq(StoreSample)
    BY <1>1
  <1>5. ~(Sto!Count(ring) < size.capacity) =>
            [ring.points EXCEPT ![(ring.sequence % size.capacity) + 1] = x] \in Seq(StoreSample)
    <2> SUFFICES ASSUME ~(Sto!Count(ring) < size.capacity)
                 PROVE  [ring.points EXCEPT ![(ring.sequence % size.capacity) + 1] = x]
                            \in Seq(StoreSample)
      OBVIOUS
    <2>1. PICK k \in 0..(size.capacity - 1) : k = ring.sequence % size.capacity
      BY <1>1, Division
    <2>2. k + 1 \in 1..Len(ring.points)
      BY <1>1 DEF Sto!Count
    <2>3. QED  BY <1>1, <2>1, <2>2, ExceptSeq
  <1>6. QED
    BY <1>1, <1>3, <1>4, <1>5 DEF Sto!RingAppend, Sto!AppendFrom, RingType, entry, next

\* A ring after a sample is the ring of the history with that sample.
LEMMA RingAppendKeeps ==
    ASSUME StoreNumbers, NEW ring, NEW h, RingOf(ring, h), NEW x \in StoreSample
    PROVE  RingOf(Sto!RingAppend(ring, x), Append(h, x))
  <1> DEFINE n == Len(h)
             cap == size.capacity
             all == Append(h, x)
             out == Sto!RingAppend(ring, x)
             entry == [at |-> n, value |-> x.value]
  <1>1. /\ ring \in RingType /\ h \in Seq(StoreSample) /\ n \in Nat /\ cap \in Nat \ {0}
        /\ ring.sequence = n /\ Len(ring.points) = n - Oldest(h)
        /\ ring.points \in Seq(StoreSample)
    BY DEF RingOf, StoreNumbers, RingType
  <1>2. /\ all \in Seq(StoreSample) /\ Len(all) = n + 1 /\ all[n + 1] = x
        /\ \A i \in 1..n : all[i] = h[i]
    BY <1>1
  <1>3. /\ Oldest(h) \in Nat /\ Oldest(all) \in Oldest(h)..n
        /\ Oldest(h) = (IF n > cap THEN n - cap ELSE 0)
        /\ Oldest(all) = (IF n + 1 > cap THEN n + 1 - cap ELSE 0)
    BY <1>1, <1>2 DEF Oldest
  <1>4. out \in RingType
    BY <1>1, RingAppendType
  <1>5. /\ out.sequence = n + 1
        /\ out.points = IF Len(ring.points) < cap THEN Append(ring.points, x)
                        ELSE [ring.points EXCEPT ![(n % cap) + 1] = x]
        /\ out.minima = Sto!PopFront(Append(Sto!PopBack(ring.minima,
                            {v \in SampleValues : v < x.value}), entry), Oldest(all))
        /\ out.maxima = Sto!PopFront(Append(Sto!PopBack(ring.maxima,
                            {v \in SampleValues : v > x.value}), entry), Oldest(all))
    BY <1>1, <1>3 DEF Sto!RingAppend, Sto!AppendFrom, Sto!Count
  <1>6. x.value \in SampleValues
    BY DEF StoreSample
  <1>7. ASSUME NEW w \in [SampleValues -> Int], NEW deque, DequeOf(deque, h, Oldest(h), w),
                NEW kept, kept = {v \in SampleValues : w[v] < w[x.value]}
         PROVE  DequeOf(Sto!PopFront(Append(Sto!PopBack(deque, kept), entry), Oldest(all)),
                        all, Oldest(all), w)
    <2>1. Oldest(h) \in Nat /\ Oldest(all) \in Oldest(h)..Len(h)
      BY <1>3
    <2> HIDE DEF out
    <2>2. QED  BY <1>1, <1>7, <2>1, DequeAppend
  <1>8. DequeOf(out.minima, all, Oldest(all), Rising)
    <2>1. {v \in SampleValues : v < x.value} = {v \in SampleValues : Rising[v] < Rising[x.value]}
      BY <1>6, WeightTypes
    <2>2. DequeOf(ring.minima, h, Oldest(h), Rising)
      BY DEF RingOf
    <2> DEFINE kept == {v \in SampleValues : v < x.value}
    <2> HIDE DEF kept, out, all, entry
    <2>3. DequeOf(Sto!PopFront(Append(Sto!PopBack(ring.minima, kept), entry), Oldest(all)),
                  all, Oldest(all), Rising)
      BY <1>7, <2>1, <2>2, WeightTypes DEF kept
    <2>4. QED  BY <1>5, <2>3 DEF kept
  <1>9. DequeOf(out.maxima, all, Oldest(all), Falling)
    <2>1. {v \in SampleValues : v > x.value} = {v \in SampleValues : Falling[v] < Falling[x.value]}
      <3>1. \A v \in SampleValues : v > x.value <=> Falling[v] < Falling[x.value]
        BY <1>6, WeightTypes
      <3>2. QED  BY <3>1
    <2>2. DequeOf(ring.maxima, h, Oldest(h), Falling)
      BY DEF RingOf
    <2> DEFINE kept == {v \in SampleValues : v > x.value}
    <2> HIDE DEF kept, out, all, entry
    <2>3. DequeOf(Sto!PopFront(Append(Sto!PopBack(ring.maxima, kept), entry), Oldest(all)),
                  all, Oldest(all), Falling)
      BY <1>7, <2>1, <2>2, WeightTypes DEF kept
    <2>4. QED  BY <1>5, <2>3 DEF kept
  <1> HIDE DEF out, all, n, cap
  <1>10. Len(out.points) = (n + 1) - Oldest(all)
    <2>1. CASE Len(ring.points) < cap
      <3>1. Len(out.points) = Len(ring.points) + 1
        BY <1>1, <1>5, <2>1
      <3>2. QED  BY <1>1, <1>3, <2>1, <3>1
    <2>2. CASE ~(Len(ring.points) < cap)
      <3>1. Len(out.points) = Len(ring.points)
        BY <1>1, <1>5, <2>2
      <3>2. QED  BY <1>1, <1>3, <2>2, <3>1
    <2>3. QED  BY <2>1, <2>2
  <1>11. ASSUME NEW p \in Oldest(all)..n
         PROVE  out.points[(p % cap) + 1] = all[p + 1]
    <2>1. p \in Nat /\ Oldest(all) \in Nat
      BY <1>3
    <2>2. PICK g \in 0..(cap - 1) : g = p % cap /\ (p < cap => g = p)
      <3>1. PICK q \in Nat, k \in 0..(cap - 1) : p = cap * q + k /\ k = p % cap
        BY <1>1, <2>1, Division
      <3>2. p < cap => p = cap * 0 + p /\ p \in 0..(cap - 1) /\ p \in Int /\ 0 \in Int
        BY <1>1, <2>1
      <3>3. p < cap => p % cap = p
        BY <1>1, <3>2, DivisionUnique
      <3>4. QED  BY <3>1, <3>3
    <2>3. CASE Len(ring.points) < cap
      <3>1. Oldest(h) = 0 /\ Len(ring.points) = n /\ n < cap
        BY <1>1, <1>3, <2>3
      <3>2. g = p
        BY <1>1, <2>1, <2>2, <3>1
      <3>3. CASE p = n
        <4>1. out.points = Append(ring.points, x)
          BY <1>5, <2>3
        <4>2. Append(ring.points, x)[n + 1] = x
          BY <1>1, <3>1, AppendProperties
        <4>3. QED  BY <1>2, <2>2, <3>2, <3>3, <4>1, <4>2
      <3>4. CASE p # n
        <4>1. p \in Oldest(h)..(n - 1) /\ p + 1 \in 1..n
          BY <1>1, <2>1, <3>1, <3>4
        <4>2. ring.points[g + 1] = h[p + 1]
          BY <2>2, <4>1 DEF RingOf, n, cap
        <4>3. out.points[p + 1] = ring.points[p + 1]
          BY <1>1, <1>5, <2>3, <3>1, <4>1
        <4>4. QED  BY <1>2, <2>2, <3>2, <4>1, <4>2, <4>3
      <3>5. QED  BY <3>3, <3>4
    <2>4. CASE ~(Len(ring.points) < cap)
      <3>1. n >= cap /\ Oldest(h) = n - cap /\ Oldest(all) = n + 1 - cap /\ Len(ring.points) = cap
        BY <1>1, <1>3, <2>4
      <3>2. PICK k \in 0..(cap - 1) : k = n % cap
        BY <1>1, Division
      <3>3. out.points = [ring.points EXCEPT ![k + 1] = x] /\ k + 1 \in 1..Len(ring.points)
        BY <1>5, <2>4, <3>1, <3>2
      <3>4. CASE p = n
        <4>1. g = k /\ (k + 1) \in DOMAIN ring.points
          BY <1>1, <2>2, <3>1, <3>2, <3>3, <3>4
        <4>2. out.points[k + 1] = x
          BY <3>3, <4>1
        <4>3. QED  BY <1>2, <2>2, <3>4, <4>1, <4>2
      <3>5. CASE p # n
        <4>1. p \in Oldest(h)..(n - 1) /\ p + 1 \in 1..n /\ p < n /\ n < p + cap
          BY <1>1, <2>1, <3>1, <3>5
        <4>2. ring.points[g + 1] = h[p + 1]
          BY <2>2, <4>1 DEF RingOf, n, cap
        <4>3. g # k
          BY <1>1, <2>1, <2>2, <3>2, <4>1, RemaindersDiffer
        <4>4. out.points[g + 1] = ring.points[g + 1]
          BY <1>1, <2>2, <3>1, <3>3, <4>3
        <4>5. QED  BY <1>2, <2>2, <4>1, <4>2, <4>4
      <3>6. QED  BY <3>4, <3>5
    <2>5. QED  BY <2>3, <2>4
  <1>12. RingOf(out, all)
    <2>1. \A p \in Oldest(all)..(Len(all) - 1) : out.points[(p % size.capacity) + 1] = all[p + 1]
      BY <1>1, <1>2, <1>11 DEF cap
    <2>2. QED  BY <1>2, <1>4, <1>5, <1>8, <1>9, <1>10, <2>1 DEF RingOf
  <1>13. QED  BY <1>12 DEF out, all

\* What the ring shows at an index.
LEMMA AtIs ==
    ASSUME StoreNumbers, NEW ring, NEW h, RingOf(ring, h)
    PROVE  /\ Sto!Count(ring) = Len(h) - Oldest(h) /\ Sto!Count(ring) \in Nat
           /\ Sto!Count(ring) <= size.capacity
           /\ Oldest(h) \in Nat /\ Len(h) \in Nat
           /\ \A i \in 0..(Sto!Count(ring) - 1) :
                /\ Sto!At(ring, i) = h[Oldest(h) + i + 1] /\ Oldest(h) + i + 1 \in 1..Len(h)
                /\ Sto!At(ring, i) \in StoreSample
                /\ Sto!At(ring, i).time \in Nat /\ Sto!At(ring, i).value \in Int
  <1> DEFINE n == Len(h)
             cap == size.capacity
  <1>1. /\ h \in Seq(StoreSample) /\ n \in Nat /\ cap \in Nat \ {0}
        /\ ring.sequence = n /\ Len(ring.points) = n - Oldest(h)
        /\ Oldest(h) = (IF n > cap THEN n - cap ELSE 0)
    BY DEF RingOf, StoreNumbers, Oldest
  <1>2. /\ Sto!Count(ring) = n - Oldest(h) /\ Sto!Count(ring) \in Nat /\ Sto!Count(ring) <= cap
        /\ Oldest(h) \in Nat
    BY <1>1 DEF Sto!Count
  <1> HIDE DEF n, cap
  <1>3. ASSUME NEW i \in 0..(Sto!Count(ring) - 1)
        PROVE  Sto!At(ring, i) = h[Oldest(h) + i + 1] /\ Oldest(h) + i + 1 \in 1..n
    <2>1. Oldest(h) + i \in Oldest(h)..(n - 1) /\ Oldest(h) + i + 1 \in 1..n /\ i \in Nat
      BY <1>1, <1>2
    <2>2. ring.points[((Oldest(h) + i) % cap) + 1] = h[Oldest(h) + i + 1]
      BY <2>1 DEF RingOf, n, cap
    <2>3. CASE n >= cap
      <3>1. Oldest(h) = n - cap
        BY <1>1, <2>3
      <3>2. ((n % cap) + i) % cap = ((n - cap) + i) % cap
        BY <1>1, <2>1, <2>3, RemainderShift
      <3>3. Sto!At(ring, i) = ring.points[(((n % cap) + i) % cap) + 1]
        BY <1>1, <2>3 DEF Sto!At, cap
      <3>4. QED  BY <2>1, <2>2, <3>1, <3>2, <3>3
    <2>4. CASE n < cap
      <3>1. Oldest(h) = 0
        BY <1>1, <2>4
      <3>2. Sto!At(ring, i) = ring.points[((0 + i) % cap) + 1]
        BY <1>1, <2>4 DEF Sto!At, cap
      <3>3. QED  BY <2>1, <2>2, <3>1, <3>2
    <2>5. QED  BY <1>1, <2>3, <2>4
  <1>4. ASSUME NEW i \in 0..(Sto!Count(ring) - 1)
        PROVE  /\ Sto!At(ring, i) \in StoreSample
               /\ Sto!At(ring, i).time \in Nat /\ Sto!At(ring, i).value \in Int
    <2>1. /\ Sto!At(ring, i) \in StoreSample /\ Sto!At(ring, i).time \in Times
          /\ Sto!At(ring, i).value \in SampleValues
      BY <1>1, <1>3, SampleAt DEF n
    <2>2. QED  BY <2>1 DEF StoreNumbers
  <1>5. QED  BY <1>1, <1>2, <1>3, <1>4 DEF n, cap

\* The smaller of two numbers.
LEMMA SmallestOfTwo ==
    ASSUME NEW i \in Nat, NEW j \in Nat
    PROVE  Sto!SmallestOf({i, j}) = IF i <= j THEN i ELSE j
  <1>1. /\ Sto!SmallestOf({i, j}) \in {i, j}
        /\ \A k \in {i, j} : Sto!SmallestOf({i, j}) <= k
    BY SmallestIs
  <1>2. QED  BY <1>1

-----------------------------------------------------------------------------
(* The invariant of the store.                                             *)

Ordered(h) == \A i, j \in 1..Len(h) : i <= j => h[i].time <= h[j].time

\* Rings and histories of n signals.
Stores(n, rs, hs) ==
    /\ rs \in [1..n -> RingType] /\ hs \in [1..n -> Seq(StoreSample)]
    /\ \A s \in 1..n : RingOf(rs[s], hs[s]) /\ Ordered(hs[s])

StoreInv == StoreNumbers /\ \E n \in Nat : Stores(n, rings, history)

\* A value that is kept, and none that is kept is beyond it.
ExtremeOf(v, h, first, w) ==
    /\ v \in SampleValues
    /\ \A p \in first..(Len(h) - 1) : w[v] <= w[h[p + 1].value] /\ h[p + 1].value \in SampleValues
    /\ \E p \in first..(Len(h) - 1) : v = h[p + 1].value

\* The front of a deque is the extreme of what is kept.
LEMMA FrontIsExtreme ==
    ASSUME NEW h \in Seq(StoreSample), NEW first \in Nat, first < Len(h),
           NEW w \in [SampleValues -> Int], NEW deque, DequeOf(deque, h, first, w)
    PROVE  ExtremeOf(Head(deque).value, h, first, w)
  <1>1. deque \in Seq(StoreEntry) /\ Len(deque) \in Nat /\ Len(h) \in Nat
    BY DEF DequeOf
  <1>2. ASSUME NEW p \in first..(Len(h) - 1)
        PROVE  \E i \in 1..Len(deque) : w[deque[i].value] <= w[h[p + 1].value]
    BY DEF DequeOf
  <1>3. 1 \in 1..Len(deque)
    <2>1. first \in first..(Len(h) - 1)
      BY <1>1
    <2>2. QED  BY <1>1, <1>2, <2>1
  <1>4. Head(deque) = deque[1]
    BY <1>1, <1>3
  <1>5. \A i \in 1..Len(deque) : w[deque[i].value] \in Int /\ deque[i].value \in SampleValues
    BY <1>1, EntryOf
  <1>6. \A i \in 1..Len(deque) : w[deque[1].value] <= w[deque[i].value]
    <2> SUFFICES ASSUME NEW i \in 1..Len(deque) PROVE w[deque[1].value] <= w[deque[i].value]
      OBVIOUS
    <2>1. CASE i = 1
      BY <1>3, <1>5, <2>1
    <2>2. CASE i # 1
      <3>1. w[deque[1].value] < w[deque[i].value]
        <4>1. 1 < i
          BY <2>2
        <4>2. QED  BY <1>3, <4>1 DEF DequeOf
      <3>2. QED  BY <1>3, <1>5, <3>1
    <2>3. QED  BY <2>1, <2>2
  <1>7. ASSUME NEW p \in first..(Len(h) - 1)
        PROVE  w[deque[1].value] <= w[h[p + 1].value] /\ h[p + 1].value \in SampleValues
    <2>1. p + 1 \in 1..Len(h)
      BY <1>1
    <2>2. h[p + 1].value \in SampleValues
      BY <2>1, SampleAt
    <2>3. PICK i \in 1..Len(deque) : w[deque[i].value] <= w[h[p + 1].value]
      BY <1>2
    <2>4. w[deque[1].value] <= w[deque[i].value]
      BY <1>6
    <2>5. w[h[p + 1].value] \in Int /\ w[deque[i].value] \in Int /\ w[deque[1].value] \in Int
      BY <1>3, <1>5, <2>2
    <2>6. QED  BY <2>2, <2>3, <2>4, <2>5
  <1>8. \E p \in first..(Len(h) - 1) : deque[1].value = h[p + 1].value
    BY <1>3 DEF DequeOf
  <1>9. QED  BY <1>3, <1>4, <1>5, <1>7, <1>8 DEF ExtremeOf

\* A ring of its history has the samples retained, in their order, and their
\* minimum and maximum at the fronts of its deques.
LEMMA StatsAreTrue ==
    ASSUME StoreInv
    PROVE  Sto!StatsOfRetained
  <1>1. PICK n \in Nat : Stores(n, rings, history)
    BY DEF StoreInv
  <1>2. StoreNumbers /\ DOMAIN rings = 1..n
    BY <1>1 DEF StoreInv, Stores
  <1> DEFINE Right(s) ==
        LET ring == rings[s]
            kept == Sto!Retained(s)
        IN /\ Sto!Count(ring) = Len(kept)
           /\ \A i \in DOMAIN kept : Sto!At(ring, i - 1) = kept[i]
           /\ kept # <<>> =>
                /\ \A i \in DOMAIN kept : /\ Head(ring.minima).value <= kept[i].value
                                          /\ Head(ring.maxima).value >= kept[i].value
                /\ \E i \in DOMAIN kept : Head(ring.minima).value = kept[i].value
                /\ \E i \in DOMAIN kept : Head(ring.maxima).value = kept[i].value
  <1>3. ASSUME NEW s \in 1..n
        PROVE  Right(s)
    <2> DEFINE ring == rings[s]
               h == history[s]
               kept == Sto!Retained(s)
               k == Sto!Count(ring)
               first == Oldest(h)
    <2>1. RingOf(ring, h)
      BY <1>1 DEF Stores
    <2>2. /\ h \in Seq(StoreSample) /\ size.capacity \in Nat \ {0}
          /\ DequeOf(ring.minima, h, first, Rising) /\ DequeOf(ring.maxima, h, first, Falling)
      BY <1>2, <2>1 DEF RingOf, StoreNumbers
    <2>3. /\ k = Len(h) - first /\ k \in Nat /\ k <= size.capacity
          /\ first \in Nat /\ Len(h) \in Nat
          /\ \A i \in 0..(k - 1) : Sto!At(ring, i) = h[first + i + 1]
      BY <1>2, <2>1, AtIs
    <2>4. first = IF Len(h) > size.capacity THEN Len(h) - size.capacity ELSE 0
      BY DEF Oldest
    <2>5. k = Sto!SmallestOf({Len(h), size.capacity})
      <3>1. size.capacity \in Nat
        BY <2>2
      <3>2. Sto!SmallestOf({Len(h), size.capacity})
                = IF Len(h) <= size.capacity THEN Len(h) ELSE size.capacity
        BY <2>3, <3>1, SmallestOfTwo
      <3> HIDE DEF h, k, first
      <3>3. QED  BY <2>3, <2>4, <3>1, <3>2
    <2>6. kept = SubSeq(h, Len(h) - k + 1, Len(h))
      BY <2>5 DEF Sto!Retained
    <2> HIDE DEF ring, h, kept, k, first
    <2>7. Len(h) - k + 1 = first + 1
      BY <2>3
    <2>8. \A i \in (first + 1)..Len(h) : h[i] \in StoreSample
      BY <2>2, <2>3, ElementOfSeq
    <2>9. /\ kept \in Seq(StoreSample) /\ Len(kept) = k
          /\ \A i \in 1..k : kept[i] = h[first + i]
      BY <2>3, <2>6, <2>7, <2>8, SubSeqProperties
    <2>10. DOMAIN kept = 1..k
      BY <2>9
    <2>11. \A i \in DOMAIN kept : Sto!At(ring, i - 1) = kept[i]
      <3> SUFFICES ASSUME NEW i \in 1..k PROVE Sto!At(ring, i - 1) = kept[i]
        BY <2>10
      <3>1. i - 1 \in 0..(k - 1) /\ first + (i - 1) + 1 = first + i
        BY <2>3
      <3>2. QED  BY <2>3, <2>9, <3>1
    <2>12. ASSUME kept # <<>>
           PROVE  /\ \A i \in 1..k : /\ Head(ring.minima).value <= kept[i].value
                                     /\ Head(ring.maxima).value >= kept[i].value
                  /\ \E i \in 1..k : Head(ring.minima).value = kept[i].value
                  /\ \E i \in 1..k : Head(ring.maxima).value = kept[i].value
      <3>1. first < Len(h)
        BY <2>3, <2>9, <2>12
      <3>2. /\ h \in Seq(StoreSample) /\ first \in Nat
            /\ Rising \in [SampleValues -> Int] /\ Falling \in [SampleValues -> Int]
            /\ DequeOf(ring.minima, h, first, Rising) /\ DequeOf(ring.maxima, h, first, Falling)
        BY <1>2, <2>2, <2>3, WeightTypes
      <3>3. \A p \in first..(Len(h) - 1) : p - first + 1 \in 1..k /\ kept[p - first + 1] = h[p + 1]
        BY <2>3, <2>9
      <3>4. \A i \in 1..k : first + i - 1 \in first..(Len(h) - 1) /\ kept[i] = h[first + i - 1 + 1]
        BY <2>3, <2>9
      <3>5. /\ ExtremeOf(Head(ring.minima).value, h, first, Rising)
            /\ ExtremeOf(Head(ring.maxima).value, h, first, Falling)
        BY <3>2, <3>1, FrontIsExtreme
      <3>6. \A p \in first..(Len(h) - 1) : /\ Head(ring.minima).value <= h[p + 1].value
                                           /\ Head(ring.maxima).value >= h[p + 1].value
        <4> SUFFICES ASSUME NEW p \in first..(Len(h) - 1)
                     PROVE  /\ Head(ring.minima).value <= h[p + 1].value
                            /\ Head(ring.maxima).value >= h[p + 1].value
          OBVIOUS
        <4> DEFINE low == Head(ring.minima).value
                   high == Head(ring.maxima).value
                   v == h[p + 1].value
        <4>1. low \in SampleValues /\ high \in SampleValues /\ v \in SampleValues
          BY <3>5 DEF ExtremeOf
        <4>2. Rising[low] <= Rising[v] /\ Falling[high] <= Falling[v]
          BY <3>5 DEF ExtremeOf
        <4> HIDE DEF low, high, v
        <4>3. low <= v /\ high >= v
          BY <1>2, <4>1, <4>2, WeightTypes
        <4>4. QED  BY <4>3 DEF low, high, v
      <3>7. \A i \in 1..k : /\ Head(ring.minima).value <= kept[i].value
                            /\ Head(ring.maxima).value >= kept[i].value
        BY <3>4, <3>6, Zenon
      <3>8. \E p \in first..(Len(h) - 1) : Head(ring.minima).value = h[p + 1].value
        BY <3>5, Zenon DEF ExtremeOf
      <3>9. \E p \in first..(Len(h) - 1) : Head(ring.maxima).value = h[p + 1].value
        BY <3>5, Zenon DEF ExtremeOf
      <3>10. \E i \in 1..k : Head(ring.minima).value = kept[i].value
        BY <3>3, <3>8, Zenon
      <3>11. \E i \in 1..k : Head(ring.maxima).value = kept[i].value
        BY <3>3, <3>9, Zenon
      <3>12. QED  BY <3>7, <3>10, <3>11
    <2>13. QED  BY <2>9, <2>10, <2>11, <2>12 DEF ring, kept, k
  <1>4. QED  BY <1>2, <1>3 DEF Sto!StatsOfRetained

\* Induction over 0..n.
LEMMA InductionUpto ==
    ASSUME NEW n \in Nat, NEW T, 0 \in T, \A i \in 1..n : i - 1 \in T => i \in T
    PROVE  \A i \in 0..n : i \in T
  <1> SUFFICES ASSUME NEW i \in 0..n, i \notin T PROVE FALSE
    OBVIOUS
  <1> DEFINE R == {k \in 0..n : k \notin T}
  <1>1. R \subseteq Nat /\ i \in R
    OBVIOUS
  <1>2. PICK k \in R : \A g \in R : k <= g
    BY <1>1, LeastOf
  <1>3. k \in 1..n /\ k - 1 \in 0..n /\ ~(k <= k - 1)
    BY <1>2
  <1>4. k - 1 \in T
    BY <1>2, <1>3
  <1>5. QED  BY <1>2, <1>3, <1>4

\* A batch is added sample by sample.
BatchOf(n, k) == [1..k -> [signal : 1..n, time : Times, value : SampleValues]]

RingsFollow(f, batch, k) ==
    /\ f[0] = rings
    /\ \A i \in 1..k :
        f[i] = [f[i - 1] EXCEPT ![batch[i].signal] = Sto!RingAppend(@, Sto!Sample(batch[i]))]
HistoriesFollow(f, batch, k) ==
    /\ f[0] = history
    /\ \A i \in 1..k :
        f[i] = [f[i - 1] EXCEPT ![batch[i].signal] = Append(@, Sto!Sample(batch[i]))]

\* The rings, and the histories, while a batch is appended.
LEMMA RingsAfterIs ==
    ASSUME StoreNumbers, NEW n \in Nat, rings \in [1..n -> RingType],
           NEW k \in Nat, NEW batch \in BatchOf(n, k)
    PROVE  RingsFollow(Sto!RingsAfter(batch), batch, k)
  <1> DEFINE S == [1..n -> RingType]
             Followed(i, rs) == [rs EXCEPT ![batch[i].signal] = Sto!RingAppend(@, Sto!Sample(batch[i]))]
             step == [i \in 1..k |-> [rs \in S |-> Followed(i, rs)]]
  <1>1. Len(batch) = k
    BY DEF BatchOf
  <1>2. \A i \in 1..k : batch[i].signal \in 1..n /\ Sto!Sample(batch[i]) \in StoreSample
    BY DEF BatchOf, Sto!Sample, StoreSample
  <1>3. ASSUME NEW i \in 1..k, NEW rs \in S
        PROVE  Followed(i, rs) \in S
    <2>1. Sto!RingAppend(rs[batch[i].signal], Sto!Sample(batch[i])) \in RingType
      BY <1>2, RingAppendType
    <2>2. QED  BY <2>1
  <1>4. rings \in S
    OBVIOUS
  <1> HIDE DEF S, Followed
  <1>5. step \in [1..k -> [S -> S]]
    BY <1>3
  <1>6. \A i \in 1..k, rs \in S : step[i][rs] = Followed(i, rs)
    OBVIOUS
  <1> HIDE DEF step
  <1>7. PICK f \in [0..k -> S] : Recursion(f, k, rings, step)
    BY <1>4, <1>5, RecursionExists
  <1>8. \A i \in 1..k : f[i] = Followed(i, f[i - 1])
    BY <1>6, <1>7 DEF Recursion
  <1>9. f = [i \in 0..Len(batch) |-> IF i = 0 THEN rings ELSE Followed(i, f[i - 1])]
    BY <1>1, <1>7, <1>8 DEF Recursion
  <1> DEFINE after == Sto!RingsAfter(batch)
  <1>10. after = [i \in 0..Len(batch) |-> IF i = 0 THEN rings ELSE Followed(i, after[i - 1])]
    BY <1>9, Zenon DEF Sto!RingsAfter, Followed
  <1> HIDE DEF after
  <1>11. after[0] = rings /\ \A i \in 1..k : after[i] = Followed(i, after[i - 1])
    BY <1>1, <1>10
  <1>12. QED  BY <1>11 DEF after, Followed, RingsFollow

LEMMA HistoriesAfterIs ==
    ASSUME StoreNumbers, NEW n \in Nat, history \in [1..n -> Seq(StoreSample)],
           NEW k \in Nat, NEW batch \in BatchOf(n, k)
    PROVE  HistoriesFollow(Sto!HistoriesAfter(batch), batch, k)
  <1> DEFINE S == [1..n -> Seq(StoreSample)]
             Followed(i, rs) == [rs EXCEPT ![batch[i].signal] = Append(@, Sto!Sample(batch[i]))]
             step == [i \in 1..k |-> [rs \in S |-> Followed(i, rs)]]
  <1>1. Len(batch) = k
    BY DEF BatchOf
  <1>2. \A i \in 1..k : batch[i].signal \in 1..n /\ Sto!Sample(batch[i]) \in StoreSample
    BY DEF BatchOf, Sto!Sample, StoreSample
  <1>3. ASSUME NEW i \in 1..k, NEW rs \in S
        PROVE  Followed(i, rs) \in S
    <2>1. Append(rs[batch[i].signal], Sto!Sample(batch[i])) \in Seq(StoreSample)
      <3>1. rs[batch[i].signal] \in Seq(StoreSample)
        BY <1>2
      <3>2. QED  BY <1>2, <3>1
    <2>2. QED  BY <2>1
  <1>4. history \in S
    OBVIOUS
  <1> HIDE DEF S, Followed
  <1>5. step \in [1..k -> [S -> S]]
    BY <1>3
  <1>6. \A i \in 1..k, rs \in S : step[i][rs] = Followed(i, rs)
    OBVIOUS
  <1> HIDE DEF step
  <1>7. PICK f \in [0..k -> S] : Recursion(f, k, history, step)
    BY <1>4, <1>5, RecursionExists
  <1>8. \A i \in 1..k : f[i] = Followed(i, f[i - 1])
    BY <1>6, <1>7 DEF Recursion
  <1>9. f = [i \in 0..Len(batch) |-> IF i = 0 THEN history ELSE Followed(i, f[i - 1])]
    BY <1>1, <1>7, <1>8 DEF Recursion
  <1> DEFINE after == Sto!HistoriesAfter(batch)
  <1>10. after = [i \in 0..Len(batch) |-> IF i = 0 THEN history ELSE Followed(i, after[i - 1])]
    BY <1>9, Zenon DEF Sto!HistoriesAfter, Followed
  <1> HIDE DEF after
  <1>11. after[0] = history /\ \A i \in 1..k : after[i] = Followed(i, after[i - 1])
    BY <1>1, <1>10
  <1>12. QED  BY <1>11 DEF after, Followed, HistoriesFollow

\* A history stays in the order of time.
LEMMA OrderedAppend ==
    ASSUME StoreNumbers, NEW h \in Seq(StoreSample), NEW x \in StoreSample, Ordered(h),
           Len(h) > 0 => h[Len(h)].time <= x.time
    PROVE  Ordered(Append(h, x))
  <1>1. \A i \in 1..Len(h) : h[i].time \in Nat
    BY SampleAt DEF StoreNumbers
  <1>2. /\ Len(h) \in Nat /\ Len(Append(h, x)) = Len(h) + 1 /\ Append(h, x)[Len(h) + 1] = x
        /\ \A i \in 1..Len(h) : Append(h, x)[i] = h[i]
    OBVIOUS
  <1>3. x.time \in Nat
    BY DEF StoreNumbers, StoreSample
  <1> SUFFICES ASSUME NEW i \in 1..(Len(h) + 1), NEW j \in 1..(Len(h) + 1), i <= j
               PROVE  Append(h, x)[i].time <= Append(h, x)[j].time
    BY <1>2 DEF Ordered
  <1>4. CASE j # Len(h) + 1
    BY <1>2, <1>4 DEF Ordered
  <1>5. CASE j = Len(h) + 1 /\ i # Len(h) + 1
    <2>1. h[i].time <= h[Len(h)].time /\ Len(h) > 0 /\ i \in 1..Len(h) /\ Len(h) \in 1..Len(h)
      BY <1>2, <1>5 DEF Ordered
    <2>2. h[i].time \in Nat /\ h[Len(h)].time \in Nat
      BY <1>1, <2>1
    <2>3. QED  BY <1>2, <1>3, <1>5, <2>1, <2>2
  <1>6. CASE j = Len(h) + 1 /\ i = Len(h) + 1
    BY <1>2, <1>3, <1>6
  <1>7. QED  BY <1>4, <1>5, <1>6

\* The time of the last sample of a signal, after the first i of a batch.
EarlierIn(batch, i, s) == {j \in 1..i : batch[j].signal = s}
LastAfter(batch, i, hs) ==
    \A s \in DOMAIN history :
        IF EarlierIn(batch, i, s) # {}
        THEN /\ Len(hs[s]) > 0
             /\ hs[s][Len(hs[s])].time = batch[Sto!LargestOf(EarlierIn(batch, i, s))].time
        ELSE hs[s] = history[s]

\* In an accepted batch no sample is older than the last one of its signal.
LEMMA AcceptedInOrder ==
    ASSUME StoreNumbers, NEW n \in Nat, Stores(n, rings, history),
           NEW k \in Nat, NEW batch \in BatchOf(n, k), Sto!Accepted(batch),
           NEW i \in 1..k, NEW hs, LastAfter(batch, i - 1, hs), Len(hs[batch[i].signal]) > 0
    PROVE  hs[batch[i].signal][Len(hs[batch[i].signal])].time <= batch[i].time
  <1> DEFINE s == batch[i].signal
             E == EarlierIn(batch, i - 1, s)
             h == history[s]
             count == Sto!Count(rings[s])
  <1>1. s \in 1..n /\ DOMAIN history = 1..n /\ DOMAIN batch = 1..k
    BY DEF BatchOf, Stores
  <1>2. LET last == IF E # {} THEN batch[Sto!LargestOf(E)].time
                    ELSE IF count > 0 THEN Sto!At(rings[s], count - 1).time
                    ELSE 0
        IN batch[i].time >= last
    BY <1>1 DEF Sto!Accepted, EarlierIn
  <1>3. CASE E # {}
    BY <1>1, <1>2, <1>3 DEF LastAfter
  <1>4. CASE E = {}
    <2>1. hs[s] = h /\ Len(h) > 0
      BY <1>1, <1>4 DEF LastAfter
    <2>2. RingOf(rings[s], h)
      BY <1>1 DEF Stores
    <2>3. /\ count = Len(h) - Oldest(h) /\ count \in Nat /\ Oldest(h) \in Nat /\ Len(h) \in Nat
          /\ \A j \in 0..(count - 1) : Sto!At(rings[s], j) = h[Oldest(h) + j + 1]
      BY <2>2, AtIs
    <2>4. count > 0
      BY <2>1, <2>3 DEF Oldest, StoreNumbers
    <2>5. Sto!At(rings[s], count - 1) = h[Len(h)]
      <3> HIDE DEF count, h
      <3>1. count - 1 \in 0..(count - 1) /\ Oldest(h) + (count - 1) + 1 = Len(h)
        BY <2>3, <2>4
      <3>2. QED  BY <2>3, <3>1
    <2> HIDE DEF count, h, E, s
    <2>6. batch[i].time >= h[Len(h)].time
      BY <1>2, <1>4, <2>4, <2>5
    <2>7. batch[i].time \in Nat /\ h[Len(h)].time \in Nat
      <3>1. batch[i].time \in Times
        BY DEF BatchOf
      <3>2. h \in Seq(StoreSample) /\ Len(h) \in 1..Len(h)
        BY <2>1, <2>2, <2>3 DEF RingOf
      <3>3. QED  BY <3>1, <3>2, SampleAt DEF StoreNumbers
    <2>8. QED  BY <2>1, <2>6, <2>7 DEF s
  <1>5. QED  BY <1>3, <1>4

\* After an accepted batch every ring is still the ring of its history.
LEMMA BatchKeeps ==
    ASSUME StoreNumbers, NEW n \in Nat, Stores(n, rings, history),
           NEW k \in Nat, NEW batch \in BatchOf(n, k), Sto!Accepted(batch)
    PROVE  Stores(n, Sto!RingsAfter(batch)[k], Sto!HistoriesAfter(batch)[k])
  <1> DEFINE rs(i) == Sto!RingsAfter(batch)[i]
             hs(i) == Sto!HistoriesAfter(batch)[i]
             Good(i) == Stores(n, rs(i), hs(i)) /\ LastAfter(batch, i, hs(i))
  <1>1. rs(0) = rings /\ \A i \in 1..k :
            rs(i) = [rs(i - 1) EXCEPT ![batch[i].signal] = Sto!RingAppend(@, Sto!Sample(batch[i]))]
    <2>1. RingsFollow(Sto!RingsAfter(batch), batch, k)
      <3>1. rings \in [1..n -> RingType] /\ history \in [1..n -> Seq(StoreSample)]
        BY DEF Stores
      <3>2. QED  BY <3>1, RingsAfterIs
    <2>2. QED  BY <2>1 DEF RingsFollow
  <1>2. hs(0) = history /\ \A i \in 1..k :
            hs(i) = [hs(i - 1) EXCEPT ![batch[i].signal] = Append(@, Sto!Sample(batch[i]))]
    <2>1. HistoriesFollow(Sto!HistoriesAfter(batch), batch, k)
      <3>1. rings \in [1..n -> RingType] /\ history \in [1..n -> Seq(StoreSample)]
        BY DEF Stores
      <3>2. QED  BY <3>1, HistoriesAfterIs
    <2>2. QED  BY <2>1 DEF HistoriesFollow
  <1> HIDE DEF rs, hs
  <1>3. Good(0)
    BY <1>1, <1>2 DEF LastAfter, EarlierIn
  <1>4. ASSUME NEW i \in 1..k, Good(i - 1)
        PROVE  Good(i)
    <2> DEFINE s == batch[i].signal
               x == Sto!Sample(batch[i])
               old == hs(i - 1)
    <2>1. /\ s \in 1..n /\ DOMAIN history = 1..n /\ x \in StoreSample
          /\ x.time = batch[i].time
      BY DEF BatchOf, Stores, Sto!Sample, StoreSample
    <2>2. /\ rs(i - 1) \in [1..n -> RingType] /\ old \in [1..n -> Seq(StoreSample)]
          /\ \A g \in 1..n : RingOf(rs(i - 1)[g], old[g]) /\ Ordered(old[g])
      BY <1>4 DEF Stores
    <2>3. /\ rs(i) = [rs(i - 1) EXCEPT ![s] = Sto!RingAppend(@, x)]
          /\ hs(i) = [old EXCEPT ![s] = Append(@, x)]
      BY <1>1, <1>2
    <2> HIDE DEF x, s, old
    <2>4. /\ RingOf(Sto!RingAppend(rs(i - 1)[s], x), Append(old[s], x))
          /\ Sto!RingAppend(rs(i - 1)[s], x) \in RingType
          /\ Append(old[s], x) \in Seq(StoreSample)
      BY <2>1, <2>2, RingAppendKeeps, RingAppendType
    <2>5. Ordered(Append(old[s], x))
      <3>1. Len(old[s]) > 0 => old[s][Len(old[s])].time <= x.time
        BY <1>4, <2>1, AcceptedInOrder DEF s, old
      <3>2. old[s] \in Seq(StoreSample) /\ Ordered(old[s])
        BY <2>1, <2>2
      <3>3. QED  BY <2>1, <3>1, <3>2, OrderedAppend
    <2>6. Stores(n, rs(i), hs(i))
      BY <2>1, <2>2, <2>3, <2>4, <2>5 DEF Stores
    <2>7. ASSUME NEW g \in 1..n
          PROVE  IF EarlierIn(batch, i, g) # {}
                 THEN /\ Len(hs(i)[g]) > 0
                      /\ hs(i)[g][Len(hs(i)[g])].time
                            = batch[Sto!LargestOf(EarlierIn(batch, i, g))].time
                 ELSE hs(i)[g] = history[g]
      <3>1. CASE g = s
        <4>1. EarlierIn(batch, i, g) \subseteq 0..k /\ i \in EarlierIn(batch, i, g)
          BY <3>1 DEF EarlierIn, s
        <4>2. Sto!LargestOf(EarlierIn(batch, i, g)) = i
          <5>1. /\ Sto!LargestOf(EarlierIn(batch, i, g)) \in EarlierIn(batch, i, g)
                /\ i <= Sto!LargestOf(EarlierIn(batch, i, g))
            BY <4>1, LargestIs
          <5>2. QED  BY <5>1 DEF EarlierIn
        <4>3. hs(i)[g] = Append(old[s], x) /\ old[s] \in Seq(StoreSample)
          BY <2>1, <2>2, <2>3, <3>1
        <4>4. Len(hs(i)[g]) > 0 /\ hs(i)[g][Len(hs(i)[g])] = x
          BY <4>3
        <4>5. QED  BY <2>1, <4>1, <4>2, <4>4
      <3>2. CASE g # s
        <4>1. EarlierIn(batch, i, g) = EarlierIn(batch, i - 1, g)
          <5>1. \A j \in 1..i : batch[j].signal = g => j \in 1..(i - 1)
            BY <3>2 DEF s
          <5>2. QED  BY <5>1 DEF EarlierIn
        <4>2. hs(i)[g] = old[g]
          BY <2>1, <2>2, <2>3, <3>2
        <4>3. QED  BY <1>4, <2>1, <4>1, <4>2 DEF LastAfter, old
      <3>3. QED  BY <3>1, <3>2
    <2>8. QED  BY <2>1, <2>6, <2>7 DEF LastAfter
  <1> HIDE DEF Good
  <1>5. \A i \in 0..k : i \in {j \in 0..k : Good(j)}
    <2> DEFINE T == {j \in 0..k : Good(j)}
    <2>1. 0 \in T /\ \A i \in 1..k : i - 1 \in T => i \in T
      BY <1>3, <1>4
    <2> HIDE DEF T
    <2>2. \A i \in 0..k : i \in T
      BY <2>1, InductionUpto
    <2>3. QED  BY <2>2 DEF T
  <1>6. Good(k)
    BY <1>5
  <1>7. QED  BY <1>6 DEF Good, rs, hs

\* A sequence with one more element.
Appended(f, q, n, S, x) ==
    /\ f \in [1..(n + 1) -> S] /\ f[n + 1] = x
    /\ \A s \in 1..n : f[s] = q[s]

\* A sequence with one more element.
LEMMA AppendTo ==
    ASSUME NEW S, NEW n \in Nat, NEW q \in [1..n -> S], NEW x \in S
    PROVE  Appended(Append(q, x), q, n, S, x)
  <1>1. q \in Seq(S) /\ Len(q) = n
    BY SeqDef
  <1>2. /\ Append(q, x) \in Seq(S) /\ Len(Append(q, x)) = n + 1
        /\ Append(q, x)[n + 1] = x
        /\ \A s \in 1..n : Append(q, x)[s] = q[s]
    BY <1>1, AppendProperties
  <1>3. Append(q, x) \in [1..(n + 1) -> S]
    BY <1>2, LenProperties
  <1>4. QED  BY <1>2, <1>3 DEF Appended

\* The empty ring is the ring of the empty history.
LEMMA EmptyRingOf ==
    ASSUME StoreNumbers
    PROVE  RingOf(Sto!EmptyRing, <<>>) /\ Ordered(<<>>) /\ Sto!EmptyRing \in RingType
  <1>1. Oldest(<<>>) = 0
    BY DEF Oldest, StoreNumbers
  <1>2. Sto!EmptyRing \in RingType
    BY DEF Sto!EmptyRing, RingType
  <1>3. \A w : DequeOf(<<>>, <<>>, 0, w)
    BY DEF DequeOf
  <1>4. QED  BY <1>1, <1>2, <1>3 DEF RingOf, Ordered, Sto!EmptyRing

\* Stores speaks of the next state when the sizes stay.
LEMMA StoresStay ==
    ASSUME NEW n, StoreNumbers, size' = size, Stores(n, rings', history')
    PROVE  Stores(n, rings, history)' /\ StoreNumbers'
  <1>1. StoreNumbers'
    BY DEF StoreNumbers
  <1>2. \A h : Oldest(h)' = Oldest(h)
    BY DEF Oldest
  <1>3. Stores(n, rings, history)'
    BY <1>2 DEF Stores, RingOf, Oldest
  <1>4. QED  BY <1>1, <1>3

\* The invariant holds at the start, is kept by every operation of the store and
\* by what leaves the store alone.
LEMMA StoreInitInv == Sto!StoreAssumption /\ Sto!Init => StoreInv
  <1> SUFFICES ASSUME Sto!StoreAssumption, Sto!Init
               PROVE  StoreInv
    OBVIOUS
  <1>1. StoreNumbers
    BY DEF Sto!StoreAssumption, Sto!Init, StoreNumbers
  <1>2. Stores(0, rings, history)
    BY DEF Sto!Init, Stores
  <1>3. QED  BY <1>1, <1>2 DEF StoreInv

LEMMA StoreNextInv == StoreInv /\ Sto!Next => StoreInv'
  <1> SUFFICES ASSUME StoreInv, Sto!Next
               PROVE  StoreInv'
    OBVIOUS
  <1>1. PICK n \in Nat : Stores(n, rings, history)
    BY DEF StoreInv
  <1>2. /\ StoreNumbers /\ DOMAIN rings = 1..n /\ DOMAIN history = 1..n
        /\ rings \in [1..n -> RingType] /\ history \in [1..n -> Seq(StoreSample)]
    BY <1>1 DEF StoreInv, Stores
  <1>3. CASE Sto!EnsureSignal
    <2>1. /\ size' = size /\ rings' = Append(rings, Sto!EmptyRing)
          /\ history' = Append(history, <<>>)
      BY <1>3 DEF Sto!EnsureSignal
    <2>2. Sto!EmptyRing \in RingType /\ <<>> \in Seq(StoreSample)
      BY <1>2, EmptyRingOf
    <2>3. Appended(Append(rings, Sto!EmptyRing), rings, n, RingType, Sto!EmptyRing)
      BY <1>2, <2>2, AppendTo
    <2>4. Appended(Append(history, <<>>), history, n, Seq(StoreSample), <<>>)
      BY <1>2, <2>2, AppendTo
    <2>5. /\ rings' \in [1..(n + 1) -> RingType] /\ rings'[n + 1] = Sto!EmptyRing
          /\ \A s \in 1..n : rings'[s] = rings[s]
          /\ history' \in [1..(n + 1) -> Seq(StoreSample)] /\ history'[n + 1] = <<>>
          /\ \A s \in 1..n : history'[s] = history[s]
      BY <2>1, <2>3, <2>4 DEF Appended
    <2>6. Stores(n + 1, rings', history')
      <3> SUFFICES ASSUME NEW s \in 1..(n + 1)
                   PROVE  RingOf(rings'[s], history'[s]) /\ Ordered(history'[s])
        BY <2>5 DEF Stores
      <3>1. CASE s = n + 1
        BY <1>2, <2>5, <3>1, EmptyRingOf
      <3>2. CASE s # n + 1
        <4>1. s \in 1..n
          BY <3>2
        <4>2. RingOf(rings[s], history[s]) /\ Ordered(history[s])
          BY <1>1, <4>1 DEF Stores
        <4>3. QED  BY <2>5, <4>1, <4>2
      <3>3. QED  BY <3>1, <3>2
    <2>7. n + 1 \in Nat
      OBVIOUS
    <2>8. QED  BY <1>2, <2>1, <2>6, <2>7, StoresStay DEF StoreInv
  <1>4. CASE Sto!AppendBatch
    <2>1. PICK k \in 1..BatchSize :
            \E batch \in [1..k -> [signal : DOMAIN rings, time : Times, value : SampleValues]] :
                /\ Sto!Accepted(batch)
                /\ rings' = Sto!RingsAfter(batch)[k] /\ history' = Sto!HistoriesAfter(batch)[k]
                /\ size' = size
      BY <1>4 DEF Sto!AppendBatch
    <2>2. PICK batch \in BatchOf(n, k) :
                /\ Sto!Accepted(batch)
                /\ rings' = Sto!RingsAfter(batch)[k] /\ history' = Sto!HistoriesAfter(batch)[k]
                /\ size' = size
      BY <1>2, <2>1 DEF BatchOf
    <2>3. k \in Nat
      BY <1>2 DEF StoreNumbers
    <2>4. Stores(n, Sto!RingsAfter(batch)[k], Sto!HistoriesAfter(batch)[k])
      BY <1>1, <1>2, <2>2, <2>3, BatchKeeps
    <2>5. Stores(n, rings', history')
      BY <2>2, <2>4
    <2>6. QED  BY <1>2, <2>2, <2>5, StoresStay DEF StoreInv
  <1>5. CASE Sto!Clear
    <2>1. /\ size' = size /\ rings' = [s \in 1..n |-> Sto!EmptyRing]
          /\ history' = [s \in 1..n |-> <<>>]
      BY <1>2, <1>5 DEF Sto!Clear
    <2>2. <<>> \in Seq(StoreSample)
      OBVIOUS
    <2>3. Stores(n, rings', history')
      BY <1>2, <2>1, <2>2, EmptyRingOf DEF Stores
    <2>4. QED  BY <1>2, <2>1, <2>3, StoresStay DEF StoreInv
  <1>6. QED  BY <1>3, <1>4, <1>5 DEF Sto!Next

LEMMA StoreSameInv == StoreInv /\ UNCHANGED <<size, rings, history>> => StoreInv'
  <1> SUFFICES ASSUME StoreInv, UNCHANGED <<size, rings, history>>
               PROVE  StoreInv'
    OBVIOUS
  <1>1. PICK n \in Nat : Stores(n, rings, history)
    BY DEF StoreInv
  <1>2. StoreNumbers /\ size' = size /\ Stores(n, rings', history')
    BY <1>1 DEF StoreInv
  <1>3. QED  BY <1>2, StoresStay DEF StoreInv

-----------------------------------------------------------------------------
(* Ranges of time.                                                         *)

\* The times of a ring do not decrease.
TimesRise(ring) ==
    /\ Sto!Count(ring) \in Nat
    /\ \A i \in 0..(Sto!Count(ring) - 1) : Sto!At(ring, i).time \in Nat
    /\ \A i, j \in 0..(Sto!Count(ring) - 1) :
            i <= j => Sto!At(ring, i).time <= Sto!At(ring, j).time

\* The times in a ring do not decrease.
LEMMA RingTimesRise ==
    ASSUME StoreNumbers, NEW ring, NEW h, RingOf(ring, h), Ordered(h)
    PROVE  TimesRise(ring)
  <1> DEFINE k == Sto!Count(ring)
             first == Oldest(h)
  <1>1. /\ k \in Nat /\ first \in Nat
        /\ \A i \in 0..(k - 1) : /\ Sto!At(ring, i) = h[first + i + 1]
                                 /\ first + i + 1 \in 1..Len(h)
                                 /\ Sto!At(ring, i).time \in Nat
    BY AtIs
  <1> HIDE DEF k, first
  <1>2. ASSUME NEW i \in 0..(k - 1), NEW j \in 0..(k - 1), i <= j
        PROVE  Sto!At(ring, i).time <= Sto!At(ring, j).time
    <2>1. /\ first + i + 1 \in 1..Len(h) /\ first + j + 1 \in 1..Len(h)
          /\ first + i + 1 <= first + j + 1
      BY <1>1, <1>2
    <2>2. h[first + i + 1].time <= h[first + j + 1].time
      BY <2>1 DEF Ordered
    <2>3. QED  BY <1>1, <2>2
  <1>3. QED  BY <1>1, <1>2 DEF TimesRise, k

\* The middle of a window lies in it.
LEMMA HalfOf ==
    ASSUME NEW a \in Int, NEW z \in Int, a < z
    PROVE  a + (z - a) \div 2 \in a..(z - 1)
  <1>1. z - a \in Nat /\ 2 \in Nat \ {0}
    OBVIOUS
  <1>2. PICK q \in Nat, rest \in 0..(2 - 1) :
            z - a = 2 * q + rest /\ rest = (z - a) % 2 /\ q = (z - a) \div 2
    BY <1>1, Division
  <1>3. a + q \in a..(z - 1)
    BY <1>2
  <1>4. QED  BY <1>2, <1>3

\* What the search looks at in a sample.
Passed(ring, time, upper, i) ==
    Sto!At(ring, i).time < time \/ (upper /\ Sto!At(ring, i).time = time)

\* What the window of the search leaves out is passed on its left and is not on
\* its right.
WindowOf(ring, time, upper, n, window) ==
    /\ window.low \in 0..Sto!Count(ring) /\ window.high \in 0..Sto!Count(ring)
    /\ window.low <= window.high
    /\ window.low < window.high => window.high - window.low <= Sto!Count(ring) - n
    /\ \A i \in 0..(Sto!Count(ring) - 1) :
        /\ i < window.low => Passed(ring, time, upper, i)
        /\ i >= window.high => ~Passed(ring, time, upper, i)

Window(ring) == [low : 0..Sto!Count(ring), high : 0..Sto!Count(ring)]

\* A turn of the binary search keeps its window and makes it smaller.
LEMMA HalvedKeeps ==
    ASSUME NEW ring, TimesRise(ring), NEW time \in Nat, NEW upper \in BOOLEAN,
           NEW n \in 1..Sto!Count(ring), NEW window \in Window(ring),
           WindowOf(ring, time, upper, n - 1, window)
    PROVE  WindowOf(ring, time, upper, n, Sto!Halved(ring, time, upper, window))
  <1> DEFINE k == Sto!Count(ring)
             middle == window.low + (window.high - window.low) \div 2
             out == Sto!Halved(ring, time, upper, window)
  <1>1. /\ k \in Nat /\ window.low \in 0..k /\ window.high \in 0..k
        /\ window.low <= window.high
        /\ window.low < window.high => window.high - window.low <= k - (n - 1)
    BY DEF TimesRise, Window, WindowOf
  <1>2. CASE window.low >= window.high
    <2>1. out = window
      BY <1>2 DEF Sto!Halved
    <2>2. QED  BY <1>1, <1>2, <2>1 DEF WindowOf
  <1>3. CASE window.low < window.high
    <2>1. /\ middle \in 0..(k - 1) /\ window.low <= middle /\ middle < window.high
      <3>1. middle \in window.low..(window.high - 1)
        <4>1. window.low \in Int /\ window.high \in Int
          BY <1>1
        <4>2. QED  BY <1>3, <4>1, HalfOf
      <3> HIDE DEF middle
      <3>2. QED  BY <1>1, <3>1
    <2>2. out = IF Passed(ring, time, upper, middle)
                THEN [window EXCEPT !.low = middle + 1] ELSE [window EXCEPT !.high = middle]
      <3>1. ~(window.low >= window.high)
        BY <1>1, <1>3
      <3> HIDE DEF k
      <3>2. QED  BY <3>1, Zenon DEF Sto!Halved, Passed
    <2> HIDE DEF middle, out
    <2>3. CASE Passed(ring, time, upper, middle)
      <3>1. out.low = middle + 1 /\ out.high = window.high
        BY <2>2, <2>3 DEF Window
      <3>2. ASSUME NEW i \in 0..(k - 1), i < out.low
            PROVE  Passed(ring, time, upper, i)
        <4>1. Sto!At(ring, i).time <= Sto!At(ring, middle).time
          BY <2>1, <3>1, <3>2 DEF TimesRise
        <4>2. Sto!At(ring, i).time \in Nat /\ Sto!At(ring, middle).time \in Nat
          BY <2>1 DEF TimesRise
        <4>3. QED  BY <2>3, <4>1, <4>2 DEF Passed
      <3>3. \A i \in 0..(k - 1) : i >= out.high => ~Passed(ring, time, upper, i)
        BY <3>1 DEF WindowOf
      <3>4. QED  BY <1>1, <1>3, <2>1, <3>1, <3>2, <3>3 DEF WindowOf, out
    <2>4. CASE ~Passed(ring, time, upper, middle)
      <3>1. out.low = window.low /\ out.high = middle
        BY <2>2, <2>4 DEF Window
      <3>2. ASSUME NEW i \in 0..(k - 1), i >= out.high
            PROVE  ~Passed(ring, time, upper, i)
        <4>1. Sto!At(ring, middle).time <= Sto!At(ring, i).time
          BY <2>1, <3>1, <3>2 DEF TimesRise
        <4>2. Sto!At(ring, i).time \in Nat /\ Sto!At(ring, middle).time \in Nat
          BY <2>1 DEF TimesRise
        <4>3. QED  BY <2>4, <4>1, <4>2 DEF Passed
      <3>3. \A i \in 0..(k - 1) : i < out.low => Passed(ring, time, upper, i)
        BY <3>1 DEF WindowOf
      <3>4. QED  BY <1>1, <1>3, <2>1, <3>1, <3>2, <3>3 DEF WindowOf, out
    <2>5. QED  BY <2>3, <2>4
  <1>4. QED  BY <1>1, <1>2, <1>3

\* The windows of a search.
WindowsFollow(f, ring, time, upper) ==
    /\ f[0] = [low |-> 0, high |-> Sto!Count(ring)]
    /\ \A i \in 1..Sto!Count(ring) : f[i] = Sto!Halved(ring, time, upper, f[i - 1])
    /\ f \in [0..Sto!Count(ring) -> Window(ring)]
    /\ Sto!Bound(ring, time, upper) = f[Sto!Count(ring)].low

\* The turns of the binary search define a function.
LEMMA WindowsExist ==
    ASSUME NEW ring, Sto!Count(ring) \in Nat, NEW time \in Nat, NEW upper \in BOOLEAN
    PROVE  \E f : WindowsFollow(f, ring, time, upper)
  <1> DEFINE k == Sto!Count(ring)
             S == Window(ring)
             Followed(w) == Sto!Halved(ring, time, upper, w)
             base == [low |-> 0, high |-> k]
             step == [i \in 1..k |-> [w \in S |-> Followed(w)]]
  <1>1. ASSUME NEW w \in S
        PROVE  Followed(w) \in S
    <2> DEFINE middle == w.low + (w.high - w.low) \div 2
    <2>1. w.low \in 0..k /\ w.high \in 0..k
      BY DEF Window
    <2>2. CASE w.low >= w.high
      BY <2>2 DEF Sto!Halved
    <2>3. CASE w.low < w.high
      <3>1. middle \in 0..(k - 1)
        <4>1. w.low \in Int /\ w.high \in Int
          BY <2>1
        <4>2. middle \in w.low..(w.high - 1)
          BY <2>3, <4>1, HalfOf
        <4> HIDE DEF middle
        <4>3. QED  BY <2>1, <4>2
      <3>2. middle \in 0..k /\ middle + 1 \in 0..k
        BY <3>1
      <3>3. Followed(w) = [w EXCEPT !.low = middle + 1] \/ Followed(w) = [w EXCEPT !.high = middle]
        <4>1. ~(w.low >= w.high)
          BY <2>1, <2>3
        <4>2. QED  BY <4>1, Zenon DEF Sto!Halved
      <3> HIDE DEF middle, Followed
      <3>4. QED  BY <3>2, <3>3 DEF Window
    <2>4. QED  BY <2>1, <2>2, <2>3
  <1>2. base \in S
    BY DEF Window
  <1> HIDE DEF S, Followed, base
  <1>3. step \in [1..k -> [S -> S]]
    BY <1>1
  <1>4. \A i \in 1..k, w \in S : step[i][w] = Followed(w)
    OBVIOUS
  <1> HIDE DEF step, k
  <1>5. PICK f \in [0..k -> S] : Recursion(f, k, base, step)
    BY <1>2, <1>3, RecursionExists DEF k
  <1>6. \A i \in 1..k : f[i] = Followed(f[i - 1])
    <2>1. \A i \in 1..k : i - 1 \in 0..k
      BY DEF k
    <2>2. QED  BY <1>4, <1>5, <2>1 DEF Recursion
  <1>7. f = [i \in 0..k |-> IF i = 0 THEN base ELSE Followed(f[i - 1])]
    BY <1>5, <1>6 DEF Recursion, k
  <1> DEFINE window == CHOOSE g : g = [i \in 0..k |-> IF i = 0 THEN base ELSE Followed(g[i - 1])]
  <1>8. window = [i \in 0..k |-> IF i = 0 THEN base ELSE Followed(window[i - 1])]
    BY <1>7
  <1>9. Sto!Bound(ring, time, upper) = window[k].low
    BY DEF Sto!Bound, k, base, Followed
  <1> HIDE DEF window
  <1>10. window[0] = base /\ \A i \in 1..k : window[i] = Followed(window[i - 1])
    BY <1>8 DEF k
  <1>11. \A i \in 0..k : i \in {j \in 0..k : window[j] \in S}
    <2> DEFINE T == {j \in 0..k : window[j] \in S}
    <2>1. 0 \in T
      BY <1>2, <1>10 DEF k
    <2>2. \A i \in 1..k : i - 1 \in T => i \in T
      BY <1>1, <1>10 DEF k
    <2>3. k \in Nat
      BY DEF k
    <2> HIDE DEF T
    <2>4. \A i \in 0..k : i \in T
      BY <2>1, <2>2, <2>3, InductionUpto
    <2>5. QED  BY <2>4 DEF T
  <1>12. window \in [0..k -> S]
    BY <1>8, <1>11
  <1>13. WindowsFollow(window, ring, time, upper)
    BY <1>9, <1>10, <1>12 DEF WindowsFollow, base, Followed, S, k
  <1>14. QED  BY <1>13

\* The search ends between the samples that are passed and those that are not.
LEMMA BoundIs ==
    ASSUME NEW ring, TimesRise(ring), NEW time \in Nat, NEW upper \in BOOLEAN
    PROVE  /\ Sto!Bound(ring, time, upper) \in 0..Sto!Count(ring)
           /\ \A i \in 0..(Sto!Count(ring) - 1) :
                i < Sto!Bound(ring, time, upper) <=> Passed(ring, time, upper, i)
  <1> DEFINE k == Sto!Count(ring)
  <1>1. k \in Nat
    BY DEF TimesRise
  <1>2. PICK f : WindowsFollow(f, ring, time, upper)
    BY <1>1, WindowsExist
  <1> DEFINE T == {j \in 0..k : WindowOf(ring, time, upper, j, f[j])}
  <1>3. 0 \in T
    BY <1>1, <1>2 DEF WindowsFollow, WindowOf
  <1>4. ASSUME NEW i \in 1..k, i - 1 \in T
        PROVE  i \in T
    <2>1. f[i] = Sto!Halved(ring, time, upper, f[i - 1]) /\ f[i - 1] \in Window(ring)
      BY <1>1, <1>2 DEF WindowsFollow
    <2>2. WindowOf(ring, time, upper, i - 1, f[i - 1])
      BY <1>4
    <2>3. WindowOf(ring, time, upper, i, Sto!Halved(ring, time, upper, f[i - 1]))
      BY <2>1, <2>2, HalvedKeeps
    <2>4. QED  BY <2>1, <2>3
  <1> HIDE DEF T
  <1>5. \A i \in 0..k : i \in T
    BY <1>1, <1>3, <1>4, InductionUpto
  <1>6. k \in T /\ f[k].low = Sto!Bound(ring, time, upper)
    BY <1>1, <1>2, <1>5 DEF WindowsFollow
  <1>7. WindowOf(ring, time, upper, k, f[k])
    BY <1>6 DEF T
  <1>8. f[k].low = f[k].high
    BY <1>1, <1>7 DEF WindowOf
  <1>9. QED  BY <1>1, <1>6, <1>7, <1>8 DEF WindowOf

\* What xcp_core_plot_range and xcp_core_value_at return.
LEMMA RangeHolds ==
    ASSUME NEW ring, TimesRise(ring), NEW first \in Nat, NEW last \in Nat, first <= last,
           ~Sto!Outside(ring, first, last)
    PROVE  LET range == Sto!RangeOf(ring, first, last) IN
           /\ \A i \in 0..(Sto!Count(ring) - 1) :
                Sto!At(ring, i).time \in first..last => i \in range[1]..(range[2] - 1)
           /\ range[1] = 0 \/ Sto!At(ring, range[1]).time < first
           /\ range[2] = Sto!Count(ring) \/ Sto!At(ring, range[2] - 1).time > last
  <1> DEFINE k == Sto!Count(ring)
             begin == Sto!Bound(ring, first, FALSE)
             end == Sto!Bound(ring, last, TRUE)
             low == IF begin > 0 THEN begin - 1 ELSE 0
             high == IF end + 1 <= k THEN end + 1 ELSE k
             time(i) == Sto!At(ring, i).time
  <1>1. k \in Nat /\ \A i \in 0..(k - 1) : time(i) \in Nat
    BY DEF TimesRise
  <1>2. begin \in 0..k /\ \A i \in 0..(k - 1) : i < begin <=> time(i) < first
    <2>1. FALSE \in BOOLEAN
      OBVIOUS
    <2>2. /\ begin \in 0..k
          /\ \A i \in 0..(k - 1) : i < begin <=> Passed(ring, first, FALSE, i)
      BY <2>1, BoundIs
    <2>3. QED  BY <2>2 DEF Passed
  <1>3. end \in 0..k /\ \A i \in 0..(k - 1) : i < end <=> time(i) <= last
    <2>1. TRUE \in BOOLEAN
      OBVIOUS
    <2>2. /\ end \in 0..k
          /\ \A i \in 0..(k - 1) : i < end <=> Passed(ring, last, TRUE, i)
      BY <2>1, BoundIs
    <2> HIDE DEF end
    <2>3. \A i \in 0..(k - 1) : Passed(ring, last, TRUE, i) <=> time(i) <= last
      BY <1>1 DEF Passed
    <2>4. QED  BY <2>2, <2>3
  <1>4. Sto!RangeOf(ring, first, last) = <<low, high>>
    <2>1. end + 1 \in Nat /\ k \in Nat
      <3> HIDE DEF end, k
      <3>1. QED  BY <1>1, <1>3
    <2>2. Sto!SmallestOf({end + 1, k}) = high
      BY <2>1, SmallestOfTwo
    <2>3. QED  BY <2>2 DEF Sto!RangeOf
  <1> HIDE DEF k, begin, end
  <1>5. low \in 0..k /\ high \in 0..k /\ low <= begin /\ high >= end
    BY <1>1, <1>2, <1>3
  <1>6. ASSUME NEW i \in 0..(k - 1), time(i) \in first..last
        PROVE  i \in low..(high - 1)
    <2>1. i >= begin /\ i < end
      BY <1>1, <1>2, <1>3, <1>6
    <2>2. QED  BY <1>1, <1>2, <1>3, <1>5, <2>1
  <1>7. low = 0 \/ time(low) < first
    <2>1. begin > 0 => low \in 0..(k - 1) /\ low < begin
      BY <1>1, <1>2
    <2> HIDE DEF time
    <2>2. QED  BY <1>1, <1>2, <2>1
  <1>8. high = k \/ time(high - 1) > last
    <2>1. high # k => high - 1 \in 0..(k - 1) /\ ~(high - 1 < end)
      BY <1>1, <1>3
    <2>2. high # k => time(high - 1) \in Nat /\ ~(time(high - 1) <= last)
      BY <1>1, <1>3, <2>1
    <2> HIDE DEF time, high
    <2>3. QED  BY <2>2
  <1> HIDE DEF low, high, time
  <1>9. \A a, z : <<a, z>>[1] = a /\ <<a, z>>[2] = z
    OBVIOUS
  <1>10. QED  BY <1>4, <1>6, <1>7, <1>8, <1>9 DEF time, k

LEMMA CursorHolds ==
    ASSUME NEW ring, TimesRise(ring), NEW first \in Nat, ~Sto!Outside(ring, first, first)
    PROVE  LET cursor == Sto!CursorAt(ring, first) IN
           IF Len(cursor) = 1
             THEN /\ Sto!At(ring, cursor[1]).time = first
                  /\ cursor[1] + 1 < Sto!Count(ring) => Sto!At(ring, cursor[1] + 1).time > first
             ELSE /\ Sto!At(ring, cursor[1]).time < first
                  /\ first < Sto!At(ring, cursor[2]).time
  <1> DEFINE k == Sto!Count(ring)
             low == Sto!Bound(ring, first, TRUE)
             time(i) == Sto!At(ring, i).time
  <1>1. k \in Nat /\ \A i \in 0..(k - 1) : time(i) \in Nat
    BY DEF TimesRise
  <1>2. low \in 0..k /\ \A i \in 0..(k - 1) : i < low <=> time(i) <= first
    <2>1. TRUE \in BOOLEAN
      OBVIOUS
    <2>2. /\ low \in 0..k
          /\ \A i \in 0..(k - 1) : i < low <=> Passed(ring, first, TRUE, i)
      BY <2>1, BoundIs
    <2> HIDE DEF low
    <2>3. \A i \in 0..(k - 1) : Passed(ring, first, TRUE, i) <=> time(i) <= first
      BY <1>1 DEF Passed
    <2>4. QED  BY <2>2, <2>3
  <1>3. k # 0 /\ ~(first < time(0)) /\ ~(first > time(k - 1))
    BY DEF Sto!Outside
  <1>4. Sto!CursorAt(ring, first)
            = IF time(low - 1) = first \/ low = k THEN <<low - 1>> ELSE <<low - 1, low>>
    BY DEF Sto!CursorAt
  <1> HIDE DEF k, low, time
  <1>5. 0 \in 0..(k - 1) /\ k - 1 \in 0..(k - 1)
    BY <1>1, <1>3
  <1>6. time(0) <= first /\ first <= time(k - 1) /\ time(k - 1) \in Nat
    BY <1>1, <1>3, <1>5
  <1>7. low - 1 \in 0..(k - 1) /\ time(low - 1) <= first /\ time(low - 1) \in Nat
    <2>1. low - 1 \in 0..(k - 1) /\ low - 1 < low
      BY <1>1, <1>2, <1>5, <1>6
    <2>2. QED  BY <1>1, <1>2, <2>1
  <1>8. low < k => time(low) > first /\ time(low) \in Nat
    <2>1. low < k => low \in 0..(k - 1) /\ ~(low < low)
      BY <1>1, <1>2
    <2>2. low < k => ~(time(low) <= first) /\ time(low) \in Nat
      BY <1>1, <1>2, <2>1
    <2>3. QED  BY <2>2
  <1>9. \A a, z : /\ <<a>>[1] = a /\ Len(<<a>>) = 1
                    /\ <<a, z>>[1] = a /\ <<a, z>>[2] = z /\ Len(<<a, z>>) = 2
    OBVIOUS
  <1>10. CASE time(low - 1) = first \/ low = k
    <2>1. time(low - 1) = first
      <3>1. CASE low = k
        BY <1>6, <1>7, <3>1
      <3>2. QED  BY <1>10, <3>1
    <2>2. low - 1 + 1 = low
      BY <1>2
    <2>3. Sto!CursorAt(ring, first) = <<low - 1>>
      BY <1>4, <1>10
    <2>4. QED  BY <1>8, <1>9, <2>1, <2>2, <2>3 DEF time, k
  <1>11. CASE ~(time(low - 1) = first \/ low = k)
    <2>1. time(low - 1) < first /\ first < time(low)
      BY <1>1, <1>2, <1>7, <1>8, <1>11
    <2>2. Sto!CursorAt(ring, first) = <<low - 1, low>>
      BY <1>4, <1>11
    <2>3. QED  BY <1>9, <2>1, <2>2 DEF time
  <1>12. QED  BY <1>10, <1>11

\* A range shows its samples and their neighbours, a cursor is where it belongs.
LEMMA RangesAreShown ==
    ASSUME StoreInv
    PROVE  Sto!RangeShown
  <1>1. PICK n \in Nat : Stores(n, rings, history)
    BY DEF StoreInv
  <1>2. \A s \in DOMAIN rings : TimesRise(rings[s])
    BY <1>1, RingTimesRise DEF StoreInv, Stores
  <1> SUFFICES ASSUME NEW s \in DOMAIN rings,
                      NEW first \in 0..Sto!LargestOf(Times), NEW last \in 0..Sto!LargestOf(Times),
                      first <= last, ~Sto!Outside(rings[s], first, last)
               PROVE  LET ring == rings[s]
                          range == Sto!RangeOf(ring, first, last)
                          cursor == Sto!CursorAt(ring, first)
                          time(i) == Sto!At(ring, i).time
                      IN /\ \A i \in 0..(Sto!Count(ring) - 1) :
                                time(i) \in first..last => i \in range[1]..(range[2] - 1)
                         /\ range[1] = 0 \/ time(range[1]) < first
                         /\ range[2] = Sto!Count(ring) \/ time(range[2] - 1) > last
                         /\ ~Sto!Outside(ring, first, first) =>
                              IF Len(cursor) = 1
                                THEN /\ time(cursor[1]) = first
                                     /\ cursor[1] + 1 < Sto!Count(ring)
                                            => time(cursor[1] + 1) > first
                                ELSE time(cursor[1]) < first /\ first < time(cursor[2])
    BY DEF Sto!RangeShown
  <1>3. first \in Nat /\ last \in Nat
    OBVIOUS
  <1>4. TimesRise(rings[s])
    BY <1>2
  <1>5. QED  BY <1>3, <1>4, RangeHolds, CursorHolds

-----------------------------------------------------------------------------
(* Plots.                                                                  *)

\* Indices of begin..stop-1, in order.
InRange(f, begin, stop) ==
    /\ f \in Seq(Nat)
    /\ \A i \in 1..Len(f) : f[i] \in begin..(stop - 1)
    /\ \A i, j \in 1..Len(f) : i < j => f[i] < f[j]

\* No sample of begin..stop-1 is lower or higher than all that are shown.
Covers(f, ring, begin, stop) ==
    \A j \in begin..(stop - 1) :
        /\ \E i \in 1..Len(f) : Sto!At(ring, f[i]).value <= Sto!At(ring, j).value
        /\ \E i \in 1..Len(f) : Sto!At(ring, f[i]).value >= Sto!At(ring, j).value

\* Two plots that follow each other in time make one; and what they cover
\* together.
LEMMA InRangeJoin ==
    ASSUME NEW f, NEW g, NEW begin \in Nat, NEW edge \in Nat, NEW stop \in Nat,
           begin <= edge, edge <= stop, InRange(f, begin, edge), InRange(g, edge, stop)
    PROVE  InRange(f \o g, begin, stop) /\ Len(f \o g) = Len(f) + Len(g)
  <1>1. f \in Seq(Nat) /\ g \in Seq(Nat) /\ Len(f) \in Nat /\ Len(g) \in Nat
    BY DEF InRange
  <1>2. /\ f \o g \in Seq(Nat) /\ Len(f \o g) = Len(f) + Len(g)
        /\ \A i \in 1..(Len(f) + Len(g)) :
            (f \o g)[i] = IF i <= Len(f) THEN f[i] ELSE g[i - Len(f)]
    BY <1>1, ConcatProperties
  <1> DEFINE h == f \o g
  <1> HIDE DEF h
  <1>3. ASSUME NEW i \in 1..Len(h)
        PROVE  \/ i <= Len(f) /\ i \in 1..Len(f) /\ h[i] = f[i] /\ h[i] \in begin..(edge - 1)
               \/ /\ i > Len(f) /\ i - Len(f) \in 1..Len(g) /\ h[i] = g[i - Len(f)]
                  /\ h[i] \in edge..(stop - 1)
    <2>1. CASE i <= Len(f)
      <3>1. i \in 1..Len(f) /\ h[i] = f[i]
        BY <1>1, <1>2, <2>1 DEF h
      <3>2. QED  BY <2>1, <3>1 DEF InRange
    <2>2. CASE ~(i <= Len(f))
      <3>1. i - Len(f) \in 1..Len(g) /\ h[i] = g[i - Len(f)] /\ i > Len(f)
        BY <1>1, <1>2, <2>2 DEF h
      <3>2. QED  BY <3>1 DEF InRange
    <2>3. QED  BY <2>1, <2>2
  <1>4. \A i \in 1..Len(h) : h[i] \in begin..(stop - 1)
    BY <1>3
  <1>5. ASSUME NEW i \in 1..Len(h), NEW j \in 1..Len(h), i < j
        PROVE  h[i] < h[j]
    <2>1. CASE j <= Len(f)
      <3>1. i \in 1..Len(f) /\ j \in 1..Len(f) /\ h[i] = f[i] /\ h[j] = f[j]
        BY <1>1, <1>3, <1>5, <2>1
      <3>2. QED  BY <1>5, <3>1 DEF InRange
    <2>2. CASE j > Len(f) /\ i <= Len(f)
      <3>1. h[i] \in begin..(edge - 1)
        BY <1>1, <1>3, <2>2
      <3>2. h[j] \in edge..(stop - 1)
        BY <1>1, <1>3, <2>2
      <3>3. QED  BY <3>1, <3>2
    <2>3. CASE j > Len(f) /\ i > Len(f)
      <3>1. /\ i - Len(f) \in 1..Len(g) /\ j - Len(f) \in 1..Len(g)
            /\ h[i] = g[i - Len(f)] /\ h[j] = g[j - Len(f)]
        BY <1>1, <1>3, <2>3, SMTT(30)
      <3>2. i - Len(f) < j - Len(f)
        BY <1>1, <1>5
      <3>3. QED  BY <3>1, <3>2 DEF InRange
    <2>4. QED  BY <1>1, <2>1, <2>2, <2>3
  <1>6. QED  BY <1>2, <1>4, <1>5 DEF InRange, h

LEMMA CoversJoin ==
    ASSUME NEW f \in Seq(Nat), NEW g \in Seq(Nat), NEW ring,
           NEW begin \in Nat, NEW edge \in Nat, NEW stop \in Nat,
           Covers(f, ring, begin, edge), Covers(g, ring, edge, stop)
    PROVE  Covers(f \o g, ring, begin, stop)
  <1>1. Len(f) \in Nat /\ Len(g) \in Nat
    OBVIOUS
  <1>2. /\ f \o g \in Seq(Nat) /\ Len(f \o g) = Len(f) + Len(g)
        /\ \A i \in 1..(Len(f) + Len(g)) :
            (f \o g)[i] = IF i <= Len(f) THEN f[i] ELSE g[i - Len(f)]
    BY ConcatProperties
  <1> DEFINE h == f \o g
             v(i) == Sto!At(ring, i).value
  <1> HIDE DEF h
  <1>3. \A i \in 1..Len(f) : i \in 1..Len(h) /\ h[i] = f[i]
    BY <1>1, <1>2 DEF h
  <1>4. \A i \in 1..Len(g) : Len(f) + i \in 1..Len(h) /\ h[Len(f) + i] = g[i]
    BY <1>1, <1>2 DEF h
  <1>5. ASSUME NEW j \in begin..(stop - 1)
        PROVE  (\E i \in 1..Len(h) : v(h[i]) <= v(j)) /\ (\E i \in 1..Len(h) : v(h[i]) >= v(j))
    <2>1. CASE j < edge
      <3>1. j \in begin..(edge - 1)
        BY <2>1
      <3>2. /\ \E i \in 1..Len(f) : v(f[i]) <= v(j)
            /\ \E i \in 1..Len(f) : v(f[i]) >= v(j)
        BY <3>1 DEF Covers
      <3> HIDE DEF v
      <3>3. QED  BY <1>3, <3>2
    <2>2. CASE ~(j < edge)
      <3>1. j \in edge..(stop - 1)
        BY <2>2
      <3>2. /\ \E i \in 1..Len(g) : v(g[i]) <= v(j)
            /\ \E i \in 1..Len(g) : v(g[i]) >= v(j)
        BY <3>1 DEF Covers
      <3> HIDE DEF v
      <3>3. QED  BY <1>4, <3>2
    <2>3. QED  BY <2>1, <2>2
  <1>6. QED  BY <1>5 DEF Covers, h

\* The earliest index of the least weight.
LeastWeight(i, w, begin, stop) ==
    /\ i \in begin..(stop - 1)
    /\ \A j \in begin..(stop - 1) : w[i] < w[j] \/ (w[i] = w[j] /\ i <= j)

\* Some index has the least weight, the earliest if there are several.
LEMMA LeastWeightExists ==
    ASSUME NEW begin \in Int, NEW stop \in Int, begin < stop,
           NEW w \in [begin..(stop - 1) -> Int]
    PROVE  \E i \in begin..(stop - 1) : LeastWeight(i, w, begin, stop)
  <1> DEFINE k == stop - 1 - begin
             Good(n) == \E i \in begin..(begin + n) : LeastWeight(i, w, begin, begin + n + 1)
             T == {n \in 0..k : Good(n)}
  <1>1. k \in Nat
    OBVIOUS
  <1>2. Good(0)
    <2>1. w[begin] \in Int /\ begin + 0 = begin /\ begin + 0 + 1 - 1 = begin
      OBVIOUS
    <2>2. QED  BY <2>1 DEF LeastWeight
  <1>3. ASSUME NEW n \in 1..k, Good(n - 1)
        PROVE  Good(n)
    <2>1. PICK i \in begin..(begin + (n - 1)) : LeastWeight(i, w, begin, begin + (n - 1) + 1)
      BY <1>3
    <2>2. /\ begin + (n - 1) + 1 - 1 = begin + (n - 1) /\ begin + n + 1 - 1 = begin + n
          /\ begin + n \in begin..(stop - 1) /\ i \in begin..(stop - 1)
          /\ w[begin + n] \in Int /\ w[i] \in Int
      OBVIOUS
    <2>3. \A j \in begin..(begin + (n - 1)) : w[i] < w[j] \/ (w[i] = w[j] /\ i <= j)
      BY <2>1, <2>2 DEF LeastWeight
    <2>4. \A j \in begin..(begin + n) : j \in begin..(begin + (n - 1)) \/ j = begin + n
      OBVIOUS
    <2>5. \A j \in begin..(begin + n) : w[j] \in Int
      OBVIOUS
    <2>6. CASE w[i] <= w[begin + n]
      <3>1. \A j \in begin..(begin + n) : w[i] < w[j] \/ (w[i] = w[j] /\ i <= j)
        BY <2>2, <2>3, <2>4, <2>6
      <3>2. i \in begin..(begin + n)
        OBVIOUS
      <3>3. QED  BY <2>2, <3>1, <3>2 DEF LeastWeight
    <2>7. CASE w[begin + n] < w[i]
      <3>1. \A j \in begin..(begin + n) :
                w[begin + n] < w[j] \/ (w[begin + n] = w[j] /\ begin + n <= j)
        BY <2>2, <2>3, <2>4, <2>5, <2>7
      <3>2. begin + n \in begin..(begin + n)
        OBVIOUS
      <3>3. QED  BY <2>2, <3>1, <3>2 DEF LeastWeight
    <2>8. QED  BY <2>2, <2>6, <2>7
  <1> HIDE DEF Good, k
  <1>4. 0 \in T /\ \A i \in 1..k : i - 1 \in T => i \in T
    BY <1>1, <1>2, <1>3
  <1> HIDE DEF T
  <1>5. \A n \in 0..k : n \in T
    BY <1>1, <1>4, InductionUpto
  <1>6. Good(k)
    BY <1>1, <1>5 DEF T
  <1>7. begin + k = stop - 1 /\ begin + k + 1 = stop
    BY DEF k
  <1>8. QED  BY <1>6, <1>7 DEF Good

\* Values of a ring that are numbers.
ValuesOf(ring, begin, stop) ==
    \A i \in begin..(stop - 1) : Sto!At(ring, i).value \in Int

\* The lowest, the highest and the steepest sample of a bucket.
LEMMA LowIs ==
    ASSUME NEW ring, NEW begin \in Int, NEW stop \in Int, begin < stop, ValuesOf(ring, begin, stop)
    PROVE  /\ Sto!Low(ring, begin, stop) \in begin..(stop - 1)
           /\ \A j \in begin..(stop - 1) :
                Sto!At(ring, Sto!Low(ring, begin, stop)).value <= Sto!At(ring, j).value
  <1> DEFINE w == [i \in begin..(stop - 1) |-> Sto!At(ring, i).value]
             Lowest(i) == \A j \in begin..(stop - 1) :
                            \/ Sto!At(ring, i).value < Sto!At(ring, j).value
                            \/ Sto!At(ring, i).value = Sto!At(ring, j).value /\ i <= j
             low == CHOOSE i \in begin..(stop - 1) : Lowest(i)
  <1>1. w \in [begin..(stop - 1) -> Int]
    BY DEF ValuesOf
  <1>2. \A i \in begin..(stop - 1) : w[i] = Sto!At(ring, i).value
    OBVIOUS
  <1> HIDE DEF w
  <1>3. PICK i \in begin..(stop - 1) : LeastWeight(i, w, begin, stop)
    BY <1>1, LeastWeightExists
  <1>4. Lowest(i)
    BY <1>2, <1>3 DEF LeastWeight
  <1> HIDE DEF Lowest
  <1>5. low \in begin..(stop - 1) /\ Lowest(low)
    BY <1>4
  <1>6. Sto!Low(ring, begin, stop) = low
    BY DEF Sto!Low, Lowest
  <1> HIDE DEF low
  <1>7. \A j \in begin..(stop - 1) : Sto!At(ring, low).value <= Sto!At(ring, j).value
    BY <1>5 DEF Lowest, ValuesOf
  <1>8. QED  BY <1>5, <1>6, <1>7

LEMMA HighIs ==
    ASSUME NEW ring, NEW begin \in Int, NEW stop \in Int, begin < stop, ValuesOf(ring, begin, stop)
    PROVE  /\ Sto!High(ring, begin, stop) \in begin..(stop - 1)
           /\ \A j \in begin..(stop - 1) :
                Sto!At(ring, Sto!High(ring, begin, stop)).value >= Sto!At(ring, j).value
  <1> DEFINE w == [i \in begin..(stop - 1) |-> -Sto!At(ring, i).value]
             Highest(i) == \A j \in begin..(stop - 1) :
                            \/ Sto!At(ring, i).value > Sto!At(ring, j).value
                            \/ Sto!At(ring, i).value = Sto!At(ring, j).value /\ i <= j
             high == CHOOSE i \in begin..(stop - 1) : Highest(i)
  <1>1. w \in [begin..(stop - 1) -> Int]
    BY DEF ValuesOf
  <1>2. \A i \in begin..(stop - 1) : w[i] = -Sto!At(ring, i).value /\ Sto!At(ring, i).value \in Int
    BY DEF ValuesOf
  <1> HIDE DEF w
  <1>3. PICK i \in begin..(stop - 1) : LeastWeight(i, w, begin, stop)
    BY <1>1, LeastWeightExists
  <1>4. Highest(i)
    BY <1>2, <1>3 DEF LeastWeight
  <1> HIDE DEF Highest
  <1>5. high \in begin..(stop - 1) /\ Highest(high)
    BY <1>4
  <1>6. Sto!High(ring, begin, stop) = high
    BY DEF Sto!High, Highest
  <1> HIDE DEF high
  <1>7. \A j \in begin..(stop - 1) : Sto!At(ring, high).value >= Sto!At(ring, j).value
    BY <1>5 DEF Highest, ValuesOf
  <1>8. QED  BY <1>5, <1>6, <1>7

LEMMA SteepestIs ==
    ASSUME NEW ring, NEW begin \in Int, NEW stop \in Int, begin < stop, ValuesOf(ring, begin, stop)
    PROVE  Sto!Steepest(ring, begin, stop) \in begin..(stop - 1)
  <1> DEFINE w == [i \in begin..(stop - 1) |-> -Sto!Abs(Sto!At(ring, i).value)]
             Furthest(i) == \A j \in begin..(stop - 1) :
                \/ Sto!Abs(Sto!At(ring, i).value) > Sto!Abs(Sto!At(ring, j).value)
                \/ Sto!Abs(Sto!At(ring, i).value) = Sto!Abs(Sto!At(ring, j).value) /\ i <= j
             far == CHOOSE i \in begin..(stop - 1) : Furthest(i)
  <1>1. \A i \in begin..(stop - 1) : Sto!Abs(Sto!At(ring, i).value) \in Int
    BY DEF ValuesOf, Sto!Abs
  <1>2. w \in [begin..(stop - 1) -> Int]
    BY <1>1
  <1>3. \A i \in begin..(stop - 1) : w[i] = -Sto!Abs(Sto!At(ring, i).value)
    OBVIOUS
  <1> HIDE DEF w
  <1>4. PICK i \in begin..(stop - 1) : LeastWeight(i, w, begin, stop)
    BY <1>2, LeastWeightExists
  <1>5. Furthest(i)
    BY <1>1, <1>3, <1>4 DEF LeastWeight
  <1> HIDE DEF Furthest
  <1>6. far \in begin..(stop - 1)
    BY <1>5
  <1>7. Sto!Steepest(ring, begin, stop) = far
    BY DEF Sto!Steepest, Furthest
  <1>8. QED  BY <1>6, <1>7

\* A part of a plot, of at most two of its samples.
BucketShows(f, ring, begin, stop) ==
    InRange(f, begin, stop) /\ Covers(f, ring, begin, stop) /\ Len(f) <= 2

\* The extremes of a bucket cover it.
LEMMA ExtremesAre ==
    ASSUME NEW ring, NEW begin \in Nat, NEW stop \in Nat, begin < stop,
           ValuesOf(ring, begin, stop)
    PROVE  BucketShows(Sto!ExtremesOf(ring, begin, stop), ring, begin, stop)
  <1> DEFINE low == Sto!Low(ring, begin, stop)
             high == Sto!High(ring, begin, stop)
             out == Sto!ExtremesOf(ring, begin, stop)
  <1>1. /\ low \in begin..(stop - 1)
        /\ \A j \in begin..(stop - 1) : Sto!At(ring, low).value <= Sto!At(ring, j).value
    BY LowIs
  <1>2. /\ high \in begin..(stop - 1)
        /\ \A j \in begin..(stop - 1) : Sto!At(ring, high).value >= Sto!At(ring, j).value
    BY HighIs
  <1>3. out = IF low = high THEN <<low>> ELSE IF low < high THEN <<low, high>> ELSE <<high, low>>
    BY DEF Sto!ExtremesOf
  <1> HIDE DEF low, high, out
  <1>4. low \in Nat /\ high \in Nat
    BY <1>1, <1>2
  <1>5. /\ out \in Seq(Nat) /\ Len(out) \in 1..2
        /\ \A i \in 1..Len(out) : out[i] \in {low, high}
        /\ \A i, j \in 1..Len(out) : i < j => out[i] < out[j]
        /\ \E i \in 1..Len(out) : out[i] = low
        /\ \E i \in 1..Len(out) : out[i] = high
    <2>1. CASE low = high
      <3>1. out = <<low>>
        BY <1>3, <2>1
      <3>2. out \in Seq(Nat) /\ Len(out) = 1 /\ out[1] = low
        BY <1>4, <3>1
      <3>3. QED  BY <2>1, <3>2
    <2>2. CASE low < high
      <3>1. out = <<low, high>>
        BY <1>3, <1>4, <2>2
      <3>2. out \in Seq(Nat) /\ Len(out) = 2 /\ out[1] = low /\ out[2] = high
        BY <1>4, <3>1
      <3>3. QED  BY <2>2, <3>2
    <2>3. CASE high < low
      <3>1. out = <<high, low>>
        BY <1>3, <1>4, <2>3
      <3>2. out \in Seq(Nat) /\ Len(out) = 2 /\ out[1] = high /\ out[2] = low
        BY <1>4, <3>1
      <3>3. QED  BY <2>3, <3>2
    <2>4. QED  BY <1>4, <2>1, <2>2, <2>3
  <1>6. InRange(out, begin, stop)
    BY <1>1, <1>2, <1>5 DEF InRange
  <1>7. Covers(out, ring, begin, stop)
    BY <1>1, <1>2, <1>5 DEF Covers
  <1>8. QED  BY <1>5, <1>6, <1>7, SMTT(30) DEF BucketShows, out

\* The first parts of a sequence of sequences, joined.
Joined(f, seqs, k) ==
    /\ f[1] = seqs[1] /\ \A i \in 2..k : f[i] = f[i - 1] \o seqs[i]
    /\ Sto!FlattenSeq(seqs) = f[k]

\* FlattenSeq joins sequences one after the other.
LEMMA FlattenIs ==
    ASSUME NEW S, NEW k \in Nat \ {0}, NEW seqs \in [1..k -> Seq(S)]
    PROVE  \E f : Joined(f, seqs, k)
  <1> DEFINE Q == Seq(S)
             step == [i \in 1..(k - 1) |-> [q \in Q |-> q \o seqs[i + 1]]]
  <1>1. k - 1 \in Nat /\ seqs[1] \in Q
    OBVIOUS
  <1>2. step \in [1..(k - 1) -> [Q -> Q]]
    <2>1. ASSUME NEW i \in 1..(k - 1), NEW q \in Q
          PROVE  q \o seqs[i + 1] \in Q
      <3>1. i + 1 \in 1..k
        OBVIOUS
      <3>2. seqs[i + 1] \in Seq(S)
        BY <3>1
      <3>3. QED  BY <3>2, ConcatProperties
    <2> HIDE DEF Q
    <2>2. QED  BY <2>1
  <1>3. \A i \in 1..(k - 1), q \in Q : step[i][q] = q \o seqs[i + 1]
    OBVIOUS
  <1> HIDE DEF step, Q
  <1>4. PICK g \in [0..(k - 1) -> Q] : Recursion(g, k - 1, seqs[1], step)
    BY <1>1, <1>2, RecursionExists
  <1>5. g[0] = seqs[1] /\ \A i \in 1..(k - 1) : g[i] = g[i - 1] \o seqs[i + 1]
    <2>1. \A i \in 1..(k - 1) : g[i] = step[i][g[i - 1]]
      BY <1>4 DEF Recursion
    <2>2. \A i \in 1..(k - 1) : g[i - 1] \in Q
      <3>1. \A i \in 1..(k - 1) : i - 1 \in 0..(k - 1)
        OBVIOUS
      <3>2. QED  BY <3>1
    <2>3. QED  BY <1>3, <1>4, <2>1, <2>2 DEF Recursion
  <1> DEFINE h == [i \in 1..k |-> g[i - 1]]
  <1>6. \A i \in 1..k : h[i] = IF i = 1 THEN seqs[1] ELSE h[i - 1] \o seqs[i]
    <2> SUFFICES ASSUME NEW i \in 1..k
                 PROVE  h[i] = IF i = 1 THEN seqs[1] ELSE h[i - 1] \o seqs[i]
      OBVIOUS
    <2>1. CASE i = 1
      BY <1>5, <2>1
    <2>2. CASE i # 1
      <3>1. i - 1 \in 1..(k - 1) /\ i - 1 \in 1..k /\ i - 1 + 1 = i
        BY <2>2
      <3>2. g[i - 1] = g[(i - 1) - 1] \o seqs[i - 1 + 1] /\ h[i - 1] = g[(i - 1) - 1]
        BY <1>5, <3>1
      <3>3. QED  BY <2>2, <3>1, <3>2
    <2>3. QED  BY <2>1, <2>2
  <1>7. Len(seqs) = k
    OBVIOUS
  <1>8. h = [i \in 1..Len(seqs) |-> IF i = 1 THEN seqs[i] ELSE h[i - 1] \o seqs[i]]
    BY <1>6, <1>7
  <1> DEFINE flatten == CHOOSE u : u = [i \in 1..Len(seqs) |->
                                        IF i = 1 THEN seqs[i] ELSE u[i - 1] \o seqs[i]]
  <1>9. flatten = [i \in 1..Len(seqs) |-> IF i = 1 THEN seqs[i] ELSE flatten[i - 1] \o seqs[i]]
    BY <1>8, Zenon
  <1>10. Sto!FlattenSeq(seqs) = flatten[k]
    BY <1>7 DEF Sto!FlattenSeq
  <1> HIDE DEF flatten
  <1> HIDE DEF h
  <1>11. flatten[1] = seqs[1] /\ \A i \in 2..k : flatten[i] = flatten[i - 1] \o seqs[i]
    <2>1. \A i \in 1..k : flatten[i] = IF i = 1 THEN seqs[i] ELSE flatten[i - 1] \o seqs[i]
      BY <1>7, <1>9, Zenon
    <2>2. 1 \in 1..k /\ \A i \in 2..k : i \in 1..k /\ i # 1
      OBVIOUS
    <2>3. QED  BY <2>1, <2>2, Zenon
  <1>12. Joined(flatten, seqs, k)
    BY <1>10, <1>11 DEF Joined
  <1>13. QED  BY <1>12

\* Parts that lie edge to edge, joined.
LEMMA PartsJoin ==
    ASSUME NEW ring, NEW k \in Nat \ {0}, NEW seqs \in [1..k -> Seq(Nat)],
           NEW edge \in [0..k -> Nat],
           \A n \in 1..k : edge[n - 1] < edge[n] /\ BucketShows(seqs[n], ring, edge[n - 1], edge[n])
    PROVE  /\ InRange(Sto!FlattenSeq(seqs), edge[0], edge[k])
           /\ Covers(Sto!FlattenSeq(seqs), ring, edge[0], edge[k])
           /\ Len(Sto!FlattenSeq(seqs)) <= 2 * k
  <1>1. PICK f : Joined(f, seqs, k)
    BY FlattenIs
  <1> DEFINE Good(n) == /\ InRange(f[n], edge[0], edge[n]) /\ edge[0] <= edge[n]
                        /\ Covers(f[n], ring, edge[0], edge[n])
                        /\ Len(f[n]) <= 2 * n
             T == {n \in 0..(k - 1) : Good(n + 1)}
  <1>2. Good(1)
    <2>1. 1 \in 1..k /\ 1 - 1 = 0 /\ edge[0] \in Nat /\ edge[1] \in Nat
      OBVIOUS
    <2>2. edge[0] < edge[1] /\ BucketShows(seqs[1], ring, edge[0], edge[1])
      BY <2>1
    <2>3. f[1] = seqs[1]
      BY <1>1 DEF Joined
    <2>4. QED  BY <2>1, <2>2, <2>3 DEF BucketShows
  <1>3. ASSUME NEW n \in 1..(k - 1), Good(n)
        PROVE  Good(n + 1)
    <2>1. /\ n + 1 \in 2..k /\ n + 1 \in 1..k /\ n + 1 - 1 = n /\ n \in 0..k /\ 0 \in 0..k
          /\ n + 1 \in 0..k
      OBVIOUS
    <2>2. edge[n] < edge[n + 1] /\ BucketShows(seqs[n + 1], ring, edge[n], edge[n + 1])
      BY <2>1
    <2>3. f[n + 1] = f[n] \o seqs[n + 1]
      <3>1. \A i \in 2..k : f[i] = f[i - 1] \o seqs[i]
        BY <1>1 DEF Joined
      <3>2. PICK i \in 2..k : i = n + 1 /\ i - 1 = n
        BY <2>1
      <3>3. f[i] = f[i - 1] \o seqs[i]
        BY <3>1
      <3>4. QED  BY <3>2, <3>3, Zenon
    <2>4. edge[0] \in Nat /\ edge[n] \in Nat /\ edge[n + 1] \in Nat
      BY <2>1
    <2>5. /\ InRange(f[n], edge[0], edge[n]) /\ InRange(seqs[n + 1], edge[n], edge[n + 1])
          /\ Covers(f[n], ring, edge[0], edge[n])
          /\ Covers(seqs[n + 1], ring, edge[n], edge[n + 1])
          /\ Len(f[n]) <= 2 * n /\ Len(seqs[n + 1]) <= 2 /\ edge[0] <= edge[n]
      BY <1>3, <2>2 DEF BucketShows
    <2>6. f[n] \in Seq(Nat) /\ seqs[n + 1] \in Seq(Nat)
      BY <2>5 DEF InRange
    <2>7. /\ InRange(f[n] \o seqs[n + 1], edge[0], edge[n + 1])
          /\ Len(f[n] \o seqs[n + 1]) = Len(f[n]) + Len(seqs[n + 1])
      <3>1. edge[n] <= edge[n + 1]
        BY <2>2, <2>4
      <3>2. QED  BY <2>4, <2>5, <3>1, InRangeJoin
    <2>8. Covers(f[n] \o seqs[n + 1], ring, edge[0], edge[n + 1])
      BY <2>4, <2>5, <2>6, CoversJoin
    <2>9. edge[0] <= edge[n + 1]
      <3> DEFINE x1 == edge[0]
                 x2 == edge[n]
                 x3 == edge[n + 1]
      <3>1. x1 \in Nat /\ x2 \in Nat /\ x3 \in Nat /\ x1 <= x2 /\ x2 < x3
        BY <2>2, <2>4, <2>5, Zenon
      <3> HIDE DEF x1, x2, x3
      <3>2. x1 <= x3
        BY <3>1
      <3>3. QED  BY <3>2 DEF x1, x3
    <2>10. Len(f[n] \o seqs[n + 1]) <= 2 * (n + 1)
      <3> DEFINE x1 == Len(f[n])
                 x2 == Len(seqs[n + 1])
      <3>1. x1 \in Nat /\ x2 \in Nat
        BY <2>6, LenProperties
      <3>2. x1 <= 2 * n /\ x2 <= 2 /\ Len(f[n] \o seqs[n + 1]) = x1 + x2
        BY <2>5, <2>7, Zenon
      <3> HIDE DEF x1, x2
      <3>3. QED  BY <3>1, <3>2
    <2>11. QED  BY <2>3, <2>7, <2>8, <2>9, <2>10
  <1> HIDE DEF Good
  <1>4. 0 \in T /\ \A i \in 1..(k - 1) : i - 1 \in T => i \in T
    BY <1>2, <1>3
  <1>5. k - 1 \in Nat
    OBVIOUS
  <1> HIDE DEF T
  <1>6. \A n \in 0..(k - 1) : n \in T
    BY <1>4, <1>5, InductionUpto
  <1>7. Good(k - 1 + 1) /\ k - 1 + 1 = k
    <2>1. k - 1 \in T
      BY <1>5, <1>6
    <2>2. QED  BY <2>1 DEF T
  <1>8. QED  BY <1>1, <1>7 DEF Good, Joined

\* Buckets lie edge to edge from the second sample to the one before the last.
LEMMA EdgesAre ==
    ASSUME NEW end \in Nat, NEW k \in Nat \ {0}, end - 2 >= k
    PROVE  /\ Sto!Edge(0, end, k, 0) = 1 /\ Sto!Edge(0, end, k, k) = end - 1
           /\ \A n \in 0..k : Sto!Edge(0, end, k, n) \in Nat
           /\ \A n \in 1..k : Sto!Edge(0, end, k, n - 1) < Sto!Edge(0, end, k, n)
  <1> DEFINE w == end - 0 - 2
  <1>1. w \in Nat /\ w >= k /\ end = w + 2
    OBVIOUS
  <1>2. \A n : Sto!Edge(0, end, k, n) = 0 + 1 + (n * w) \div k
    BY DEF Sto!Edge
  <1> HIDE DEF w
  <1>3. ASSUME NEW n \in Nat
        PROVE  \E q \in Nat, rest \in 0..(k - 1) :
                    n * w = k * q + rest /\ q = (n * w) \div k
    <2>1. n * w \in Nat
      BY <1>1, SMT
    <2>2. QED  BY <2>1, Division
  <1>4. Sto!Edge(0, end, k, 0) = 1
    <2>1. 0 * w = k * 0 + 0 /\ 0 \in Int /\ 0 \in 0..(k - 1) /\ 0 * w \in Int
      BY <1>1, SMT
    <2>2. (0 * w) \div k = 0
      BY <2>1, DivisionUnique
    <2>3. QED  BY <1>2, <2>2
  <1>5. Sto!Edge(0, end, k, k) = end - 1
    <2>1. k * w = k * w + 0 /\ 0 \in 0..(k - 1) /\ k * w \in Int /\ w \in Int
      BY <1>1, SMT
    <2>2. (k * w) \div k = w
      BY <2>1, DivisionUnique
    <2>3. QED  BY <1>1, <1>2, <2>2
  <1>6. ASSUME NEW n \in 0..k
        PROVE  Sto!Edge(0, end, k, n) \in Nat
    <2>1. (n * w) \div k \in Nat
      BY <1>3
    <2>2. QED  BY <1>2, <2>1
  <1>7. ASSUME NEW n \in 1..k
        PROVE  Sto!Edge(0, end, k, n - 1) < Sto!Edge(0, end, k, n)
    <2>1. PICK q \in Nat, rest \in 0..(k - 1) : n * w = k * q + rest /\ q = (n * w) \div k
      BY <1>3
    <2>2. PICK q2 \in Nat, rest2 \in 0..(k - 1) :
                (n - 1) * w = k * q2 + rest2 /\ q2 = ((n - 1) * w) \div k
      <3>1. n - 1 \in Nat
        OBVIOUS
      <3>2. QED  BY <1>3, <3>1
    <2>3. PICK x \in Int, x2 \in Int, y \in Int, y2 \in Int :
                x = n * w /\ x2 = (n - 1) * w /\ y = k * q /\ y2 = k * q2
      BY <1>1, SMT
    <2>4. x = x2 + w
      BY <1>1, <2>3, SMT
    <2>5. CASE q <= q2
      <3>1. y <= y2
        BY <2>3, <2>5, SMT
      <3>2. QED  BY <1>1, <2>1, <2>2, <2>3, <2>4, <3>1
    <2>6. CASE q > q2
      BY <1>2, <2>1, <2>2, <2>6
    <2>7. QED  BY <2>5, <2>6
  <1>8. QED  BY <1>4, <1>5, <1>6, <1>7

\* The extremes of all buckets cover the samples between the ends.
LEMMA BucketsAre ==
    ASSUME NEW ring, NEW end \in Nat, NEW k \in Nat \ {0}, end - 2 >= k,
           ValuesOf(ring, 0, end)
    PROVE  /\ InRange(Sto!BucketExtremes(ring, 0, end, k), 1, end - 1)
           /\ Covers(Sto!BucketExtremes(ring, 0, end, k), ring, 1, end - 1)
           /\ Len(Sto!BucketExtremes(ring, 0, end, k)) <= 2 * k
  <1> DEFINE edge == [n \in 0..k |-> Sto!Edge(0, end, k, n)]
             seqs == [n \in 1..k |-> Sto!ExtremesOf(ring, Sto!Edge(0, end, k, n - 1),
                                                          Sto!Edge(0, end, k, n))]
  <1>1. edge \in [0..k -> Nat] /\ edge[0] = 1 /\ edge[k] = end - 1
    BY EdgesAre
  <1>2. \A n \in 1..k : edge[n - 1] < edge[n]
    <2>1. \A n \in 1..k : /\ edge[n - 1] = Sto!Edge(0, end, k, n - 1)
                          /\ edge[n] = Sto!Edge(0, end, k, n)
      OBVIOUS
    <2>2. \A n \in 1..k : Sto!Edge(0, end, k, n - 1) < Sto!Edge(0, end, k, n)
      BY EdgesAre
    <2> HIDE DEF edge
    <2>3. QED  BY <2>1, <2>2
  <1>3. \A n \in 1..k : seqs[n] = Sto!ExtremesOf(ring, edge[n - 1], edge[n])
    OBVIOUS
  <1>4. Sto!BucketExtremes(ring, 0, end, k) = Sto!FlattenSeq(seqs)
    BY DEF Sto!BucketExtremes
  <1>5. DOMAIN seqs = 1..k /\ seqs = [n \in 1..k |-> seqs[n]]
    OBVIOUS
  <1> HIDE DEF edge, seqs
  <1>6. \A n \in 0..k : edge[n] \in Nat /\ edge[n] <= end - 1
    <2> DEFINE T == {n \in 0..k : edge[k - n] <= end - 1}
    <2>1. 0 \in T
      BY <1>1
    <2>2. ASSUME NEW n \in 1..k, n - 1 \in T
          PROVE  n \in T
      <3>1. edge[k - (n - 1)] <= end - 1
        BY <2>2
      <3>2. /\ k - (n - 1) \in 1..k /\ k - (n - 1) - 1 = k - n /\ k - n \in 0..k
            /\ k - (n - 1) \in 0..k
        OBVIOUS
      <3>3. edge[k - (n - 1) - 1] < edge[k - (n - 1)]
        BY <1>2, <3>2
      <3>4. edge[k - n] \in Nat /\ edge[k - (n - 1)] \in Nat
        BY <1>1, <3>2
      <3>5. edge[k - n] <= end - 1
        BY <3>1, <3>2, <3>3, <3>4
      <3>6. QED  BY <3>5
    <2> HIDE DEF T
    <2>3. \A n \in 0..k : n \in T
      BY <2>1, <2>2, InductionUpto
    <2>4. ASSUME NEW n \in 0..k
          PROVE  edge[n] <= end - 1
      <3>1. k - n \in 0..k /\ k - (k - n) = n
        OBVIOUS
      <3>2. k - n \in T
        BY <2>3, <3>1
      <3>3. edge[k - (k - n)] <= end - 1
        BY <3>2 DEF T
      <3>4. QED  BY <3>1, <3>3
    <2>5. QED  BY <1>1, <2>4
  <1>7. ASSUME NEW n \in 1..k
        PROVE  BucketShows(seqs[n], ring, edge[n - 1], edge[n])
    <2>1. n - 1 \in 0..k /\ n \in 0..k
      OBVIOUS
    <2>2. /\ edge[n - 1] \in Nat /\ edge[n] \in Nat /\ edge[n - 1] < edge[n]
          /\ edge[n] <= end - 1
      BY <1>2, <1>6, <2>1
    <2>3. ValuesOf(ring, edge[n - 1], edge[n])
      BY <2>2 DEF ValuesOf
    <2>4. QED  BY <1>3, <2>2, <2>3, ExtremesAre
  <1>8. seqs \in [1..k -> Seq(Nat)]
    <2>1. \A n \in 1..k : seqs[n] \in Seq(Nat)
      BY <1>7 DEF BucketShows, InRange
    <2>2. QED  BY <1>5, <2>1
  <1>9. edge \in [0..k -> Nat]
    BY <1>1
  <1>10. \A n \in 1..k : edge[n - 1] < edge[n] /\ BucketShows(seqs[n], ring, edge[n - 1], edge[n])
    BY <1>2, <1>7
  <1>11. /\ InRange(Sto!FlattenSeq(seqs), edge[0], edge[k])
         /\ Covers(Sto!FlattenSeq(seqs), ring, edge[0], edge[k])
         /\ Len(Sto!FlattenSeq(seqs)) <= 2 * k
    BY <1>8, <1>9, <1>10, PartsJoin
  <1>12. QED  BY <1>1, <1>4, <1>11

\* A plot of one sample.
LEMMA OneIndex ==
    ASSUME NEW i \in Nat
    PROVE  InRange(<<i>>, i, i + 1) /\ Len(<<i>>) = 1 /\ <<i>>[1] = i
  BY DEF InRange

\* A plot between its first and its last sample.
LEMMA EndsJoin ==
    ASSUME NEW ring, NEW end \in Nat, end >= 2, NEW f, InRange(f, 1, end - 1)
    PROVE  LET plot == <<0>> \o f \o <<end - 1>> IN
           /\ InRange(plot, 0, end) /\ Len(plot) = Len(f) + 2
           /\ plot[1] = 0 /\ plot[Len(f) + 2] = end - 1
           /\ Covers(f, ring, 1, end - 1) /\ ValuesOf(ring, 0, end) => Covers(plot, ring, 0, end)
  <1> DEFINE left == <<0>> \o f
             plot == left \o <<end - 1>>
  <1>1. /\ end - 1 \in Nat /\ 0 \in Nat /\ 1 \in Nat /\ 0 <= 1 /\ 1 <= end - 1
        /\ end - 1 <= end /\ 0 <= end - 1 /\ end - 1 + 1 = end /\ 0 + 1 = 1
    OBVIOUS
  <1>2. /\ InRange(<<0>>, 0, 1) /\ Len(<<0>>) = 1
        /\ InRange(<<end - 1>>, end - 1, end) /\ Len(<<end - 1>>) = 1
    <2>1. InRange(<<0>>, 0, 0 + 1) /\ Len(<<0>>) = 1
      BY OneIndex
    <2>2. InRange(<<end - 1>>, end - 1, end - 1 + 1) /\ Len(<<end - 1>>) = 1
      BY <1>1, OneIndex
    <2>3. QED  BY <1>1, <2>1, <2>2
  <1>3. InRange(left, 0, end - 1) /\ Len(left) = Len(<<0>>) + Len(f)
    BY <1>1, <1>2, InRangeJoin
  <1>4. InRange(plot, 0, end) /\ Len(plot) = Len(left) + Len(<<end - 1>>)
    <2> HIDE DEF left
    <2>1. QED  BY <1>1, <1>2, <1>3, InRangeJoin
  <1>5. /\ f \in Seq(Nat) /\ left \in Seq(Nat) /\ <<0>> \in Seq(Nat) /\ <<end - 1>> \in Seq(Nat)
        /\ Len(f) \in Nat
    BY <1>1, <1>2, <1>3 DEF InRange
  <1>6. Len(plot) = Len(f) + 2 /\ Len(left) = Len(f) + 1
    BY <1>2, <1>3, <1>4, <1>5
  <1>7. plot[1] = 0 /\ plot[Len(f) + 2] = end - 1
    <2>1. left[1] = 0
      <3>1. 1 \in 1..(Len(<<0>>) + Len(f)) /\ 1 <= Len(<<0>>) /\ <<0>>[1] = 0
        BY <1>2, <1>5
      <3>2. QED  BY <1>5, <3>1, ConcatProperties
    <2> HIDE DEF left
    <2>2. plot[1] = left[1]
      <3>1. 1 \in 1..(Len(left) + Len(<<end - 1>>)) /\ 1 <= Len(left)
        BY <1>2, <1>5, <1>6
      <3>2. QED  BY <1>5, <3>1, ConcatProperties
    <2>3. plot[Len(f) + 2] = end - 1
      <3>1. /\ Len(f) + 2 \in 1..(Len(left) + Len(<<end - 1>>)) /\ ~(Len(f) + 2 <= Len(left))
            /\ Len(f) + 2 - Len(left) = 1 /\ <<end - 1>>[1] = end - 1
        BY <1>2, <1>5, <1>6
      <3>2. plot[Len(f) + 2] = <<end - 1>>[Len(f) + 2 - Len(left)]
        BY <1>5, <3>1, ConcatProperties
      <3>3. QED  BY <3>1, <3>2
    <2>4. QED  BY <2>1, <2>2, <2>3
  <1>8. ASSUME Covers(f, ring, 1, end - 1), ValuesOf(ring, 0, end)
        PROVE  Covers(plot, ring, 0, end)
    <2>1. ASSUME NEW i \in 0..(end - 1)
          PROVE  Covers(<<i>>, ring, i, i + 1)
      <3>1. Sto!At(ring, i).value \in Int
        BY <1>8 DEF ValuesOf
      <3>2. Len(<<i>>) = 1 /\ <<i>>[1] = i /\ 1 \in 1..1
        OBVIOUS
      <3>3. \A j \in i..(i + 1 - 1) : j = i
        OBVIOUS
      <3>4. \A j \in i..(i + 1 - 1) :
                /\ Sto!At(ring, <<i>>[1]).value <= Sto!At(ring, j).value
                /\ Sto!At(ring, <<i>>[1]).value >= Sto!At(ring, j).value
        BY <3>1, <3>2, <3>3
      <3>5. QED  BY <3>2, <3>4 DEF Covers
    <2>2. Covers(<<0>>, ring, 0, 1) /\ Covers(<<end - 1>>, ring, end - 1, end)
      <3>1. 0 \in 0..(end - 1) /\ end - 1 \in 0..(end - 1)
        BY <1>1
      <3>2. Covers(<<0>>, ring, 0, 0 + 1) /\ Covers(<<end - 1>>, ring, end - 1, end - 1 + 1)
        BY <2>1, <3>1
      <3>3. QED  BY <1>1, <3>2
    <2>3. Covers(left, ring, 0, end - 1)
      BY <1>1, <1>5, <1>8, <2>2, CoversJoin
    <2> HIDE DEF left
    <2>4. QED  BY <1>1, <1>5, <2>2, <2>3, CoversJoin
  <1>9. QED  BY <1>4, <1>6, <1>7, <1>8

\* What a plot of so many points keeps.
PlotKeeps(plot, ring, end, points) ==
    /\ InRange(plot, 0, end) /\ Len(plot) \in 1..points /\ plot[Len(plot)] = end - 1
    /\ points >= 4 => plot[1] = 0 /\ Covers(plot, ring, 0, end)

\* What plot_ring returns, for every number of points.
LEMMA PlotIs ==
    ASSUME NEW ring, NEW end \in Nat \ {0}, ValuesOf(ring, 0, end), NEW points \in 1..end
    PROVE  PlotKeeps(Sto!PlotRing(ring, 0, end, points), ring, end, points)
  <1> DEFINE plot == Sto!PlotRing(ring, 0, end, points)
             joined(f) == <<0>> \o f \o <<end - 1>>
  <1>1. CASE end - 0 <= points
    <2>1. points = end
      BY <1>1
    <2>2. plot = [i \in 1..end |-> i - 1]
      <3>1. end - 0 = end /\ \A i \in 1..end : 0 + i - 1 = i - 1
        OBVIOUS
      <3>2. plot = [i \in 1..(end - 0) |-> 0 + i - 1]
        BY <1>1 DEF Sto!PlotRing, Sto!Indices
      <3>3. QED  BY <3>1, <3>2
    <2> HIDE DEF plot
    <2>3. /\ plot \in Seq(Nat) /\ Len(plot) = end /\ \A i \in 1..end : plot[i] = i - 1
      BY <2>2
    <2>4. InRange(plot, 0, end)
      BY <2>3 DEF InRange
    <2>5. plot[Len(plot)] = end - 1 /\ plot[1] = 0
      BY <2>3
    <2>6. Covers(plot, ring, 0, end)
      <3> SUFFICES ASSUME NEW j \in 0..(end - 1)
                   PROVE  \E i \in 1..Len(plot) :
                            /\ Sto!At(ring, plot[i]).value <= Sto!At(ring, j).value
                            /\ Sto!At(ring, plot[i]).value >= Sto!At(ring, j).value
        BY DEF Covers
      <3>1. j + 1 \in 1..Len(plot) /\ plot[j + 1] = j
        BY <2>3
      <3>2. Sto!At(ring, j).value \in Int
        BY DEF ValuesOf
      <3>3. /\ Sto!At(ring, plot[j + 1]).value <= Sto!At(ring, j).value
            /\ Sto!At(ring, plot[j + 1]).value >= Sto!At(ring, j).value
        BY <3>1, <3>2
      <3>4. QED  BY <3>1, <3>3
    <2>7. QED  BY <2>1, <2>3, <2>4, <2>5, <2>6 DEF PlotKeeps, plot
  <1>2. CASE ~(end - 0 <= points) /\ points = 1
    <2>1. plot = <<end - 1>> /\ end - 1 \in Nat /\ end - 1 + 1 = end
      BY <1>2 DEF Sto!PlotRing
    <2>2. InRange(<<end - 1>>, end - 1, end - 1 + 1) /\ Len(<<end - 1>>) = 1
          /\ <<end - 1>>[1] = end - 1
      BY <2>1, OneIndex
    <2>3. InRange(<<end - 1>>, 0, end)
      BY <2>1, <2>2 DEF InRange
    <2>4. QED  BY <1>2, <2>1, <2>2, <2>3 DEF PlotKeeps
  <1>3. CASE ~(end - 0 <= points) /\ points # 1
    <2>1. end \in Nat /\ end >= 2 /\ points \in 2..(end - 1) /\ points \in Nat
      BY <1>3
    <2>2. ASSUME NEW f, InRange(f, 1, end - 1), plot = joined(f), Len(f) <= points - 2,
                 points >= 4 => Covers(f, ring, 1, end - 1)
          PROVE  PlotKeeps(plot, ring, end, points)
      <3>1. /\ InRange(joined(f), 0, end) /\ Len(joined(f)) = Len(f) + 2
            /\ joined(f)[1] = 0 /\ joined(f)[Len(f) + 2] = end - 1
            /\ points >= 4 => Covers(joined(f), ring, 0, end)
        BY <2>1, <2>2, EndsJoin
      <3>2. Len(f) \in Nat
        BY <2>2 DEF InRange
      <3> HIDE DEF plot, joined
      <3>3. QED  BY <2>1, <2>2, <3>1, <3>2 DEF PlotKeeps
    <2>3. CASE points = 2
      <3>1. plot = joined(<<>>)
        BY <1>3, <2>3 DEF Sto!PlotRing
      <3>2. InRange(<<>>, 1, end - 1) /\ Len(<<>>) = 0
        BY DEF InRange
      <3> HIDE DEF plot, joined
      <3>3. QED  BY <2>2, <2>3, <3>1, <3>2 DEF plot
    <2>4. CASE points = 3
      <3> DEFINE i == Sto!Steepest(ring, 0 + 1, end - 1)
      <3>1. plot = joined(<<i>>)
        BY <1>3, <2>4 DEF Sto!PlotRing
      <3>2. i \in 1..(end - 2)
        <4>1. /\ 0 + 1 = 1 /\ end - 1 \in Int /\ 1 < end - 1 /\ end - 1 - 1 = end - 2
          BY <2>1, <2>4
        <4>2. ValuesOf(ring, 1, end - 1)
          BY <2>1 DEF ValuesOf
        <4>3. Sto!Steepest(ring, 1, end - 1) \in 1..(end - 1 - 1)
          BY <4>1, <4>2, SteepestIs
        <4>4. QED  BY <4>1, <4>3
      <3> HIDE DEF plot, joined, i
      <3>3. InRange(<<i>>, 1, end - 1) /\ Len(<<i>>) = 1
        <4>1. i \in Nat
          BY <3>2
        <4>2. InRange(<<i>>, i, i + 1) /\ Len(<<i>>) = 1 /\ <<i>>[1] = i
          BY <4>1, OneIndex
        <4>3. QED  BY <2>1, <3>2, <4>2 DEF InRange
      <3>4. Len(<<i>>) <= points - 2 /\ ~(points >= 4)
        BY <2>4, <3>3
      <3>5. PlotKeeps(plot, ring, end, points)
        BY <2>2, <3>1, <3>3, <3>4
      <3>6. QED  BY <3>5 DEF plot
    <2>5. CASE points >= 4
      <3> DEFINE k == (points - 2) \div 2
                 f == Sto!BucketExtremes(ring, 0, end, k)
      <3>1. plot = joined(f)
        <4>1. ~(end - 0 <= points) /\ points # 1 /\ points # 2 /\ points # 3
          BY <1>3, <2>1, <2>5
        <4>2. QED  BY <4>1, Zenon DEF Sto!PlotRing
      <3>2. k \in Nat \ {0} /\ 2 * k <= points - 2 /\ end - 2 >= k
        <4>1. PICK q \in Nat, rest \in 0..(2 - 1) :
                    points - 2 = 2 * q + rest /\ rest = (points - 2) % 2 /\ q = k
          <5>1. points - 2 \in Nat /\ 2 \in Nat \ {0}
            BY <2>1
          <5>2. QED  BY <5>1, Division
        <4> HIDE DEF k
        <4>2. QED  BY <2>1, <2>5, <4>1
      <3> HIDE DEF k
      <3>3. InRange(f, 1, end - 1) /\ Covers(f, ring, 1, end - 1) /\ Len(f) <= 2 * k
        BY <2>1, <3>2, BucketsAre
      <3> HIDE DEF f, plot, joined
      <3>4. Len(f) \in Nat
        BY <3>3 DEF InRange
      <3>5. Len(f) <= points - 2
        BY <2>1, <3>2, <3>3, <3>4
      <3>6. QED  BY <2>2, <3>1, <3>3, <3>5 DEF plot
    <2>6. QED  BY <2>1, <2>3, <2>4, <2>5
  <1>4. QED  BY <1>1, <1>2, <1>3

\* A plot keeps its budget, its order, its ends and its spikes.
LEMMA PlotsKeepSpikes ==
    ASSUME StoreInv
    PROVE  Sto!PlotKeepsSpikes
  <1>1. PICK n \in Nat : Stores(n, rings, history)
    BY DEF StoreInv
  <1> SUFFICES ASSUME NEW s \in DOMAIN rings, Sto!Count(rings[s]) > 0,
                      NEW points \in 1..Sto!Count(rings[s])
               PROVE  LET ring == rings[s]
                          k == Sto!Count(ring)
                          plot == Sto!PlotRing(ring, 0, k, points)
                          visible == {plot[i] : i \in DOMAIN plot}
                      IN /\ Len(plot) <= points /\ plot[Len(plot)] = k - 1
                         /\ \A i \in 2..Len(plot) : plot[i - 1] < plot[i]
                         /\ points >= 4 =>
                              /\ plot[1] = 0
                              /\ \A j \in 0..(k - 1) :
                                    /\ \E i \in visible : Sto!At(ring, i).value <= Sto!At(ring, j).value
                                    /\ \E i \in visible : Sto!At(ring, i).value >= Sto!At(ring, j).value
    BY DEF Sto!PlotKeepsSpikes
  <1> DEFINE ring == rings[s]
             k == Sto!Count(ring)
             plot == Sto!PlotRing(ring, 0, k, points)
             visible == {plot[i] : i \in DOMAIN plot}
  <1>2. RingOf(ring, history[s]) /\ StoreNumbers
    BY <1>1 DEF StoreInv, Stores
  <1>3. k \in Nat \ {0} /\ ValuesOf(ring, 0, k)
    BY <1>2, AtIs DEF ValuesOf
  <1>4. PlotKeeps(plot, ring, k, points)
    <2>1. points \in 1..k
      OBVIOUS
    <2> HIDE DEF k, ring
    <2>2. PlotKeeps(Sto!PlotRing(ring, 0, k, points), ring, k, points)
      BY <1>3, <2>1, PlotIs
    <2>3. QED  BY <2>2
  <1> HIDE DEF ring, k, plot
  <1>5. plot \in Seq(Nat) /\ DOMAIN plot = 1..Len(plot) /\ Len(plot) \in Nat
    BY <1>4 DEF PlotKeeps, InRange
  <1>6. /\ Len(plot) <= points /\ plot[Len(plot)] = k - 1
        /\ points >= 4 => plot[1] = 0 /\ Covers(plot, ring, 0, k)
    BY <1>4, <1>5 DEF PlotKeeps
  <1>7. \A i \in 2..Len(plot) : plot[i - 1] < plot[i]
    <2>1. \A i, j \in 1..Len(plot) : i < j => plot[i] < plot[j]
      BY <1>4 DEF PlotKeeps, InRange
    <2>2. \A i \in 2..Len(plot) : i - 1 \in 1..Len(plot) /\ i \in 1..Len(plot) /\ i - 1 < i
      BY <1>5
    <2>3. QED  BY <2>1, <2>2
  <1>8. ASSUME Covers(plot, ring, 0, k), NEW j \in 0..(k - 1)
        PROVE  /\ \E i \in visible : Sto!At(ring, i).value <= Sto!At(ring, j).value
               /\ \E i \in visible : Sto!At(ring, i).value >= Sto!At(ring, j).value
    <2>1. \A i \in 1..Len(plot) : plot[i] \in visible
      BY <1>5
    <2> HIDE DEF visible
    <2>2. QED  BY <1>8, <2>1 DEF Covers
  <1>9. QED  BY <1>6, <1>7, <1>8 DEF ring, k, plot

-----------------------------------------------------------------------------
(* Exports.                                                                *)

\* The rings of n signals, as a reader finds them.
Readable(n) ==
    /\ n \in Nat /\ DOMAIN rings = 1..n /\ size.capacity \in Nat
    /\ \A s \in 1..n :
        /\ TimesRise(rings[s]) /\ Sto!Count(rings[s]) <= size.capacity
        /\ \A i \in 0..(Sto!Count(rings[s]) - 1) : Sto!At(rings[s], i).value \in SampleValues

\* Rings of their histories are readable.
LEMMA StoresAreReadable ==
    ASSUME StoreNumbers, NEW n \in Nat, Stores(n, rings, history)
    PROVE  Readable(n)
  <1>1. DOMAIN rings = 1..n /\ size.capacity \in Nat
    BY DEF Stores, StoreNumbers
  <1>2. ASSUME NEW s \in 1..n
        PROVE  /\ TimesRise(rings[s]) /\ Sto!Count(rings[s]) <= size.capacity
               /\ \A i \in 0..(Sto!Count(rings[s]) - 1) :
                    Sto!At(rings[s], i).value \in SampleValues
    <2>1. RingOf(rings[s], history[s]) /\ Ordered(history[s])
      BY DEF Stores
    <2>2. /\ Sto!Count(rings[s]) <= size.capacity
          /\ \A i \in 0..(Sto!Count(rings[s]) - 1) : Sto!At(rings[s], i) \in StoreSample
      BY <2>1, AtIs
    <2>3. QED  BY <2>1, <2>2, RingTimesRise DEF StoreSample
  <1>3. QED  BY <1>1, <1>2 DEF Readable

\* The key of a row or of an entry is its time and occurrence.
SameKey(x, y) == x.time = y.time /\ x.occurrence = y.occurrence
KeyLess(x, y) ==
    x.time < y.time \/ (x.time = y.time /\ x.occurrence < y.occurrence)

RowsOf(n) == [time : Nat, occurrence : Nat,
              values : UNION {[A -> SampleValues] : A \in SUBSET (1..n)}]
EntriesOf(n) == [time : Nat, occurrence : Nat, signal : 1..n, index : Nat]

\* A row of the table.
LEMMA RowAt ==
    ASSUME NEW n, NEW rows \in Seq(RowsOf(n)), NEW i \in 1..Len(rows)
    PROVE  rows[i] \in RowsOf(n) /\ rows[i].time \in Nat /\ rows[i].occurrence \in Nat
  <1>1. rows[i] \in RowsOf(n)
    BY ElementOfSeq
  <1>2. QED  BY <1>1 DEF RowsOf

\* The rows after the entry e with value v was put into its row.
Grown(out, rows, n, e, v) ==
    /\ out \in Seq(RowsOf(n)) /\ Len(out) \in Nat \ {0}
    /\ \/ Len(out) = Len(rows) /\ SameKey(rows[Len(rows)], e)
       \/ Len(out) = Len(rows) + 1 /\ (rows # <<>> => ~SameKey(rows[Len(rows)], e))
    /\ SameKey(out[Len(out)], e)
    /\ e.signal \in DOMAIN out[Len(out)].values /\ out[Len(out)].values[e.signal] = v
    /\ \A s \in (1..n) \ {e.signal} :
        /\ s \in DOMAIN out[Len(out)].values
            <=> Len(out) = Len(rows) /\ s \in DOMAIN rows[Len(rows)].values
        /\ s \in DOMAIN out[Len(out)].values =>
                out[Len(out)].values[s] = rows[Len(rows)].values[s]
    /\ \A i \in 1..(Len(out) - 1) : out[i] = rows[i]

\* The row an entry makes or joins.
LEMMA RowMade ==
    ASSUME NEW n, NEW e \in EntriesOf(n), NEW v \in SampleValues,
           NEW old, DOMAIN old \subseteq 1..n, \A s \in DOMAIN old : old[s] \in SampleValues
    PROVE  [time |-> e.time, occurrence |-> e.occurrence,
            values |-> [s \in DOMAIN old \union {e.signal} |-> IF s = e.signal THEN v ELSE old[s]]]
                \in RowsOf(n)
  <1> DEFINE A == DOMAIN old
             values == [s \in A \union {e.signal} |-> IF s = e.signal THEN v ELSE old[s]]
  <1>1. e.signal \in 1..n /\ e.time \in Nat /\ e.occurrence \in Nat
    BY DEF EntriesOf
  <1>2. A \union {e.signal} \in SUBSET (1..n)
    BY <1>1
  <1>3. values \in [A \union {e.signal} -> SampleValues]
    OBVIOUS
  <1> HIDE DEF values, A
  <1>4. values \in UNION {[B -> SampleValues] : B \in SUBSET (1..n)}
    BY <1>2, <1>3
  <1>5. QED  BY <1>1, <1>4 DEF RowsOf, values, A

\* An entry is put into its row.
LEMMA EnteredIs ==
    ASSUME NEW n, NEW rows \in Seq(RowsOf(n)), NEW e \in EntriesOf(n),
           Sto!At(rings[e.signal], e.index).value \in SampleValues
    PROVE  Grown(Sto!Entered(rows, e), rows, n, e, Sto!At(rings[e.signal], e.index).value)
  <1> DEFINE v == Sto!At(rings[e.signal], e.index).value
             k == Len(rows)
             joins == rows # <<>> /\ Sto!Last(rows).time = e.time
                                  /\ Sto!Last(rows).occurrence = e.occurrence
             old == IF joins THEN Sto!Last(rows).values ELSE <<>>
             row == [time |-> e.time, occurrence |-> e.occurrence,
                     values |-> [s \in DOMAIN old \union {e.signal} |->
                                    IF s = e.signal THEN v ELSE old[s]]]
             kept == IF joins THEN Sto!Front(rows) ELSE rows
             out == Sto!Entered(rows, e)
  <1>1. k \in Nat /\ (rows # <<>> <=> k # 0) /\ e.signal \in 1..n
    BY EmptySeq DEF EntriesOf
  <1>2. out = Append(kept, row)
    BY DEF Sto!Entered
  <1>3. /\ row.time = e.time /\ row.occurrence = e.occurrence
        /\ DOMAIN row.values = DOMAIN old \union {e.signal} /\ row.values[e.signal] = v
        /\ \A s \in DOMAIN old \ {e.signal} : row.values[s] = old[s]
    OBVIOUS
  <1>4. Sto!Last(rows) = rows[k]
    BY DEF Sto!Last
  <1>5. joins <=> (rows # <<>> /\ SameKey(rows[k], e))
    BY <1>4 DEF SameKey
  <1>6. v \in SampleValues
    OBVIOUS
  <1>7. CASE joins
    <2>1. k # 0 /\ k \in 1..k /\ k - 1 \in Nat
      BY <1>1, <1>7
    <2>2. rows[k] \in RowsOf(n)
      BY <2>1, RowAt
    <2>3. PICK A \in SUBSET (1..n) : rows[k].values \in [A -> SampleValues]
      BY <2>2 DEF RowsOf
    <2>4. old = rows[k].values /\ DOMAIN old = A
      BY <1>4, <1>7, <2>3
    <2>5. row \in RowsOf(n)
      <3>1. DOMAIN old \subseteq 1..n /\ \A s \in DOMAIN old : old[s] \in SampleValues
        BY <2>3, <2>4
      <3> HIDE DEF old, v, joins
      <3>2. QED  BY <1>6, <3>1, RowMade
    <2>6. /\ kept \in Seq(RowsOf(n)) /\ Len(kept) = k - 1
          /\ \A i \in 1..(k - 1) : kept[i] = rows[i]
      <3>1. kept = SubSeq(rows, 1, k - 1)
        BY <1>7 DEF Sto!Front
      <3>2. \A i \in 1..(k - 1) : rows[i] \in RowsOf(n)
        BY <1>1, RowAt
      <3>3. 1 \in Int /\ k - 1 \in Int /\ k - 1 - 1 + 1 = k - 1 /\ (1 <= k - 1 + 1)
        BY <2>1
      <3>4. /\ SubSeq(rows, 1, k - 1) \in Seq(RowsOf(n)) /\ Len(SubSeq(rows, 1, k - 1)) = k - 1
            /\ \A i \in 1..(k - 1) : SubSeq(rows, 1, k - 1)[i] = rows[i]
        <4> HIDE DEF k
        <4>1. \A i \in 1..(k - 1) : 1 + i - 1 = i
          BY <3>3
        <4>2. QED  BY <3>2, <3>3, <4>1, SubSeqProperties
      <3>5. QED  BY <3>1, <3>4
    <2> HIDE DEF row, kept, old, out, joins
    <2>7. /\ out \in Seq(RowsOf(n)) /\ Len(out) = k /\ out[k] = row
          /\ \A i \in 1..(k - 1) : out[i] = rows[i]
      <3>1. /\ Append(kept, row) \in Seq(RowsOf(n)) /\ Len(Append(kept, row)) = Len(kept) + 1
            /\ \A i \in 1..Len(kept) : Append(kept, row)[i] = kept[i]
            /\ Append(kept, row)[Len(kept) + 1] = row
        BY <2>5, <2>6, AppendProperties
      <3>2. Len(kept) + 1 = k
        BY <1>1, <2>6
      <3>3. QED  BY <1>2, <2>6, <3>1, <3>2
    <2>8. SameKey(rows[k], e) /\ SameKey(row, e)
      BY <1>3, <1>5, <1>7 DEF SameKey
    <2>9. \A s \in (1..n) \ {e.signal} :
            /\ s \in DOMAIN row.values <=> s \in DOMAIN rows[k].values
            /\ s \in DOMAIN row.values => row.values[s] = rows[k].values[s]
      BY <1>3, <2>4
    <2> HIDE DEF v
    <2>10. QED  BY <1>1, <1>3, <2>1, <2>7, <2>8, <2>9 DEF Grown, out, v
  <1>8. CASE ~joins
    <2>1. old = <<>> /\ DOMAIN old = {} /\ kept = rows
      BY <1>8
    <2>2. row \in RowsOf(n)
      <3>1. DOMAIN old \subseteq 1..n /\ \A s \in DOMAIN old : old[s] \in SampleValues
        BY <2>1
      <3> HIDE DEF old, v, joins
      <3>2. QED  BY <1>6, <3>1, RowMade
    <2> HIDE DEF row, kept, old, out, joins
    <2>3. /\ out \in Seq(RowsOf(n)) /\ Len(out) = k + 1 /\ out[k + 1] = row
          /\ \A i \in 1..k : out[i] = rows[i]
      BY <1>2, <2>1, <2>2, AppendProperties
    <2>4. (rows # <<>> => ~SameKey(rows[k], e)) /\ SameKey(row, e)
      BY <1>3, <1>5, <1>8 DEF SameKey
    <2>5. \A s \in (1..n) \ {e.signal} : s \notin DOMAIN row.values
      BY <1>3, <2>1
    <2>6. Len(out) # k /\ Len(out) \in Nat \ {0} /\ Len(out) - 1 = k
      BY <1>1, <2>3
    <2> HIDE DEF v
    <2>7. QED  BY <1>1, <1>3, <2>3, <2>4, <2>5, <2>6, Zenon DEF Grown, out, v
  <1>9. QED  BY <1>7, <1>8

\* The rows among the first i that hold signal s, and how many do in all.
Own(rows, s, i) == {j \in 1..i : s \in DOMAIN rows[j].values}
Done(rows, s) == Cardinality(Own(rows, s, Len(rows)))

\* The rows of a signal can be counted.
LEMMA OwnIsFinite ==
    ASSUME NEW rows, NEW s, NEW i \in Nat
    PROVE  IsFiniteSet(Own(rows, s, i)) /\ Cardinality(Own(rows, s, i)) \in Nat
  <1>1. IsFiniteSet(1..i)
    BY FS_Interval
  <1>2. Own(rows, s, i) \subseteq 1..i
    BY DEF Own
  <1>3. IsFiniteSet(Own(rows, s, i))
    BY <1>1, <1>2, FS_Subset
  <1>4. QED  BY <1>3, FS_CardinalityType

\* What a row more, or one signal more in the last row, changes of these.
OwnGrows(out, rows, n, e) ==
    /\ Done(rows, e.signal) \in Nat /\ Done(out, e.signal) = Done(rows, e.signal) + 1
    /\ \A s \in (1..n) \ {e.signal} :
        /\ Own(out, s, Len(out)) = Own(rows, s, Len(rows))
        /\ Done(out, s) = Done(rows, s)
        /\ Len(out) \in Own(rows, s, Len(rows)) =>
            Len(out) = Len(rows) /\ Own(out, s, Len(out)) = Own(rows, s, Len(out))
    /\ \A s \in 1..n : \A i \in 1..(Len(out) - 1) : Own(out, s, i) = Own(rows, s, i)

\* An entry put into its row counts once, for its signal only.
LEMMA OwnGrown ==
    ASSUME NEW n, NEW rows \in Seq(RowsOf(n)), NEW e \in EntriesOf(n), NEW v, NEW out,
           Grown(out, rows, n, e, v),
           \A i \in 1..Len(rows) : SameKey(rows[i], e) => e.signal \notin DOMAIN rows[i].values
    PROVE  OwnGrows(out, rows, n, e)
  <1> DEFINE u == e.signal
             k == Len(rows)
             top == Len(out)
  <1>1. k \in Nat /\ top \in Nat \ {0} /\ u \in 1..n
    BY DEF Grown, EntriesOf
  <1>2. top = k \/ top = k + 1
    BY DEF Grown
  <1>3. \A i \in 1..(top - 1) : out[i] = rows[i]
    BY DEF Grown
  <1>4. u \in DOMAIN out[top].values
    BY DEF Grown
  <1>5. \A s \in (1..n) \ {u} :
            s \in DOMAIN out[top].values <=> top = k /\ s \in DOMAIN rows[k].values
    BY DEF Grown
  <1>6. top = k => SameKey(rows[k], e)
    <2>1. k # k + 1
      BY <1>1
    <2>2. QED  BY <2>1 DEF Grown
  <1> HIDE DEF k, top, u
  <1>7. ASSUME NEW s \in 1..n, NEW i \in 1..(top - 1)
        PROVE  Own(out, s, i) = Own(rows, s, i)
    <2>1. \A j \in 1..i : j \in 1..(top - 1)
      BY <1>1
    <2>2. QED  BY <1>3, <2>1 DEF Own
  <1>8. top = k => u \notin DOMAIN rows[k].values
    <2>1. top = k => k \in 1..k
      BY <1>1
    <2>2. QED  BY <1>6, <2>1 DEF k, u
  <1>9. Own(out, u, top) = Own(rows, u, k) \union {top} /\ top \notin Own(rows, u, k)
    <2>1. \A j : j \in 1..top <=> (j \in 1..(top - 1) \/ j = top)
      BY <1>1
    <2>2. CASE top = k
      BY <1>3, <1>4, <1>8, <2>1, <2>2 DEF Own
    <2>3. CASE top = k + 1
      <3>1. top - 1 = k /\ top \notin 1..k
        BY <1>1, <2>3
      <3>2. QED  BY <1>3, <1>4, <2>1, <3>1 DEF Own
    <2>4. QED  BY <1>2, <2>2, <2>3
  <1>10. ASSUME NEW s \in (1..n) \ {u}
         PROVE  Own(out, s, top) = Own(rows, s, k)
    <2>1. \A j : j \in 1..top <=> (j \in 1..(top - 1) \/ j = top)
      BY <1>1
    <2>2. CASE top = k
      BY <1>3, <1>5, <2>1, <2>2 DEF Own
    <2>3. CASE top = k + 1
      <3>1. top - 1 = k /\ top # k
        BY <1>1, <2>3
      <3>2. QED  BY <1>3, <1>5, <2>1, <3>1 DEF Own
    <2>4. QED  BY <1>2, <2>2, <2>3
  <1>11. /\ Done(rows, u) \in Nat /\ Done(out, u) = Done(rows, u) + 1
    <2>1. IsFiniteSet(Own(rows, u, k)) /\ Cardinality(Own(rows, u, k)) \in Nat
      BY <1>1, OwnIsFinite
    <2>2. Cardinality(Own(rows, u, k) \union {top}) = Cardinality(Own(rows, u, k)) + 1
      BY <1>9, <2>1, FS_AddElement
    <2>3. QED  BY <1>9, <2>1, <2>2 DEF Done, k, top
  <1>12. ASSUME NEW s \in (1..n) \ {u}
         PROVE  /\ Done(out, s) = Done(rows, s)
                /\ top \in Own(rows, s, k) => top = k /\ Own(out, s, top) = Own(rows, s, top)
    <2>1. Done(out, s) = Done(rows, s)
      BY <1>10 DEF Done, k, top
    <2>2. top \in Own(rows, s, k) => top = k
      <3>1. top \in 1..k => top = k
        BY <1>1, <1>2
      <3>2. QED  BY <3>1 DEF Own
    <2>3. QED  BY <1>10, <2>1, <2>2
  <1>13. QED  BY <1>7, <1>10, <1>11, <1>12 DEF OwnGrows, k, top, u

\* A row that holds a signal at a time.
HasRow(rows, s, time, o) ==
    \E i \in 1..Len(rows) :
        rows[i].time = time /\ rows[i].occurrence = o /\ s \in DOMAIN rows[i].values

\* A row a signal has stays.
LEMMA RowsStay ==
    ASSUME NEW n, NEW rows \in Seq(RowsOf(n)), NEW e \in EntriesOf(n), NEW v, NEW out,
           Grown(out, rows, n, e, v), NEW s \in 1..n, NEW time, NEW o, HasRow(rows, s, time, o)
    PROVE  HasRow(out, s, time, o)
  <1> DEFINE k == Len(rows)
             top == Len(out)
  <1>1. k \in Nat /\ top \in Nat \ {0}
    BY DEF Grown
  <1>2. PICK i \in 1..k : rows[i].time = time /\ rows[i].occurrence = o
                          /\ s \in DOMAIN rows[i].values
    BY DEF HasRow
  <1>3. top = k \/ top = k + 1
    BY DEF Grown
  <1>4. CASE i <= top - 1
    <2>1. i \in 1..(top - 1) /\ i \in 1..top
      BY <1>1, <1>4
    <2>2. out[i] = rows[i]
      BY <2>1 DEF Grown
    <2>3. QED  BY <1>2, <2>1, <2>2 DEF HasRow
  <1>5. CASE ~(i <= top - 1)
    <2>1. top = k /\ i = k /\ top \in 1..top /\ k # k + 1
      BY <1>1, <1>3, <1>5
    <2>2. SameKey(rows[k], e) /\ SameKey(out[top], e)
      BY <2>1 DEF Grown
    <2>3. out[top].time = time /\ out[top].occurrence = o
      BY <1>2, <2>1, <2>2 DEF SameKey
    <2>4. s \in DOMAIN out[top].values
      <3>1. CASE s = e.signal
        BY <3>1 DEF Grown
      <3>2. CASE s # e.signal
        BY <1>2, <2>1, <3>2 DEF Grown
      <3>3. QED  BY <3>1, <3>2
    <2>5. QED  BY <2>1, <2>3, <2>4 DEF HasRow
  <1>6. QED  BY <1>4, <1>5

\* There is an entry that comes before all.
LEMMA FirstOfEntries ==
    ASSUME NEW n, NEW entries \in SUBSET EntriesOf(n), entries # {}, n \in Nat
    PROVE  \E x \in entries : \A y \in entries : Sto!Before(x, y)
  <1>1. \A x \in entries : x.time \in Nat /\ x.occurrence \in Nat /\ x.signal \in Nat
    BY DEF EntriesOf
  <1> DEFINE T1 == {x.time : x \in entries}
  <1>2. PICK t1 \in T1 : \A i \in T1 : t1 <= i
    <2>1. T1 \subseteq Nat /\ T1 # {}
      BY <1>1
    <2> HIDE DEF T1
    <2>2. QED  BY <2>1, LeastOf
  <1> DEFINE S1 == {x \in entries : x.time = t1}
             T2 == {x.occurrence : x \in S1}
  <1>3. PICK t2 \in T2 : \A i \in T2 : t2 <= i
    <2>1. T2 \subseteq Nat /\ T2 # {}
      BY <1>1, <1>2
    <2> HIDE DEF T2
    <2>2. QED  BY <2>1, LeastOf
  <1> DEFINE S2 == {x \in S1 : x.occurrence = t2}
             T3 == {x.signal : x \in S2}
  <1>4. PICK t3 \in T3 : \A i \in T3 : t3 <= i
    <2>1. T3 \subseteq Nat /\ T3 # {}
      BY <1>1, <1>3
    <2> HIDE DEF T3
    <2>2. QED  BY <2>1, LeastOf
  <1>5. PICK x \in entries : x.time = t1 /\ x.occurrence = t2 /\ x.signal = t3
    BY <1>4
  <1>6. ASSUME NEW y \in entries
        PROVE  Sto!Before(x, y)
    <2>1. t1 <= y.time /\ t1 \in Nat /\ y.time \in Nat
      BY <1>1, <1>2
    <2>2. y.time = t1 => t2 <= y.occurrence /\ t2 \in Nat /\ y.occurrence \in Nat
      BY <1>1, <1>3
    <2>3. y.time = t1 /\ y.occurrence = t2 => t3 <= y.signal
      BY <1>4
    <2>4. QED  BY <1>5, <2>1, <2>2, <2>3 DEF Sto!Before
  <1>7. QED  BY <1>6

\* The entry that follows another of its signal.
FollowsEntry(y, e, n) ==
    /\ y \in EntriesOf(n) /\ y.signal = e.signal /\ y.index = e.index + 1
    /\ y.index < Sto!Count(rings[y.signal]) /\ y.time = Sto!At(rings[y.signal], y.index).time
    /\ KeyLess(e, y)
    /\ IF y.time = e.time THEN y.occurrence = e.occurrence + 1 ELSE y.occurrence = 0

\* The entry pushed is of the next sample of the same signal, with a greater key.
LEMMA PushedIs ==
    ASSUME NEW n, Readable(n), NEW e \in EntriesOf(n), e.index < Sto!Count(rings[e.signal]),
           e.time = Sto!At(rings[e.signal], e.index).time
    PROVE  /\ \A y \in Sto!Pushed(e) : FollowsEntry(y, e, n)
           /\ \A y, z \in Sto!Pushed(e) : y = z
           /\ e.index + 1 < Sto!Count(rings[e.signal]) => Sto!Pushed(e) # {}
  <1> DEFINE ring == rings[e.signal]
             k == Sto!Count(ring)
             later == Sto!At(ring, e.index + 1).time
             y == [time |-> later, occurrence |-> Sto!Following(e, later),
                   signal |-> e.signal, index |-> e.index + 1]
  <1>1. /\ e.time \in Nat /\ e.occurrence \in Nat /\ e.signal \in 1..n /\ e.index \in Nat
    BY DEF EntriesOf
  <1>2. TimesRise(ring) /\ k \in Nat
    BY <1>1 DEF Readable, TimesRise
  <1>3. Sto!Pushed(e) = IF e.index + 1 = k THEN {} ELSE {y}
    BY DEF Sto!Pushed
  <1>4. ASSUME e.index + 1 # k
        PROVE  FollowsEntry(y, e, n)
    <2>1. e.index \in 0..(k - 1) /\ e.index + 1 \in 0..(k - 1) /\ e.index + 1 \in Nat
      BY <1>1, <1>2, <1>4
    <2>2. later \in Nat /\ e.time <= later
      <3>1. /\ later \in Nat /\ Sto!At(ring, e.index).time <= later
        <4>1. e.index <= e.index + 1
          BY <2>1
        <4> HIDE DEF ring
        <4>2. QED  BY <1>2, <2>1, <4>1 DEF TimesRise
      <3>2. QED  BY <3>1
    <2> HIDE DEF later
    <2>3. /\ Sto!Following(e, later) \in Nat
          /\ IF later = e.time THEN Sto!Following(e, later) = e.occurrence + 1
                               ELSE Sto!Following(e, later) = 0
      BY <1>1 DEF Sto!Following
    <2>4. y.time = later /\ y.occurrence = Sto!Following(e, later) /\ y.signal = e.signal
          /\ y.index = e.index + 1
      OBVIOUS
    <2>5. y \in EntriesOf(n)
      BY <1>1, <2>1, <2>2, <2>3 DEF EntriesOf
    <2>6. KeyLess(e, y)
      <3> HIDE DEF y
      <3>1. QED  BY <1>1, <2>2, <2>3, <2>4 DEF KeyLess
    <2>7. y.time = Sto!At(rings[y.signal], y.index).time /\ y.index < Sto!Count(rings[y.signal])
      BY <1>2, <2>1, <2>4 DEF later
    <2> HIDE DEF y
    <2>8. QED  BY <2>3, <2>4, <2>5, <2>6, <2>7 DEF FollowsEntry
  <1> HIDE DEF y, k
  <1>5. e.index + 1 < k => e.index + 1 # k
    BY <1>1, <1>2
  <1>6. QED  BY <1>3, <1>4, <1>5 DEF k

-----------------------------------------------------------------------------
(* The invariant of the merge.                                             *)

\* The entry of a signal is of the first of its samples that is in no row, and
\* every signal that has one has an entry.
EntriesFit(entries, rows, n) ==
    /\ \A x \in entries : /\ x.index < Sto!Count(rings[x.signal])
                          /\ x.index = Done(rows, x.signal)
                          /\ x.time = Sto!At(rings[x.signal], x.index).time
    /\ \A x, y \in entries : x.signal = y.signal => x = y
    /\ \A s \in 1..n : /\ Done(rows, s) \in Nat /\ Done(rows, s) <= Sto!Count(rings[s])
                       /\ Done(rows, s) < Sto!Count(rings[s]) => \E x \in entries : x.signal = s

\* The keys of the rows rise.
RowsRise(rows) == \A i, j \in 1..Len(rows) : i < j => KeyLess(rows[i], rows[j])

\* No entry belongs into a row before the last.
EntriesAhead(entries, rows) ==
    \A x \in entries : \A i \in 1..Len(rows) :
        \/ KeyLess(rows[i], x)
        \/ SameKey(rows[i], x) /\ x.signal \notin DOMAIN rows[i].values

\* A row holds the sample of a signal that is its turn.
RowsShow(rows, n) ==
    \A s \in 1..n : \A i \in Own(rows, s, Len(rows)) :
        LET sample == Sto!At(rings[s], Cardinality(Own(rows, s, i)) - 1)
        IN rows[i].time = sample.time /\ rows[i].values[s] = sample.value

\* The occurrences before one of a signal have rows.
InTurn(entries, rows, n) ==
    /\ \A x \in entries : \A o \in 0..(x.occurrence - 1) : HasRow(rows, x.signal, x.time, o)
    /\ \A i \in 1..Len(rows) : \A s \in (DOMAIN rows[i].values) \intersect (1..n) :
        \A o \in 0..(rows[i].occurrence - 1) : HasRow(rows, s, rows[i].time, o)

HeapInv(entries, rows, n) ==
    /\ entries \in SUBSET EntriesOf(n) /\ rows \in Seq(RowsOf(n))
    /\ EntriesFit(entries, rows, n) /\ RowsRise(rows) /\ EntriesAhead(entries, rows)
    /\ RowsShow(rows, n) /\ InTurn(entries, rows, n)

\* One turn: the first entry e is put into its row.
Turn(entries, rows, n, e, out) ==
    /\ Readable(n) /\ HeapInv(entries, rows, n)
    /\ e \in entries /\ \A y \in entries : Sto!Before(e, y)
    /\ Grown(out, rows, n, e, Sto!At(rings[e.signal], e.index).value)
    /\ OwnGrows(out, rows, n, e)

Left(entries, e) == (entries \ {e}) \union Sto!Pushed(e)

\* What is known of the entry popped and of the one pushed.
LEMMA TurnFacts ==
    ASSUME NEW n, NEW entries, NEW rows, NEW e, NEW out, Turn(entries, rows, n, e, out)
    PROVE  /\ \A y \in Sto!Pushed(e) : FollowsEntry(y, e, n)
           /\ \A y, z \in Sto!Pushed(e) : y = z
           /\ e.index + 1 < Sto!Count(rings[e.signal]) => Sto!Pushed(e) # {}
           /\ e \in EntriesOf(n) /\ e.index < Sto!Count(rings[e.signal])
           /\ e.time = Sto!At(rings[e.signal], e.index).time
           /\ e.index = Done(rows, e.signal)
           /\ \A y \in entries : y # e => y.signal # e.signal
  <1>1. /\ e \in EntriesOf(n) /\ e.index < Sto!Count(rings[e.signal])
        /\ e.time = Sto!At(rings[e.signal], e.index).time
        /\ e.index = Done(rows, e.signal) /\ Readable(n)
        /\ \A y \in entries : y # e => y.signal # e.signal
    BY DEF Turn, HeapInv, EntriesFit
  <1>2. QED  BY <1>1, PushedIs

\* After a turn each signal still has its next sample in the heap.
LEMMA TurnFits ==
    ASSUME NEW n, NEW entries, NEW rows, NEW e, NEW out, Turn(entries, rows, n, e, out)
    PROVE  Left(entries, e) \in SUBSET EntriesOf(n) /\ EntriesFit(Left(entries, e), out, n)
  <1>1. /\ \A y \in Sto!Pushed(e) : FollowsEntry(y, e, n)
        /\ \A y, z \in Sto!Pushed(e) : y = z
        /\ e.index + 1 < Sto!Count(rings[e.signal]) => Sto!Pushed(e) # {}
        /\ e \in EntriesOf(n) /\ e.index < Sto!Count(rings[e.signal])
        /\ e.index = Done(rows, e.signal)
        /\ \A y \in entries : y # e => y.signal # e.signal
    BY TurnFacts
  <1>2. /\ entries \in SUBSET EntriesOf(n) /\ EntriesFit(entries, rows, n) /\ e \in entries
        /\ Readable(n)
    BY DEF Turn, HeapInv
  <1>3. Done(rows, e.signal) \in Nat /\ Done(out, e.signal) = Done(rows, e.signal) + 1
    BY DEF Turn, OwnGrows
  <1>4. \A s \in (1..n) \ {e.signal} : Done(out, s) = Done(rows, s)
    BY DEF Turn, OwnGrows
  <1>5. \A y \in Left(entries, e) :
            (y \in entries /\ y # e /\ y.signal # e.signal) \/ FollowsEntry(y, e, n)
    BY <1>1 DEF Left
  <1>6. \A y \in entries : y.signal \in 1..n
    BY <1>2 DEF EntriesOf
  <1>7. Left(entries, e) \in SUBSET EntriesOf(n)
    BY <1>2, <1>5 DEF FollowsEntry
  <1>8. ASSUME NEW x \in Left(entries, e)
        PROVE  /\ x.index < Sto!Count(rings[x.signal]) /\ x.index = Done(out, x.signal)
               /\ x.time = Sto!At(rings[x.signal], x.index).time
    <2>1. CASE x \in entries /\ x # e /\ x.signal # e.signal
      <3>1. Done(out, x.signal) = Done(rows, x.signal)
        BY <1>4, <1>6, <2>1
      <3>2. QED  BY <1>2, <2>1, <3>1 DEF EntriesFit
    <2>2. CASE FollowsEntry(x, e, n)
      BY <1>1, <1>3, <2>2 DEF FollowsEntry
    <2>3. QED  BY <1>5, <2>1, <2>2
  <1>9. ASSUME NEW x \in Left(entries, e), NEW y \in Left(entries, e), x.signal = y.signal
        PROVE  x = y
    <2>1. CASE x \in entries /\ y \in entries
      BY <1>2, <1>9, <2>1 DEF EntriesFit
    <2>2. CASE x \in Sto!Pushed(e) /\ y \in Sto!Pushed(e)
      BY <1>1, <2>2
    <2>3. CASE x \in Sto!Pushed(e) /\ y \in entries /\ y # e
      BY <1>1, <1>9, <2>3 DEF FollowsEntry
    <2>4. CASE y \in Sto!Pushed(e) /\ x \in entries /\ x # e
      BY <1>1, <1>9, <2>4 DEF FollowsEntry
    <2>5. QED  BY <2>1, <2>2, <2>3, <2>4 DEF Left
  <1>10. ASSUME NEW s \in 1..n
         PROVE  /\ Done(out, s) \in Nat /\ Done(out, s) <= Sto!Count(rings[s])
                /\ Done(out, s) < Sto!Count(rings[s]) =>
                        \E x \in Left(entries, e) : x.signal = s
    <2>1. CASE s = e.signal
      <3>1. Sto!Count(rings[s]) \in Nat
        BY <1>2 DEF Readable, TimesRise
      <3>2. Done(out, s) \in Nat /\ Done(out, s) <= Sto!Count(rings[s])
        BY <1>1, <1>3, <2>1, <3>1
      <3>3. ASSUME Done(out, s) < Sto!Count(rings[s])
            PROVE  \E x \in Left(entries, e) : x.signal = s
        <4>1. PICK x \in Sto!Pushed(e) : TRUE
          BY <1>1, <1>3, <2>1, <3>3
        <4>2. x.signal = s /\ x \in Left(entries, e)
          BY <1>1, <2>1, <4>1 DEF FollowsEntry, Left
        <4>3. QED  BY <4>2
      <3>4. QED  BY <3>2, <3>3
    <2>2. CASE s # e.signal
      <3>1. Done(out, s) = Done(rows, s)
        BY <1>4, <2>2
      <3>2. /\ Done(rows, s) \in Nat /\ Done(rows, s) <= Sto!Count(rings[s])
            /\ Done(rows, s) < Sto!Count(rings[s]) => \E x \in entries : x.signal = s
        BY <1>2 DEF EntriesFit
      <3>3. \A x \in entries : x.signal = s => x \in Left(entries, e)
        BY <2>2 DEF Left
      <3>4. QED  BY <3>1, <3>2, <3>3
    <2>3. QED  BY <2>1, <2>2
  <1>11. QED  BY <1>7, <1>8, <1>9, <1>10 DEF EntriesFit

\* The order of the keys.
LEMMA KeysCompare ==
    ASSUME NEW x, x.time \in Nat, x.occurrence \in Nat,
           NEW y, y.time \in Nat, y.occurrence \in Nat,
           NEW z, z.time \in Nat, z.occurrence \in Nat
    PROVE  /\ KeyLess(x, y) /\ KeyLess(y, z) => KeyLess(x, z)
           /\ KeyLess(x, y) /\ SameKey(y, z) => KeyLess(x, z)
           /\ SameKey(x, y) /\ KeyLess(y, z) => KeyLess(x, z)
           /\ SameKey(x, y) /\ SameKey(z, y) => SameKey(x, z)
           /\ SameKey(x, y) => ~KeyLess(x, y) /\ ~KeyLess(y, x) /\ SameKey(y, x)
           /\ Sto!Before(x, y) => KeyLess(x, y) \/ SameKey(x, y)
  BY DEF KeyLess, SameKey, Sto!Before

\* Where the rows after a turn come from.
LEMMA TurnRows ==
    ASSUME NEW n, NEW entries, NEW rows, NEW e, NEW out, Turn(entries, rows, n, e, out)
    PROVE  /\ out \in Seq(RowsOf(n)) /\ rows \in Seq(RowsOf(n))
           /\ Len(out) \in Nat \ {0} /\ Len(rows) \in Nat
           /\ \A i \in 1..Len(rows) : rows[i].time \in Nat /\ rows[i].occurrence \in Nat
           /\ \A i \in 1..Len(out) : out[i].time \in Nat /\ out[i].occurrence \in Nat
           /\ \A y \in entries : y.time \in Nat /\ y.occurrence \in Nat /\ y.signal \in 1..n
           /\ e \in entries
           /\ \A i \in 1..(Len(out) - 1) : i \in 1..Len(rows) /\ out[i] = rows[i]
           /\ Len(out) \in 1..Len(rows) => Len(out) = Len(rows) /\ SameKey(rows[Len(out)], e)
           /\ Len(out) \notin 1..Len(rows) => Len(out) = Len(rows) + 1
                /\ (Len(rows) \in 1..Len(rows) => ~SameKey(rows[Len(rows)], e))
           /\ SameKey(out[Len(out)], e)
  <1>1. Grown(out, rows, n, e, Sto!At(rings[e.signal], e.index).value)
    BY DEF Turn
  <1>2. /\ out \in Seq(RowsOf(n)) /\ Len(out) \in Nat \ {0}
        /\ \/ Len(out) = Len(rows) /\ SameKey(rows[Len(rows)], e)
           \/ Len(out) = Len(rows) + 1 /\ (rows # <<>> => ~SameKey(rows[Len(rows)], e))
        /\ SameKey(out[Len(out)], e)
        /\ \A i \in 1..(Len(out) - 1) : out[i] = rows[i]
    BY <1>1 DEF Grown
  <1>3. rows \in Seq(RowsOf(n)) /\ entries \in SUBSET EntriesOf(n) /\ e \in entries
    BY DEF Turn, HeapInv
  <1>4. Len(rows) \in Nat /\ (rows # <<>> <=> Len(rows) # 0)
    BY <1>3, EmptySeq
  <1>5. /\ \A i \in 1..Len(rows) : rows[i].time \in Nat /\ rows[i].occurrence \in Nat
        /\ \A i \in 1..Len(out) : out[i].time \in Nat /\ out[i].occurrence \in Nat
    BY <1>2, <1>3, RowAt
  <1>6. \A y \in entries : y.time \in Nat /\ y.occurrence \in Nat /\ y.signal \in 1..n
    BY <1>3 DEF EntriesOf
  <1>7. \A i \in 1..(Len(out) - 1) : i \in 1..Len(rows)
    BY <1>2, <1>4
  <1>8. /\ Len(out) \in 1..Len(rows) => Len(out) = Len(rows)
        /\ Len(out) = Len(rows) => Len(out) \in 1..Len(rows) /\ Len(out) # Len(rows) + 1
    BY <1>2, <1>4
  <1>9. Len(rows) \in 1..Len(rows) => rows # <<>>
    BY <1>4
  <1>10. QED  BY <1>2, <1>3, <1>4, <1>5, <1>6, <1>7, <1>8, <1>9, Zenon

\* The keys of the rows still rise after a turn.
LEMMA TurnRises ==
    ASSUME NEW n, NEW entries, NEW rows, NEW e, NEW out, Turn(entries, rows, n, e, out)
    PROVE  RowsRise(out)
  <1> DEFINE k == Len(rows)
             top == Len(out)
  <1>1. /\ top \in Nat \ {0} /\ k \in Nat
        /\ \A i \in 1..k : rows[i].time \in Nat /\ rows[i].occurrence \in Nat
        /\ \A i \in 1..top : out[i].time \in Nat /\ out[i].occurrence \in Nat
        /\ e.time \in Nat /\ e.occurrence \in Nat
        /\ \A i \in 1..(top - 1) : i \in 1..k /\ out[i] = rows[i]
        /\ top \in 1..k => top = k /\ SameKey(rows[top], e)
        /\ top \notin 1..k => top = k + 1 /\ (k \in 1..k => ~SameKey(rows[k], e))
        /\ SameKey(out[top], e)
    BY TurnRows
  <1>2. /\ \A i, j \in 1..k : i < j => KeyLess(rows[i], rows[j])
        /\ \A i \in 1..k : KeyLess(rows[i], e) \/ SameKey(rows[i], e)
    BY DEF Turn, HeapInv, RowsRise, EntriesAhead
  <1> HIDE DEF k, top
  <1>3. ASSUME NEW i \in 1..(top - 1)
        PROVE  KeyLess(rows[i], e)
    <2>1. i \in 1..k
      BY <1>1
    <2>2. CASE top \in 1..k
      <3>1. i < top /\ KeyLess(rows[i], rows[top])
        BY <1>1, <1>2, <2>1, <2>2
      <3>2. QED  BY <1>1, <2>1, <2>2, <3>1, KeysCompare
    <2>3. CASE top \notin 1..k
      <3>1. k \in 1..k /\ top = k + 1
        BY <1>1, <2>1, <2>3
      <3>2. KeyLess(rows[k], e)
        BY <1>1, <1>2, <2>3, <3>1
      <3>3. CASE i = k
        BY <3>2, <3>3
      <3>4. CASE i # k
        <4>1. KeyLess(rows[i], rows[k])
          BY <1>1, <1>2, <2>1, <3>1, <3>4
        <4>2. QED  BY <1>1, <2>1, <3>1, <3>2, <4>1, KeysCompare
      <3>5. QED  BY <3>3, <3>4
    <2>4. QED  BY <2>2, <2>3
  <1>4. ASSUME NEW i \in 1..top, NEW j \in 1..top, i < j
        PROVE  KeyLess(out[i], out[j])
    <2>1. i \in 1..(top - 1) /\ i \in 1..k /\ out[i] = rows[i]
      BY <1>1, <1>4
    <2>2. CASE j = top
      <3>1. SameKey(e, out[top]) /\ top \in 1..top
        <4>1. top \in 1..top
          BY <1>1
        <4>2. QED  BY <1>1, <4>1, KeysCompare
      <3>2. KeyLess(rows[i], e)
        BY <1>3, <2>1
      <3>3. KeyLess(rows[i], out[top])
        BY <1>1, <2>1, <3>1, <3>2, KeysCompare
      <3>4. QED  BY <2>1, <2>2, <3>3
    <2>3. CASE j # top
      <3>1. j \in 1..(top - 1) /\ j \in 1..k /\ out[j] = rows[j]
        BY <1>1, <2>3
      <3>2. QED  BY <1>2, <1>4, <2>1, <3>1
    <2>4. QED  BY <2>2, <2>3
  <1>5. QED  BY <1>4 DEF RowsRise, top

\* The entries left belong into the last row or behind it.
LEMMA TurnAhead ==
    ASSUME NEW n, NEW entries, NEW rows, NEW e, NEW out, Turn(entries, rows, n, e, out)
    PROVE  EntriesAhead(Left(entries, e), out)
  <1> DEFINE k == Len(rows)
             top == Len(out)
  <1>1. /\ top \in Nat \ {0} /\ k \in Nat
        /\ \A i \in 1..k : rows[i].time \in Nat /\ rows[i].occurrence \in Nat
        /\ \A i \in 1..top : out[i].time \in Nat /\ out[i].occurrence \in Nat
        /\ \A y \in entries : y.time \in Nat /\ y.occurrence \in Nat /\ y.signal \in 1..n
        /\ e \in entries
        /\ \A i \in 1..(top - 1) : i \in 1..k /\ out[i] = rows[i]
        /\ top \in 1..k => top = k /\ SameKey(rows[top], e)
        /\ SameKey(out[top], e)
    <2>1. /\ top \in Nat \ {0} /\ k \in Nat
          /\ \A i \in 1..k : rows[i].time \in Nat /\ rows[i].occurrence \in Nat
          /\ \A i \in 1..top : out[i].time \in Nat /\ out[i].occurrence \in Nat
      BY TurnRows
    <2>2. /\ \A y \in entries : y.time \in Nat /\ y.occurrence \in Nat /\ y.signal \in 1..n
          /\ e \in entries
      BY TurnRows
    <2>3. /\ \A i \in 1..(top - 1) : i \in 1..k /\ out[i] = rows[i]
          /\ top \in 1..k => top = k /\ SameKey(rows[top], e)
          /\ SameKey(out[top], e)
      BY TurnRows
    <2>4. QED  BY <2>1, <2>2, <2>3
  <1>2. /\ \A x \in entries : \A i \in 1..k :
            KeyLess(rows[i], x) \/ (SameKey(rows[i], x) /\ x.signal \notin DOMAIN rows[i].values)
        /\ \A y \in entries : Sto!Before(e, y)
    BY DEF Turn, HeapInv, EntriesAhead
  <1>3. \A s \in (1..n) \ {e.signal} :
            s \in DOMAIN out[top].values => top = k /\ s \in DOMAIN rows[k].values
    BY DEF Turn, Grown
  <1>4. /\ \A y \in Sto!Pushed(e) : FollowsEntry(y, e, n)
        /\ \A y \in entries : y # e => y.signal # e.signal
    BY TurnFacts
  <1>5. top \in 1..top
    BY <1>1
  <1> HIDE DEF k, top
  <1>6. \A i \in 1..top : KeyLess(out[i], e) \/ SameKey(out[i], e)
    <2> SUFFICES ASSUME NEW i \in 1..top PROVE KeyLess(out[i], e) \/ SameKey(out[i], e)
      OBVIOUS
    <2>1. CASE i = top
      BY <1>1, <2>1
    <2>2. CASE i # top
      <3>1. i \in 1..(top - 1)
        BY <1>1, <2>2
      <3>2. QED  BY <1>1, <1>2, <3>1
    <2>3. QED  BY <2>1, <2>2
  <1>7. ASSUME NEW x \in Sto!Pushed(e), NEW i \in 1..top
        PROVE  KeyLess(out[i], x)
    <2>1. KeyLess(e, x) /\ x.time \in Nat /\ x.occurrence \in Nat
      BY <1>4 DEF FollowsEntry, EntriesOf
    <2>2. QED  BY <1>1, <1>6, <2>1, KeysCompare
  <1>8. ASSUME NEW x \in entries, x # e, NEW i \in 1..top
        PROVE  KeyLess(out[i], x) \/ (SameKey(out[i], x) /\ x.signal \notin DOMAIN out[i].values)
    <2>1. CASE i # top
      <3>1. i \in 1..(top - 1)
        BY <1>1, <2>1
      <3>2. QED  BY <1>1, <1>2, <3>1
    <2>2. CASE i = top
      <3>1. KeyLess(e, x) \/ SameKey(e, x)
        BY <1>1, <1>2, KeysCompare
      <3>2. CASE KeyLess(e, x)
        BY <1>1, <1>5, <2>2, <3>2, KeysCompare
      <3>3. CASE SameKey(e, x)
        <4>1. SameKey(out[i], x)
          BY <1>1, <2>2, <3>3 DEF SameKey
        <4>2. ASSUME x.signal \in DOMAIN out[top].values
              PROVE  FALSE
          <5>1. x.signal \in (1..n) \ {e.signal}
            BY <1>1, <1>4, <1>8
          <5>2. top = k /\ x.signal \in DOMAIN rows[k].values
            BY <1>3, <4>2, <5>1
          <5>3. top \in 1..k /\ SameKey(rows[top], e)
            BY <1>1, <1>5, <5>2
          <5>4. SameKey(rows[top], x)
            BY <3>3, <5>3 DEF SameKey
          <5>5. ~KeyLess(rows[top], x)
            BY <1>1, <5>3, <5>4, KeysCompare
          <5>6. QED  BY <1>2, <5>2, <5>3, <5>5
        <4>3. QED  BY <2>2, <4>1, <4>2
      <3>4. QED  BY <3>1, <3>2, <3>3
    <2>3. QED  BY <2>1, <2>2
  <1>9. QED  BY <1>7, <1>8 DEF EntriesAhead, Left, top

\* The samples in the rows are still in their places after a turn.
LEMMA TurnShows ==
    ASSUME NEW n, NEW entries, NEW rows, NEW e, NEW out, Turn(entries, rows, n, e, out)
    PROVE  RowsShow(out, n)
  <1> DEFINE k == Len(rows)
             top == Len(out)
             u == e.signal
             Shown(rs, s, i) == LET sample == Sto!At(rings[s], Cardinality(Own(rs, s, i)) - 1)
                                IN rs[i].time = sample.time /\ rs[i].values[s] = sample.value
  <1>1. /\ top \in Nat \ {0} /\ k \in Nat
        /\ \A i \in 1..(top - 1) : i \in 1..k /\ out[i] = rows[i]
        /\ top \in 1..k => top = k /\ SameKey(rows[top], e)
        /\ SameKey(out[top], e)
    BY TurnRows
  <1>2. \A s \in 1..n : \A i \in Own(rows, s, k) : Shown(rows, s, i)
    BY DEF Turn, HeapInv, RowsShow
  <1>3. /\ out[top].values[u] = Sto!At(rings[u], e.index).value
        /\ \A s \in (1..n) \ {u} :
            s \in DOMAIN out[top].values => out[top].values[s] = rows[k].values[s]
    BY DEF Turn, Grown
  <1>4. e.index = Done(rows, u) /\ e.time = Sto!At(rings[u], e.index).time
    BY TurnFacts
  <1>5. /\ Done(rows, u) \in Nat /\ Done(out, u) = Done(rows, u) + 1
        /\ \A s \in (1..n) \ {u} :
            /\ Own(out, s, top) = Own(rows, s, k)
            /\ top \in Own(rows, s, k) => top = k /\ Own(out, s, top) = Own(rows, s, top)
        /\ \A s \in 1..n : \A i \in 1..(top - 1) : Own(out, s, i) = Own(rows, s, i)
    BY DEF Turn, OwnGrows
  <1>6. Cardinality(Own(out, u, top)) - 1 = e.index
    BY <1>4, <1>5 DEF Done, top
  <1> HIDE DEF k, top, u
  <1>7. ASSUME NEW s \in 1..n, NEW i \in Own(out, s, top)
        PROVE  Shown(out, s, i)
    <2>1. i \in 1..top /\ s \in DOMAIN out[i].values
      BY DEF Own
    <2>2. CASE i # top
      <3>1. i \in 1..(top - 1)
        BY <1>1, <2>1, <2>2
      <3>2. i \in Own(rows, s, k) /\ out[i] = rows[i]
        BY <1>1, <2>1, <3>1 DEF Own
      <3>3. Own(out, s, i) = Own(rows, s, i)
        BY <1>5, <3>1
      <3>4. Shown(rows, s, i)
        BY <1>2, <3>2
      <3>5. QED  BY <3>2, <3>3, <3>4
    <2>3. CASE i = top /\ s = u
      <3>1. out[top].time = e.time
        BY <1>1 DEF SameKey
      <3>2. QED  BY <1>3, <1>4, <1>6, <2>3, <3>1
    <2>4. CASE i = top /\ s # u
      <3>1. Own(out, s, top) = Own(rows, s, k)
        BY <1>5, <2>4
      <3>2. top \in Own(rows, s, k)
        BY <2>4, <3>1
      <3>3. top = k /\ Own(out, s, top) = Own(rows, s, top) /\ top \in 1..k
        BY <1>5, <2>4, <3>2 DEF Own
      <3>4. out[top].time = rows[top].time
        BY <1>1, <3>3 DEF SameKey
      <3>5. out[top].values[s] = rows[top].values[s]
        BY <1>3, <2>1, <2>4, <3>3
      <3>6. Shown(rows, s, top)
        BY <1>2, <3>2
      <3>7. QED  BY <2>4, <3>3, <3>4, <3>5, <3>6
    <2>5. QED  BY <2>2, <2>3, <2>4
  <1>8. QED  BY <1>7 DEF RowsShow, top

\* The occurrences of a time are still without a gap after a turn.
LEMMA TurnInTurn ==
    ASSUME NEW n, NEW entries, NEW rows, NEW e, NEW out, Turn(entries, rows, n, e, out)
    PROVE  InTurn(Left(entries, e), out, n)
  <1> DEFINE k == Len(rows)
             top == Len(out)
             u == e.signal
  <1>1. /\ top \in Nat \ {0} /\ k \in Nat
        /\ \A y \in entries : y.time \in Nat /\ y.occurrence \in Nat /\ y.signal \in 1..n
        /\ e \in entries
        /\ \A i \in 1..(top - 1) : i \in 1..k /\ out[i] = rows[i]
        /\ top \in 1..k => top = k /\ SameKey(rows[top], e)
        /\ SameKey(out[top], e)
    BY TurnRows
  <1>2. /\ \A x \in entries : \A o \in 0..(x.occurrence - 1) : HasRow(rows, x.signal, x.time, o)
        /\ \A i \in 1..k : \A s \in (DOMAIN rows[i].values) \intersect (1..n) :
            \A o \in 0..(rows[i].occurrence - 1) : HasRow(rows, s, rows[i].time, o)
    BY DEF Turn, HeapInv, InTurn
  <1>3. ASSUME NEW s \in 1..n, NEW time, NEW o, HasRow(rows, s, time, o)
        PROVE  HasRow(out, s, time, o)
    <2>1. /\ rows \in Seq(RowsOf(n)) /\ e \in EntriesOf(n)
          /\ Grown(out, rows, n, e, Sto!At(rings[e.signal], e.index).value)
      BY TurnFacts DEF Turn, HeapInv
    <2>2. QED  BY <1>3, <2>1, RowsStay
  <1>4. /\ u \in DOMAIN out[top].values
        /\ \A s \in (1..n) \ {u} :
            s \in DOMAIN out[top].values => top = k /\ s \in DOMAIN rows[k].values
    BY DEF Turn, Grown
  <1>5. \A y \in Sto!Pushed(e) : FollowsEntry(y, e, n)
    BY TurnFacts
  <1>6. /\ u \in 1..n /\ e.time \in Nat /\ e.occurrence \in Nat
        /\ out[top].time = e.time /\ out[top].occurrence = e.occurrence
    BY <1>1 DEF SameKey
  <1>7. top \in 1..top
    BY <1>1
  <1>8. \A o \in 0..(e.occurrence - 1) : HasRow(out, u, e.time, o)
    BY <1>1, <1>2, <1>3
  <1> HIDE DEF k, u
  <1>9. ASSUME NEW i \in 1..top, NEW s \in (DOMAIN out[i].values) \intersect (1..n),
               NEW o \in 0..(out[i].occurrence - 1)
        PROVE  HasRow(out, s, out[i].time, o)
    <2>1. CASE i # top
      <3>1. i \in 1..(top - 1)
        BY <1>1, <2>1
      <3>2. i \in 1..k /\ out[i] = rows[i]
        BY <1>1, <3>1
      <3>3. HasRow(rows, s, rows[i].time, o)
        BY <1>2, <3>2
      <3>4. QED  BY <1>3, <3>2, <3>3
    <2>2. CASE i = top /\ s = u
      BY <1>6, <1>8, <2>2
    <2>3. CASE i = top /\ s # u
      <3>1. top = k /\ s \in DOMAIN rows[k].values
        BY <1>4, <2>3
      <3>2. top \in 1..k /\ rows[top].time = e.time /\ rows[top].occurrence = e.occurrence
        BY <1>1, <1>7, <3>1 DEF SameKey
      <3>3. HasRow(rows, s, rows[top].time, o)
        BY <1>2, <1>6, <2>3, <3>1, <3>2
      <3>4. QED  BY <1>3, <1>6, <2>3, <3>2, <3>3
    <2>4. QED  BY <2>1, <2>2, <2>3
  <1>10. ASSUME NEW x \in Left(entries, e), NEW o \in 0..(x.occurrence - 1)
         PROVE  HasRow(out, x.signal, x.time, o)
    <2>1. CASE x \in entries
      BY <1>1, <1>2, <1>3, <2>1
    <2>2. CASE x \in Sto!Pushed(e)
      <3>1. /\ x.signal = u
            /\ IF x.time = e.time THEN x.occurrence = e.occurrence + 1 ELSE x.occurrence = 0
        BY <1>5, <2>2 DEF FollowsEntry, u
      <3>2. x.time = e.time /\ o \in 0..e.occurrence
        BY <1>6, <3>1
      <3>3. CASE o = e.occurrence
        BY <1>4, <1>6, <1>7, <3>1, <3>2, <3>3 DEF HasRow
      <3>4. CASE o # e.occurrence
        <4>1. o \in 0..(e.occurrence - 1)
          BY <1>6, <3>2, <3>4
        <4>2. QED  BY <1>8, <3>1, <3>2, <4>1
      <3>5. QED  BY <3>3, <3>4
    <2>3. QED  BY <2>1, <2>2 DEF Left
  <1>11. QED  BY <1>9, <1>10 DEF InTurn

\* The merge goes on as long as there are entries.
LEMMA TurnTaken ==
    ASSUME NEW n, Readable(n), NEW heap, HeapInv(heap.pending, heap.rows, n), heap.pending # {}
    PROVE  \E e \in heap.pending :
                /\ Turn(heap.pending, heap.rows, n, e, Sto!Popped(heap).rows)
                /\ Sto!Popped(heap).pending = Left(heap.pending, e)
  <1> DEFINE entries == heap.pending
             rows == heap.rows
             e == CHOOSE x \in entries : \A y \in entries : Sto!Before(x, y)
             out == Sto!Popped(heap).rows
  <1>1. /\ entries \in SUBSET EntriesOf(n) /\ rows \in Seq(RowsOf(n))
        /\ EntriesFit(entries, rows, n) /\ EntriesAhead(entries, rows)
    BY DEF HeapInv
  <1>2. e \in entries /\ \A y \in entries : Sto!Before(e, y)
    <2>1. \E x \in entries : \A y \in entries : Sto!Before(x, y)
      BY <1>1, FirstOfEntries DEF Readable
    <2> HIDE DEF entries
    <2>2. QED  BY <2>1
  <1>3. /\ out = Sto!Entered(rows, e)
        /\ Sto!Popped(heap).pending = Left(entries, e)
    <2>1. Sto!Popped(heap) = [pending |-> (entries \ {e}) \union Sto!Pushed(e),
                              rows |-> Sto!Entered(rows, e)]
      BY DEF Sto!Popped
    <2> HIDE DEF entries, rows, e
    <2>2. QED  BY <2>1 DEF Left
  <1> HIDE DEF entries, rows, e, out
  <1>4. e \in EntriesOf(n) /\ e.signal \in 1..n /\ e.index \in Nat
    BY <1>1, <1>2 DEF EntriesOf
  <1>5. Sto!At(rings[e.signal], e.index).value \in SampleValues
    <2>1. e.index < Sto!Count(rings[e.signal]) /\ Sto!Count(rings[e.signal]) \in Nat
      BY <1>1, <1>2, <1>4 DEF EntriesFit, Readable, TimesRise
    <2>2. e.index \in 0..(Sto!Count(rings[e.signal]) - 1)
      BY <1>4, <2>1
    <2>3. QED  BY <1>4, <2>2 DEF Readable
  <1>6. Grown(out, rows, n, e, Sto!At(rings[e.signal], e.index).value)
    BY <1>1, <1>3, <1>4, <1>5, EnteredIs
  <1>7. \A i \in 1..Len(rows) : SameKey(rows[i], e) => e.signal \notin DOMAIN rows[i].values
    <2> SUFFICES ASSUME NEW i \in 1..Len(rows), SameKey(rows[i], e)
                 PROVE  e.signal \notin DOMAIN rows[i].values
      OBVIOUS
    <2>1. rows[i].time \in Nat /\ rows[i].occurrence \in Nat
      BY <1>1, RowAt
    <2>2. e.time \in Nat /\ e.occurrence \in Nat
      BY <1>4 DEF EntriesOf
    <2>3. ~KeyLess(rows[i], e)
      BY <2>1, <2>2 DEF KeyLess, SameKey
    <2>4. QED  BY <1>1, <1>2, <2>3 DEF EntriesAhead
  <1>8. OwnGrows(out, rows, n, e)
    BY <1>1, <1>4, <1>6, <1>7, OwnGrown
  <1>9. Turn(entries, rows, n, e, out)
    BY <1>2, <1>6, <1>8 DEF Turn, entries, rows
  <1>10. QED  BY <1>2, <1>3, <1>9 DEF entries, rows, out

\* A turn keeps the invariant of the merge.
LEMMA TurnKeeps ==
    ASSUME NEW n, NEW entries, NEW rows, NEW e, NEW out, Turn(entries, rows, n, e, out)
    PROVE  HeapInv(Left(entries, e), out, n)
  <1>1. out \in Seq(RowsOf(n))
    BY TurnRows
  <1>2. QED  BY <1>1, TurnFits, TurnRises, TurnAhead, TurnShows, TurnInTurn DEF HeapInv

\* The samples held that are in no row yet.
Remaining(rows) == {h \in Sto!Held : h[2] >= Done(rows, h[1])}

\* The samples held are finitely many.
LEMMA HeldIs ==
    ASSUME NEW n, Readable(n)
    PROVE  /\ IsFiniteSet(Sto!Held) /\ Cardinality(Sto!Held) \in Nat
           /\ \A h \in Sto!Held : /\ h = <<h[1], h[2]>> /\ h[1] \in 1..n /\ h[2] \in Nat
                                  /\ h[2] < Sto!Count(rings[h[1]])
           /\ \A s \in 1..n, i \in Nat : i < Sto!Count(rings[s]) => <<s, i>> \in Sto!Held
  <1> DEFINE S == (1..n) \X (0..(size.capacity - 1))
  <1>1. /\ n \in Nat /\ DOMAIN rings = 1..n /\ size.capacity \in Nat
        /\ \A s \in 1..n : Sto!Count(rings[s]) \in Nat /\ Sto!Count(rings[s]) <= size.capacity
    BY DEF Readable, TimesRise
  <1>2. Sto!Held = {h \in S : h[2] < Sto!Count(rings[h[1]])}
    BY <1>1 DEF Sto!Held
  <1>3. IsFiniteSet(S)
    <2>1. IsFiniteSet(1..n) /\ IsFiniteSet(0..(size.capacity - 1))
      BY <1>1, FS_Interval, SMTT(30)
    <2>2. QED  BY <2>1, FS_Product
  <1>4. IsFiniteSet(Sto!Held) /\ Cardinality(Sto!Held) \in Nat
    <2>1. Sto!Held \in SUBSET S
      BY <1>2
    <2> HIDE DEF S
    <2>2. IsFiniteSet(Sto!Held)
      BY <1>3, <2>1, FS_Subset
    <2>3. QED  BY <2>2, FS_CardinalityType
  <1>5. \A h \in Sto!Held : /\ h = <<h[1], h[2]>> /\ h[1] \in 1..n /\ h[2] \in Nat
                            /\ h[2] < Sto!Count(rings[h[1]])
    BY <1>2
  <1>6. ASSUME NEW s \in 1..n, NEW i \in Nat, i < Sto!Count(rings[s])
        PROVE  <<s, i>> \in Sto!Held
    <2>1. i \in 0..(size.capacity - 1)
      BY <1>1, <1>6
    <2>2. <<s, i>> \in S /\ <<s, i>>[1] = s /\ <<s, i>>[2] = i
      BY <2>1
    <2> HIDE DEF S
    <2>3. <<s, i>>[2] < Sto!Count(rings[<<s, i>>[1]])
      BY <1>6, <2>2
    <2>4. QED  BY <1>2, <2>2, <2>3
  <1>7. QED  BY <1>4, <1>5, <1>6

\* A turn puts one of the samples that remain into a row.
LEMMA TurnCounts ==
    ASSUME NEW n, NEW entries, NEW rows, NEW e, NEW out, Turn(entries, rows, n, e, out)
    PROVE  /\ Cardinality(Remaining(rows)) \in Nat
           /\ Cardinality(Remaining(out)) = Cardinality(Remaining(rows)) - 1
  <1> DEFINE u == e.signal
             p == <<u, e.index>>
  <1>1. /\ e \in EntriesOf(n) /\ e.index < Sto!Count(rings[u]) /\ e.index = Done(rows, u)
        /\ Readable(n)
    BY TurnFacts DEF Turn
  <1>2. u \in 1..n /\ e.index \in Nat
    BY <1>1 DEF EntriesOf
  <1>3. /\ IsFiniteSet(Sto!Held)
        /\ \A h \in Sto!Held : h = <<h[1], h[2]>> /\ h[1] \in 1..n /\ h[2] \in Nat
        /\ p \in Sto!Held
    BY <1>1, <1>2, HeldIs
  <1>4. p[1] = u /\ p[2] = e.index
    OBVIOUS
  <1>5. /\ Done(out, u) = e.index + 1
        /\ \A s \in (1..n) \ {u} : Done(out, s) = Done(rows, s)
    BY <1>1 DEF Turn, OwnGrows
  <1> HIDE DEF p, u
  <1>6. p \in Remaining(rows)
    BY <1>1, <1>2, <1>3, <1>4 DEF Remaining
  <1>7. ASSUME NEW h \in Sto!Held
        PROVE  h[2] >= Done(out, h[1]) <=> h[2] >= Done(rows, h[1]) /\ h # p
    <2>1. CASE h[1] = u
      <3>1. h[2] \in Nat /\ (h = p <=> h[2] = e.index)
        BY <1>3, <1>4, <2>1 DEF p
      <3>2. h[2] >= e.index + 1 <=> h[2] >= e.index /\ h[2] # e.index
        BY <1>2, <3>1
      <3>3. QED  BY <1>1, <1>5, <2>1, <3>1, <3>2
    <2>2. CASE h[1] # u
      <3>1. h # p /\ Done(out, h[1]) = Done(rows, h[1])
        BY <1>3, <1>4, <1>5, <2>2
      <3>2. QED  BY <3>1
    <2>3. QED  BY <2>1, <2>2
  <1>8. Remaining(out) = Remaining(rows) \ {p}
    BY <1>7 DEF Remaining
  <1>9. IsFiniteSet(Remaining(rows))
    <2>1. Remaining(rows) \in SUBSET Sto!Held
      BY DEF Remaining
    <2>2. QED  BY <1>3, <2>1, FS_Subset
  <1>10. Cardinality(Remaining(rows) \ {p}) = Cardinality(Remaining(rows)) - 1
    BY <1>6, <1>9, FS_RemoveElement
  <1>11. Cardinality(Remaining(rows)) \in Nat
    BY <1>9, FS_CardinalityType
  <1>12. QED  BY <1>8, <1>10, <1>11

\* The count of a set is the same whichever module names it.
LEMMA SameCardinality == \A S : Sto!Cardinality(S) = Cardinality(S)
  BY DEF Sto!Cardinality, Cardinality

\* The merge starts with the first sample of each signal and goes on turn by turn.
LEMMA MergedIs ==
    ASSUME NEW k \in Nat, k = Cardinality(Sto!Held)
    PROVE  /\ Sto!Merged[0] = [pending |-> {Sto!FirstEntry(s) : s \in
                                    {t \in DOMAIN rings : Sto!Count(rings[t]) > 0}},
                               rows |-> <<>>]
           /\ \A i \in 1..k : Sto!Merged[i] = Sto!Popped(Sto!Merged[i - 1])
  <1> DEFINE base == [pending |-> {Sto!FirstEntry(s) : s \in
                            {t \in DOMAIN rings : Sto!Count(rings[t]) > 0}},
                      rows |-> <<>>]
             Upto(i) == \E f : f = [j \in 0..i |-> IF j = 0 THEN base ELSE Sto!Popped(f[j - 1])]
             T == {i \in 0..k : Upto(i)}
  <1>1. Sto!Merged = CHOOSE f : f = [j \in 0..k |-> IF j = 0 THEN base ELSE Sto!Popped(f[j - 1])]
    <2>1. Sto!Merged = CHOOSE f : f = [j \in 0..Sto!Cardinality(Sto!Held) |->
                            IF j = 0 THEN base ELSE Sto!Popped(f[j - 1])]
      BY DEF Sto!Merged
    <2> HIDE DEF base
    <2>2. QED  BY <2>1, SameCardinality
  <1> HIDE DEF base
  <1>2. Upto(0)
    <2> DEFINE f == [j \in 0..0 |-> base]
    <2>1. f = [j \in 0..0 |-> IF j = 0 THEN base ELSE Sto!Popped(f[j - 1])]
      <3>1. \A j \in 0..0 : j = 0
        OBVIOUS
      <3>2. \A j \in 0..0 : f[j] = IF j = 0 THEN base ELSE Sto!Popped(f[j - 1])
        BY <3>1
      <3>3. QED  BY <3>2
    <2> HIDE DEF f
    <2>2. QED  BY <2>1
  <1>3. ASSUME NEW i \in 1..k, Upto(i - 1)
        PROVE  Upto(i)
    <2>1. PICK f : f = [j \in 0..(i - 1) |-> IF j = 0 THEN base ELSE Sto!Popped(f[j - 1])]
      BY <1>3
    <2> DEFINE g == [j \in 0..i |-> IF j = i THEN Sto!Popped(f[i - 1]) ELSE f[j]]
    <2>2. \A j \in 0..(i - 1) : f[j] = IF j = 0 THEN base ELSE Sto!Popped(f[j - 1])
      BY <2>1
    <2>3. \A j \in 0..(i - 1) : g[j] = f[j]
      OBVIOUS
    <2>4. g[i] = Sto!Popped(f[i - 1])
      OBVIOUS
    <2>5. ASSUME NEW j \in 0..i
          PROVE  g[j] = IF j = 0 THEN base ELSE Sto!Popped(g[j - 1])
      <3>1. CASE j = i
        <4>1. i - 1 \in 0..(i - 1) /\ i # 0
          OBVIOUS
        <4> HIDE DEF g
        <4>2. QED  BY <2>3, <2>4, <3>1, <4>1
      <3>2. CASE j # i
        <4>1. j \in 0..(i - 1) /\ (j # 0 => j - 1 \in 0..(i - 1))
          BY <3>2
        <4> HIDE DEF g
        <4>2. g[j] = f[j] /\ (j # 0 => g[j - 1] = f[j - 1])
          BY <2>3, <4>1
        <4>3. f[j] = IF j = 0 THEN base ELSE Sto!Popped(f[j - 1])
          BY <2>2, <4>1
        <4>4. QED  BY <4>2, <4>3
      <3>3. QED  BY <3>1, <3>2
    <2>6. g = [j \in 0..i |-> IF j = 0 THEN base ELSE Sto!Popped(g[j - 1])]
      BY <2>5
    <2> HIDE DEF g
    <2>7. QED  BY <2>6
  <1> HIDE DEF Upto
  <1>4. 0 \in T /\ \A i \in 1..k : i - 1 \in T => i \in T
    BY <1>2, <1>3
  <1> HIDE DEF T
  <1>5. \A i \in 0..k : i \in T
    BY <1>4, InductionUpto
  <1>6. Upto(k)
    BY <1>5 DEF T
  <1>7. Sto!Merged = [j \in 0..k |-> IF j = 0 THEN base ELSE Sto!Popped(Sto!Merged[j - 1])]
    <2> DEFINE merged == CHOOSE f : f = [j \in 0..k |-> IF j = 0 THEN base ELSE Sto!Popped(f[j - 1])]
    <2>1. merged = [j \in 0..k |-> IF j = 0 THEN base ELSE Sto!Popped(merged[j - 1])]
      BY <1>6 DEF Upto
    <2>2. Sto!Merged = merged
      BY <1>1
    <2> HIDE DEF merged
    <2>3. QED  BY <2>1, <2>2
  <1> DEFINE merged == Sto!Merged
  <1>8. merged = [j \in 0..k |-> IF j = 0 THEN base ELSE Sto!Popped(merged[j - 1])]
    BY <1>7
  <1> HIDE DEF merged
  <1>9. merged[0] = base /\ \A i \in 1..k : merged[i] = Sto!Popped(merged[i - 1])
    BY <1>8
  <1>10. QED  BY <1>9 DEF merged, base

\* The invariant of the merge holds at the start.
LEMMA MergeStarts ==
    ASSUME NEW n, Readable(n), NEW entries,
           entries = {Sto!FirstEntry(s) : s \in {t \in DOMAIN rings : Sto!Count(rings[t]) > 0}}
    PROVE  /\ HeapInv(entries, <<>>, n) /\ Remaining(<<>>) = Sto!Held
  <1>1. DOMAIN rings = 1..n /\ \A s \in 1..n : Sto!Count(rings[s]) \in Nat
    BY DEF Readable, TimesRise
  <1>2. Len(<<>>) = 0 /\ \A i \in 1..0 : FALSE
    OBVIOUS
  <1>3. \A s : Done(<<>>, s) = 0
    <2>1. \A s : Own(<<>>, s, Len(<<>>)) = {}
      BY <1>2 DEF Own
    <2>2. QED  BY <2>1, FS_EmptySet DEF Done
  <1>4. ASSUME NEW s \in 1..n, Sto!Count(rings[s]) > 0
        PROVE  /\ Sto!FirstEntry(s) \in EntriesOf(n) /\ Sto!FirstEntry(s).signal = s
               /\ Sto!FirstEntry(s).index = 0 /\ Sto!FirstEntry(s).occurrence = 0
               /\ Sto!FirstEntry(s).time = Sto!At(rings[s], 0).time
    <2>1. 0 \in 0..(Sto!Count(rings[s]) - 1)
      BY <1>1, <1>4
    <2>2. Sto!At(rings[s], 0).time \in Nat
      BY <2>1 DEF Readable, TimesRise
    <2>3. QED  BY <2>2 DEF Sto!FirstEntry, EntriesOf
  <1>5. \A x \in entries : \E s \in 1..n : Sto!Count(rings[s]) > 0 /\ x = Sto!FirstEntry(s)
    BY <1>1
  <1>6. \A s \in 1..n : Sto!Count(rings[s]) > 0 => Sto!FirstEntry(s) \in entries
    BY <1>1
  <1>7. entries \in SUBSET EntriesOf(n)
    BY <1>4, <1>5
  <1>8. EntriesFit(entries, <<>>, n)
    <2>1. \A x \in entries : /\ x.index < Sto!Count(rings[x.signal])
                             /\ x.index = Done(<<>>, x.signal)
                             /\ x.time = Sto!At(rings[x.signal], x.index).time
      BY <1>3, <1>4, <1>5
    <2>2. \A x, y \in entries : x.signal = y.signal => x = y
      BY <1>4, <1>5
    <2>3. \A s \in 1..n :
            /\ Done(<<>>, s) \in Nat /\ Done(<<>>, s) <= Sto!Count(rings[s])
            /\ Done(<<>>, s) < Sto!Count(rings[s]) => \E x \in entries : x.signal = s
      BY <1>1, <1>3, <1>4, <1>6, SMTT(30)
    <2>4. QED  BY <2>1, <2>2, <2>3 DEF EntriesFit
  <1>9. RowsRise(<<>>) /\ EntriesAhead(entries, <<>>)
    BY <1>2 DEF RowsRise, EntriesAhead
  <1>10. RowsShow(<<>>, n)
    BY <1>2 DEF RowsShow, Own
  <1>11. InTurn(entries, <<>>, n)
    <2>1. \A x \in entries : x.occurrence = 0
      BY <1>4, <1>5
    <2>2. \A o \in 0..(0 - 1) : FALSE
      OBVIOUS
    <2>3. QED  BY <1>2, <2>1, <2>2 DEF InTurn
  <1>12. <<>> \in Seq(RowsOf(n))
    BY EmptySeq
  <1>13. Remaining(<<>>) = Sto!Held
    <2>1. \A h \in Sto!Held : h[2] \in Nat
      BY HeldIs
    <2>2. \A h \in Sto!Held : h[2] >= 0
      BY <2>1
    <2>3. QED  BY <1>3, <2>2 DEF Remaining
  <1>14. QED  BY <1>7, <1>8, <1>9, <1>10, <1>11, <1>12, <1>13 DEF HeapInv

\* While samples remain a turn is taken, and one sample less remains.
LEMMA TurnsGoOn ==
    ASSUME NEW n, Readable(n), NEW heap, HeapInv(heap.pending, heap.rows, n),
           Cardinality(Remaining(heap.rows)) \in Nat \ {0}
    PROVE  /\ HeapInv(Sto!Popped(heap).pending, Sto!Popped(heap).rows, n)
           /\ Cardinality(Remaining(Sto!Popped(heap).rows)) = Cardinality(Remaining(heap.rows)) - 1
  <1>1. PICK h \in Remaining(heap.rows) : TRUE
    <2>1. Remaining(heap.rows) # {}
      BY FS_EmptySet
    <2>2. QED  BY <2>1
  <1>2. /\ h \in Sto!Held /\ h[2] >= Done(heap.rows, h[1])
        /\ h[1] \in 1..n /\ h[2] \in Nat /\ h[2] < Sto!Count(rings[h[1]])
    BY <1>1, HeldIs DEF Remaining
  <1>3. EntriesFit(heap.pending, heap.rows, n) /\ Sto!Count(rings[h[1]]) \in Nat
    BY <1>2 DEF HeapInv, Readable, TimesRise
  <1>4. Done(heap.rows, h[1]) \in Nat
    BY <1>2, <1>3 DEF EntriesFit
  <1>5. Done(heap.rows, h[1]) < Sto!Count(rings[h[1]])
    BY <1>2, <1>3, <1>4
  <1>6. heap.pending # {}
    BY <1>2, <1>3, <1>5 DEF EntriesFit
  <1>7. PICK e \in heap.pending :
            /\ Turn(heap.pending, heap.rows, n, e, Sto!Popped(heap).rows)
            /\ Sto!Popped(heap).pending = Left(heap.pending, e)
    BY <1>6, TurnTaken
  <1>8. HeapInv(Left(heap.pending, e), Sto!Popped(heap).rows, n)
    BY <1>7, TurnKeeps
  <1>9. Cardinality(Remaining(Sto!Popped(heap).rows)) = Cardinality(Remaining(heap.rows)) - 1
    BY <1>7, TurnCounts
  <1>10. QED  BY <1>7, <1>8, <1>9

\* After as many turns as samples are held, every sample of every signal is in a row.
LEMMA MergeEnds ==
    ASSUME NEW n, Readable(n)
    PROVE  /\ \E entries : HeapInv(entries, Sto!MergedRows, n)
           /\ \A s \in 1..n : Done(Sto!MergedRows, s) = Sto!Count(rings[s])
  <1> DEFINE k == Cardinality(Sto!Held)
             heap(i) == Sto!Merged[i]
             Good(i) == /\ HeapInv(heap(i).pending, heap(i).rows, n)
                        /\ Cardinality(Remaining(heap(i).rows)) = k - i
             T == {i \in 0..k : Good(i)}
  <1>1. k \in Nat /\ IsFiniteSet(Sto!Held)
    BY HeldIs
  <1>2. /\ heap(0) = [pending |-> {Sto!FirstEntry(s) : s \in
                                    {t \in DOMAIN rings : Sto!Count(rings[t]) > 0}},
                      rows |-> <<>>]
        /\ \A i \in 1..k : heap(i) = Sto!Popped(heap(i - 1))
    BY <1>1, MergedIs
  <1> HIDE DEF k, heap
  <1>3. Good(0)
    <2> DEFINE entries == {Sto!FirstEntry(s) : s \in {t \in DOMAIN rings : Sto!Count(rings[t]) > 0}}
    <2>1. heap(0).pending = entries /\ heap(0).rows = <<>>
      BY <1>2
    <2> HIDE DEF entries
    <2>2. HeapInv(entries, <<>>, n) /\ Remaining(<<>>) = Sto!Held
      BY MergeStarts DEF entries
    <2>3. k - 0 = k
      BY <1>1
    <2>4. QED  BY <2>1, <2>2, <2>3 DEF k
  <1>4. ASSUME NEW i \in 1..k, Good(i - 1)
        PROVE  Good(i)
    <2>1. heap(i) = Sto!Popped(heap(i - 1))
      BY <1>2
    <2>2. k - (i - 1) \in Nat \ {0} /\ (k - (i - 1)) - 1 = k - i
      BY <1>1
    <2>3. /\ HeapInv(Sto!Popped(heap(i - 1)).pending, Sto!Popped(heap(i - 1)).rows, n)
          /\ Cardinality(Remaining(Sto!Popped(heap(i - 1)).rows))
                = Cardinality(Remaining(heap(i - 1).rows)) - 1
      BY <1>4, <2>2, TurnsGoOn
    <2>4. QED  BY <1>4, <2>1, <2>2, <2>3
  <1> HIDE DEF Good
  <1>5. 0 \in T /\ \A i \in 1..k : i - 1 \in T => i \in T
    BY <1>1, <1>3, <1>4
  <1> HIDE DEF T
  <1>6. k \in T
    BY <1>1, <1>5, InductionUpto
  <1>7. HeapInv(heap(k).pending, heap(k).rows, n) /\ Cardinality(Remaining(heap(k).rows)) = 0
    <2>1. k - k = 0
      BY <1>1
    <2>2. QED  BY <1>6, <2>1 DEF T, Good
  <1>8. heap(k).rows = Sto!MergedRows
    BY SameCardinality DEF heap, k, Sto!MergedRows
  <1>9. Remaining(Sto!MergedRows) = {}
    <2>1. Remaining(Sto!MergedRows) \in SUBSET Sto!Held
      BY DEF Remaining
    <2>2. IsFiniteSet(Remaining(Sto!MergedRows))
      BY <1>1, <2>1, FS_Subset
    <2>3. QED  BY <1>7, <1>8, <2>2, FS_EmptySet
  <1>10. ASSUME NEW s \in 1..n
         PROVE  Done(Sto!MergedRows, s) = Sto!Count(rings[s])
    <2>1. Done(Sto!MergedRows, s) \in Nat /\ Done(Sto!MergedRows, s) <= Sto!Count(rings[s])
      BY <1>7, <1>8 DEF HeapInv, EntriesFit
    <2>2. Sto!Count(rings[s]) \in Nat
      BY DEF Readable, TimesRise
    <2>3. CASE Done(Sto!MergedRows, s) < Sto!Count(rings[s])
      <3> DEFINE h == <<s, Done(Sto!MergedRows, s)>>
      <3>1. h \in Sto!Held
        BY <2>1, <2>3, HeldIs
      <3>2. h[1] = s /\ h[2] = Done(Sto!MergedRows, s) /\ h[2] >= Done(Sto!MergedRows, s)
        BY <2>1
      <3> HIDE DEF h
      <3>3. h \in Remaining(Sto!MergedRows)
        BY <3>1, <3>2 DEF Remaining
      <3>4. QED  BY <1>9, <3>3
    <2>4. QED  BY <2>1, <2>2, <2>3
  <1>11. QED  BY <1>7, <1>8, <1>10

\* The table has every sample of every signal once, and its rows run forward.
LEMMA ExportIsComplete == StoreInv => Sto!ExportComplete
  <1> SUFFICES ASSUME StoreInv
               PROVE  Sto!ExportComplete
    OBVIOUS
  <1> DEFINE rows == Sto!MergedRows
  <1>1. PICK n \in Nat : Readable(n)
    BY StoresAreReadable DEF StoreInv
  <1>2. DOMAIN rings = 1..n
    BY <1>1 DEF Readable
  <1>3. /\ \E entries : HeapInv(entries, rows, n)
        /\ \A s \in 1..n : Done(rows, s) = Sto!Count(rings[s])
    BY <1>1, MergeEnds
  <1> HIDE DEF rows
  <1>4. PICK entries : HeapInv(entries, rows, n)
    BY <1>3
  <1>5. rows \in Seq(RowsOf(n)) /\ RowsRise(rows) /\ RowsShow(rows, n) /\ InTurn(entries, rows, n)
    BY <1>4 DEF HeapInv
  <1>6. DOMAIN rows = 1..Len(rows) /\ Len(rows) \in Nat
    BY <1>5, LenProperties
  <1>7. ASSUME NEW i \in 1..Len(rows), NEW j \in 1..Len(rows), i < j
        PROVE  \/ rows[i].time < rows[j].time
               \/ /\ rows[i].time = rows[j].time
                  /\ DOMAIN rows[j].values \subseteq DOMAIN rows[i].values
    <2>1. /\ rows[j] \in RowsOf(n) /\ rows[i].time \in Nat /\ rows[i].occurrence \in Nat
          /\ rows[j].time \in Nat /\ rows[j].occurrence \in Nat
      BY <1>5, RowAt
    <2>2. KeyLess(rows[i], rows[j])
      BY <1>5, <1>7 DEF RowsRise
    <2>3. CASE rows[i].time < rows[j].time
      BY <2>3
    <2>4. CASE rows[i].time = rows[j].time /\ rows[i].occurrence < rows[j].occurrence
      <3>1. DOMAIN rows[j].values \subseteq 1..n
        BY <2>1 DEF RowsOf
      <3>2. rows[i].occurrence \in 0..(rows[j].occurrence - 1)
        BY <2>1, <2>4
      <3>3. ASSUME NEW s \in DOMAIN rows[j].values
            PROVE  s \in DOMAIN rows[i].values
        <4>1. HasRow(rows, s, rows[j].time, rows[i].occurrence)
          BY <1>5, <3>1, <3>2 DEF InTurn
        <4>2. PICK l \in 1..Len(rows) :
                rows[l].time = rows[j].time /\ rows[l].occurrence = rows[i].occurrence
                /\ s \in DOMAIN rows[l].values
          BY <4>1 DEF HasRow
        <4>3. rows[l].time \in Nat /\ rows[l].occurrence \in Nat
          BY <1>5, RowAt
        <4>4. ~KeyLess(rows[l], rows[i]) /\ ~KeyLess(rows[i], rows[l])
          BY <2>1, <2>4, <4>2, <4>3 DEF KeyLess
        <4>5. ~(l < i) /\ ~(i < l)
          BY <1>5, <4>4 DEF RowsRise
        <4>6. l = i
          BY <1>6, <4>5
        <4>7. QED  BY <4>2, <4>6
      <3>4. QED  BY <2>4, <3>3
    <2>5. QED  BY <2>2, <2>3, <2>4 DEF KeyLess
  <1>8. ASSUME NEW s \in 1..n
        PROVE  /\ Cardinality({k \in 1..Len(rows) : s \in DOMAIN rows[k].values})
                    = Sto!Count(rings[s])
               /\ \A i \in {k \in 1..Len(rows) : s \in DOMAIN rows[k].values} :
                    LET sample == Sto!At(rings[s],
                            Cardinality({k \in 1..i : s \in DOMAIN rows[k].values}) - 1)
                    IN rows[i].time = sample.time /\ rows[i].values[s] = sample.value
    <2>1. \A i : Own(rows, s, i) = {k \in 1..i : s \in DOMAIN rows[k].values}
      BY DEF Own
    <2>2. Cardinality(Own(rows, s, Len(rows))) = Sto!Count(rings[s])
      BY <1>3 DEF Done
    <2>3. \A i \in Own(rows, s, Len(rows)) :
            LET sample == Sto!At(rings[s], Cardinality(Own(rows, s, i)) - 1)
            IN rows[i].time = sample.time /\ rows[i].values[s] = sample.value
      BY <1>5 DEF RowsShow
    <2>4. QED  BY <2>1, <2>2, <2>3
  <1>9. ASSUME NEW s \in 1..n
        PROVE  /\ Sto!Cardinality({k \in 1..Len(rows) : s \in DOMAIN rows[k].values})
                    = Sto!Count(rings[s])
               /\ \A i \in {k \in 1..Len(rows) : s \in DOMAIN rows[k].values} :
                    LET sample == Sto!At(rings[s],
                            Sto!Cardinality({k \in 1..i : s \in DOMAIN rows[k].values}) - 1)
                    IN rows[i].time = sample.time /\ rows[i].values[s] = sample.value
    BY <1>8, SameCardinality
  <1>10. QED  BY <1>2, <1>6, <1>7, <1>9, Zenon DEF Sto!ExportComplete, rows

-----------------------------------------------------------------------------
(* The parts together.                                                     *)

SvcInv ==
    /\ part = "delete" => DelInv
    /\ part = "clock" => ClkInv
    /\ part = "build" => BuildInv
    /\ part = "bundles" => BunInv
    /\ part = "observers" => ObsInv
    /\ part = "store" => StoreInv

LEMMA SvcInitInv == ServicesInit => SvcInv
  BY DelInitInv, ClkInitInv, BuildInitInv, BunInitInv, ObsInitInv, StoreInitInv,
     ServicesAssumption DEF ServicesInit, SvcInv, ServicesAssumption

LEMMA SvcNextInv == SvcInv /\ ServicesNext => SvcInv'
  <1> SUFFICES ASSUME SvcInv, ServicesNext PROVE SvcInv'
    OBVIOUS
  <1>1. CASE part = "delete" /\ part' = part /\ Del!Next
    BY <1>1, DelNextInv DEF SvcInv
  <1>2. CASE part = "clock" /\ part' = part /\ Clk!Next
    BY <1>2, ClkNextInv DEF SvcInv
  <1>3. CASE part = "build" /\ part' = part /\ Build!Next
    BY <1>3, BuildNextInv DEF SvcInv
  <1>4. CASE part = "bundles" /\ part' = part /\ Bundle!Next
    BY <1>4, BunNextInv DEF SvcInv
  <1>5. CASE part = "observers" /\ part' = part /\ Watch!Next
    BY <1>5, ObsNextInv DEF SvcInv
  <1>6. CASE part = "store" /\ part' = part /\ Sto!Next
    BY <1>6, StoreNextInv DEF SvcInv
  <1>7. QED  BY <1>1, <1>2, <1>3, <1>4, <1>5, <1>6 DEF ServicesNext

LEMMA SvcStutterInv == SvcInv /\ UNCHANGED servicesVars => SvcInv'
  <1> SUFFICES ASSUME SvcInv, UNCHANGED servicesVars PROVE SvcInv'
    OBVIOUS
  <1>1. /\ UNCHANGED <<part, where, procs, boot, lock, op, runner>>
        /\ UNCHANGED <<samples, idleSince, lastSample, failures, retryAt, sync, seen, ended,
                       pending, now>>
    BY DEF servicesVars, deleteOnly, clockOnly
  <1>2. /\ UNCHANGED <<content, object, record, elf, b, report>>
        /\ UNCHANGED <<bundle, copy, artifact, built, r>>
    BY DEF servicesVars, buildOnly, bundleOnly
  <1>3. UNCHANGED <<wall, booted, proc, freed, starts, status, c, shown>>
    BY DEF servicesVars, watchOnly
  <1>4. DelInv => DelInv'
    BY <1>1 DEF DelInv, DelTyped, DelLocked, DelPlaced, DelSaved, Del!NeverDeletesRunning
  <1>5. ClkInv => ClkInv'
    BY <1>1 DEF ClkInv, ClkTyped, ClkCounted, ClkTried, Clk!Never
  <1>6. BuildInv => BuildInv'
    <2> SUFFICES ASSUME BuildInv PROVE BuildInv'
      OBVIOUS
    <2>1. \A p \in Builds : Build!Holder(p) => BuildActive(b[p])'
      <3> SUFFICES ASSUME NEW p \in Builds, Build!Holder(p) PROVE BuildActive(b[p])'
        OBVIOUS
      <3>1. BuildActive(b[p])
        BY DEF BuildInv
      <3>2. \A s \in Sources : CompilePoint(b[p], s) => CompilePoint(b[p], s)'
        BY <1>2 DEF CompilePoint, Since, SinceExtra
      <3>3. QED  BY <1>2, <3>1, <3>2 DEF BuildActive, BuildRecord
    <2>2. QED  BY <1>2, <2>1 DEF BuildInv, Build!Holder, Build!ReportTrue
  <1>7. BunInv => BunInv'
    BY <1>2, BunSame DEF BunInv, BunTyped
  <1>8. ObsInv => ObsInv'
    BY <1>1, <1>2, <1>3 DEF ObsInv, ObsTyped, ObsProc, ObsStatus, ObsRound, Current, Watch!Alive,
                     Watch!RunningIsTrue, AfterBoot
  <1>9. StoreInv => StoreInv'
    <2>1. UNCHANGED <<size, rings, history>>
      BY DEF servicesVars, storeOnly
    <2>2. QED  BY <2>1, StoreSameInv
  <1>10. QED  BY <1>1, <1>4, <1>5, <1>6, <1>7, <1>8, <1>9 DEF SvcInv

LEMMA SvcInvariant == ServicesSpec => []SvcInv
  <1>1. SvcInv /\ [ServicesNext]_servicesVars => SvcInv'
    BY SvcNextInv, SvcStutterInv
  <1>2. QED  BY <1>1, SvcInitInv, PTL DEF ServicesSpec

\* No model runs from a directory that is being removed, and a configuration or
\* deletion that fails leaves the boot selection as it was: for every number of
\* faults, wherever they strike (model_deletion.py, model_autostart.py and the
\* runner at boot).
THEOREM DeletionIsSafe == ServicesSpec => []DeletionSafe
  <1>1. SvcInv => DeletionSafe
    BY DelSafe DEF SvcInv, DeletionSafe
  <1>2. QED  BY <1>1, SvcInvariant, PTL

\* The clock is set only after enough quiet samples without a gap, at most once
\* for a connection and with a bounded number of attempts, for every number of
\* samples, idle time, gap and delay (target_clock.py).
THEOREM SyncsAreQuiet == ServicesSpec => []SyncsQuietly
  <1>1. SvcInv => SyncsQuietly
    BY ClkSafe DEF SvcInv, SyncsQuietly
  <1>2. QED  BY <1>1, SvcInvariant, PTL

\* What a build takes from the cache is what its key compiles to, and a report of
\* success is of the ELF beside it, for every set of sources, of builds, of edits
\* and of kills (build_model.py: compile_one, build and main).  Both hold up to
\* a header that was under src during a compile and is listed by no key: the
\* object may have been made with it, and neither record nor report tells.
THEOREM BuildsAreTrue == ServicesSpec => []BuildTrue
  <1>1. SvcInv => BuildTrue
    BY BuildSafe DEF SvcInv, BuildTrue
  <1>2. QED  BY <1>1, SvcInvariant, PTL

\* A model reported as delivered has an ELF of the version the report names, and
\* the report of a delivery that has ended leaves no model open, for every number
\* of models and of invocations with the same output (build_local_bundles.py).
THEOREM DeliveriesAreTrue == ServicesSpec => []DeliveryTrue
  <1>1. SvcInv => DeliveryTrue
    BY BunSafe DEF SvcInv, DeliveryTrue
  <1>2. QED  BY <1>1, SvcInvariant, PTL

\* When the console shows RUNNING, a step was completed and sampled a moment ago,
\* and either the process it has found has said so, or the status file was
\* replaced between the read of its content and that of its time stamp: for
\* every set of process ids, however often they come back and whatever ends,
\* starts or reboots between its reads (simrt_console.py: _telemetry).
THEOREM RunningAlwaysTrue == ServicesSpec => []RunningIsTrue
  <1>1. SvcInv => RunningIsTrue
    BY DEF SvcInv, RunningIsTrue, ObsInv
  <1>2. QED  BY <1>1, SvcInvariant, PTL

\* However the rings wrap, statistics are those of the samples retained, a plot
\* leaves out no spike, a range shows all its samples, and the table has every
\* sample of every signal once and in its order: for every number of signals,
\* capacity, batch size and set of times and values (xcp_core.cpp and native.py).
THEOREM SamplesAreTrue == ServicesSpec => []SamplesTrue
  <1>1. SvcInv => SamplesTrue
    BY StatsAreTrue, PlotsKeepSpikes, RangesAreShown, ExportIsComplete DEF SvcInv, SamplesTrue
  <1>2. QED  BY <1>1, SvcInvariant, PTL

=============================================================================
