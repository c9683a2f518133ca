---------------------------- MODULE ModelDeletion ----------------------------
(***************************************************************************)
(* Deletion of a model directory (model_deletion.py) and the selection of  *)
(* the model that starts at boot (model_autostart.py).  One of the two     *)
(* helpers runs at a time; a start command of another host, an upload into *)
(* the same path, the boot runner and the end of processes come in between *)
(* its steps, any step may fail, and the target may restart.               *)
(*                                                                         *)
(* A directory is known by its identity, not its path: the kernel tells    *)
(* the directory a process executes from also after a rename.              *)
(***************************************************************************)
EXTENDS Naturals

CONSTANTS
    Model,      \* the directory to delete
    Later,      \* one that an upload creates at the same path
    MaxFaults   \* bound: steps that fail

DeletionAssumption == Model # Later /\ MaxFaults \in Nat

VARIABLES
    where,      \* each directory: "path", "hidden" (moved aside) or "absent"
    procs,      \* running models: the directory, and whether the runner began it
    boot,       \* autostart.json, model_runner.py, the unit and its enabling
    lock,       \* holder of model.lock
    op,         \* the helper under way: step, boot selection before, whether
                \* it moved the directory, cleared autostart or began removing
    start,      \* step of a start command: "rest", "spawn"
    runner,     \* step of the boot runner: "rest", "lock", "exec"
    faults      \* failures that may still come

vars == <<where, procs, boot, lock, op, start, runner, faults>>

Dirs == {Model, Later}
AtPath == {d \in Dirs : where[d] = "path"}
RunsFrom(place) == {p \in procs : where[p.dir] = place}

\* The selection is this directory's ELF.
Names(config) == config = "model"

NoSelection == [config |-> "none", runner |-> FALSE, unit |-> FALSE, enabled |-> FALSE]
Rest == [pc |-> "rest", saved |-> NoSelection, cleared |-> FALSE,
         moved |-> FALSE, removing |-> FALSE]

Init ==
    /\ where = [d \in Dirs |-> IF d = Model THEN "path" ELSE "absent"]
    /\ procs = {}
    /\ boot = NoSelection
    /\ lock = "free"
    /\ op = Rest
    /\ start = "rest"
    /\ runner = "rest"
    /\ faults = MaxFaults

Step(from, to) == op.pc = from /\ op' = [op EXCEPT !.pc = to]

\* A system call or a systemctl command fails at this step.
Fault(from, to) == /\ faults > 0 /\ faults' = faults - 1
                   /\ Step(from, to)
                   /\ UNCHANGED <<where, procs, boot, lock, start, runner>>

-----------------------------------------------------------------------------
(* delete_model.                                                           *)

\* The selected model exists, its tree is valid, and nothing runs from it.
DeleteCheck ==
    /\ op = Rest /\ where[Model] = "path" /\ RunsFrom("path") = {}
    /\ op' = [Rest EXCEPT !.pc = "clear", !.saved = boot]
    /\ UNCHANGED <<where, procs, boot, lock, start, runner, faults>>

\* clear_autostart: nothing to do unless this model is selected, and only
\* under the lock that a model started at boot holds.
ClearNone ==
    /\ ~Names(boot.config)
    /\ Step("clear", "recheck")
    /\ UNCHANGED <<where, procs, boot, lock, start, runner, faults>>

ClearLock ==
    /\ Names(boot.config)
    /\ IF lock = "free"
         THEN Step("clear", "disable") /\ lock' = "helper"
         ELSE Step("clear", "failed") /\ UNCHANGED lock
    /\ UNCHANGED <<where, procs, boot, start, runner, faults>>

ClearDisable ==
    /\ Step("disable", "unconfigure")
    /\ boot' = [boot EXCEPT !.enabled = FALSE]
    /\ UNCHANGED <<where, procs, lock, start, runner, faults>>

ClearConfig ==
    /\ Step("unconfigure", "ununit")
    /\ boot' = [boot EXCEPT !.config = "none"]
    /\ UNCHANGED <<where, procs, lock, start, runner, faults>>

ClearUnit ==
    /\ op.pc = "ununit"
    /\ op' = [op EXCEPT !.pc = "recheck", !.cleared = TRUE]
    /\ boot' = [boot EXCEPT !.unit = FALSE]
    /\ UNCHANGED <<where, procs, lock, start, runner, faults>>

\* The directory is still the one that was checked and nothing runs from it.
Recheck ==
    /\ IF where[Model] = "path" /\ RunsFrom("path") = {}
         THEN Step("recheck", "rename") ELSE Step("recheck", "restore")
    /\ UNCHANGED <<where, procs, boot, lock, start, runner, faults>>

Rename ==
    /\ op.pc = "rename"
    /\ op' = [op EXCEPT !.pc = "again", !.moved = TRUE]
    /\ where' = [where EXCEPT ![Model] = "hidden"]
    /\ UNCHANGED <<procs, boot, lock, start, runner, faults>>

\* Mutant: processes are not looked for again once the path is gone.
MutantNoSecondLook ==
    /\ op.pc = "again"
    /\ op' = [op EXCEPT !.pc = "remove", !.removing = TRUE]
    /\ UNCHANGED <<where, procs, boot, lock, start, runner, faults>>

\* A process that was started before the rename is seen under the new path.
CheckAgain ==
    /\ op.pc = "again"
    /\ IF RunsFrom("hidden") = {} /\ RunsFrom("path") = {}
         THEN op' = [op EXCEPT !.pc = "remove", !.removing = TRUE]
         ELSE op' = [op EXCEPT !.pc = "moveback"]
    /\ UNCHANGED <<where, procs, boot, lock, start, runner, faults>>

Remove ==
    /\ op.pc = "remove"
    /\ op' = Rest
    /\ where' = [where EXCEPT ![Model] = "absent"]
    /\ lock' = IF op.cleared THEN "free" ELSE lock
    /\ UNCHANGED <<procs, boot, start, runner, faults>>

\* The directory goes back to its path unless something is there now.  Once
\* removing has begun, the boot selection stays cleared.
MoveBack ==
    /\ op.pc = "moveback"
    /\ where' = [where EXCEPT ![Model] = IF AtPath = {} THEN "path" ELSE "hidden"]
    /\ IF op.removing
         THEN /\ op' = [op EXCEPT !.pc = "failed"]
              /\ lock' = IF op.cleared THEN "free" ELSE lock
         ELSE op' = [op EXCEPT !.pc = "restore"] /\ UNCHANGED lock
    /\ UNCHANGED <<procs, boot, start, runner, faults>>

\* restore_autostart, also after a failure within clear_autostart.
Restore ==
    /\ op.pc = "restore"
    /\ op' = [op EXCEPT !.pc = "failed"]
    /\ IF lock = "helper"
         THEN /\ boot' = [boot EXCEPT !.config = op.saved.config, !.unit = op.saved.unit,
                              !.enabled = boot.enabled \/ op.saved.enabled]
              /\ lock' = "free"
         ELSE UNCHANGED <<boot, lock>>
    /\ UNCHANGED <<where, procs, start, runner, faults>>

DeleteFault ==
    \/ \E pc \in {"disable", "unconfigure", "ununit", "recheck", "rename"} : Fault(pc, "restore")
    \/ \E pc \in {"again", "remove"} : Fault(pc, "moveback")
    \/ Fault("clear", "failed")

-----------------------------------------------------------------------------
(* configure.                                                              *)

Disable ==
    /\ op = Rest
    /\ boot' = [boot EXCEPT !.enabled = FALSE]
    /\ UNCHANGED <<where, procs, lock, op, start, runner, faults>>

\* Select(config): the ELF exists and lingering is on.
Select(config) ==
    /\ op = Rest
    /\ Names(config) => AtPath # {}
    /\ op' = [Rest EXCEPT !.pc = "runner", !.saved = boot]
    /\ boot' = [boot EXCEPT !.config = config]
    /\ UNCHANGED <<where, procs, lock, start, runner, faults>>

WriteRunner ==
    /\ Step("runner", "unit")
    /\ boot' = [boot EXCEPT !.runner = TRUE]
    /\ UNCHANGED <<where, procs, lock, start, runner, faults>>

WriteUnit ==
    /\ Step("unit", "enable")
    /\ boot' = [boot EXCEPT !.unit = TRUE]
    /\ UNCHANGED <<where, procs, lock, start, runner, faults>>

Enable ==
    /\ Step("enable", "status")
    /\ boot' = [boot EXCEPT !.enabled = TRUE]
    /\ UNCHANGED <<where, procs, lock, start, runner, faults>>

\* The last check of what systemd says.
Confirm ==
    /\ op.pc = "status" /\ op' = Rest
    /\ UNCHANGED <<where, procs, boot, lock, start, runner, faults>>

ConfigureFault == \E pc \in {"runner", "unit", "enable", "status"} : Fault(pc, "rollback")

\* Mutant: the files are put back and the unit stays as enabled as it is.
MutantKeepEnabled ==
    /\ Step("rollback", "failed")
    /\ boot' = [op.saved EXCEPT !.enabled = boot.enabled]
    /\ UNCHANGED <<where, procs, lock, start, runner, faults>>

Rollback ==
    /\ Step("rollback", "failed")
    /\ boot' = op.saved
    /\ UNCHANGED <<where, procs, lock, start, runner, faults>>

\* The rollback itself fails: a file cannot be written, or systemctl does
\* not enable or disable the unit, which goes unnoticed.
UndoFault ==
    /\ faults > 0 /\ faults' = faults - 1
    /\ op.pc \in {"rollback", "restore"}
    /\ op' = [op EXCEPT !.pc = "undone"]
    /\ boot' \in {boot, [op.saved EXCEPT !.enabled = boot.enabled]}
    /\ lock' = IF lock = "helper" THEN "free" ELSE lock
    /\ UNCHANGED <<where, procs, start, runner>>

\* The helper reports its error.
Failed ==
    /\ op.pc \in {"failed", "undone"} /\ op' = Rest
    /\ UNCHANGED <<where, procs, boot, lock, start, runner, faults>>

-----------------------------------------------------------------------------
(* Everything that may come in between.                                    *)

\* A start command checks the files, then executes the path.
StartCheck ==
    /\ start = "rest" /\ AtPath # {} /\ RunsFrom("path") = {}
    /\ start' = "spawn"
    /\ UNCHANGED <<where, procs, boot, lock, op, runner, faults>>

Spawn ==
    /\ start = "spawn" /\ start' = "rest"
    /\ procs' = procs \union {[dir |-> d, auto |-> FALSE] : d \in AtPath}
    /\ UNCHANGED <<where, boot, lock, op, runner, faults>>

\* An upload creates the directory when the path is free.
Upload ==
    /\ AtPath = {} /\ where[Later] = "absent"
    /\ where' = [where EXCEPT ![Later] = "path"]
    /\ UNCHANGED <<procs, boot, lock, op, start, runner, faults>>

\* The runner started at boot: the selected ELF exists; the lock; no process
\* of the same ELF; then it executes the path and the model keeps the lock.
RunnerCheck ==
    /\ runner = "check"
    /\ runner' = IF Names(boot.config) /\ AtPath # {} THEN "lock" ELSE "rest"
    /\ UNCHANGED <<where, procs, boot, lock, op, start, faults>>

RunnerLock ==
    /\ runner = "lock"
    /\ IF lock = "free" /\ RunsFrom("path") = {}
         THEN runner' = "exec" /\ lock' = "model"
         ELSE runner' = "rest" /\ UNCHANGED lock
    /\ UNCHANGED <<where, procs, boot, op, start, faults>>

RunnerExec ==
    /\ runner = "exec" /\ runner' = "rest"
    /\ procs' = procs \union {[dir |-> d, auto |-> TRUE] : d \in AtPath}
    /\ lock' = IF AtPath = {} THEN "free" ELSE lock
    /\ UNCHANGED <<where, boot, op, start, faults>>

Exit ==
    /\ \E p \in procs : /\ procs' = procs \ {p}
                        /\ lock' = IF p.auto THEN "free" ELSE lock
    /\ UNCHANGED <<where, boot, op, start, runner, faults>>

\* A restart of the target, after which systemd starts what is enabled.
Reboot ==
    /\ procs' = {} /\ lock' = "free" /\ op' = Rest /\ start' = "rest"
    /\ runner' = IF boot.enabled /\ boot.unit /\ boot.runner THEN "check" ELSE "rest"
    /\ UNCHANGED <<where, boot, faults>>

Next ==
    \/ DeleteCheck \/ ClearNone \/ ClearLock \/ ClearDisable \/ ClearConfig
    \/ ClearUnit \/ Recheck \/ Rename \/ CheckAgain \/ Remove \/ MoveBack
    \/ Restore \/ DeleteFault
    \/ Disable \/ (\E config \in {"model", "other"} : Select(config))
    \/ WriteRunner \/ WriteUnit \/ Enable \/ Confirm \/ ConfigureFault
    \/ Rollback \/ UndoFault \/ Failed
    \/ StartCheck \/ Spawn \/ Upload \/ RunnerCheck \/ RunnerLock
    \/ RunnerExec \/ Exit \/ Reboot

Spec == Init /\ [][Next]_vars

-----------------------------------------------------------------------------
(* Properties.                                                             *)

\* While a directory is being removed no model runs from it, whatever was
\* started between the checks: what ran before the rename is found after it,
\* and nothing can start from the path that is gone.
NeverDeletesRunning ==
    op.removing /\ where[Model] = "hidden" => \A p \in procs : p.dir # Model

\* A configuration or deletion that failed before anything was removed, and
\* whose rollback did not fail in turn, leaves the boot selection as it was
\* and the model in its place, unless an upload has taken it meanwhile.
FailureChangesNothing ==
    op.pc = "failed" /\ ~op.removing =>
        /\ boot = op.saved
        /\ op.moved => where[Model] = "path" \/ where[Later] = "path"
        /\ lock # "helper"

=============================================================================
