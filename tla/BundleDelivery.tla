---------------------------- MODULE BundleDelivery ----------------------------
(***************************************************************************)
(* toolchain/tools/build_local_bundles.py: the selected bundles are copied *)
(* one after the other, built by build_model.py in the copy, and their     *)
(* ELFs published in a new output directory with a report.  Bundles are    *)
(* edited meanwhile, two invocations may be given the same output, any     *)
(* step may fail and an invocation may be killed.                          *)
(*                                                                         *)
(* A bundle is the number of its version, 0 the content of a copy made     *)
(* while it was edited or of an ELF cut short.                             *)
(***************************************************************************)
EXTENDS Naturals, FiniteSets

CONSTANTS
    Models,       \* number of selected models, built in this order
    Runs,         \* invocations with the same selection and output
    MaxEdits      \* bound of the model: edits of bundles

DeliveryAssumption == Models \in Nat \ {0} /\ MaxEdits \in Nat

VARIABLES
    bundle,       \* version of the source bundle of each model
    report,       \* build_report.json
    dirs,         \* built, build_sources and build_logs exist
    copy,         \* build_sources/<model>: its inputs
    artifact,     \* the ELF in there, and build_result.json beside it
    result,
    built,        \* built/<model>.elf
    r             \* what each invocation is doing, with its report in memory

output == <<report, dirs, copy, artifact, result, built>>
vars == <<bundle, output, r>>

Indices == 1..Models
None == [status |-> "none"]
Pending == [status |-> "pending", source |-> 0, elf |-> 0]
Fresh == [at |-> "select", active |-> 0, seen |-> 0,
          report |-> [status |-> "running", models |-> [m \in Indices |-> Pending]]]

Init ==
    /\ bundle = [m \in Indices |-> 1]
    /\ report = None /\ dirs = FALSE
    /\ copy = [m \in Indices |-> 0] /\ artifact = [m \in Indices |-> 0]
    /\ result = [m \in Indices |-> None] /\ built = [m \in Indices |-> 0]
    /\ r = [p \in Runs |-> Fresh]

Edited == {m \in Indices : bundle[m] > 1}

-----------------------------------------------------------------------------
\* validate_selection: an earlier report or its directories are preserved, the
\* bundles are fingerprinted one after the other.
Select(p) ==
    /\ r[p].at = "select"
    /\ \/ /\ r[p].active = 0
          /\ r' = [r EXCEPT ![p].active = 1,
                            ![p].at = IF report = None /\ ~dirs THEN "select" ELSE "refused"]
       \/ /\ r[p].active \in Indices
          /\ LET m == r[p].active
             IN r' = [r EXCEPT ![p].report.models[m].source = bundle[m],
                               ![p].active = IF m < Models THEN m + 1 ELSE 0,
                               ![p].at = IF m < Models THEN "select" ELSE "claim"]
    /\ UNCHANGED <<bundle, output>>

MutantReplace(p) ==
    /\ r[p].at = "claim"
    /\ report' = r[p].report /\ r' = [r EXCEPT ![p].at = "prepare"]
    /\ UNCHANGED <<bundle, dirs, copy, artifact, result, built>>

\* run: the first report is linked to its name, which fails if there is one.
Claim(p) ==
    /\ r[p].at = "claim"
    /\ IF report = None
       THEN report' = r[p].report /\ r' = [r EXCEPT ![p].at = "prepare"]
       ELSE r' = [r EXCEPT ![p].at = "refused"] /\ UNCHANGED report
    /\ UNCHANGED <<bundle, dirs, copy, artifact, result, built>>

\* The directories are new; then the loop begins a model, or ends.
Prepare(p) ==
    /\ r[p].at = "prepare" /\ ~dirs
    /\ dirs' = TRUE
    /\ r' = [r EXCEPT ![p].at = "next"]
    /\ UNCHANGED <<bundle, report, copy, artifact, result, built>>
BeginModel(p) ==
    /\ r[p].at = "next" /\ r[p].active < Models
    /\ LET m == r[p].active + 1
       IN r' = [r EXCEPT ![p].at = "check", ![p].active = m,
                         ![p].report.models[m].status = "running"]
    /\ report' = r'[p].report
    /\ UNCHANGED <<bundle, dirs, copy, artifact, result, built>>

\* The bundle must still have its fingerprint, and so must the copy.
Check(p) ==
    LET m == r[p].active IN
    /\ r[p].at = "check" /\ bundle[m] = r[p].report.models[m].source
    /\ r' = [r EXCEPT ![p].at = "copy", ![p].seen = bundle[m]]
    /\ UNCHANGED <<bundle, output>>
Copy(p) ==
    LET m == r[p].active IN
    /\ \/ /\ r[p].at = "copy"
          /\ r' = [r EXCEPT ![p].at = "copying", ![p].seen = bundle[m]]
          /\ UNCHANGED copy
       \/ /\ r[p].at = "copying"
          /\ copy' = [copy EXCEPT ![m] = IF bundle[m] = r[p].seen THEN bundle[m] ELSE 0]
          /\ r' = [r EXCEPT ![p].at = "copied"]
    /\ UNCHANGED <<bundle, report, dirs, artifact, result, built>>
CheckCopy(p) ==
    LET m == r[p].active IN
    /\ r[p].at = "copied" /\ copy[m] = r[p].report.models[m].source
    /\ r' = [r EXCEPT ![p].at = "build"]
    /\ report' = r'[p].report
    /\ UNCHANGED <<bundle, dirs, copy, artifact, result, built>>

\* execute_build, a process of its own: it may end well, fail, or be killed with
\* its children when the time is up, with or without an ELF.
Build(p) ==
    LET m == r[p].active IN
    /\ r[p].at = "build"
    /\ \/ /\ artifact' = [artifact EXCEPT ![m] = copy[m]]
          /\ result' = [result EXCEPT ![m] = [status |-> "success", source |-> copy[m],
                                              elf |-> copy[m]]]
          /\ r' = [r EXCEPT ![p].at = "built"]
       \/ /\ artifact' \in {artifact, [artifact EXCEPT ![m] = copy[m]]}
          /\ result' \in {result, [result EXCEPT ![m] = [status |-> "running"]],
                          [result EXCEPT ![m] = [status |-> "failed"]]}
          /\ r' = [r EXCEPT ![p].at = "raise"]
    /\ UNCHANGED <<bundle, report, dirs, copy, built>>

\* The report with the active model delivered.
Succeeded(p, m) ==
    [r[p].report EXCEPT !.models[m].status = "success", !.models[m].elf = artifact[m]]
MutantRecordFirst(p) ==
    LET m == r[p].active IN
    /\ r[p].at = "built"
    /\ result[m].status = "success" /\ result[m].elf = artifact[m]
    /\ r' = [r EXCEPT ![p].at = "publish", ![p].report = Succeeded(p, m)]
    /\ UNCHANGED <<bundle, output>>

\* The result must be about this model and these inputs, and the ELF its own.
Accept(p) ==
    LET m == r[p].active IN
    /\ r[p].at = "built"
    /\ result[m].status = "success"
    /\ result[m].source = r[p].report.models[m].source
    /\ result[m].elf = artifact[m]
    /\ r' = [r EXCEPT ![p].at = "publish"]
    /\ UNCHANGED <<bundle, output>>

\* publish_elf copies and compares before it links the name; the model is a
\* success only then.
Publish(p) ==
    LET m == r[p].active IN
    /\ r[p].at = "publish" /\ built[m] = 0
    /\ built' = [built EXCEPT ![m] = artifact[m]]
    /\ r' = [r EXCEPT ![p].at = "record"]
    /\ UNCHANGED <<bundle, report, dirs, copy, artifact, result>>

\* The report is written after each model, and once more at the end.
RecordModel(p) ==
    /\ r[p].at = "record"
    /\ r' = [r EXCEPT ![p].at = "next", ![p].report = Succeeded(p, r[p].active)]
    /\ report' = r'[p].report
    /\ UNCHANGED <<bundle, dirs, copy, artifact, result, built>>

Finish(p) ==
    /\ r[p].at = "next" /\ r[p].active = Models
    /\ r' = [r EXCEPT ![p].at = "done", ![p].report.status = "success"]
    /\ report' = r'[p].report
    /\ UNCHANGED <<bundle, dirs, copy, artifact, result, built>>

\* Any step of run may raise: a changed bundle, no space, an interrupt.  The
\* active model has failed unless it is a success already.
Working == {"prepare", "next", "check", "copy", "copying", "copied", "raise", "built",
            "publish", "record"}
Outcome(p) ==
    [status |-> "failed",
     models |-> [m \in Indices |->
        LET old == r[p].report.models[m] IN
        IF m = r[p].active /\ old.status # "success" THEN [old EXCEPT !.status = "failed"]
        ELSE IF old.status = "pending" THEN [old EXCEPT !.status = "not_attempted"] ELSE old]]
Raise(p) ==
    /\ r[p].at \in Working
    /\ r' = [r EXCEPT ![p].at = "done", ![p].report = Outcome(p)]
    /\ report' = r'[p].report
    /\ UNCHANGED <<bundle, dirs, copy, artifact, result, built>>

\* The process is killed, or the last report cannot be written.
Kill(p) ==
    /\ r[p].at \in Working \union {"claim", "build"}
    /\ r' = [r EXCEPT ![p].at = "dead"]
    /\ UNCHANGED <<bundle, output>>

Edit ==
    /\ Cardinality(Edited) < MaxEdits
    /\ \E m \in Indices \ Edited : bundle' = [bundle EXCEPT ![m] = 2]
    /\ UNCHANGED <<output, r>>

Next ==
    \/ \E p \in Runs :
        \/ Select(p) \/ Claim(p) \/ Prepare(p) \/ BeginModel(p) \/ Check(p) \/ Copy(p)
        \/ CheckCopy(p) \/ Build(p) \/ Accept(p) \/ Publish(p) \/ RecordModel(p)
        \/ Finish(p) \/ Raise(p) \/ Kill(p)
    \/ Edit

Spec == Init /\ [][Next]_vars

-----------------------------------------------------------------------------
\* What the report claims has been delivered is there: a model reported as a
\* success has a published ELF of exactly the bundle version the report names,
\* and the whole is a success only with all models (copies race with edits,
\* publication and report are separate writes, and any of them may fail).
DeliveryTrue ==
    report # None =>
        /\ \A m \in Indices : report.models[m].status = "success" =>
              built[m] # 0 /\ built[m] = report.models[m].elf
              /\ built[m] = report.models[m].source
        /\ report.status = "success" =>
              \A m \in Indices : report.models[m].status = "success"

\* The report on the disk is the one of the invocation that owns the output, and
\* once that has ended by itself no model is left pending or running in it.
ReportSettled ==
    /\ \A p, q \in Runs : p # q =>
          ~(r[p].at \in Working \union {"build", "done"} /\ r[q].at \in Working \union {"build", "done"})
    /\ \A p \in Runs : r[p].at = "done" =>
          /\ report = r[p].report
          /\ \A m \in Indices : report.models[m].status \in {"success", "failed", "not_attempted"}

=============================================================================
