----------------------------- MODULE MCWorkbench -----------------------------
(***************************************************************************)
(* The two pages the engineer works on while a model runs: the chart and   *)
(* the calibration page.  They share no state; "part" says which one a     *)
(* behaviour is about, and the variables of the other keep the value 0.    *)
(***************************************************************************)
EXTENDS Integers, TLC

CONSTANTS
    Names,
    Layouts, Ranges,
    Values, Unset, MaxJobs

VARIABLES
    part,
    catalog, chosen, enabled, signals, layout, follow, mode, cursors, drag,
    view, has, version, lines, drawn, dirty, timer, table, menu,
    items, new, current, ui, pending, modal, jobs, answers, target, saved,
    online, doubt,
    selected \* of ChartView and of CalibrationTab

chartOnly == <<catalog, chosen, enabled, signals, layout, follow, mode,
               cursors, drag, view, has, version, lines, drawn, dirty,
               timer, table, menu>>
pageOnly == <<items, new, current, ui, pending, modal, jobs, answers,
              target, saved, online, doubt>>

workbenchVars == <<part, chartOnly, pageOnly, selected>>

Chart == INSTANCE ChartView
Cal == INSTANCE CalibrationTab

ASSUME WorkbenchAssumption ==
    Chart!ChartAssumption /\ Cal!CalibrationAssumption

\* Signals, and characteristics, are interchangeable.
Symmetry == Permutations(Names)

NoChart ==
    /\ catalog = 0 /\ chosen = 0 /\ enabled = 0 /\ signals = 0 /\ layout = 0
    /\ follow = 0 /\ mode = 0 /\ cursors = 0 /\ drag = 0 /\ view = 0
    /\ has = 0 /\ version = 0 /\ lines = 0 /\ drawn = 0 /\ dirty = 0
    /\ timer = 0 /\ table = 0 /\ menu = 0
NoCal ==
    /\ items = 0 /\ new = 0 /\ current = 0 /\ ui = 0 /\ pending = 0
    /\ modal = 0 /\ jobs = 0 /\ answers = 0 /\ target = 0 /\ saved = 0
    /\ online = 0 /\ doubt = 0

WorkbenchInit ==
    \/ /\ part = "chart" /\ Chart!Init
       /\ NoCal
    \/ /\ part = "page" /\ Cal!Init
       /\ NoChart

WorkbenchNext ==
    \/ /\ part = "chart" /\ Chart!Next
       /\ UNCHANGED <<part, pageOnly>>
    \/ /\ part = "page" /\ Cal!Next
       /\ UNCHANGED <<part, chartOnly>>

WorkbenchSpec == WorkbenchInit /\ [][WorkbenchNext]_workbenchVars

-----------------------------------------------------------------------------
(* The properties of the parts, stated where they are defined.             *)

\* The axes show the ticked signals over the range that was asked for, and the
\* mouse serves one tool at a time.
ChartTrue == part = "chart" => Chart!ShowsWhatItShould /\ Chart!OneToolAtATime

\* A value shown as current is on the target.
ShownIsCurrent == part = "page" => Cal!ShownIsCurrent

\* A new value disappears only when it was written, restored or withdrawn, or
\* by a restore that found nothing to restore and drops them all
\* (CalibrationTab states it without that exception as RestoreKeepsOthers).
EditsKept == [][part = "page" => Cal!KeepsEdits]_workbenchVars

-----------------------------------------------------------------------------
(* What the page's worker does is a transaction, like what XcpSession does. *)

\* What the session of the page has found on the target.
Found == [n \in Names |-> IF n \in Cal!Changed THEN saved[n] ELSE target[n]]

\* Memory while the behaviour is about the chart.
Untouched == [n \in Names |-> 0]

Transaction == INSTANCE CalibrationTransaction WITH
    Cells <- Names,
    open <- part = "page" /\ online,
    memory <- IF part = "page" THEN target ELSE Untouched,
    base <- IF part = "page" THEN Found ELSE Untouched,
    dirty <- IF part = "page" THEN Cal!Changed ELSE {},
    waived <- FALSE

\* The operations behind the page, each one step of the worker and each free to
\* fail on some objects, make only the steps of the transaction that the session
\* of XcpSession implements command by command: no value changes without a
\* record, none is forgotten before it is back, and the page's disconnect ends
\* with the target as it was found.
PageImplementsTransaction == Transaction!Spec

=============================================================================
