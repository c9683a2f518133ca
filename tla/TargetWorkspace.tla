--------------------------- MODULE TargetWorkspace ---------------------------
(***************************************************************************)
(* The target page of the host application, qt_host/target.py, and its     *)
(* AsyncWorker, qt_host/common.py: one worker runs one SSH job at a time,  *)
(* results are delivered to the GUI thread, a foreground job asked for     *)
(* while a background job runs waits in a queue of one, and stopping and   *)
(* deleting a model keep the page reserved while somebody else is asked.   *)
(*                                                                         *)
(* GUI callbacks are single steps; menus, dialogs, error boxes and the     *)
(* stop guard let other callbacks run before they return.  An error box    *)
(* is opened by a result before complete() has run, when the worker is     *)
(* idle already; it keeps the user away and lets timers and answers go on. *)
(* What the tables show is the number of the connection it was read over.  *)
(***************************************************************************)
EXTENDS Naturals

CONSTANTS
    MaxConns,     \* bound: connections made
    MaxFaults,    \* bound: failures of closing SSH
    MaxBoxes      \* bound: error boxes open at a time

WorkspaceAssumption == MaxConns \in Nat /\ MaxFaults \in Nat /\ MaxBoxes \in Nat

VARIABLES
    conn,         \* service.connected: the connection, 0 for none
    conns,        \* connections made
    job,          \* worker: kind, flag, and "none", "runs", "ok" or "failed"
    refreshing,   \* _background_refresh
    queued,       \* _queued_operation
    boxes,        \* error boxes open, each before the complete() of its result
    control,      \* control_pending
    guard,        \* a stop guard has been asked and has not answered
    dialog,       \* the question before a deletion is open
    menu,         \* _context_menu_open
    deferred,     \* _deferred_render: connection it was read over, or 0
    shown,        \* tables and labels: connection they were read over, or 0
    was, dirty,   \* _was_connected, _inventory_dirty
    closing, closed, submitted,
    faults        \* failures of closing so far

vars == <<conn, conns, job, refreshing, queued, boxes, control, guard, dialog, menu, deferred, shown,
          was, dirty, closing, closed, submitted, faults>>
work == <<job, refreshing, queued>>
service == <<conn, conns, faults>>
asking == <<guard, dialog, menu, deferred>>
view == <<shown, was, dirty>>
ending == <<closing, closed, submitted>>

NoJob == [kind |-> "none", reserved |-> FALSE, state |-> "none", read |-> 0]
Job(kind, reserved) == [kind |-> kind, reserved |-> reserved, state |-> "runs", read |-> 0]

Init ==
    /\ conn = 0 /\ conns = 0
    /\ job = NoJob /\ refreshing = FALSE /\ queued = NoJob /\ boxes = 0
    /\ control = FALSE /\ guard = FALSE /\ dialog = FALSE /\ menu = FALSE
    /\ deferred = 0 /\ shown = 0
    /\ was = FALSE /\ dirty = TRUE
    /\ closing = FALSE /\ closed = FALSE /\ submitted = FALSE
    /\ faults = 0

Working == job # NoJob

\* busy and _ready.
Busy ==
    \/ Working /\ ~refreshing
    \/ queued # NoJob \/ control
    \/ closing /\ ~closed
Ready == ~Busy /\ ~closed /\ conn # 0

\* Mutant: a submission is accepted also while the page closes.
MutantSubmitClosing(j, background) ==
    queued = NoJob /\ (control => j.reserved) /\ (Working => refreshing /\ ~background)

\* _submit: whether it accepts, and what it does then.
Accepts(j, background) ==
    /\ ~closing /\ queued = NoJob /\ (control => j.reserved)
    /\ Working => refreshing /\ ~background

Submit(j, background) ==
    IF Working THEN queued' = j /\ UNCHANGED <<job, refreshing>>
               ELSE job' = j /\ refreshing' = background /\ UNCHANGED queued

-----------------------------------------------------------------------------
(* What the user asks for, when no error box is in the way.  A menu action *)
(* runs while its menu is open.                                            *)

Connect ==
    /\ ~Busy /\ ~closed /\ conn = 0 /\ conns < MaxConns
    /\ ~menu /\ ~dialog /\ boxes = 0
    /\ Accepts(Job("connect", FALSE), FALSE) /\ Submit(Job("connect", FALSE), FALSE)
    /\ UNCHANGED <<service, boxes, control, asking, view, ending>>

\* disconnect_ssh, also from commit_target_host when the address loses the focus,
\* be it to an error box; and upload, start, read_log and toggle_autostart, which
\* only use the service.
Foreground ==
    /\ Ready /\ ~dialog
    /\ \E kind \in {"disconnect", "operation"} :
        /\ IF kind = "disconnect" THEN ~menu ELSE boxes = 0
        /\ Accepts(Job(kind, FALSE), FALSE) /\ Submit(Job(kind, FALSE), FALSE)
    /\ UNCHANGED <<service, boxes, control, asking, view, ending>>

\* refresh, by the user or by _tick.
Inventory(background) ==
    /\ Accepts(Job("inventory", FALSE), background)
    /\ Submit(Job("inventory", FALSE), background)
    /\ dirty' = FALSE /\ was' = TRUE
    /\ UNCHANGED <<service, boxes, control, asking, shown, ending>>

Refresh == Ready /\ ~dialog /\ boxes = 0 /\ Inventory(FALSE)

\* _guarded_stop: the page is reserved while the guard restores the
\* calibration and disconnects XCP.
AskStop ==
    /\ Ready /\ ~dialog /\ boxes = 0
    /\ control' = TRUE /\ guard' = TRUE
    /\ UNCHANGED <<service, work, boxes, dialog, menu, deferred, view, ending>>

\* proceed: when the job is not accepted the page is released.
GuardProceeds ==
    /\ guard /\ guard' = FALSE
    /\ IF Accepts(Job("stop", TRUE), FALSE)
         THEN Submit(Job("stop", TRUE), FALSE) /\ UNCHANGED control
         ELSE control' = FALSE /\ UNCHANGED work
    /\ UNCHANGED <<service, boxes, dialog, menu, deferred, view, ending>>

GuardFails ==
    /\ guard /\ guard' = FALSE /\ control' = FALSE
    /\ UNCHANGED <<service, work, boxes, dialog, menu, deferred, view, ending>>

\* delete_model, with the question to the user open.
AskDelete ==
    /\ Ready /\ ~dialog /\ boxes = 0
    /\ control' = TRUE /\ dialog' = TRUE
    /\ UNCHANGED <<service, work, boxes, guard, menu, deferred, view, ending>>

AnswerDelete ==
    /\ dialog /\ boxes = 0 /\ dialog' = FALSE
    /\ \E yes \in BOOLEAN :
        IF yes /\ Accepts(Job("delete", TRUE), FALSE)
          THEN Submit(Job("delete", TRUE), FALSE) /\ UNCHANGED control
          ELSE control' = FALSE /\ UNCHANGED work
    /\ UNCHANGED <<service, boxes, guard, menu, deferred, view, ending>>

OpenMenu ==
    /\ ~menu /\ ~dialog /\ boxes = 0 /\ ~closed
    /\ menu' = TRUE
    /\ UNCHANGED <<service, work, boxes, control, guard, dialog, deferred, view, ending>>

\* A result that came while the menu was open is shown now, or read again
\* when an operation has begun.
CloseMenu ==
    /\ menu /\ ~dialog /\ boxes = 0 /\ menu' = FALSE
    /\ deferred' = 0
    /\ IF deferred = 0 THEN UNCHANGED <<shown, dirty>>
       ELSE IF Busy THEN dirty' = TRUE /\ UNCHANGED shown
       ELSE shown' = deferred /\ UNCHANGED dirty
    /\ UNCHANGED <<service, work, boxes, control, guard, dialog, was, ending>>

-----------------------------------------------------------------------------
(* The service and the worker.                                             *)

ConnectionLost ==
    /\ conn # 0 /\ conn' = 0
    /\ UNCHANGED <<conns, faults, work, boxes, control, asking, view, ending>>

\* The job runs on the worker thread: connecting and closing change the
\* connection, the rest needs it; any of them may fail.
Execute ==
    /\ job.state = "runs"
    /\ \/ /\ job.kind = "connect" /\ conns < MaxConns
          /\ conn' = conns + 1 /\ conns' = conns + 1
          /\ job' = [job EXCEPT !.state = "ok", !.read = conns + 1]
          /\ UNCHANGED faults
       \/ /\ job.kind \in {"disconnect", "close"}
          /\ conn' = 0
          /\ job' = [job EXCEPT !.state = "ok"]
          /\ UNCHANGED <<conns, faults>>
       \/ /\ job.kind \notin {"connect", "disconnect", "close"} /\ conn # 0
          /\ job' = [job EXCEPT !.state = "ok", !.read = conn]
          /\ UNCHANGED service
       \/ /\ job.kind # "close" \/ faults < MaxFaults
          /\ faults' = IF job.kind = "close" THEN faults + 1 ELSE faults
          /\ conn' = IF job.kind \in {"connect", "disconnect", "close"} THEN 0 ELSE conn
          /\ job' = [job EXCEPT !.state = "failed"]
          /\ UNCHANGED conns
    /\ UNCHANGED <<refreshing, queued, boxes, control, asking, view, ending>>

\* The success callbacks.  An inventory waits for an open menu to close and
\* resources are dropped then; an upload asks for a new inventory as well.
Shows ==
    \/ /\ job.kind \in {"inventory", "poll"} /\ ~menu
       /\ shown' = job.read /\ UNCHANGED <<was, dirty, deferred>>
    \/ /\ job.kind \in {"inventory", "poll"} /\ menu
       /\ deferred' = (IF job.kind = "inventory" THEN job.read ELSE deferred)
       /\ UNCHANGED view
    \/ /\ job.kind = "disconnect"
       /\ shown' = 0 /\ was' = FALSE /\ dirty' = TRUE /\ UNCHANGED deferred
    \/ job.kind = "connect" /\ was' = FALSE /\ UNCHANGED <<shown, dirty, deferred>>
    \/ /\ job.kind \in {"delete", "operation"}
       /\ dirty' \in (IF job.kind = "delete" THEN {TRUE} ELSE {dirty, TRUE})
       /\ UNCHANGED <<shown, was, deferred>>
    \/ job.kind = "stop" /\ UNCHANGED <<view, deferred>>

\* complete: the flag is cleared and the queued operation starts, unless the
\* worker has begun something else meanwhile: then it is dropped.
Completes(idle) ==
    /\ refreshing' = FALSE /\ queued' = NoJob
    /\ job' = IF queued # NoJob /\ ~closing /\ idle /\ (control' => queued.reserved)
                 THEN queued
                 ELSE IF idle THEN NoJob ELSE job

\* Mutant: any answer ends the reservation, also that of somebody else.
MutantReleaseAlways == FALSE

\* finished and failed: a reserved job ends the reservation.
StillReserved == control /\ ~job.reserved

\* What an error box tells: a failure, credentials that were not saved, or an
\* upload or a deletion that the target has not confirmed.
Complains ==
    \/ job.state = "failed" /\ UNCHANGED <<view, deferred>>
    \/ job.state = "ok" /\ job.kind = "connect" /\ Shows
    \/ job.state = "ok" /\ job.kind \in {"operation", "delete"} /\ UNCHANGED <<view, deferred>>

\* _deliver: the worker is idle, the reservation ends and the result is shown.
\* With an error box complete() waits until the box is closed.
Deliver ==
    /\ job.state \in {"ok", "failed"} /\ job.kind # "close"
    /\ control' = StillReserved
    /\ \/ closing /\ UNCHANGED <<view, deferred, boxes>> /\ Completes(TRUE)
       \/ ~closing /\ job.state = "ok" /\ Shows /\ UNCHANGED boxes /\ Completes(TRUE)
       \/ /\ ~closing /\ boxes < MaxBoxes /\ Complains
          /\ boxes' = boxes + 1 /\ job' = NoJob /\ UNCHANGED <<refreshing, queued>>
    /\ UNCHANGED <<service, guard, dialog, menu, ending>>

\* The user closes the topmost error box and complete() of its result runs.
DismissError ==
    /\ boxes > 0 /\ boxes' = boxes - 1
    /\ UNCHANGED control /\ Completes(~Working)
    /\ UNCHANGED <<service, asking, view, ending>>

-----------------------------------------------------------------------------
(* _tick and closing.                                                      *)

TickLost ==
    /\ ~closing /\ conn = 0 /\ was
    /\ shown' = 0 /\ was' = FALSE /\ dirty' = TRUE
    /\ UNCHANGED <<service, work, boxes, control, asking, ending>>

Quiet == ~closing /\ conn # 0 /\ ~Working /\ ~control /\ ~menu

TickInventory == Quiet /\ (~was \/ dirty) /\ Inventory(TRUE)

\* The clock synchronization or the resources, each a background job.
TickPoll ==
    /\ Quiet /\ was /\ ~dirty
    /\ Accepts(Job("poll", FALSE), TRUE) /\ Submit(Job("poll", FALSE), TRUE)
    /\ UNCHANGED <<service, boxes, control, asking, view, ending>>

\* close_workspace: what is reserved or queued is given up, and the SSH
\* channel of the running job is closed.
CloseWorkspace ==
    /\ ~closing
    /\ closing' = TRUE /\ control' = FALSE /\ queued' = NoJob
    /\ UNCHANGED <<service, job, refreshing, boxes, asking, view, closed, submitted>>

FinishClose ==
    /\ closing /\ ~Working /\ ~control /\ ~submitted /\ ~closed
    /\ submitted' = TRUE /\ job' = Job("close", FALSE)
    /\ UNCHANGED <<service, refreshing, queued, boxes, control, asking, view, closing, closed>>

\* Mutant: closing is not tried again after it failed.
MutantCloseOnce ==
    /\ job.state \in {"ok", "failed"} /\ job.kind = "close"
    /\ job' = NoJob
    /\ closed' = (job.state = "ok")
    /\ UNCHANGED <<service, refreshing, queued, boxes, control, asking, view, closing, submitted>>

DeliverClose ==
    /\ job.state \in {"ok", "failed"} /\ job.kind = "close"
    /\ job' = NoJob
    /\ closed' = (job.state = "ok") /\ submitted' = (job.state = "ok")
    /\ UNCHANGED <<service, refreshing, queued, boxes, control, asking, view, closing>>

Next ==
    \/ Connect \/ Foreground \/ Refresh
    \/ AskStop \/ GuardProceeds \/ GuardFails
    \/ AskDelete \/ AnswerDelete \/ OpenMenu \/ CloseMenu
    \/ ConnectionLost \/ Execute \/ Deliver \/ DismissError
    \/ TickLost \/ TickInventory \/ TickPoll
    \/ CloseWorkspace \/ FinishClose \/ DeliverClose

Spec == Init /\ [][Next]_vars

-----------------------------------------------------------------------------
(* Properties.                                                             *)

\* The page is never left reserved by nobody, which would disable it for
\* good, nor released under the one who reserved it: while it does not close
\* it is reserved exactly while a guard or the user has to answer, or a
\* reserved job is queued or on its way.  And an operation is queued only
\* where complete() is still to come: behind a background job, or behind an
\* error box.
ControlIsHeld ==
    /\ closing => ~control
    /\ ~closing => (control <=> guard \/ dialog \/ job.reserved \/ queued.reserved)
    /\ queued # NoJob => (Working /\ refreshing) \/ boxes > 0

\* Once the page closes, a late answer of a guard or of the user starts
\* nothing on the target: the only job that still begins is closing SSH.
LateAnswerStartsNothing ==
    [][closing /\ job' # job /\ job'.state = "runs" => job'.kind = "close"]_vars

\* Closing completes, although a job is still running, a dialog open or
\* closing fails some times.
CloseCompletes == closing ~> closed

=============================================================================
