---------------------------- MODULE CalibrationTab ----------------------------
(***************************************************************************)
(* The calibration page: qt_host/calibration.py with the operations of     *)
(* controller.py behind its buttons.  The user edits new values, ticks     *)
(* them and has them written in a batch; the worker writes and reads back  *)
(* while dialogs are open, the connection ends and another catalogue is    *)
(* loaded.                                                                 *)
(*                                                                         *)
(* What an operation of the session does to the target is taken from       *)
(* XcpSession, one call as one step of the single worker thread.           *)
(***************************************************************************)
EXTENDS Naturals, Sequences, FiniteSets

CONSTANTS
    Names,        \* characteristics of all A2L files
    Values,       \* raw values a user may enter
    Unset,        \* no value
    MaxJobs       \* bound of the model: operations queued and answers waiting

\* A target begins with the value 0 everywhere.
CalibrationAssumption ==
    /\ IsFiniteSet(Names) /\ 0 \in Values /\ Unset \notin Values /\ MaxJobs \in Nat

VARIABLES
    items,        \* _items: characteristics of the loaded A2L
    new, current, \* _new_values and _current_values
    selected,     \* _selected
    ui,           \* state of the controller: "loaded", "busy" or "connected"
    pending,      \* _calibration_pending
    modal,        \* the dialog or menu that is open
    jobs,         \* submitted to the executor
    answers,      \* results in the queue of the user interface
    target,       \* raw values on the target
    saved,        \* values the session will restore
    online,       \* the session is connected
    doubt         \* ghost: names that a failed operation, or the end of a session,
                  \* may have changed since they were last read back

tab == <<items, new, current, selected>>
session == <<target, saved, online, doubt>>
vars == <<tab, ui, pending, modal, jobs, answers, session>>

Closed == [is |-> "none"]
Blank == [n \in Names |-> Unset]

Init ==
    /\ items = {} /\ new = Blank /\ current = Blank /\ selected = {}
    /\ ui = "loaded" /\ pending = FALSE /\ modal = Closed
    /\ jobs = <<>> /\ answers = <<>>
    /\ target = [n \in Names |-> 0] /\ saved = Blank
    /\ online = FALSE /\ doubt = {}

\* Mutant: the page stays editable while an operation is not answered.
MutantEditAlways == ui = "connected"

\* The calibration part of control_policy, after _apply_policy.
Enabled == ui = "connected" /\ ~pending

\* A user without a dialog before her.
Free == modal = Closed

Submit(job) == Len(jobs) + Len(answers) < MaxJobs /\ jobs' = Append(jobs, job)

-----------------------------------------------------------------------------
(* The page.                                                               *)

\* set_calibrations, for the A2L that was loaded.
Load ==
    /\ ui = "loaded" /\ Free /\ jobs = <<>> /\ answers = <<>>
    /\ \E loaded \in SUBSET Names :
        /\ items' = loaded
        /\ selected' = selected \intersect loaded
        /\ new' = [n \in Names |-> IF n \in loaded THEN new[n] ELSE Unset]
        /\ current' = [n \in Names |-> IF n \in loaded THEN current[n] ELSE Unset]
    /\ UNCHANGED <<ui, pending, modal, jobs, answers, session>>

\* _edit_name: the value is asked for, and refused when it is no number.
OpenEdit ==
    /\ Enabled /\ Free
    /\ \E n \in items : modal' = [is |-> "edit", names |-> {n}]
    /\ UNCHANGED <<tab, ui, pending, jobs, answers, session>>
AnswerEdit ==
    /\ modal.is = "edit" /\ modal' = Closed
    /\ \/ UNCHANGED <<new, selected>>
       \/ \E n \in modal.names, v \in Values :
            /\ new' = [new EXCEPT ![n] = v]
            /\ selected' = selected \union {n}
    /\ UNCHANGED <<items, current, ui, pending, jobs, answers, session>>

\* _set_selected, from a tick in the tree or from the menu.
SetSelected(names, checked) ==
    /\ Enabled
    /\ selected' = IF checked THEN selected \union names ELSE selected \ names
Tick ==
    /\ Free
    /\ \E names \in SUBSET items, checked \in BOOLEAN : SetSelected(names, checked)
    /\ UNCHANGED <<items, new, current, ui, pending, modal, jobs, answers, session>>

\* _context: the rows are those selected when the menu opens, and so is what it
\* offers.
OpenMenu ==
    /\ Free
    /\ \E names \in SUBSET items :
        modal' = [is |-> "menu", names |-> names, offers |-> Enabled,
                  undoes |-> Enabled /\ \E n \in names : new[n] # Unset]
    /\ UNCHANGED <<tab, ui, pending, jobs, answers, session>>
CloseMenu ==
    /\ modal.is = "menu" /\ modal' = Closed
    /\ UNCHANGED <<tab, ui, pending, jobs, answers, session>>
MenuTick ==
    /\ modal.is = "menu" /\ modal.offers /\ modal' = Closed
    /\ \E checked \in BOOLEAN : SetSelected(modal.names, checked)
    /\ UNCHANGED <<items, new, current, ui, pending, jobs, answers, session>>

\* clear_pending: without names, all that was entered.
Cleared(names) == IF names = {} THEN {n \in Names : new[n] # Unset} ELSE names
ClearPending(names) ==
    /\ new' = [n \in Names |-> IF n \in Cleared(names) THEN Unset ELSE new[n]]
    /\ selected' = selected \ Cleared(names)

Undo ==
    /\ modal.is = "menu" /\ modal.undoes /\ modal' = Closed
    /\ ClearPending(modal.names)
    /\ UNCHANGED <<items, current, ui, pending, jobs, answers, session>>

\* pending_changes.
PendingChanges ==
    [n \in {m \in items \intersect selected : new[m] # Unset} |-> new[n]]

-----------------------------------------------------------------------------
(* The controller.                                                         *)

\* _run_with_poll_paused.
RunWithPollPaused(job) ==
    /\ IF ~pending /\ ui = "connected" THEN Submit(job) /\ pending' = TRUE
       ELSE UNCHANGED <<jobs, pending>>

RefreshCalibrations ==
    /\ Enabled /\ Free
    /\ RunWithPollPaused([is |-> "read", changes |-> Blank])
    /\ UNCHANGED <<tab, ui, modal, answers, session>>

\* _write_calibrations and _restore_calibrations: what is written is what the
\* question listed, whatever happens before it is answered.
AskWrite ==
    /\ Enabled /\ Free /\ DOMAIN PendingChanges # {}
    /\ modal' = [is |-> "confirm", job |-> [is |-> "write", changes |-> PendingChanges]]
    /\ UNCHANGED <<tab, ui, pending, jobs, answers, session>>
AskRestore ==
    /\ Enabled /\ Free
    /\ modal' = [is |-> "confirm", job |-> [is |-> "restore", changes |-> Blank]]
    /\ UNCHANGED <<tab, ui, pending, jobs, answers, session>>
Confirm ==
    /\ modal.is = "confirm" /\ modal' = Closed
    /\ RunWithPollPaused(modal.job)
    /\ UNCHANGED <<tab, ui, answers, session>>
Decline ==
    /\ modal.is = "confirm" /\ modal' = Closed
    /\ UNCHANGED <<tab, ui, pending, jobs, answers, session>>

\* _connect from the button, _disconnect from it or from the guard of a model
\* stop, which asks nobody and may meet an open dialog.
Connect ==
    /\ ui = "loaded" /\ Free /\ items # {}
    /\ Submit([is |-> "connect", changes |-> Blank]) /\ ui' = "busy"
    /\ UNCHANGED <<tab, pending, modal, answers, session>>
Disconnect ==
    /\ ui = "connected"
    /\ Submit([is |-> "disconnect", changes |-> Blank]) /\ ui' = "busy"
    /\ UNCHANGED <<tab, pending, modal, answers, session>>

-----------------------------------------------------------------------------
(* The worker.                                                             *)

Job == Head(jobs)
Return(ok, shown) ==
    /\ jobs' = Tail(jobs)
    /\ answers' = Append(answers, [is |-> Job.is, ok |-> ok, shown |-> shown])
    /\ UNCHANGED <<tab, ui, pending, modal>>

Merge(f, g) == [n \in Names |-> IF n \in DOMAIN g THEN g[n] ELSE f[n]]
Changed == {n \in Names : saved[n] # Unset}

\* write_calibrations with its reading back: all of the batch, each original
\* value saved once.
WriteSucceeds ==
    /\ jobs # <<>> /\ Job.is = "write" /\ online
    /\ target' = Merge(target, Job.changes)
    /\ saved' = [n \in Names |-> IF n \in DOMAIN Job.changes /\ saved[n] = Unset
                                 THEN target[n] ELSE saved[n]]
    /\ doubt' = doubt \ DOMAIN Job.changes
    /\ Return(TRUE, Job.changes)
    /\ UNCHANGED online

\* A failed batch: the objects tried are restored to what the session began
\* with, or keep any value when that fails too; or only the reading back failed.
WriteFails ==
    /\ jobs # <<>> /\ Job.is = "write"
    /\ IF ~online THEN UNCHANGED <<target, saved, doubt>>
       ELSE \E tried \in SUBSET DOMAIN Job.changes :
            /\ doubt' = doubt \union tried
            /\ \/ /\ target' = [n \in Names |-> IF n \in tried /\ saved[n] # Unset
                                                THEN saved[n] ELSE target[n]]
                  /\ saved' = [n \in Names |-> IF n \in tried THEN Unset ELSE saved[n]]
               \/ /\ saved' = [n \in Names |-> IF n \in tried /\ saved[n] = Unset
                                               THEN target[n] ELSE saved[n]]
                  /\ target' = [n \in Names |-> IF n \in tried THEN Job.changes[n] ELSE target[n]]
    /\ Return(FALSE, Blank)
    /\ UNCHANGED online

\* Mutant: a restore drops the records of all objects, those that fail too.
MutantRestoreForgets(restored) ==
    /\ target' = [n \in Names |-> IF n \in restored THEN saved[n] ELSE target[n]]
    /\ saved' = Blank

\* restore_calibrations, and the restore of a disconnect: objects that fail keep
\* their record.
Restore(restored) ==
    /\ target' = [n \in Names |-> IF n \in restored THEN saved[n] ELSE target[n]]
    /\ saved' = [n \in Names |-> IF n \in restored THEN Unset ELSE saved[n]]
RestoreRuns ==
    /\ jobs # <<>> /\ Job.is = "restore"
    /\ IF online
       THEN \E restored \in SUBSET Changed :
            /\ Restore(restored)
            /\ doubt' = IF restored = Changed THEN doubt \ Changed ELSE doubt \union Changed
            /\ Return(restored = Changed, [n \in restored |-> saved[n]])
       ELSE Return(FALSE, Blank) /\ UNCHANGED <<target, saved, doubt>>
    /\ UNCHANGED online

Read ==
    /\ jobs # <<>> /\ Job.is = "read"
    /\ \/ /\ online /\ doubt' = doubt \ items
          /\ Return(TRUE, [n \in items |-> target[n]])
       \/ Return(FALSE, Blank) /\ UNCHANGED doubt
    /\ UNCHANGED <<target, saved, online>>

\* connect and disconnect; between two sessions the model may be another.
ConnectRuns ==
    /\ jobs # <<>> /\ Job.is = "connect"
    /\ \E ok \in BOOLEAN : online' = (online \/ ok) /\ Return(ok, Blank)
    /\ UNCHANGED <<target, saved, doubt>>
DisconnectRuns ==
    /\ jobs # <<>> /\ Job.is = "disconnect"
    /\ \E restored \in SUBSET Changed :
        /\ Restore(restored)
        /\ doubt' = IF restored = Changed THEN Names ELSE doubt \union Changed
        /\ online' = (online /\ restored # Changed)
        /\ Return(restored = Changed, Blank)

-----------------------------------------------------------------------------
(* _drain_ui_queue, which also runs while a dialog of the user is open, but   *)
(* not below the message it shows itself.                                     *)

Next1 == Head(answers)
Taken == answers # <<>> /\ modal.is # "message" /\ answers' = Tail(answers)

Calibrating == {"write", "restore", "read"}

\* Mutant: the values read after a restore are not shown.
MutantRestoreUnseen(answer) ==
    IF answer.is = "restore" THEN current
    ELSE Merge(current, [n \in DOMAIN answer.shown \intersect items |-> answer.shown[n]])

\* update_current_values
CurrentAfter(answer) ==
    Merge(current, [n \in DOMAIN answer.shown \intersect items |-> answer.shown[n]])

\* update_current_values and clear_pending for the values of the answer.
Calibrated ==
    /\ Taken /\ Next1.ok /\ Next1.is \in Calibrating
    /\ current' = CurrentAfter(Next1)
    /\ IF Next1.is = "read" THEN UNCHANGED <<new, selected>>
       ELSE ClearPending(DOMAIN Next1.shown)
    /\ pending' = FALSE
    /\ UNCHANGED <<items, ui, modal, jobs, session>>

Connected ==
    /\ Taken /\ Next1.ok /\ Next1.is \in {"connect", "disconnect"}
    /\ ui' = IF Next1.is = "connect" THEN "connected" ELSE "loaded"
    /\ UNCHANGED <<tab, pending, modal, jobs, session>>

\* _operation_failed: the state, the message, and only when that is closed the
\* end of the operation.  The dialog or menu below it goes on afterwards.
OperationFailed ==
    /\ Taken /\ ~Next1.ok
    /\ ui' = IF online THEN "connected" ELSE "loaded"
    /\ modal' = [is |-> "message", ends |-> Next1.is \in Calibrating, below |-> modal]
    /\ UNCHANGED <<tab, pending, jobs, session>>
Dismiss ==
    /\ modal.is = "message" /\ modal' = modal.below
    /\ pending' = (pending /\ ~modal.ends)
    /\ UNCHANGED <<tab, ui, jobs, answers, session>>

Next ==
    \/ Load \/ OpenEdit \/ AnswerEdit \/ Tick \/ OpenMenu \/ CloseMenu \/ MenuTick \/ Undo
    \/ RefreshCalibrations \/ AskWrite \/ AskRestore \/ Confirm \/ Decline
    \/ Connect \/ Disconnect
    \/ WriteSucceeds \/ WriteFails \/ RestoreRuns \/ Read \/ ConnectRuns \/ DisconnectRuns
    \/ Calibrated \/ Connected \/ OperationFailed \/ Dismiss

Spec == Init /\ [][Next]_vars

-----------------------------------------------------------------------------
\* A new value the user entered disappears only when exactly that value was
\* written and read back, when its object was restored, when she withdraws it,
\* or with its catalogue: never by a failed write, and never in exchange for an
\* older edit whose answer comes late (clear_pending takes names, not values).
\* One exception is the code's own: a restore that finds nothing to restore
\* answers with no names, and clear_pending then drops every edit.
KeepsEdits ==
    \A n \in Names : new[n] # Unset /\ new'[n] = Unset =>
        \/ n \notin items'
        \/ modal.is = "menu"
        \/ /\ answers # <<>> /\ Next1.ok
           /\ \/ Next1.is = "write" /\ n \in DOMAIN Next1.shown /\ Next1.shown[n] = new[n]
              \/ Next1.is = "restore" /\ (DOMAIN Next1.shown = {} \/ n \in DOMAIN Next1.shown)
EditsKept == [][KeepsEdits]_vars

\* Without that exception, as the question before a restore has it ("restore the
\* original values written in this session"): a restore about to be answered
\* takes no new value away but those of the objects it has restored
\* (_restore_calibrations).
RestoreKeepsOthers ==
    answers # <<>> /\ Next1.ok /\ Next1.is = "restore" =>
        \A n \in Cleared(DOMAIN Next1.shown) : new[n] # Unset => n \in DOMAIN Next1.shown

\* A value shown as the current one is on the target as long as no operation is
\* under way and none has failed, or ended the session, since it was read.
ShownIsCurrent ==
    ~pending => \A n \in items \ doubt : current[n] # Unset => current[n] = target[n]

=============================================================================
