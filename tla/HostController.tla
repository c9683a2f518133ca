---------------------------- MODULE HostController ----------------------------
(***************************************************************************)
(* The controller of the host application: methods that run on the UI      *)
(* thread, one worker thread that runs the session's methods in the order  *)
(* they were submitted, and a queue of answers the UI thread handles every *)
(* 40 ms.  A job is named for its method and what follows it:              *)
(*   offline, switch, switchResume, guard   vm.disconnect, for the user,   *)
(*       for a new target address (to resume or not), before a model stops *)
(*   stop, stopSettle                       vm.stop_daq                    *)
(* The session is what the controller can see of it (XcpSession says what  *)
(* it does): connected, and streaming for daq_active.                      *)
(*                                                                         *)
(* An error dialog is modal: its event loop runs inside the handler of an  *)
(* answer, so the user can only dismiss it and no other answer is handled, *)
(* but timers go on; on_error runs after it.                               *)
(***************************************************************************)
EXTENDS Naturals, Sequences, SequencesExt

CONSTANTS
    MaxPending,     \* bound: the user acts when so few jobs and answers are pending
    CloseFails      \* the restore of calibrations when the window closes may fail

ASSUME HostAssumption == MaxPending \in Nat /\ CloseFails \in BOOLEAN

VARIABLES
    \* the controller
    state, loaded,
    acquiring,      \* _acquiring
    daqMode, startPending,
    current,        \* the last start submitted is of this _daq_generation
    calibrating, pollPending,
    timer,          \* _poll_after_id is set
    remoteStop,     \* _remote_stop_pending
    waitStop,       \* wait_for_stop is scheduled
    resume,         \* _resume_after_host_change
    closing, closed,
    modal,          \* the job whose error dialog is open, "poll", "note", or "none"
    \* between the threads
    jobs,           \* submitted and not finished
    running,        \* whether the first of them has begun, or has stopped the stream
    answers,        \* _ui_queue
    draining,       \* _drain_ui_queue has begun and not yet found it empty
    \* the session
    connected, streaming

observationVars == <<acquiring, daqMode, startPending, current, timer>>
stopVars        == <<remoteStop, waitStop>>
closeVars       == <<closing, closed>>
workerVars      == <<jobs, running>>
sessionVars     == <<connected, streaming>>
vars == <<state, loaded, observationVars, calibrating, pollPending, stopVars, resume,
          closeVars, modal, workerVars, answers, draining, sessionVars>>

States == {"EMPTY", "LOADED", "CONNECTING", "CONNECTED", "ACQUIRING", "ERROR", "CLOSING"}
Disconnects == {"offline", "switch", "switchResume", "guard", "cleanup"}
Stops == {"stop", "stopSettle"}
Jobs == {"load", "connect", "start", "poll", "calibrate"} \cup Disconnects \cup Stops

Init ==
    /\ state = "EMPTY" /\ loaded = FALSE
    /\ acquiring = FALSE /\ daqMode = FALSE /\ startPending = FALSE /\ current = FALSE
    /\ timer = FALSE /\ calibrating = FALSE /\ pollPending = FALSE
    /\ remoteStop = FALSE /\ waitStop = FALSE /\ resume = FALSE
    /\ closing = FALSE /\ closed = FALSE /\ modal = "none"
    /\ jobs = <<>> /\ running = "no" /\ answers = <<>> /\ draining = FALSE
    /\ connected = FALSE /\ streaming = FALSE

-----------------------------------------------------------------------------
(* Parts of handlers.                                                      *)

\* Mutant of Submitted: a closing window takes jobs.
SubmittedAlways(queue, job) == Append(queue, job)

\* _submit does nothing once the window is closing.
Submitted(queue, job) == IF closing \/ closed THEN queue ELSE Append(queue, job)

DisconnectedState == IF loaded THEN "LOADED" ELSE "EMPTY"

\* What _apply_policy enables by: while a model is being stopped, as if busy.
Shown == IF remoteStop THEN "CONNECTING" ELSE state
Idle == Shown \in {"EMPTY", "LOADED", "ERROR"}
Online == Shown \in {"CONNECTED", "ACQUIRING"}

\* _stop_observation, except for the state, which most callers set themselves.
WasDaq == daqMode \/ startPending
ObservationStopped ==
    /\ acquiring' = FALSE /\ timer' = FALSE
    /\ daqMode' = FALSE /\ startPending' = FALSE /\ current' = FALSE
StopSubmitted(job) == IF WasDaq THEN Submitted(jobs, job) ELSE jobs
StoppedState ==
    CASE WasDaq /\ ~closing -> "CONNECTING"
      [] ~WasDaq /\ state = "ACQUIRING" -> "CONNECTED"
      [] OTHER -> state

\* _start_observation in the state CONNECTED: polling, or DAQ (_start_daq), whose
\* job is refused once the window is closing.
Started ==
    \/ /\ acquiring' = TRUE /\ state' = "ACQUIRING"
       /\ timer' = (timer \/ ~closing)
       /\ UNCHANGED <<daqMode, startPending, current, jobs>>
    \/ /\ startPending' = TRUE /\ daqMode' = TRUE /\ state' = "CONNECTING"
       /\ jobs' = Submitted(jobs, "start")
       /\ current' = ~closing
       /\ UNCHANGED <<acquiring, timer>>

-----------------------------------------------------------------------------
(* The user.                                                               *)

UserMay == ~closed /\ modal = "none" /\ ~draining /\ Len(jobs) + Len(answers) <= MaxPending

Load ==
    /\ UserMay /\ Idle /\ ~connected /\ ~closing
    /\ ObservationStopped
    /\ jobs' = Append(StopSubmitted("stop"), "load")
    /\ loaded' = FALSE /\ state' = "CONNECTING"
    /\ UNCHANGED <<calibrating, pollPending, stopVars, resume, closeVars, modal, running, answers, draining, sessionVars>>

Connect ==
    /\ UserMay /\ Idle /\ loaded /\ ~connected /\ ~closing
    /\ ObservationStopped
    /\ jobs' = Append(StopSubmitted("stop"), "connect")
    /\ state' = "CONNECTING"
    /\ UNCHANGED <<loaded, calibrating, pollPending, stopVars, resume, closeVars, modal, running, answers, draining, sessionVars>>

Disconnect ==
    /\ UserMay /\ ~closing
    /\ Online \/ (Idle /\ connected)
    /\ ObservationStopped
    /\ jobs' = Append(StopSubmitted("stop"), "offline")
    /\ state' = "CONNECTING"
    /\ UNCHANGED <<loaded, calibrating, pollPending, stopVars, resume, closeVars, modal, running, answers, draining, sessionVars>>

\* _commit_target_host: another address was entered while connected.
CommitTargetHost ==
    /\ UserMay /\ ~closing /\ ~remoteStop /\ state # "CONNECTING" /\ connected
    /\ ObservationStopped
    /\ jobs' = Append(StopSubmitted("stop"), IF acquiring THEN "switchResume" ELSE "switch")
    /\ state' = "CONNECTING"
    /\ UNCHANGED <<loaded, calibrating, pollPending, stopVars, resume, closeVars, modal, running, answers, draining, sessionVars>>

StartObservation ==
    /\ UserMay /\ ~remoteStop /\ state = "CONNECTED"
    /\ Started
    /\ UNCHANGED <<loaded, calibrating, pollPending, stopVars, resume, closeVars, modal, running, answers, draining, sessionVars>>

StopObservation ==
    /\ UserMay /\ Shown = "ACQUIRING"
    /\ ObservationStopped
    /\ jobs' = StopSubmitted("stopSettle")
    /\ state' = StoppedState
    /\ UNCHANGED <<loaded, calibrating, pollPending, stopVars, resume, closeVars, modal, running, answers, draining, sessionVars>>

\* Reading, writing or restoring calibrations (_run_with_poll_paused).
Calibrate ==
    /\ UserMay /\ ~calibrating /\ ~remoteStop /\ ~closing
    /\ state \in {"CONNECTED", "ACQUIRING"}
    /\ calibrating' = TRUE
    /\ jobs' = Append(jobs, "calibrate")
    /\ UNCHANGED <<state, loaded, observationVars, pollPending, stopVars, resume, closeVars, modal, running, answers, draining, sessionVars>>

\* _with_xcp_disconnected: a model is to be stopped; XCP goes first.
StopModel ==
    /\ UserMay /\ ~closing /\ ~remoteStop
    /\ remoteStop' = TRUE
    /\ ObservationStopped
    /\ jobs' = Append(StopSubmitted("stop"), "guard")
    /\ state' = "CONNECTING"
    /\ UNCHANGED <<loaded, calibrating, pollPending, waitStop, resume, closeVars, modal, running, answers, draining, sessionVars>>

Failed(js) == [i \in 1..Len(js) |-> [job |-> js[i], ok |-> FALSE]]

\* Jobs that have not begun are cancelled, which is a failure of each.
RequestClose ==
    /\ UserMay /\ ~closing
    /\ closing' = TRUE
    /\ ObservationStopped
    /\ state' = "CLOSING"
    /\ LET kept == IF running = "no" THEN 0 ELSE 1 IN
           /\ jobs' = Append(SubSeq(jobs, 1, kept), "cleanup")
           /\ answers' = answers \o Failed(SubSeq(jobs, kept + 1, Len(jobs)))
    /\ UNCHANGED <<loaded, calibrating, pollPending, stopVars, resume, closed, modal, running, draining, sessionVars>>

-----------------------------------------------------------------------------
(* The worker and the session.                                             *)

Begin ==
    /\ jobs # <<>> /\ running = "no"
    /\ running' = "begun"
    /\ UNCHANGED <<state, loaded, observationVars, calibrating, pollPending, stopVars, resume, closeVars, modal, jobs, answers, draining, sessionVars>>

\* Mutant of StreamStopped: the stream is left on.
StreamLeftOn ==
    /\ running = "begun" /\ connected
    /\ Head(jobs) \in Disconnects \cup {"load", "connect"}
    /\ running' = "down"
    /\ UNCHANGED <<state, loaded, observationVars, calibrating, pollPending, stopVars, resume, closeVars, modal, jobs, answers, draining, sessionVars>>

\* disconnect, which load_a2l and connect call first when they find a connection,
\* has restored the calibrations and stopped the stream.
StreamStopped ==
    /\ running = "begun" /\ connected
    /\ Head(jobs) \in Disconnects \cup {"load", "connect"}
    /\ running' = "down" /\ streaming' = FALSE
    /\ UNCHANGED <<state, loaded, observationVars, calibrating, pollPending, stopVars, resume, closeVars, modal, jobs, answers, draining, connected>>

\* What a job does to the session when it ends well, and when it fails; once the
\* stream is stopped, the connection is given up either way.
Effect(job, ok) ==
    LET down == running = "down" \/ ~connected IN
    CASE job \in Disconnects \cup {"load", "connect"} /\ ok ->
            down /\ connected' = (job = "connect") /\ UNCHANGED streaming
      [] job \in Disconnects \cup {"load", "connect"} /\ ~ok ->
            /\ job \in Disconnects => connected
            /\ job = "cleanup" => CloseFails
            /\ connected' = ~down /\ UNCHANGED streaming
      [] job = "start" /\ ok ->
            connected /\ ~streaming /\ streaming' = TRUE /\ UNCHANGED connected
      [] job = "start" /\ ~ok ->  \* the stop after a failed start may fail as well
            /\ streaming' \in {streaming} \cup {connected}
            /\ UNCHANGED connected
      [] job \in Stops /\ ok ->
            streaming' = FALSE /\ UNCHANGED connected
      [] job \in Stops /\ ~ok ->
            streaming /\ UNCHANGED sessionVars
      [] job \in {"poll", "calibrate"} /\ ok ->
            connected /\ UNCHANGED sessionVars
      [] OTHER -> UNCHANGED sessionVars

Finish(ok) ==
    /\ running # "no"
    /\ Effect(Head(jobs), ok)
    /\ running' = "no"
    /\ jobs' = Tail(jobs)
    /\ answers' = Append(answers, [job |-> Head(jobs), ok |-> ok])
    /\ UNCHANGED <<state, loaded, observationVars, calibrating, pollPending, stopVars, resume, closeVars, modal, draining>>

-----------------------------------------------------------------------------
(* Answers (_drain_ui_queue).                                              *)

Answer(job, ok) ==
    /\ ~closed /\ modal = "none"
    /\ answers # <<>> /\ Head(answers) = [job |-> job, ok |-> ok]
    /\ answers' = Tail(answers)
    /\ draining' = TRUE
    /\ UNCHANGED <<running, sessionVars>>

\* No later start is on its way, so current is about this one.
LastStart == "start" \notin Range(jobs) /\ \A i \in 2..Len(answers) : answers[i].job # "start"

DrainEnds ==
    /\ draining /\ answers = <<>> /\ modal = "none"
    /\ draining' = FALSE
    /\ UNCHANGED <<state, loaded, observationVars, calibrating, pollPending, stopVars, resume, closeVars, modal, workerVars, answers, sessionVars>>

\* The path may have been edited since, when an earlier failure freed the controls.
Loaded ==
    /\ Answer("load", TRUE)
    /\ loaded' \in BOOLEAN
    /\ state' = IF loaded' THEN "LOADED" ELSE "EMPTY"
    /\ UNCHANGED <<observationVars, calibrating, pollPending, stopVars, resume, closeVars, modal, jobs>>

\* _after_connected, which resumes an observation after a new target address.
Connected ==
    /\ Answer("connect", TRUE)
    /\ resume' = FALSE
    /\ \/ resume /\ ~remoteStop /\ Started
       \/ state' = "CONNECTED" /\ UNCHANGED <<observationVars, jobs>>
    /\ UNCHANGED <<loaded, calibrating, pollPending, stopVars, closeVars, modal>>

Disconnected ==
    /\ Answer("offline", TRUE)
    /\ state' = DisconnectedState
    /\ UNCHANGED <<loaded, observationVars, calibrating, pollPending, stopVars, resume, closeVars, modal, jobs>>

\* Mutant of Switched: connects although a model is being stopped.
SwitchedRegardless(job) ==
    /\ Answer(job, TRUE)
    /\ resume' = (job = "switchResume")
    /\ ~closing /\ ObservationStopped
    /\ jobs' = Append(StopSubmitted("stop"), "connect")
    /\ state' = "CONNECTING"
    /\ UNCHANGED <<loaded, calibrating, pollPending, stopVars, closeVars, modal>>

\* The old session is gone: _connect follows, which may refuse.
Switched(job) ==
    /\ Answer(job, TRUE)
    /\ resume' = (job = "switchResume")
    /\ \/ /\ ~remoteStop /\ ~closing
          /\ ObservationStopped
          /\ jobs' = Append(StopSubmitted("stop"), "connect")
          /\ state' = "CONNECTING"
          /\ UNCHANGED modal
       \/ /\ state' = "LOADED"
          /\ modal' \in IF remoteStop \/ closing THEN {"none"} ELSE {"note"}
          /\ UNCHANGED <<observationVars, jobs>>
    /\ UNCHANGED <<loaded, calibrating, pollPending, stopVars, closeVars>>

\* finish of _with_xcp_disconnected
Unguarded ==
    /\ remoteStop' = FALSE
    /\ state' = IF closing THEN state ELSE IF connected THEN "CONNECTED" ELSE DisconnectedState

\* Mutant of Guarded: nothing is done when the workspace refuses.
GuardedForgotten ==
    /\ Answer("guard", TRUE)
    /\ \/ ~closing /\ state' = "CONNECTING" /\ waitStop' \in BOOLEAN /\ UNCHANGED remoteStop
       \/ closing /\ Unguarded /\ UNCHANGED waitStop
    /\ UNCHANGED <<loaded, observationVars, calibrating, pollPending, resume, closeVars, modal, jobs>>

\* XCP is down: the model may stop, when the target workspace accepts it.
Guarded ==
    /\ Answer("guard", TRUE)
    /\ \/ ~closing /\ state' = "CONNECTING" /\ waitStop' = TRUE /\ UNCHANGED remoteStop
       \/ Unguarded /\ UNCHANGED waitStop
    /\ UNCHANGED <<loaded, observationVars, calibrating, pollPending, resume, closeVars, modal, jobs>>

DaqStarted ==
    /\ Answer("start", TRUE)
    /\ IF current /\ LastStart /\ ~closing
       THEN /\ startPending' = FALSE /\ acquiring' = TRUE /\ timer' = TRUE
            /\ state' = "ACQUIRING"
       ELSE UNCHANGED <<startPending, acquiring, timer, state>>
    /\ UNCHANGED <<loaded, daqMode, current, calibrating, pollPending, stopVars, resume, closeVars, modal, jobs>>

DaqStopped(job) ==
    /\ Answer(job, TRUE)
    /\ state' = IF job = "stopSettle" /\ ~remoteStop /\ ~closing /\ state = "CONNECTING"
                THEN IF connected THEN "CONNECTED" ELSE "LOADED"
                ELSE state
    /\ UNCHANGED <<loaded, observationVars, calibrating, pollPending, stopVars, resume, closeVars, modal, jobs>>

PollSucceeded ==
    /\ Answer("poll", TRUE)
    /\ pollPending' = FALSE
    /\ timer' = (timer \/ (acquiring /\ ~closing))
    /\ UNCHANGED <<state, loaded, acquiring, daqMode, startPending, current, calibrating, stopVars, resume, closeVars, modal, jobs>>

PollFailed ==
    /\ Answer("poll", FALSE)
    /\ pollPending' = FALSE
    /\ ObservationStopped
    /\ jobs' = StopSubmitted("stopSettle")
    /\ state' = IF connected THEN "CONNECTED" ELSE "ERROR"
    /\ modal' = "note"
    /\ UNCHANGED <<loaded, calibrating, stopVars, resume, closeVars>>

Calibrated ==
    /\ Answer("calibrate", TRUE)
    /\ calibrating' = FALSE
    /\ UNCHANGED <<state, loaded, observationVars, pollPending, stopVars, resume, closeVars, modal, jobs>>

\* Mutant of OperationFailed: does not look whether the connection is still there.
OperationFailedAsError(job) ==
    /\ Answer(job, FALSE)
    /\ state' = "ERROR"
    /\ modal' = job
    /\ UNCHANGED <<loaded, observationVars, calibrating, pollPending, stopVars, resume, closeVars, jobs>>

\* _operation_failed up to its dialog
OperationFailed(job) ==
    /\ Answer(job, FALSE)
    /\ state' = CASE connected -> IF acquiring THEN "ACQUIRING" ELSE "CONNECTED"
                  [] ~connected /\ job \in {"start"} \cup Stops -> DisconnectedState
                  [] OTHER -> "ERROR"
    /\ modal' = job
    /\ UNCHANGED <<loaded, observationVars, calibrating, pollPending, stopVars, resume, closeVars, jobs>>

FinishClose ==
    /\ Answer("cleanup", TRUE)
    /\ closed' = TRUE
    /\ UNCHANGED <<state, loaded, observationVars, calibrating, pollPending, stopVars, resume, closing, modal, jobs>>

CloseFailed ==
    /\ Answer("cleanup", FALSE)
    /\ closing' = FALSE
    /\ state' = IF connected THEN "CONNECTED" ELSE "ERROR"
    /\ modal' = "note"
    /\ UNCHANGED <<loaded, observationVars, calibrating, pollPending, stopVars, resume, closed, jobs>>

-----------------------------------------------------------------------------
(* The dialog is dismissed: on_error of the job that failed.               *)

Dismiss(job) == ~closed /\ modal = job /\ modal' = "none"

DismissOther(job) ==
    /\ Dismiss(job)
    /\ resume' = (resume /\ job \notin {"connect", "switch", "switchResume"})
    /\ calibrating' = (calibrating /\ job # "calibrate")
    /\ UNCHANGED <<state, loaded, observationVars, pollPending, stopVars, closeVars, workerVars, answers, draining, sessionVars>>

DismissGuard ==
    /\ Dismiss("guard")
    /\ Unguarded
    /\ UNCHANGED <<loaded, observationVars, calibrating, pollPending, waitStop, resume, closeVars, workerVars, answers, draining, sessionVars>>

\* An uncertain start keeps the stream: the user can stop it.
DismissStart ==
    /\ Dismiss("start")
    /\ IF current /\ "start" \notin Range(jobs) /\ \A i \in DOMAIN answers : answers[i].job # "start"
       THEN /\ startPending' = FALSE
            /\ daqMode' = streaming
            /\ acquiring' = (acquiring \/ streaming)
            /\ state' = IF streaming THEN "ACQUIRING" ELSE state
       ELSE UNCHANGED <<startPending, daqMode, acquiring, state>>
    /\ UNCHANGED <<loaded, current, timer, calibrating, pollPending, stopVars, resume, closeVars, workerVars, answers, draining, sessionVars>>

\* So does an uncertain stop.
DismissStop(job) ==
    /\ Dismiss(job)
    /\ IF streaming /\ ~remoteStop
       THEN /\ daqMode' = TRUE /\ acquiring' = TRUE /\ state' = "ACQUIRING"
            /\ timer' = (timer \/ ~closing)
       ELSE UNCHANGED <<daqMode, acquiring, state, timer>>
    /\ UNCHANGED <<loaded, startPending, current, calibrating, pollPending, stopVars, resume, closeVars, workerVars, answers, draining, sessionVars>>

-----------------------------------------------------------------------------
(* Timers.                                                                 *)

\* Not within a handler, unless its dialog is open.
TimersRun == ~closed /\ (draining => modal # "none")

\* In DAQ mode the samples are drained and the timer is set again.
PollOnce ==
    /\ timer /\ TimersRun
    /\ ~(acquiring /\ daqMode /\ ~closing /\ ~pollPending)
    /\ timer' = FALSE
    /\ IF closing \/ ~acquiring \/ pollPending
       THEN UNCHANGED <<pollPending, jobs>>
       ELSE pollPending' = TRUE /\ jobs' = Append(jobs, "poll")
    /\ UNCHANGED <<state, loaded, acquiring, daqMode, startPending, current, calibrating, stopVars, resume, closeVars, modal, running, answers, draining, sessionVars>>

\* wait_for_stop: the target workspace has stopped the model, or failed to.
WaitForStop ==
    /\ waitStop /\ TimersRun
    /\ waitStop' = FALSE
    /\ IF closing THEN UNCHANGED <<remoteStop, state>> ELSE Unguarded
    /\ UNCHANGED <<loaded, observationVars, calibrating, pollPending, resume, closeVars, modal, workerVars, answers, draining, sessionVars>>

User == Load \/ Connect \/ Disconnect \/ CommitTargetHost \/ StartObservation
        \/ StopObservation \/ Calibrate \/ StopModel \/ RequestClose
Worker == Begin \/ StreamStopped \/ \E ok \in BOOLEAN : Finish(ok)
Drain ==
    \/ DrainEnds \/ Loaded \/ Connected \/ Disconnected \/ Guarded \/ DaqStarted
    \/ \E job \in {"switch", "switchResume"} : Switched(job)
    \/ \E job \in Stops : DaqStopped(job)
    \/ PollSucceeded \/ PollFailed \/ Calibrated
    \/ \E job \in Jobs \ {"poll", "cleanup"} : OperationFailed(job)
    \/ FinishClose \/ CloseFailed
Dismissal ==
    \/ DismissGuard \/ DismissStart \/ \E job \in Stops : DismissStop(job)
    \/ \E job \in (Jobs \ ({"guard", "start"} \cup Stops)) \cup {"note"} : DismissOther(job)

Next == User \/ Worker \/ Drain \/ Dismissal \/ PollOnce \/ WaitForStop

\* Both threads run, dialogs are dismissed, and the target workspace ends a stop.
Fairness ==
    /\ WF_vars(Worker) /\ WF_vars(Drain) /\ WF_vars(Dismissal)
    /\ WF_vars(PollOnce) /\ WF_vars(WaitForStop)

Spec == Init /\ [][Next]_vars /\ Fairness

-----------------------------------------------------------------------------
(* Properties.                                                             *)

\* Every variable has a value of its type, and there is no stream without a connection.
TypeOK ==
    /\ state \in States /\ modal \in Jobs \cup {"none", "note"}
    /\ {loaded, acquiring, daqMode, startPending, current, calibrating, pollPending, timer,
        remoteStop, waitStop, resume, closing, closed, draining, connected, streaming} \subseteq BOOLEAN
    /\ jobs \in Seq(Jobs)
    /\ answers \in Seq([job: Jobs, ok: BOOLEAN])
    /\ running \in {"no", "begun", "down"} /\ (running # "no" => jobs # <<>>)
    /\ streaming => connected

\* Nothing is under way.
Quiet ==
    /\ jobs = <<>> /\ answers = <<>> /\ ~draining
    /\ ~remoteStop /\ ~closing

\* When nothing is under way, the state shown, which enables the controls, agrees with
\* the session: in whatever order answers, failures, dialogs and the closing of the
\* window came (_operation_failed, _close_failed, finish).
ShownIsTrue == Quiet => (state \in {"CONNECTED", "ACQUIRING"} <=> connected)

\* While a model is being stopped, XCP is disconnected and nothing on its way connects
\* it again, a switch of the target address included (_with_xcp_disconnected, _connect).
ModelStopsOffline == waitStop => ~connected /\ "connect" \notin Range(jobs)

\* A window closes only when the session is closed, its calibrations restored and its
\* stream stopped, and nothing can open it again (request_close, _submit).
ClosedIsClean == closed => ~connected /\ ~streaming /\ jobs = <<>>

\* The controls never stay locked: whatever fails, is refused or cancelled, the window
\* leaves the states in which it waits (every callback of _submit).
Settles ==
    Shown \in {"CONNECTING", "CLOSING"} ~> (closed \/ Shown \notin {"CONNECTING", "CLOSING"})

\* When nothing is under way, a running stream can be stopped: Stop is enabled.
StreamHasStop == Quiet /\ streaming => Shown = "ACQUIRING"

\* The target address is read-only while a switch of it is under way (_apply_policy).
SwitchLocksInput ==
    Range(jobs) \cap {"switch", "switchResume"} # {} =>
        Shown \in {"CONNECTING", "CLOSING"}
=============================================================================
