----------------------------- MODULE RtLifecycle ----------------------------
(***************************************************************************)
(* The three threads of a SimRT model process from start to exit: main,    *)
(* which runs the XCP background loop and then collects the others; the    *)
(* FIFO model thread; and the low-priority status thread that writes the   *)
(* live status file.  RtSchedule models the release times of the model     *)
(* thread; here a wait is a step that ends, and what matters is the order  *)
(* in which the threads touch the shared state.                            *)
(*                                                                         *)
(* A status snapshot is many words.  It is modelled as two words, "lo" and *)
(* "hi", copied one after the other, so that an unprotected copy could mix *)
(* two publications.  The step counter wraps at StepWrap to keep the       *)
(* endless run of a model finite.                                          *)
(***************************************************************************)
EXTENDS Naturals

CONSTANTS StepWrap      \* the step counter is kept modulo this number

ASSUME LifecycleAssumption == StepWrap \in Nat \ {0}

VARIABLES
    main,              \* where main is
    model,             \* where the model thread is
    status,            \* where the status thread is
    stop_signal,
    background_stop,
    model_finished,
    stop_sem,          \* stopSem is posted
    step_active,
    steps,             \* completed cycles, modulo StepWrap
    terminated,        \* how often the model's terminate function ran
    flag,              \* status_lock: the thread that holds it, or "free"
    snapshot,          \* status_snapshot
    copy,              \* the status thread's local copy
    status_stop,
    file,              \* the status file: its state and the words it holds
    reported           \* how often report() printed the summary

vars == <<main, model, status, stop_signal, background_stop, model_finished,
          stop_sem, step_active, steps, terminated, flag, snapshot, copy,
          status_stop, file, reported>>

MainPoints   == {"background", "wait_stop", "join_model", "stop_status",
                 "join_status", "reset", "exited"}
ModelPoints  == {"wait", "copy_lo", "copy_hi", "poll", "released", "step",
                 "terminate", "finish", "final_copy_lo", "final_copy_hi", "post",
                 "exiting", "gone"}
StatusPoints == {"try", "read_lo", "read_hi", "write", "sleep", "gone", "none"}

Words == 0..(StepWrap - 1)
Pair  == [lo: Words, hi: Words]
\* The file's words may come from no snapshot before the first write.
Files == [state: {"absent", "RUNNING", "STOPPED"}, lo: Words, hi: Words]

\* The status thread may fail to start: the model then runs without it.  The
\* base-rate loop is not entered when the model already asks to stop.
Init ==
    /\ main = "background"
    /\ model \in {"wait", "terminate"}
    /\ status \in {"try", "none"}
    /\ stop_signal = FALSE /\ background_stop = FALSE /\ model_finished = FALSE
    /\ stop_sem = FALSE /\ step_active = FALSE /\ steps = 0 /\ terminated = 0
    /\ flag = "free"
    /\ snapshot = [lo |-> 0, hi |-> 0] /\ copy = [lo |-> 0, hi |-> 0]
    /\ status_stop = FALSE
    /\ file = [state |-> "absent", lo |-> 0, hi |-> 0]
    /\ reported = 0

-----------------------------------------------------------------------------
(* The environment.                                                        *)

\* One of the four stop signals is delivered.
SignalStop ==
    /\ ~stop_signal
    /\ stop_signal' = TRUE
    /\ UNCHANGED <<main, model, status, background_stop, model_finished, stop_sem,
                   step_active, steps, terminated, flag, snapshot, copy, status_stop,
                   file, reported>>

-----------------------------------------------------------------------------
(* The model thread.                                                       *)

modelElse == <<main, status, stop_signal, background_stop, copy, status_stop,
               file, reported>>

\* finish_step at the entry of a wait; publish_status is due at most once per
\* interval and gives up at once when the flag is taken.
FinishStepBefore(published, unpublished) ==
    /\ steps' = IF step_active THEN (steps + 1) % StepWrap ELSE steps
    /\ step_active' = FALSE
    /\ \/ /\ step_active /\ status # "none" /\ flag = "free"
          /\ flag' = "model"
          /\ model' = published
       \/ /\ model' = unpublished
          /\ UNCHANGED flag

WaitFinish ==
    /\ model = "wait"
    /\ FinishStepBefore("copy_lo", "poll")
    /\ UNCHANGED <<modelElse, model_finished, stop_sem, terminated, snapshot>>

\* status_snapshot = capture_status(...), then the flag is cleared.
CopyLow ==
    /\ \/ model = "copy_lo" /\ model' = "copy_hi"
       \/ model = "final_copy_lo" /\ model' = "final_copy_hi"
    /\ snapshot' = [snapshot EXCEPT !.lo = steps]
    /\ UNCHANGED <<modelElse, model_finished, stop_sem, step_active, steps, terminated,
                   flag>>

CopyHigh ==
    /\ \/ model = "copy_hi" /\ model' = "poll"
       \/ model = "final_copy_hi" /\ model' = "post"
    /\ snapshot' = [snapshot EXCEPT !.hi = steps]
    /\ flag' = "free"
    /\ UNCHANGED <<modelElse, model_finished, stop_sem, step_active, steps, terminated>>

\* Mutant: stop_from_model_thread terminates the model and then returns to a
\* loop that terminates it again.
StopFromModelThreadTwice ==
    /\ model = "poll" /\ stop_signal
    /\ model' = "terminate"
    /\ terminated' = terminated + 1
    /\ UNCHANGED <<modelElse, model_finished, stop_sem, step_active, steps,
                   flag, snapshot>>

\* stop_from_model_thread
StopFromModelThread ==
    /\ model = "poll" /\ stop_signal
    /\ model' = "terminate"
    /\ UNCHANGED <<modelElse, model_finished, stop_sem, step_active, steps, terminated,
                   flag, snapshot>>

\* The wait reaches its release.
Release ==
    /\ model = "poll" /\ ~stop_signal
    /\ model' = "released"
    /\ step_active' = TRUE
    /\ UNCHANGED <<modelElse, model_finished, stop_sem, steps, terminated, flag, snapshot>>

\* Mutant: background_stop is not looked at.
StepBeginUnchecked ==
    /\ model = "released"
    /\ model' = "step"
    /\ UNCHANGED <<modelElse, model_finished, stop_sem, step_active, steps, terminated,
                   flag, snapshot>>

\* baseRateTask: a step, unless the background loop has failed.
StepBegin ==
    /\ model = "released"
    /\ model' = IF background_stop THEN "terminate" ELSE "step"
    /\ UNCHANGED <<modelElse, model_finished, stop_sem, step_active, steps, terminated,
                   flag, snapshot>>

\* The step returns; the model may ask to stop.
StepEnd ==
    /\ model = "step"
    /\ model' \in {"wait", "terminate"}
    /\ UNCHANGED <<modelElse, model_finished, stop_sem, step_active, steps, terminated,
                   flag, snapshot>>

\* terminateTask: the model's terminate function runs, then main may leave its
\* background loop.
TerminateModel ==
    /\ model = "terminate"
    /\ model' = "finish"
    /\ terminated' = terminated + 1
    /\ model_finished' = TRUE
    /\ UNCHANGED <<modelElse, stop_sem, step_active, steps, flag, snapshot>>

\* __wrap_sem_post: an open release is finished first ...
PostFinish ==
    /\ model = "finish"
    /\ FinishStepBefore("final_copy_lo", "post")
    /\ UNCHANGED <<modelElse, model_finished, stop_sem, terminated, snapshot>>

\* ... then stopSem is posted, ...
PostStop ==
    /\ model = "post"
    /\ model' = "exiting"
    /\ stop_sem' = TRUE
    /\ UNCHANGED <<modelElse, model_finished, step_active, steps, terminated, flag, snapshot>>

\* ... and the thread ends; model_cleanup finds no open release.
ThreadExit ==
    /\ model = "exiting"
    /\ model' = "gone"
    /\ UNCHANGED <<modelElse, model_finished, stop_sem, step_active, steps, terminated,
                   flag, snapshot>>

ModelThread ==
    \/ WaitFinish \/ CopyLow \/ CopyHigh \/ StopFromModelThread \/ Release
    \/ StepBegin \/ StepEnd \/ TerminateModel \/ PostFinish \/ PostStop
    \/ ThreadExit

-----------------------------------------------------------------------------
(* The status thread: status_entry.                                        *)

statusElse == <<main, model, stop_signal, background_stop, model_finished, stop_sem,
                step_active, steps, terminated, snapshot, status_stop, reported>>

\* Mutant: the flag is not tried before the snapshot is read.
StatusTryUnlocked ==
    /\ status = "try"
    /\ status' = "read_lo"
    /\ UNCHANGED <<statusElse, flag, copy, file>>

\* The flag is tried once; when it is taken, this round writes nothing.
StatusTry ==
    /\ status = "try"
    /\ IF flag = "free"
       THEN flag' = "status" /\ status' = "read_lo"
       ELSE status' = "sleep" /\ UNCHANGED flag
    /\ UNCHANGED <<statusElse, copy, file>>

ReadLow ==
    /\ status = "read_lo"
    /\ status' = "read_hi"
    /\ copy' = [copy EXCEPT !.lo = snapshot.lo]
    /\ UNCHANGED <<statusElse, flag, file>>

ReadHigh ==
    /\ status = "read_hi"
    /\ status' = "write"
    /\ copy' = [copy EXCEPT !.hi = snapshot.hi]
    /\ flag' = "free"
    /\ UNCHANGED <<statusElse, file>>

\* write_status: a temporary file is renamed over the old one, or nothing is
\* replaced when any step of that fails.
WriteStatus(words, state) ==
    \/ file' = [state |-> state, lo |-> words.lo, hi |-> words.hi]
    \/ UNCHANGED file

WriteRunning ==
    /\ status = "write"
    /\ status' = "sleep"
    /\ WriteStatus(copy, "RUNNING")
    /\ UNCHANGED <<statusElse, flag, copy>>

\* The timed wait ends by timeout, or at once when status_stop is set.
StatusSleep ==
    /\ status = "sleep"
    /\ status' = IF status_stop THEN "gone" ELSE "try"
    /\ UNCHANGED <<statusElse, flag, copy, file>>

\* The clock cannot be read: the thread gives up.
StatusGiveUp ==
    /\ status = "sleep"
    /\ status' = "gone"
    /\ UNCHANGED <<statusElse, flag, copy, file>>

StatusThread == StatusTry \/ ReadLow \/ ReadHigh \/ WriteRunning \/ StatusSleep

-----------------------------------------------------------------------------
(* main.                                                                   *)

mainElse == <<model, status, stop_signal, model_finished, step_active, steps,
              terminated, flag, snapshot, copy>>

\* extmodeBackgroundRun or its sleep fails.
BackgroundFailure ==
    /\ main = "background"
    /\ main' = "wait_stop"
    /\ background_stop' = TRUE
    /\ UNCHANGED <<mainElse, stop_sem, status_stop, file, reported>>

BackgroundDone ==
    /\ main = "background" /\ model_finished
    /\ main' = "wait_stop"
    /\ UNCHANGED <<mainElse, background_stop, stop_sem, status_stop, file, reported>>

\* Mutant: the semaphore wait is skipped after a background failure, so the
\* model thread is not waited for.
WaitStopSkipped ==
    /\ main = "wait_stop" /\ (stop_sem \/ background_stop)
    /\ stop_sem' = FALSE
    /\ main' = "stop_status"
    /\ UNCHANGED <<mainElse, background_stop, status_stop, file, reported>>

\* __wrap_sem_wait(&stopSem): first the semaphore, ...
WaitStop ==
    /\ main = "wait_stop" /\ stop_sem
    /\ stop_sem' = FALSE
    /\ main' = "join_model"
    /\ UNCHANGED <<mainElse, background_stop, status_stop, file, reported>>

\* Mutant: main leaves for the summary as soon as model_finished is seen.
JoinModelNotJoined ==
    /\ main = "join_model" /\ model_finished
    /\ main' = "stop_status"
    /\ UNCHANGED <<mainElse, background_stop, stop_sem, status_stop, file, reported>>

\* ... then the model thread, ...
JoinModel ==
    /\ main = "join_model" /\ model = "gone"
    /\ main' = "stop_status"
    /\ UNCHANGED <<mainElse, background_stop, stop_sem, status_stop, file, reported>>

\* ... and finish_status_thread asks the status thread to end.  Without one it
\* returns at once and the summary is printed.
StopStatus ==
    /\ main = "stop_status"
    /\ \/ /\ status = "none"
          /\ main' = "reset"
          /\ reported' = reported + 1
          /\ UNCHANGED status_stop
       \/ /\ status # "none"
          /\ main' = "join_status"
          /\ status_stop' = TRUE
          /\ UNCHANGED reported
    /\ UNCHANGED <<mainElse, background_stop, stop_sem, file>>

\* Mutant: the final status is written without joining the status thread.
FinalStatusNotJoined ==
    /\ main = "join_status"
    /\ main' = "reset"
    /\ WriteStatus([lo |-> steps, hi |-> steps], "STOPPED")
    /\ reported' = reported + 1
    /\ UNCHANGED <<mainElse, background_stop, stop_sem, status_stop>>

\* The final status is captured from the counters themselves.
FinalStatus ==
    /\ main = "join_status" /\ status = "gone"
    /\ main' = "reset"
    /\ WriteStatus([lo |-> steps, hi |-> steps], "STOPPED")
    /\ reported' = reported + 1
    /\ UNCHANGED <<mainElse, background_stop, stop_sem, status_stop>>

\* reset_external_mode and the return from main.
Reset ==
    /\ main = "reset"
    /\ main' = "exited"
    /\ UNCHANGED <<mainElse, background_stop, stop_sem, status_stop, file, reported>>

MainThread == BackgroundDone \/ WaitStop \/ JoinModel \/ StopStatus \/ FinalStatus \/ Reset

-----------------------------------------------------------------------------
Exited == main = "exited" /\ UNCHANGED vars

Next ==
    \/ SignalStop \/ BackgroundFailure \/ StatusGiveUp
    \/ ModelThread \/ StatusThread \/ MainThread \/ Exited

\* Each thread that can take a step eventually does: the model thread has the
\* highest priority on its core, the others share the remaining cores.  No
\* signal and no failure is ever required to happen.
Fairness == WF_vars(ModelThread) /\ WF_vars(StatusThread) /\ WF_vars(MainThread)

Spec == Init /\ [][Next]_vars /\ Fairness

-----------------------------------------------------------------------------
(* Properties.                                                             *)

\* Every variable holds a value of its type, and the model's terminate function
\* and the summary happen at most once.
TypeOK ==
    /\ main \in MainPoints /\ model \in ModelPoints /\ status \in StatusPoints
    /\ stop_signal \in BOOLEAN /\ background_stop \in BOOLEAN
    /\ model_finished \in BOOLEAN /\ stop_sem \in BOOLEAN /\ step_active \in BOOLEAN
    /\ steps \in Words /\ terminated \in 0..1 /\ reported \in 0..1
    /\ flag \in {"free", "model", "status"}
    /\ snapshot \in Pair /\ copy \in Pair /\ file \in Files
    /\ status_stop \in BOOLEAN

\* The status file never mixes two publications, although both threads only try
\* the flag and never wait for it.
StatusNotTorn == file.lo = file.hi

\* Once the file says STOPPED it is never overwritten by a late RUNNING:
\* finish_status_thread joins the status thread before it writes.
StoppedIsFinal ==
    [][file.state = "STOPPED" => file' = file]_vars

\* A STOPPED file holds the final counters, after the last open release was
\* closed: main joins the model thread before it captures them.
FinalStatusExact ==
    file.state = "STOPPED" => file.lo = steps /\ ~step_active

\* What another process reads from the status file was true at one moment, and a
\* STOPPED is exact.
StatusFileTrue == StatusNotTorn /\ FinalStatusExact

\* "XCP reset belongs to main, after the model thread has been joined": when
\* main resets external mode or exits, no other thread runs any more and the
\* model's terminate function has run.
ResetAfterThreads ==
    main \in {"reset", "exited"} =>
        /\ model = "gone" /\ status \in {"gone", "none"}
        /\ terminated = 1 /\ reported = 1 /\ flag = "free"

\* A stop signal or a failure of the background loop ends the process, wherever
\* the three threads are when it arrives.
StopTerminates == (stop_signal \/ background_stop) ~> main = "exited"
=============================================================================
