-------------------------- MODULE RtLifecycleProofs --------------------------
(***************************************************************************)
(* Safety of the life cycle of a model process for every wrap of the step  *)
(* counter.                                                                *)
(*                                                                         *)
(* That the status file is never torn rests on who holds the flag: the     *)
(* model thread writes and the status thread reads the snapshot only while *)
(* they have it, although neither ever waits for it.  That a STOPPED file  *)
(* is exact and stays, and that XCP is reset last, rests on the order in   *)
(* which main collects the other threads.                                  *)
(***************************************************************************)
EXTENDS RtLifecycle, TLAPS

\* The points of the model thread from its terminate function on.
Ending == {"finish", "final_copy_lo", "final_copy_hi", "post", "exiting", "gone"}

\* The flag belongs to the thread that is between its try and its release.
FlagHeld ==
    /\ flag = "model" <=>
         model \in {"copy_lo", "copy_hi", "final_copy_lo", "final_copy_hi"}
    /\ flag = "status" <=> status \in {"read_lo", "read_hi"}

\* A copy is whole except between its two words.
CopiesWhole ==
    /\ model \in {"copy_hi", "final_copy_hi"} => snapshot.lo = steps
    /\ model \notin {"copy_hi", "final_copy_hi"} => snapshot.lo = snapshot.hi
    /\ status = "read_hi" => copy.lo = snapshot.lo
    /\ status = "write" => copy.lo = copy.hi

\* What the model thread has done at each of its points.
ModelPoint ==
    /\ terminated = IF model \in Ending THEN 1 ELSE 0
    /\ model \in Ending \ {"finish"} => ~step_active
    /\ stop_sem => model \in {"exiting", "gone"}

\* main has collected the model thread, then the status thread, and it alone
\* writes STOPPED.
MainPoint ==
    /\ main \in {"stop_status", "join_status", "reset", "exited"} => model = "gone"
    /\ main \in {"reset", "exited"} => status \in {"gone", "none"}
    /\ reported = IF main \in {"reset", "exited"} THEN 1 ELSE 0
    /\ file.state = "STOPPED" => main \in {"reset", "exited"}

IInv ==
    /\ TypeOK
    /\ FlagHeld
    /\ CopiesWhole
    /\ ModelPoint
    /\ MainPoint
    /\ StatusFileTrue

-----------------------------------------------------------------------------
(* Every step keeps the invariant.                                         *)

\* The step counter stays in its range.
LEMMA NextStepInRange == ASSUME TypeOK PROVE (steps + 1) % StepWrap \in Words
  <1>1. StepWrap \in Nat \ {0} /\ steps \in Nat
    BY LifecycleAssumption DEF TypeOK, Words
  <1>2. (steps + 1) % StepWrap \in 0..(StepWrap - 1)
    BY <1>1
  <1>3. QED  BY <1>2 DEF Words

LEMMA InitIInv == Init => IInv
  <1> SUFFICES ASSUME Init PROVE IInv
    OBVIOUS
  <1>1. 0 \in Words
    BY LifecycleAssumption DEF Words
  <1>2. TypeOK
    <2>1. [lo |-> 0, hi |-> 0] \in Pair
      BY <1>1 DEF Pair
    <2>2. [state |-> "absent", lo |-> 0, hi |-> 0] \in Files
      BY <1>1 DEF Files
    <2>3. main \in MainPoints /\ model \in ModelPoints /\ status \in StatusPoints
      BY DEF Init, MainPoints, ModelPoints, StatusPoints
    <2>4. steps \in Words /\ terminated \in 0..1 /\ reported \in 0..1
      BY <1>1 DEF Init
    <2>5. QED  BY <2>1, <2>2, <2>3, <2>4, Zenon DEF Init, TypeOK
  <1>3. FlagHeld /\ CopiesWhole /\ ModelPoint /\ MainPoint
    BY DEF Init, FlagHeld, CopiesWhole, ModelPoint, MainPoint, Ending
  <1>4. StatusFileTrue
    BY DEF Init, StatusFileTrue, StatusNotTorn, FinalStatusExact
  <1>5. QED  BY <1>2, <1>3, <1>4 DEF IInv

\* A step of the model thread runs with the status thread at any point, but
\* main has not passed its join.
LEMMA ModelThreadIInv ==
    ASSUME IInv, ModelThread
    PROVE  IInv'
  <1> USE DEF IInv
  <1>a. model # "gone"
    BY DEF ModelThread, WaitFinish, CopyLow, CopyHigh, StopFromModelThread, Release,
           StepBegin, StepEnd, TerminateModel, PostFinish, PostStop, ThreadExit
  <1>b. main \notin {"stop_status", "join_status", "reset", "exited"}
    BY <1>a DEF MainPoint
  <1>c. UNCHANGED modelElse
    BY DEF ModelThread, WaitFinish, CopyLow, CopyHigh, StopFromModelThread, Release,
           StepBegin, StepEnd, TerminateModel, PostFinish, PostStop, ThreadExit
  <1>d. MainPoint'
    BY <1>b, <1>c DEF MainPoint, modelElse
  <1>e. StatusFileTrue'
    BY <1>b, <1>c DEF MainPoint, modelElse, StatusFileTrue, StatusNotTorn, FinalStatusExact
  <1>1. CASE WaitFinish
    <2> USE <1>1 DEF WaitFinish, FinishStepBefore, modelElse
    <2>1. TypeOK'  BY NextStepInRange DEF TypeOK, ModelPoints
    <2>2. FlagHeld'  BY DEF FlagHeld
    <2>3. CopiesWhole'  BY DEF CopiesWhole, FlagHeld
    <2>4. ModelPoint'  BY DEF ModelPoint, Ending
    <2>5. QED  BY <1>d, <1>e, <2>1, <2>2, <2>3, <2>4
  <1>2. CASE CopyLow
    <2> USE <1>2 DEF CopyLow, modelElse
    <2>1. TypeOK'  BY DEF TypeOK, ModelPoints, Pair
    <2>2. FlagHeld'  BY DEF FlagHeld
    <2>3. CopiesWhole'
      <3>1. status \notin {"read_lo", "read_hi"}  BY DEF FlagHeld
      <3>2. snapshot'.lo = steps'  BY DEF TypeOK, Pair
      <3>3. QED  BY <3>1, <3>2 DEF CopiesWhole
    <2>4. ModelPoint'  BY DEF ModelPoint, Ending
    <2>5. QED  BY <1>d, <1>e, <2>1, <2>2, <2>3, <2>4
  <1>3. CASE CopyHigh
    <2> USE <1>3 DEF CopyHigh, modelElse
    <2>1. TypeOK'  BY DEF TypeOK, ModelPoints, Pair
    <2>2. FlagHeld'  BY DEF FlagHeld
    <2>3. CopiesWhole'
      <3>1. status \notin {"read_lo", "read_hi"}  BY DEF FlagHeld
      <3>2. snapshot'.hi = steps /\ snapshot'.lo = snapshot.lo  BY DEF TypeOK, Pair
      <3>3. snapshot.lo = steps  BY DEF CopiesWhole
      <3>4. QED  BY <3>1, <3>2, <3>3 DEF CopiesWhole
    <2>4. ModelPoint'  BY DEF ModelPoint, Ending
    <2>5. QED  BY <1>d, <1>e, <2>1, <2>2, <2>3, <2>4
  <1>4. CASE StopFromModelThread \/ Release \/ StepBegin \/ StepEnd
    <2> USE <1>4 DEF StopFromModelThread, Release, StepBegin, StepEnd, modelElse
    <2>1. TypeOK'  BY DEF TypeOK, ModelPoints
    <2>2. FlagHeld'  BY DEF FlagHeld
    <2>3. CopiesWhole'  BY DEF CopiesWhole
    <2>4. ModelPoint'  BY DEF ModelPoint, Ending
    <2>5. QED  BY <1>d, <1>e, <2>1, <2>2, <2>3, <2>4
  <1>5. CASE TerminateModel
    <2> USE <1>5 DEF TerminateModel, modelElse
    <2>0. terminated = 0  BY DEF ModelPoint, Ending
    <2>1. TypeOK'  BY <2>0 DEF TypeOK, ModelPoints
    <2>2. FlagHeld'  BY DEF FlagHeld
    <2>3. CopiesWhole'  BY DEF CopiesWhole
    <2>4. ModelPoint'  BY <2>0 DEF ModelPoint, Ending
    <2>5. QED  BY <1>d, <1>e, <2>1, <2>2, <2>3, <2>4
  <1>6. CASE PostFinish
    <2> USE <1>6 DEF PostFinish, FinishStepBefore, modelElse
    <2>1. TypeOK'  BY NextStepInRange DEF TypeOK, ModelPoints
    <2>2. FlagHeld'  BY DEF FlagHeld
    <2>3. CopiesWhole'  BY DEF CopiesWhole, FlagHeld
    <2>4. ModelPoint'  BY DEF ModelPoint, Ending
    <2>5. QED  BY <1>d, <1>e, <2>1, <2>2, <2>3, <2>4
  <1>7. CASE PostStop \/ ThreadExit
    <2> USE <1>7 DEF PostStop, ThreadExit, modelElse
    <2>1. TypeOK'  BY DEF TypeOK, ModelPoints
    <2>2. FlagHeld'  BY DEF FlagHeld
    <2>3. CopiesWhole'  BY DEF CopiesWhole
    <2>4. ModelPoint'  BY DEF ModelPoint, Ending
    <2>5. QED  BY <1>d, <1>e, <2>1, <2>2, <2>3, <2>4
  <1>8. QED  BY <1>1, <1>2, <1>3, <1>4, <1>5, <1>6, <1>7 DEF ModelThread

\* The status thread reads a snapshot nobody writes, and is gone before main
\* writes STOPPED.
LEMMA StatusThreadIInv ==
    ASSUME IInv, StatusThread \/ StatusGiveUp
    PROVE  IInv'
  <1> USE DEF IInv
  <1>a. status \notin {"gone", "none"}
    BY DEF StatusThread, StatusTry, ReadLow, ReadHigh, WriteRunning, StatusSleep, StatusGiveUp
  <1>b. main \notin {"reset", "exited"}
    BY <1>a DEF MainPoint
  <1>c. UNCHANGED statusElse
    BY DEF StatusThread, StatusTry, ReadLow, ReadHigh, WriteRunning, StatusSleep, StatusGiveUp
  <1>d. ModelPoint'
    BY <1>c DEF ModelPoint, statusElse
  <1>1. CASE StatusTry \/ StatusSleep \/ StatusGiveUp
    <2> USE <1>1 DEF StatusTry, StatusSleep, StatusGiveUp, statusElse
    <2>1. TypeOK'  BY DEF TypeOK, StatusPoints
    <2>2. FlagHeld'  BY DEF FlagHeld
    <2>3. CopiesWhole'  BY DEF CopiesWhole
    <2>4. MainPoint'  BY <1>b DEF MainPoint
    <2>5. StatusFileTrue'  BY DEF StatusFileTrue, StatusNotTorn, FinalStatusExact
    <2>6. QED  BY <1>d, <2>1, <2>2, <2>3, <2>4, <2>5
  <1>2. CASE ReadLow \/ ReadHigh
    <2> USE <1>2 DEF ReadLow, ReadHigh, statusElse
    <2>0. model \notin {"copy_hi", "final_copy_hi"}  BY DEF FlagHeld
    <2>1. TypeOK'  BY DEF TypeOK, StatusPoints, Pair
    <2>2. FlagHeld'  BY DEF FlagHeld
    <2>3. CopiesWhole'  BY <2>0 DEF CopiesWhole, TypeOK, Pair
    <2>4. MainPoint'  BY <1>b DEF MainPoint
    <2>5. StatusFileTrue'  BY DEF StatusFileTrue, StatusNotTorn, FinalStatusExact
    <2>6. QED  BY <1>d, <2>1, <2>2, <2>3, <2>4, <2>5
  <1>3. CASE WriteRunning
    <2> USE <1>3 DEF WriteRunning, WriteStatus, statusElse
    <2>1. TypeOK'  BY DEF TypeOK, StatusPoints, Pair, Files
    <2>2. FlagHeld'  BY DEF FlagHeld
    <2>3. CopiesWhole'  BY DEF CopiesWhole
    <2>4. MainPoint'  BY <1>b DEF MainPoint
    <2>5. StatusFileTrue'
      BY DEF StatusFileTrue, StatusNotTorn, FinalStatusExact, CopiesWhole
    <2>6. QED  BY <1>d, <2>1, <2>2, <2>3, <2>4, <2>5
  <1>4. QED  BY <1>1, <1>2, <1>3 DEF StatusThread

\* main writes STOPPED when both threads are gone and no release is open.
LEMMA MainIInv ==
    ASSUME IInv, MainThread \/ BackgroundFailure
    PROVE  IInv'
  <1> USE DEF IInv
  <1>a. UNCHANGED mainElse
    BY DEF MainThread, BackgroundFailure, BackgroundDone, WaitStop, JoinModel, StopStatus,
           FinalStatus, Reset
  <1>b. FlagHeld' /\ CopiesWhole'
    BY <1>a DEF FlagHeld, CopiesWhole, mainElse
  <1>1. CASE BackgroundFailure \/ BackgroundDone \/ WaitStop \/ JoinModel \/ Reset
    <2> USE <1>1 DEF BackgroundFailure, BackgroundDone, WaitStop, JoinModel, Reset, mainElse
    <2>1. TypeOK'  BY DEF TypeOK, MainPoints
    <2>2. ModelPoint'  BY DEF ModelPoint
    <2>3. MainPoint'  BY DEF MainPoint
    <2>4. StatusFileTrue'  BY DEF StatusFileTrue, StatusNotTorn, FinalStatusExact
    <2>5. QED  BY <1>b, <2>1, <2>2, <2>3, <2>4
  <1>2. CASE StopStatus
    <2> USE <1>2 DEF StopStatus, mainElse
    <2>0. reported = 0  BY DEF MainPoint
    <2>1. TypeOK'
      <3>1. reported' \in 0..1 /\ main' \in MainPoints  BY <2>0 DEF MainPoints
      <3>2. status_stop' \in BOOLEAN  BY DEF TypeOK
      <3>3. QED  BY <3>1, <3>2, Zenon DEF TypeOK
    <2>2. ModelPoint'  BY DEF ModelPoint
    <2>3. MainPoint'  BY <2>0 DEF MainPoint
    <2>4. StatusFileTrue'  BY DEF StatusFileTrue, StatusNotTorn, FinalStatusExact
    <2>5. QED  BY <1>b, <2>1, <2>2, <2>3, <2>4
  <1>3. CASE FinalStatus
    <2> USE <1>3 DEF FinalStatus, WriteStatus, mainElse
    <2>0. reported = 0 /\ model = "gone" /\ ~step_active
      BY DEF MainPoint, ModelPoint, Ending
    <2>1. TypeOK'  BY <2>0 DEF TypeOK, MainPoints, Files
    <2>2. ModelPoint'  BY DEF ModelPoint
    <2>3. MainPoint'  BY <2>0 DEF MainPoint
    <2>4. StatusFileTrue'
      BY <2>0 DEF StatusFileTrue, StatusNotTorn, FinalStatusExact
    <2>5. QED  BY <1>b, <2>1, <2>2, <2>3, <2>4
  <1>4. QED  BY <1>1, <1>2, <1>3 DEF MainThread

LEMMA NextIInv == ASSUME IInv, [Next]_vars PROVE IInv'
  <1>1. CASE ModelThread  BY <1>1, ModelThreadIInv
  <1>2. CASE StatusThread \/ StatusGiveUp  BY <1>2, StatusThreadIInv
  <1>3. CASE MainThread \/ BackgroundFailure  BY <1>3, MainIInv
  <1>4. CASE SignalStop
    BY <1>4 DEF IInv, SignalStop, TypeOK, FlagHeld, CopiesWhole, ModelPoint, MainPoint,
                StatusFileTrue, StatusNotTorn, FinalStatusExact
  <1>5. CASE UNCHANGED vars \/ Exited
    BY <1>5 DEF IInv, vars, Exited, TypeOK, FlagHeld, CopiesWhole, ModelPoint, MainPoint,
                StatusFileTrue, StatusNotTorn, FinalStatusExact
  <1>6. QED  BY <1>1, <1>2, <1>3, <1>4, <1>5 DEF Next

LEMMA InvariantHolds == Spec => []IInv
  BY InitIInv, NextIInv, PTL DEF Spec

-----------------------------------------------------------------------------
(* The results.                                                            *)

\* Every variable keeps its type, and neither the model's terminate function
\* nor the summary of the counters runs twice.
THEOREM TypeCorrect == Spec => []TypeOK
  <1>1. IInv => TypeOK  BY DEF IInv
  <1>2. QED  BY <1>1, InvariantHolds, PTL

\* The status file is never torn, and a STOPPED one is exact.
THEOREM StatusFileIsTrue == Spec => []StatusFileTrue
  <1>1. IInv => StatusFileTrue  BY DEF IInv
  <1>2. QED  BY <1>1, InvariantHolds, PTL

\* When main resets XCP the other threads are gone and the model terminated.
THEOREM ResetIsLast == Spec => []ResetAfterThreads
  <1>1. IInv => ResetAfterThreads
    BY DEF IInv, TypeOK, FlagHeld, ModelPoint, MainPoint, ResetAfterThreads, Ending
  <1>2. QED  BY <1>1, InvariantHolds, PTL

\* No late RUNNING overwrites a STOPPED file.
THEOREM StoppedStays == Spec => StoppedIsFinal
  <1>1. ASSUME IInv, [Next]_vars
        PROVE  [file.state = "STOPPED" => file' = file]_vars
    <2>1. SUFFICES ASSUME file.state = "STOPPED" PROVE file' = file
      OBVIOUS
    <2>2. /\ main \in {"reset", "exited"}
          /\ model = "gone" /\ status \in {"gone", "none"}
      BY <1>1, <2>1 DEF IInv, MainPoint
    <2>3. CASE ModelThread \/ SignalStop \/ Exited \/ UNCHANGED vars
      BY <2>3 DEF ModelThread, WaitFinish, CopyLow, CopyHigh, StopFromModelThread, Release,
           StepBegin, StepEnd, TerminateModel, PostFinish, PostStop, ThreadExit, modelElse,
           SignalStop, Exited, vars
    <2>4. CASE StatusThread \/ StatusGiveUp
      BY <2>2, <2>4 DEF StatusThread, StatusTry, ReadLow, ReadHigh, WriteRunning,
           StatusSleep, StatusGiveUp
    <2>5. CASE MainThread \/ BackgroundFailure
      BY <2>2, <2>5 DEF MainThread, BackgroundFailure, BackgroundDone, WaitStop, JoinModel,
           StopStatus, FinalStatus, Reset
    <2>6. QED  BY <1>1, <2>3, <2>4, <2>5 DEF Next
  <1>2. QED  BY <1>1, InvariantHolds, PTL DEF Spec, StoppedIsFinal
=============================================================================
