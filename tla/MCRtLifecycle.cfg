CONSTANTS
    StepWrap = 3
SPECIFICATION Spec
INVARIANTS StatusFileTrue ResetAfterThreads
PROPERTIES StoppedIsFinal StopTerminates
