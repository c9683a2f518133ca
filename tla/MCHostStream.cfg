CONSTANTS
    MaxPending = 2
    CloseFails = FALSE
SPECIFICATION Spec
INVARIANTS StreamHasStop
CHECK_DEADLOCK FALSE
