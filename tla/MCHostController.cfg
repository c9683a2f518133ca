CONSTANTS
    MaxPending = 2
    CloseFails = TRUE
SPECIFICATION Spec
INVARIANTS ShownIsTrue ModelStopsOffline ClosedIsClean
PROPERTIES Settles
CHECK_DEADLOCK FALSE
