CONSTANTS
    MaxTransactions = 2
    MaxReboots = 0
    Deadline = 4
    Margin = 1
    Overlap = TRUE
SPECIFICATION Spec
INVARIANTS ConfirmedStays
CHECK_DEADLOCK FALSE
