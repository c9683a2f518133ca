CONSTANTS
    MaxTransactions = 2
    MaxReboots = 2
    Deadline = 4
    Margin = 1
    Overlap = FALSE
SPECIFICATION Spec
INVARIANTS ConfirmedStays UnconfirmedUndone
PROPERTIES ChangeSettles
CHECK_DEADLOCK FALSE
