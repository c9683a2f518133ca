CONSTANTS
    Names = {x, y}
    Layouts = {1, 2}
    Ranges = {r1}
    Values = {0, 1}
    Unset = unset
    MaxJobs = 2
SPECIFICATION WorkbenchSpec
INVARIANTS ChartTrue ShownIsCurrent
PROPERTIES EditsKept PageImplementsTransaction
SYMMETRY Symmetry
CHECK_DEADLOCK FALSE
