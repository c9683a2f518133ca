CONSTANTS
    Names = {"wide", "alias", "byte"}
    Cells = {1, 2, 3}
    Values = {0, 1}
    Span <- MCSpan
SPECIFICATION Spec
INVARIANTS RecordsExact FailuresKeepTrack
PROPERTIES ImplementsTransaction
