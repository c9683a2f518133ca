CONSTANTS
    Period = 3
    SpinTail = 1
    PublishInterval = 4
    Int64Max = 14
    MaxTime = 11
SPECIFICATION Spec
INVARIANTS ReleaseGrid CountersAgree SnapshotCoherent StopIsPrompt
PROPERTIES
    ImplementsPeriodicTask
CHECK_DEADLOCK FALSE
