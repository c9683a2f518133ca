CONSTANTS
    OdtCount = 2
    Capacity = 1
    CounterModulus = 7
    Period = 2
    TsModulus = 9
    FirstTick = 8
    MaxFrames = 8
    MaxEvents = 4
SPECIFICATION Spec
INVARIANTS EventsNotMixed TimesTrue LossesAccounted
CHECK_DEADLOCK FALSE
