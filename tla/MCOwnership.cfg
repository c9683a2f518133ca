CONSTANTS
    Callers = {a}
    Ports = 2
    Nobody = nobody
    Worker = io
    CanCapacity = 1
    Batch = 1
    MaxToken = 2
    Kinds = {"tcp server", "tcp client", "udp"}
    Capacity = 2
    MessageSize = 2
    MaxTokens = 2
    MaxConns = 2
    MaxUnits = 3
    Drivers = {"serial", "dio", "ethercat"}
    Clients = {a, b, c}
    Devices = {x, y}
    SlotCount = 2
    TokenCount = 4
    MaxFaults = 1
    MaxBoxes = 2
SPECIFICATION Spec
INVARIANTS ChannelsExclusive StreamsWhole BlocksIsolated ControlIsHeld
PROPERTIES LateAnswerStartsNothing EverythingReturns
CHECK_DEADLOCK FALSE
