CONSTANTS
    Model = model
    Later = later
    MaxFaults = 1
    Samples = 3
    IdleTime = 3
    Gap = 2
    Retry = 3
    MaxFailures = 2
    MaxArms = 2
    MaxNow = 8
    Sources = {"a"}
    Builds = {p, q}
    MaxEdits = 2
    MaxCrashes = 1
    Models = 2
    Runs = {d, e}
    Pids = {1, 2}
    MaxAge = 1
    MaxTicks = 2
    MaxStarts = 2
    Sizes <- MCSizes
    Times = {0, 2}
    SampleValues <- MCSampleValues
    BatchSize = 2
SPECIFICATION ServicesSpec
INVARIANTS DeletionSafe SyncsQuietly BuildTrue DeliveryTrue RunningIsTrue SamplesTrue
SYMMETRY Symmetry
CHECK_DEADLOCK FALSE
