------------------------------ MODULE MCServices ------------------------------
(***************************************************************************)
(* Services and programs around a model: deletion and boot selection, the  *)
(* synchronization of the clock, the two build scripts, the console and    *)
(* the monitor of the target, and the native store of samples.             *)
(* They share no state; "part" says which one a behaviour is about, and    *)
(* the variables of the others keep the value 0.                           *)
(***************************************************************************)
EXTENDS Integers, TLC

CONSTANTS
    Model, Later, MaxFaults,
    Samples, IdleTime, Gap, Retry, MaxFailures, MaxArms, MaxNow,
    Sources, Builds, MaxEdits, MaxCrashes,
    Models, Runs,
    Pids, MaxAge, MaxTicks, MaxStarts,
    Sizes, Times, SampleValues, BatchSize

VARIABLES
    part,
    where, procs, boot, lock, op, start, runner, faults,
    arm, samples, idleSince, lastSample, failures, retryAt, sync, seen,
    ended, pending,
    content, tools, object, record, elf, b, crashes,
    bundle, dirs, copy, artifact, result, built, r,
    follows, wall, booted, proc, freed, starts, status, marker, c, shown, m,
    listed,
    size, rings, history,
    now,     \* of TargetClock and of TargetObservers
    report   \* of ModelBuild and of BundleDelivery

deleteOnly == <<where, procs, boot, lock, op, start, runner, faults>>
clockOnly == <<arm, samples, idleSince, lastSample, failures, retryAt, sync,
               seen, ended, pending>>
buildOnly == <<content, tools, object, record, elf, b, crashes>>
bundleOnly == <<bundle, dirs, copy, artifact, result, built, r>>
watchOnly == <<follows, wall, booted, proc, freed, starts, status, marker,
               c, shown, m, listed>>
storeOnly == <<size, rings, history>>

servicesVars == <<part, deleteOnly, clockOnly, buildOnly, bundleOnly, watchOnly, storeOnly, now, report>>

Del == INSTANCE ModelDeletion
Clk == INSTANCE TargetClock
Build == INSTANCE ModelBuild
Bundle == INSTANCE BundleDelivery
Watch == INSTANCE TargetObservers WITH MaxNow <- MaxTicks
Sto == INSTANCE SampleStore WITH Values <- SampleValues

ASSUME ServicesAssumption ==
    /\ Del!DeletionAssumption /\ Clk!ClockAssumption /\ Build!BuildAssumption
    /\ Bundle!DeliveryAssumption /\ Watch!ObserversAssumption
    /\ Sto!StoreAssumption

\* The bounds of the sample store: a ring that wraps with two signals, one
\* that wraps with longer deques, and one that is long enough for buckets.
MCSizes == {[capacity |-> 2, signals |-> 2, samples |-> 4],
            [capacity |-> 3, signals |-> 1, samples |-> 5],
            [capacity |-> 7, signals |-> 1, samples |-> 7]}
MCSampleValues == {-2, 0, 1}

\* Invocations of a script are interchangeable.
Symmetry == Permutations(Builds)

NoDel ==
    /\ where = 0 /\ procs = 0 /\ boot = 0 /\ lock = 0 /\ op = 0 /\ start = 0
    /\ runner = 0 /\ faults = 0
NoClk ==
    /\ arm = 0 /\ samples = 0 /\ idleSince = 0 /\ lastSample = 0
    /\ failures = 0 /\ retryAt = 0 /\ sync = 0 /\ seen = 0 /\ ended = 0
    /\ pending = 0
NoBuild ==
    /\ content = 0 /\ tools = 0 /\ object = 0 /\ record = 0 /\ elf = 0
    /\ b = 0 /\ crashes = 0
NoBundle ==
    /\ bundle = 0 /\ dirs = 0 /\ copy = 0 /\ artifact = 0 /\ result = 0
    /\ built = 0 /\ r = 0
NoWatch ==
    /\ follows = 0 /\ wall = 0 /\ booted = 0 /\ proc = 0 /\ freed = 0
    /\ starts = 0 /\ status = 0 /\ marker = 0 /\ c = 0 /\ shown = 0 /\ m = 0
    /\ listed = 0
NoSto ==
    /\ size = 0 /\ rings = 0 /\ history = 0

ServicesInit ==
    \/ /\ part = "delete" /\ Del!Init
       /\ NoClk /\ NoBuild /\ NoBundle /\ NoWatch /\ NoSto /\ now = 0 /\ report = 0
    \/ /\ part = "clock" /\ Clk!Init
       /\ NoDel /\ NoBuild /\ NoBundle /\ NoWatch /\ NoSto /\ report = 0
    \/ /\ part = "build" /\ Build!Init
       /\ NoDel /\ NoClk /\ NoBundle /\ NoWatch /\ NoSto /\ now = 0
    \/ /\ part = "bundles" /\ Bundle!Init
       /\ NoDel /\ NoClk /\ NoBuild /\ NoWatch /\ NoSto /\ now = 0
    \/ /\ part = "observers" /\ Watch!Init
       /\ NoDel /\ NoClk /\ NoBuild /\ NoBundle /\ NoSto /\ report = 0
    \/ /\ part = "store" /\ Sto!Init
       /\ NoDel /\ NoClk /\ NoBuild /\ NoBundle /\ NoWatch /\ now = 0 /\ report = 0

ServicesNext ==
    \/ /\ part = "delete" /\ Del!Next
       /\ UNCHANGED <<part, clockOnly, buildOnly, bundleOnly, watchOnly, storeOnly, now, report>>
    \/ /\ part = "clock" /\ Clk!Next
       /\ UNCHANGED <<part, deleteOnly, buildOnly, bundleOnly, watchOnly, storeOnly, report>>
    \/ /\ part = "build" /\ Build!Next
       /\ UNCHANGED <<part, deleteOnly, clockOnly, bundleOnly, watchOnly, storeOnly, now>>
    \/ /\ part = "bundles" /\ Bundle!Next
       /\ UNCHANGED <<part, deleteOnly, clockOnly, buildOnly, watchOnly, storeOnly, now>>
    \/ /\ part = "observers" /\ Watch!Next
       /\ UNCHANGED <<part, deleteOnly, clockOnly, buildOnly, bundleOnly, storeOnly, report>>
    \/ /\ part = "store" /\ Sto!Next
       /\ UNCHANGED <<part, deleteOnly, clockOnly, buildOnly, bundleOnly, watchOnly, now, report>>

ServicesSpec == ServicesInit /\ [][ServicesNext]_servicesVars

-----------------------------------------------------------------------------
(* The properties of the parts, stated where they are defined.             *)

\* No model runs from a directory that is being removed, and a configuration or
\* deletion that fails leaves the boot selection as it was.
DeletionSafe == part = "delete" => Del!NeverDeletesRunning /\ Del!FailureChangesNothing

\* The clock is set after enough quiet samples only, once for a connection and
\* with a few attempts.
SyncsQuietly == part = "clock" => Clk!QuietBeforeSync /\ Clk!BoundedPerConnection

\* The cache holds the object of each key, and a report is of the ELF beside it,
\* but for what a header under src does that came during a compile: no key lists
\* it (ModelBuild states the claim without that exception as ReusedExactly).
BuildTrue == part = "build" => Build!CacheTrue /\ Build!ReportTrue

\* A delivered model is the one its report names, and the report of a delivery
\* stays as it ended.
DeliveryTrue == part = "bundles" => Bundle!DeliveryTrue /\ Bundle!ReportSettled

\* A process shown as running has itself written the counters shown, a moment
\* ago, unless the status was replaced between the read of its content and that
\* of its time stamp (TargetObservers states it without that exception as
\* NeverFake).
RunningIsTrue == part = "observers" => Watch!RunningIsTrue

\* Minimum and maximum are those of the samples in the ring; a plot leaves out
\* no extreme, a range no sample within it, and an export no sample at all.
SamplesTrue ==
    part = "store" =>
        Sto!StatsOfRetained /\ Sto!PlotKeepsSpikes /\ Sto!RangeShown /\ Sto!ExportComplete

=============================================================================
