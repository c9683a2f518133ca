# SimRT: verification project

TLA+ modules, TLC runs and TLAPS proofs for SimRT: a Windows host application
that calibrates and observes Simulink models over XCP, and the Linux PREEMPT_RT
runtime those models are built with. Paths below are relative to the repository.

## 1. The system

    Qt application (app/qt_xcp_host)                 Linux target
    window, tabs -> controller -> one worker         model process (one per model)
                                  |                    main: XCP background loop
              +-------------------+---------+          model thread: sem_wait loop
              | XcpSession | DaqAcquisition |--UDP-->  status thread: live file
              | SSH services (deploy, ...)  |--SSH-->  helper scripts, systemd units
              +-----------------------------+          I/O drivers: CAN, TCP/UDP, ...

### Inventory

| Part (source) | State it keeps | Operations | Interacts with |
|---|---|---|---|
| Release schedule (`simrt_rt_runtime.c`, `simrt_rt_main.c.in`) | next release, current release, counters, snapshot | `__wrap_sem_wait`, `finish_step`, `simrt_rt_step_begin/end`, `stop_from_model_thread` | clock, signals, `background_stop` of main, status thread |
| Process life cycle (same files) | `stop_signal`, `background_stop`, `model_finished`, `stopSem`, `status_lock`, status file | `main`, `terminateTask`, `__wrap_sem_post`, `status_entry`, `finish_status_thread` | three threads over atomics, one semaphore and a try-only flag |
| XCP session (`services/xcp_session.py`) | client, `_original_bytes`, endpoint | `connect`, `disconnect`, `write_calibrations`, `restore_calibrations`, `start_daq`, `stop_daq` | XCP client, DAQ acquisition; called from the worker |
| XCP client (`simrt_xcp/client.py`) | connected master | chunked upload and download, write with read-back | target memory |
| DAQ acquisition (`services/daq_acquisition.py`) | counter, next ODT, decoder, timestamp offset, bounded queue | `feed`, `on_daq_list`, `drain`, `start`, `stop` | transport listener thread, UI timer |
| Host controller (`qt_host/controller.py`, `window.py`, `state.py`, `viewmodel.py`) | host state, polling flag, pending futures | `_connect`, `_start_daq`, `_poll_once`, `_submit`, `request_close` | one worker thread, UI callback queue |
| Calibration page (`qt_host/calibration.py`, `controller.py`) | entered and current values, ticks | edit, tick, write, restore, answers of the worker | controller, session, dialogs with loops of their own |
| Charts and observation page (`qt_host/chart.py`, `observation.py`) | catalogue, ticks, styles, axes, lines, toolbar mode, cursors | tick, zoom, follow, layout, deferred drawing, menus | sample store, controller's policy |
| Deployment (`services/ssh_deployment.py`, payload files) | pending marker, receipt, process marker | begin, upload, verify, start, stop, status | SSH commands that may outlive their timeout |
| Autostart, deletion (`model_autostart.py`, `model_deletion.py`) | unit files, saved files, hidden directory | configure with rollback, run at boot, delete | systemd, deployment, models that run |
| Network transaction (`network_configuration.py`) | saved state, `confirmed`, lock, deadline, netplan files | configure, confirm, rollback daemon | kernel addresses and routes |
| CAN driver (`drivers/tc1013`) | channels with tokens, two queues each | acquire, release, send, receive, worker | vendor library; locks lifecycle, sdk, queue |
| TCP/UDP driver (`drivers/network`) | endpoints, queues, partly sent packet | open, send, receive, worker | sockets |
| Serial, DIO, EtherCAT drivers | slot tables with tokens | open, transfer, close | file descriptors, vendor calls |
| Native sample store (`native/xcp_core.cpp`, `native.py`) | ring, deques of minimum and maximum | append, plot, range, export | charts |
| Target clock (`target_clock.py`) | idle samples, retries, failures | observe, synchronize | SSH, target page |
| Target workspace (`qt_host/target.py`, `common.py`) | connection, running job, queue of one, reservation | jobs, guarded stop, delete, close | deployment, controller, dialogs |
| Console and monitor (`linux/console/simrt_console.py`, `target_monitor.py`) | what one round has read | collect, judge, show | /proc, status file, process marker |
| Build tools (`tools/build_model.py`, `build_local_bundles.py`) | object cache, result, reports, output directories | incremental build, delivery of bundles | compiler, editors, other invocations |
| A2L, CLI, MATLAB hooks, credentials, tuning | files, presentation | parsing, one-shot commands | |

`PROJECT.json` lists every part with its status and, for those without a module,
the reason.

### What is hard in it

* **Interleavings.** The model thread must never block, so it shares data with
  the status thread through a flag it only tries. Signals, a failed background
  loop and the clock intervene between any two of its steps.
* **Stale reads.** `__wrap_sem_wait` keeps a time in `current` and decides by it
  after the thread may have been preempted for periods.
* **Shutdown.** A stop may begin by signal, in the model or by a failing XCP loop,
  and passes through an atomic, a semaphore and two joins before XCP is reset.
* **Partial failure.** One calibration batch is dozens of XCP commands, each of
  which may fail before, in or after taking effect, the recovery included.
* **Unreliable delivery.** DAQ frames are lost, repeated, reordered and damaged,
  their counters and timestamps wrap, and the consumer's queue is bounded.
* **Timeouts and crashes.** SSH commands outlive their timeout; a network change
  races with its own rollback daemon, and the target may restart in between; builds
  are killed between the files they publish.
* **Names that are used again.** Process numbers, file descriptors, channel tokens,
  connections and paths all come back for something else while an old name is still
  held.
* **Loops within loops.** A Qt dialog or menu runs timers and answers below it; what
  was listed when it opened has changed when it closes.

What makes each part correct: the runtime serves a grid and accounts for what it
skips, publishes whole snapshots and ends by exactly one orderly path; a session
never loses track of a modified byte or of a running stream; a sample belongs to
one model event at its true time; the controller never shows a state the session
is not in; at most one model runs and only a verified payload starts; an
unconfirmed network change is rolled back; a driver never delivers data of
another owner or connection, and what is reserved is given back; a deletion removes no
running model; a build report is about the ELF beside it; a picture shows the samples
it was asked for.

## 2. Modules and the code

| Module | Models |
|---|---|
| `RtSchedule` | the model thread: release times, base-rate loop, counters, snapshot |
| `PeriodicTask` | abstract: a task that serves the first grid point after it becomes idle |
| `RtScheduleProofs` | inductive invariant of `RtSchedule`, and that it implements `PeriodicTask` |
| `RtLifecycle` | main, model thread and status thread from start to exit |
| `XcpSession` | the serialized session, with every command failing on its own |
| `CalibrationTransaction` | abstract: a session knows what it has modified, forgets a cell only when it is undone, and ends with memory as it found it |
| `XcpSessionProofs` | inductive invariant of `XcpSession`, and that it implements `CalibrationTransaction` |
| `DaqPolicy` | frames to samples: `BufferedDaqPolicy` over an unreliable link |
| `NetworkTransaction` | a change of the target's IPv4 configuration, its confirmation and its rollback daemon |
| `HostController` | the host application's UI thread, worker and answers between them |
| `RtLifecycleProofs` | inductive invariant of `RtLifecycle` |
| `ObservationProofs` | inductive invariants of `DaqPolicy`, and of `ChartView` and `CalibrationTab` for their union `MCWorkbench` |
| `HostControllerProofs` | inductive invariant of `HostController` |
| `PayloadDeployment` | upload, start and stop of a model by hosts whose commands outlive their wait |
| `PayloadDeploymentProofs` | inductive invariant of `PayloadDeployment` |
| `CanDriver`, `NetDriver`, `SlotDrivers` | the I/O drivers: an owner, a worker and what is between them |
| `TargetWorkspace` | the target page: one worker, a queue of one and reservations |
| `OwnershipProofs` | inductive invariants of these four, for their union `MCOwnership` |
| `ModelDeletion` | deletion of a model, and the selection of the model that starts at boot |
| `TargetClock` | when the clock of the target is set, and how often |
| `ModelBuild`, `BundleDelivery` | the two build scripts |
| `TargetObservers` | console and monitor: statements about a process from several reads |
| `ServicesProofs` | inductive invariants of `NetworkTransaction` without overlap, and of these five and `SampleStore`, for their union `MCServices` |
| `ChartView`, `CalibrationTab`, `SampleStore` | what the engineer sees: axes and lines, values, and the samples behind them |
| `MC...` | instances for TLC; constants are in the `.cfg` files |

Operators whose comment begins with *Mutant* are plausible bugs; no
specification uses them. Each property of a passing run has one that breaks it.

`MCOwnership`, `MCServices` and `MCWorkbench` each check several components in one run.
Components that share no state in the program are instantiated side by side; the
variable `part` says which one a behaviour is about, the variables of the others are 0 and stay
so. The state space is the sum of the parts', not their product, and a
property of the union is the part's own, under `part = "..."`. Where two
modules use the same name for a variable, the union has one for both.

### RtSchedule

Time is a natural number, advanced by `Tick` between any two steps of the
thread, which therefore may be preempted or late anywhere. `pc` names the points
of `__wrap_sem_wait` and of `baseRateTask` between which the clock or
`stop_signal` is read: `wait`, `finished` (after `finish_step`), `armed` (the next
release is known and `current` re-read), `sleep`/`woken` (around `clock_nanosleep`,
which may return early with EINTR), `spin` (the busy tail), `released`, `step`,
`terminate`. `fail()` is the state `failed`. `PublishStatus` includes the case in
which the flag is taken. `idle_since` and `late_steps` are history variables that
no guard reads.

The saturating 64-bit counters are naturals: at one count per millisecond or more
saturation needs more than half a billion years. The 64-bit release *times*
keep their limit, `Int64Max`.

### RtLifecycle

One action per step that touches shared state. A snapshot is copied as two words
so that a missing flag would be visible as a torn file, and a RUNNING file is
written in one step (a rename) or not at all. A wait is reduced to "a step ends,
then a stop or a release": release times are `RtSchedule`'s subject. The step
counter wraps at `StepWrap`, which makes the state space finite without a bound
on the run; only the equality of step counts matters. Failures that call `fail()`,
which exits the process at once, are not modelled.

### XcpSession

Methods hold the session's lock and do not interleave; a call is one action per
loop iteration or group of commands, every one with its failing alternatives.
`memory` is a function from byte cells to values; objects are sets of cells which may
overlap, as A2L aliases do. A failed transfer stores an arbitrary part of the object;
this covers lost commands, lost answers and refused bytes. What is
assumed of the link is its order: a command that timed out has taken effect or is
lost when the next is executed. A restart of the target in the middle of a
session is outside the promise of `docs/ARCHITECTURE.md:205` and of the model; between
sessions `TargetChanges` allows anything. The two branches of `disconnect` for a session
without a working connection but with records (`xcp_session.py:252`, `262`) are
part of the model as far as `client` is concerned; the invariant shows that the
first is not reached.

### DaqPolicy

A frame is identified by its position on the wire and its counter is that position
modulo `CounterModulus`. The link hands any frame, any number of times and in any
order to `feed`, within the two assumptions of `Deliverable`: no frame is half a
counter range old, and half the range of the timestamp does not pass without a sample, which is what
any sequence number and any wrapping clock needs. Any number of frames may be lost within them; the history variable `torn` says
that a burst as long as an event was lost among the frames collected. A damaged frame is an
`InvalidFrame`. The native decoder of pyxcp is external: the list of the
events its collected ODTs were measured in. `Overload` lets the target skip whole
events. What the code does in one call of the listener is one action, the
decoder's callback `on_daq_list` included (`FinalOdtFrame`).

### NetworkTransaction

Each transaction is three processes on the target, `configure`, `confirm` and
`daemon` (the function `rollback`), which share a directory under /run: the saved
state, a lock and the marker `confirmed`. The host starts the first two over SSH and may
give up on either (`HostReturns`); they run on. A configuration is the number of
the transaction that asked for it, or `Mixed` when only some of the commands or
files took effect; `live` is the kernel's, `files` Netplan's. The commands between
two looks at shared state run under the lock and are one step with every failing
outcome; a look at the clock, the marker or state.json is a step of its own, so the two checks
of the deadline in `confirm` (lines 319 and 333) and the two of the marker in
`rollback` (232 and 238) interleave as they do in the code. `Reboot` ends every
process, empties /run and loads the files.

Assumed: `configure` takes its lock within the deadline (a guard of `Tick`; only
a few commands come before it), and the daemon has read its state before
`confirm` writes it anew (line 230 against 184). Modelled is the persistent variant, which is what the
dialog asks for; without it `confirm` skips `Persist`. A change of the Netplan files by
somebody else is the refusing branch of `Persist`; here only an overlapping
transaction causes it.

### HostController

Two threads: the UI thread runs user actions, answers and timers to their end, the worker runs
jobs in the order they were submitted. A job is named for the session's method and for
what its answer does, so `vm.disconnect` has five names; the closures of
`controller.py` (`started`, `failed`, `disconnected`, ...) are actions. The session is
reduced to what the controller asks it, `connected` and `streaming` (`daq_active`); the two are
read by the UI thread at any moment, so `disconnect` is two steps of the worker (`StreamStopped`,
then `Finish`). The result of a job and its entry in `_ui_queue` are one
step.

`_drain_ui_queue` handles answers until the queue is empty (`draining`): no user event and no
timer comes between two of them. An error dialog has an event loop of its own: while it is open
timers run (`TimersRun`), the user can only dismiss it, and the handler goes on, with
`on_error`, after that (`Dismiss...`). `_daq_generation` is represented by `current`: generations only
matter to the last start that was submitted, and answers are in order. Closing cancels the jobs that have not begun, and
each cancellation is a failed answer.

`UserMay` bounds the user, who acts while at most `MaxPending` jobs and answers are pending; the
controls that a state disables are guards. `CloseFails` says whether the cleanup at closing
may fail. The target workspace is external: it accepts a stop or not (`Guarded`) and ends it at
some time (`WaitForStop`). Two consequences of the code are in the model and are not
properties: `_acquiring` may stay set while disconnected after an uncertain stop, and Start clicked while a window is closing
leaves the flags of a start that was never submitted.

### PayloadDeployment

A host is a sequence of remote commands with SFTP writes between them; a command is a
process of the target in a slot of `cmds`, cut at each point where it has read something and
not yet acted on it. `Abandon` is the host's timeout, cancellation or lost connection: the
host is at rest and its command goes on. A file is its name and version, so that a
mixture of two uploads is visible (`Payload`). `proc` gives each process number its holder, with a start
time that only grows; `births` bounds the processes (`MaxBirths`). `Reached` is whom a signal
hits: the process behind the descriptor with `PidFd`, otherwise whoever has the number.
A start sees the files at its check (`seen`), a process runs those that are there when it is spawned (`ran`).
`overlapped` and `stray` are history variables; an overlap is over when an operation begins with nothing under way and no model running.

### CanDriver, NetDriver, SlotDrivers

`CanDriver`: setup and release calls of several threads (`caller`), the I/O worker and the
step calls, with the locks `life` and `sdk` as variables; what runs under `queue_lock` is one step. A frame is the
token of its owner, which is all that tells whether it crosses to another one. The vendor SDK is
external. `NetDriver`: one channel as TCP server, TCP client or UDP; a message is
`MessageSize` units with the number of the connection it was queued on, so partial transmission, loss
of the connection and back pressure are visible. `SlotDrivers`: the three drivers that keep
a table of slots found by token. The token counter wraps, the kernel hands out descriptors again, and each
system call of an open may fail. A refused call changes nothing and is no step.

### TargetWorkspace

GUI callbacks are single steps and the worker's job is another one (`Execute`, `Deliver`). A
menu or a dialog lets other callbacks run before it returns. So does an error box, which a result opens before its
`complete()`: while `boxes` of them are open (at most `MaxBoxes`) the worker is idle, timers may begin
background jobs (`refreshing`), and an operation may be queued. `control` is the
reservation of the page while somebody else, the stop guard or the user, is asked. `guard`
answers at any time, also after the page closes. What tables show is the number of the connection it was
read over (`shown`).

### ModelDeletion, TargetClock

A directory is known by its identity (`Model`, `Later`), as the kernel knows the directory of an executable also
after a rename. One helper runs at a time; `StartCheck` to `Spawn` of another host, the boot runner, an
upload, exits and a restart come between its steps, and a step may fail `MaxFaults` times.
`TargetClock` has the samples of the GUI thread and the attempt on the worker; its ghost `seen` keeps the
samples as they came, against which the code's counters are checked.

### ModelBuild, BundleDelivery

A content is a number and stands for its digest. Inputs are hashed, compiled and hashed again file by file
with an editor between; an object is what the compiler read to make it, so a cache entry under a wrong key is visible.
One header (`extra`) comes and goes under src: validation lists it when it is there (`List`), the
compiler finds it whenever it is (`ReadExtra`), and only a listed one is hashed again (`CheckExtra`). A kill
may lose what had not reached the disk (`damaged`). Assumed: an edit makes a content
that was not there before, and the compiler package is not exchanged during a build. `BundleDelivery` has
two invocations with one output, each a copy, a build and a publication per model with reports
in between.

### TargetObservers

The ELF's processes come and go, update the status and reuse numbers; the machine restarts
and its clock is set. Console and monitor are sequences of single reads (`c`, `m`). A tick is the five seconds after
which the console calls a status stale. Assumed of the kernel: a number is handed out again only after more
than `MaxAge` ticks. One case is excluded in `RunningIsTrue`: between reading the status and its time stamp the
file itself may be replaced by a new process (see the observations below).

### ChartView, CalibrationTab, SampleStore

`ChartView` has every handler that changes axes, lines or tools; samples are reduced to which
signals have any and to a version. `drawn` is the range and version the lines were made of, so a redraw that was
forgotten is a stale picture once no timer is due. `CalibrationTab` has the page with the controller's
operations behind its buttons; an operation of the session is one step of the worker, as `XcpSession` has
it in detail; both are shown to implement `CalibrationTransaction`, so what the page relies on is what the session does. The list a question shows is taken when it opens (`modal`). `SampleStore` is the C++ core as it
is: rings with a pair of monotonic deques, bucketed reduction, binary search, and the merge of
`native.py` for tables and export, each checked against its definition over the history of samples. A loop of
the code is a function over the number of its turns: the samples of a batch (`RingsAfter`), the search that
halves its window (`Halved`, `Bound`), and the merge that pops the heap once for each sample held (`Popped`, `Merged`).

## 3. Runs

| Run | Bounds | Distinct states | Shows |
|---|---|---|---|
| `rt_schedule` | period 3, busy tail 1, publication every 4, clock to 11, `Int64Max` 14 | 194 000 | the grid is accounted for, no backlog, prompt stop, coherent snapshots and counters, refinement of `PeriodicTask` |
| `rt_lifecycle` | step counter modulo 3 | 52 000 | the status file is never torn and ends exact, reset comes last, STOPPED is final, every stop ends |
| `xcp_session` | 3 cells, 2 values, 3 objects of which 2 pairs overlap | 24 000 | recovery and ownership under every pattern of failures, refinement of `CalibrationTransaction` |
| `daq_policy` | 2 ODTs, queue of 1, 8 frames, 4 events | 1 620 000 | samples are whole but after a burst as long as an event, timed right and accounted for |
| `network_change` | 2 changes, the second after the first is over, 2 reboots, deadline 4, margin 1 | 51 600 | confirmed changes stay, others are undone by their daemon, none stays pending |
| `host_controller` | user acts with at most 2 jobs and answers pending | 203 800 | controls agree with the session, a model stops without XCP, a closed window is clean, no wait is endless |
| `deployment` | 2 hosts, 2 commands, 2 versions of 2 files, 2 process numbers, 2 processes | 1 370 000 | a start has checked one whole payload, a stop hits no other process; without overlap that payload runs, alone |
| `ownership` | CAN: 1 caller thread, 2 ports, queues of 1; network: queue of 2, messages of 2 units, 2 connections; slots: 3 callers, 2 devices, 2 slots, 4 tokens; page: 2 connections, 1 fault, 2 error boxes | 289 000 | nothing crosses from one owner to another, and what is handed out comes back |
| `services` | deletion: 1 fault; clock: 3 samples in 3 ticks, 2 failures, 2 connections; build: 1 source, 2 builds, 2 edits, 1 kill; delivery: 2 models, 2 invocations, 2 edits; observers: 2 process numbers, 2 processes, 2 ticks; samples: capacities 2, 3 and 7, up to 7 samples | 2 020 000 | what is done or reported is true at that moment, but for two exceptions |
| `workbench` | 2 names, layouts of 1 and 2 axes; 2 values, 2 jobs and answers | 1 715 000 | the picture and the values shown are those asked for and those on the target; entered values are lost only to a restore of nothing; refinement of `CalibrationTransaction` |
| `network_overlap` | 2 changes at any time | violation | an old daemon undoes a newer confirmed change (finding) |
| `host_stream` | as `host_controller`, closing never fails | violation | a running stream whose Stop is disabled (finding) |

**Why the bounds are enough.** In `rt_schedule` the clock reaches three grid points,
so a step can overrun by two periods and be followed by a normal one; the
publication interval is not a multiple of the period, so publication and release
drift against each other; `Int64Max` is the smallest value the assumption allows,
so an overflow by a single period would be seen. In `rt_lifecycle` three
step counts tell the old, the present and the next publication apart, and nothing
else is bounded. In `xcp_session` two objects share a byte with a third one
and are themselves disjoint, so batches, pending records and overlaps combine in
every way; nothing bounds the number of calls. In `daq_policy` the timestamp wraps
at the third event and the counter before the wire is full; with two ODTs a burst of one is shorter than an
event, one of two as long and one of three longer, and four events leave room for such a burst between two samples. In `network_change` the clock
has moments before the margin, in it and at the deadline, which is all the code
tells apart; the second change starts from whatever the first left, and
two reboots strike both. In `host_controller` three jobs and answers pend when a user acts
last, and every action may submit two more: a stop, a switch and the guard of a model stop
can be in the queue together, behind a failing calibration, when the window is closed.
In `deployment` two hosts can each be in an upload, and the command one has abandoned can run
beside the commands of the other; a number is used again by the second process; two files are the fewest that
can be mixed. In `ownership` a CAN queue of one overflows at the second frame and a single
thread suffices, because releases of old tokens and the worker are what a setup races with; four tokens wrap past
two slots in use; the second error box is that of a timer's job over the first; message and queue sizes let a loss cut a message and leave one behind it. In
`services` every step of a deletion or configuration fails once in some behaviour; a
second connection arms the clock anew; one edit strikes before and one after each hashing; the rings wrap, and the
longest has enough samples for two buckets. In `workbench` two jobs let an edit
come between a write and its answer, and two signals in two axes tell every assignment apart.

**Deadlock** is checked in `rt_lifecycle`, `xcp_session` and `deployment`. In the other runs the clock, the wire,
the requests, the edits or the window end at a bound and the system stops there; where waiting for each other is the danger,
a liveness property (`EverythingReturns`, `Settles`, `ChangeSettles`) stands for it.

**Fairness** in `host_controller` is weak fairness of the worker, of the drain loop, of the user who
dismisses a dialog and of the two timers: every session method ends (commands have timeouts), Qt's
timers fire, and the target workspace ends a stop it accepted. No other user action is fair.
In `network_change` it is weak fairness of the clock and of each process on the target
(`Configure`, `Confirm`, `Daemon` of each transaction): they are ordinary
processes whose commands have timeouts. The host need do nothing, so `ChangeSettles`
holds although it may vanish at any point. In `rt_lifecycle` it is weak fairness of each of the three threads
(`ModelThread`, `StatusThread`, `MainThread`), because each runs on a preemptive
kernel and blocks only where its action is disabled (semaphore, join). It
is asked of a thread as a whole, never of one of its branches; signals, background
failures and the failing clock of the status thread are not required
to happen. In `ownership` it is weak fairness of each thread (`CanWorker`, `CanCall`, `NetWorker`,
`NetJoin`, `PageEnds`) and strong fairness of a caller that waits for a CAN lock (`CanLock`): the CAN
worker sleeps outside all locks in every round, so a mutex that is asked for is free again and again
for a time in which the waiter runs. No user, peer or network event is fair. `StopTerminates` is the liveness property: once a signal is delivered or the
background loop has failed, the process reaches the end of main. It relies on
steps that return, as the code does.

**Findings.** `network_overlap`: every change has a directory, a lock and a daemon of its own
(`network_configuration.py:278-291`), and nothing asks whether another one is pending. A
first change whose answer is late or lost stays unconfirmed; a second one is applied and confirmed;
at the first one's deadline its daemon restores the addresses and routes of before both
(line 241), and the kernel no longer has what was confirmed and saved. `ConfirmedStays`, which holds
when changes do not overlap, is the promise of `需求说明.md:92`.

`host_stream`: the guard of a model stop clears the DAQ mode and queues a stop and a disconnect
(`window.py:242-243`). When both fail, the stop's `failed` does nothing because a model stop is under way
(`controller.py:403`), and `finish` shows CONNECTED: the stream runs and Stop is disabled, until the user disconnects or a
refused new start brings it back. A close that fails while DAQ runs ends the same way
(`controller.py:662`), which is why the run excludes it. The tests `test_uncertain_stop_retains_owner_and_retry` and
`test_uncertain_start_retains_stop_entry` (`tests/app/ui/test_window.py:440-455`) ask that Stop stay enabled.

**Observations.** What the models also show, by a changed constant or with a property that is
in the module but in no run. The first six are the exceptions of properties that are in a run; TLC refutes the formula named, which is the
claim without its exception, with the module alone and the constants of the run.

* *Upload during a start* (`PayloadDeployment`, `RunsWhole`). A start checks the receipt (`ssh_deployment.py:186-188`) and spawns the ELF later (line 199). An
  upload of another host, or of one whose earlier command runs on, has passed its own check before and writes a file in between, so that what runs is a mixture;
  `docs/TOOLCHAIN.md:159` promises that files changed after the deployment prevent the start. Two starts that overlap may also both find no process
  and both run the ELF, of which the marker names the later one. `StartsOneWhole` therefore says of overlapping operations only what the check has seen.
* *Header added during a compile* (`ModelBuild`, `ReusedExactly`). The headers of a key are those listed at the validation (`build_model.py:317`); the compiler finds any under src
  (line 338), and the second hashing (343-345) looks only at those listed. A header added in between is compiled into an object
  that is cached without it; the build itself fails at its second validation, but after the header is removed
  the next one reuses the object and reports success. `docs/TOOLCHAIN.md:142` names headers among what reuse depends on. `CacheTrue` and `ReportTrue` have this exception (`MadeFrom`).
* *Restore of nothing* (`CalibrationTab`, `RestoreKeepsOthers`). A restore that answers with no names makes `controller.py:477` call `clear_pending({})`, which drops every
  entered value (`calibration.py:84-87`); the question before it is about values already written (`controller.py:465`). `KeepsEdits` has this exception.
* *Status and its time stamp* (`TargetObservers`, `NeverFake`). The console reads the status (`simrt_console.py:234`) and then the time stamp of the path (242). A new process with
  the number of an earlier one, which replaces the file in between, is shown for one round with that one's counters;
  `tests/linux/test_console.py:180` says "never shows fake counters". `RunningIsTrue` has this exception (`torn`).
* *Restart while confirming* (`NetworkTransaction`, `RebootsConfirmed`). `confirm` replaces the files before it writes the marker (`network_configuration.py:332`, `335`), and the old
  ones are recorded under /run only: a restart in between boots files nobody confirmed, against `需求说明.md:92`. It takes a loss of
  power within the seconds of saving. `UnconfirmedUndone` speaks only of changes whose daemon has ended by itself.
* *DAQ burst* (`DaqPolicy`, `NeverMixed`). `feed` counts a jump of the transport counter (`daq_acquisition.py:148-149`) but resets neither the decoder nor `_next_odt`.
  When exactly `OdtCount` frames are lost, starting inside an event, the next frame has the ODT number that is expected,
  and the sample combines the first ODTs of one event with the last ones of the next; the test at `tests/app/services/test_daq_acquisition.py:239` tries a
  shorter loss. `EventsNotMixed` excepts such samples (`torn`).
* *Address input during a switch* (`HostController`, `SwitchLocksInput`). `_operation_failed` (`controller.py:551-553`) sets
  the state by the connection alone, so an operation that fails before the disconnect of a switch frees the address input early. In the end
  controls and session agree (`ShownIsTrue`, `Settles`).
* *Stop without pidfd* (`PayloadDeployment` with `PidFd` = FALSE, `KillsOnlyOwned`). Between the check of the identity and `os.kill`
  (`ssh_deployment.py:235`) the number can be used again. The comment at line 218 excludes it ("never kill a reused PID"); only where Python and the kernel offer `pidfd_open` does the code.
* *Failed batch* (`CalibrationTab`). After a failed batch a current value stays as it was read before (`doubt`).
* *Queue behind an error box* (`TargetWorkspace`). While an error box is open a timer may begin a background job, and a disconnect that
  the address input asks for when it loses the focus is queued behind it. Closing the box runs the `complete()` of the older result (`target.py:388-393`), which takes that
  operation, is refused because the worker is busy and its `_background_refresh` is already cleared, and drops it without a word. A stop
  or a deletion is never dropped this way, because a page that is reserved begins no background job; `ControlIsHeld` depends on that.
* *Clock* (`TargetClock`, helper). A model may start between the helper's last look and the clock step; the
  helper cannot exclude it, and no property does.

## 4. Proofs

Eight modules prove, for all constants that satisfy the assumption of their module, what
a run checks for one instance: the `...Proofs` modules of section 2. Every invariant below was given to TLC before
it was proved.

**RtSchedule.** The assumption is that the clock stays one period below
`Int64Max`. No property is inductive alone: that a release is never in the past
depends on where the thread last read the clock. `SchedulePoint` says for each point
how `current`, `idle_since` and `next_release` are related, in particular
that the scheduled release is at most one period after the point of idleness;
`CountersAtPoint` says which of the misses are not yet counted as skips. Their
conjunction with the listed properties and `TypeOK` is inductive: one lemma per
action, under it one step per conjunct the action disturbs. The arithmetic of
`MissedReleases` (the next release is the first grid point after `at`) is a lemma
about division of its own. The refinement theorem maps `Release` to `Serve`,
`WaitFinish` to `BecomeIdle` and every other step to a stutter, `Advance`, `Begin` or
`End`; `NoBacklog`, a consequence of the invariant, is what `Serve` demands.
`NoBacklog` itself is proved (`BacklogFree`) but is not a property of the run,
because the refinement implies it.

**XcpSession.** The assumption is that every object has at least one cell. `RecordsPristine` needs
that objects with records, and those the running batch has still to reach, are
disjoint (`PendingDisjoint`): otherwise one write would modify a byte that another
record is about to save. `SessionPoint` describes each point of a method (a failed
restore has left a record, a session that is leaving has none, ...), and `BatchPoint`
says which of the tried objects are already undone. `SessionEndRestores` is an
action property and follows from the invariant at `CloseClient`; the run does not list it, because the `End` of the transaction implies it. The refinement theorem maps what is dirty to the cells of the objects with a record (`Dirty`):
`WriteObject` is a `Modify`, `RestoreObject` an `Undo` because a record holds the bytes of the beginning, `CloseClient`
an `End` with memory as it was found or given up, a successful `OpenClient` a `Begin`; every other step of a method is a request or a stutter. 

**RtLifecycle.** Two facts make the status file true. Who holds the flag is known at every
point of the three threads (`FlagHeld`), so nobody copies while another one copies; and main collects the threads in
a fixed order (`MainPoint`), so the final snapshot is taken after the model's last step and after the status thread's
last write. `StoppedIsFinal` follows from the invariant at each action that writes the file.

**PayloadDeployment.** Nothing is assumed of the numbers of hosts, commands, files, versions or
process numbers. `StopPoint` says for each point of a stop how the start times behave: a
descriptor was opened after the identity was read, so its process is not older than it, and the second reading bounds it from the other side; start
times at a number only grow (`Later`), so the two are equal and the signal finds that process or
none. `StopKillsOwned` assumes `PidFd`. `CheckedWhole` holds because files change behind a pending marker only,
and the first marker goes away after a receipt is there (`FilesPoint`, `UploadPoint`); it speaks of the files at the check. For `SerialSafe`, which speaks of those at the spawn, the invariant
says who may be active when nothing has overlapped (`OneActive`) and that nothing runs while files are put or a
process is about to be spawned (`SerialPoint`). `EndStep`, `ProgressStep` and `LaunchStep` are the three things that happen to a
command, proved once for all actions that do them.

**NetworkTransaction** (`ServicesProofs`). The theorems assume `~Overlap`; with it the run `network_overlap` refutes
`ConfirmedStays`. The assumption on the constants is that the deadline is longer than the margin. Neither property is inductive: what the kernel and
the files hold is only known together with the point of the helpers and of the daemon. `Waiting` says what they hold at each point while
the daemon waits, `Settled` while it rolls back and afterwards, and `Order` says in which order the processes of
a change begin and end, in particular that a daemon which rolls back has found the deadline reached, so
that a late `confirm` is refused (`LateConfirm`), and that only the newest change has a daemon at work.
`StepOfNewest` carries the invariant over any step that one change makes; the actions then show what happens to that
change only.

**DaqPolicy** (`ObservationProofs`). Assumed are the range of the transport counter and a timestamp range of more than two periods;
nothing bounds the number of frames, events or wraps. That a sample is of one event is not visible from the policy's own variables: the next ODT
number fits that of an earlier event as well. `WireInv` says how many frames the target must have sent between a frame and
another one with a given ODT of a given event, in particular at least `OdtCount` between two consecutive ODT numbers of different
events, so that either the two are of one event or at least that many were lost (`SameEvent`). So the decoder holds the ODTs of the newest frame's event or `torn` is true (`DecoderInv`).
Times and losses do not depend on it: they are those of a sample's first frame. Samples then finish in the order of their events,
because the last frame of the newest sample is among the frames seen (`ClockInv`), and the time from one to the next unwraps by
`LaterRead`, a lemma about remainders; `MissingOfMultiple` says that the rounding of a whole number of periods counts the events in between. The
gap counter is right because a frame that is accepted lies ahead by its counter's distance (`Ahead`, `AcceptFacts`).

**HostController.** Nothing but the types of the constants is assumed. The properties speak of a state in which nothing is under way, so
the invariant says what is known while jobs and answers are: the last answer about the connection tells the truth about it when
no job follows that could change it (`WordInv`), the state shown agrees with the session when no such answer is to come
(`ShownInv`), the stop of a model is in one place at a time, be it a job, an answer, a dialog or a wait, and no
connect follows it (`GuardInv`), and the cleanup is the last job (`CloseInv`). Handlers differ little in what they do to the queues: `Grown` and `Taken` say that a step
submits at most some stops and one more job and takes the first answer or none, and what such a step preserves
is proved once.

**Drivers and target page** (`OwnershipProofs`). Each part of `MCOwnership` has an invariant of its own; a step of one leaves the
others' alone. *CAN*: a caller between two locks holds the life cycle lock and knows whether the driver runs (`CallerPoint`), the worker is in the SDK only for the owner
whose frames it took, because it looks again under the lock (`WorkerPoint`), and every queued frame is its owner's
(`FramesOwned`). *Network*: the socket is the last connection made, the packet being sent is as far as the wire says, nothing is queued
before a connection (`NetPoint`, `NetSending`), and the chunks read follow each other (`NetReceiving`). *Slots*: used slots and
blocks that hold a token belong to each other one to one (`SlotsHeld`); that a free token exists after the counter has wrapped is the pigeonhole
lemma `FreshTokenIsFree`, and every open descriptor is a slot's or that of the open under way (`DescriptorsOwned`). *Page*: `ControlIsHeld` is inductive
together with what a close leaves (`PageInv`); a page that is reserved begins no background job, so when an error box closes nothing reserved is dropped (`PageBehindBox`). Assumed are the constants' types, at least one port, unit and slot,
and more tokens than slots.

**Services** (`ServicesProofs`). Each part of `MCServices` has an invariant of its own, which says what a process has read and not yet
used, and how far that can be behind what is there now. *Deletion* (`DelInv`): a model started at boot holds the lock until it ends, the helper holds it from
clearing the boot selection to the end (`DelLocked`), the directory is where the helper put it, and what it saved is the
selection while it can still be restored (`DelSaved`). *Clock* (`ClkInv`): the counted samples are the last ones taken, idle and without a gap (`ClkCounted`),
and attempts are made by an arm that has not ended (`ClkTried`). *Build* (`BuildInv`): one invocation holds the lock, contents only grow, so that a source
whose second hash equals the first was compiled as it was hashed (`CompilePoint`), and an object is what its key
says, but for a header that appeared while it was compiled (`MadeFrom`). *Delivery* (`BunInv`): one invocation owns the report, the report on disk is the one in memory, and its models are done before, running at and pending
after the active one (`BunProgress`, `BunOwner`). *Console* (`ObsInv`): an id comes back only after the age a status may have, so a status with the id of the
process found is its own, of an earlier boot or stale, or the file was replaced before its time stamp was read (`ObsRound`). The assumption that the age is at least one tick is needed: with 0 a process
could end and its id return within one round, and `RunningIsTrue` fails. Otherwise the constants' types are assumed, that a
model is not its later namesake, that there is a source and a model to build, and that the clock wants at least one sample and allows at least one failure.

**Sample store** (`ServicesProofs`, `SamplesAreTrue`). Assumed is a capacity of at least one for each core, and that times are naturals
and values integers; the numbers of signals and samples, the batch size, times and values are arbitrary. A call is one step, so nothing
interleaves; what is hard is what each call computes. `StoreInv` says that a ring is the ring of its history (`RingOf`): the last samples lie
where `At` looks for them, and the deques hold, at rising positions, the samples that no later one beats, so the front is the extreme
of what is retained (`DequeOf`). The four parts of `SamplesTrue` follow from it in any state. *Plot*: buckets follow each other without a gap and each shows its
extremes, so no sample left out is beyond those shown (`Covers`). *Range and cursor*: what is left of the window is before the time and what is right of it
after, and a turn makes it smaller (`WindowOf`). *Export*: after each turn of the merge the rows rise in time and occurrence, an entry in the heap is the
next sample of its signal and comes after all rows that signal has, and every lower occurrence of the same time has its row (`HeapInv`);
the samples not yet in a row become fewer by one (`Remaining`), so after as many turns as there are samples all are in a row.
That a claim holds after every turn is shown without an induction theorem: the set of turns at which it fails has a least member,
because the naturals are well-founded (`LeastOf`), and the turn before contradicts it (`InductionUpto`). The same argument gives the recursive
functions their equations.

**Workbench** (`ObservationProofs`). Assumed are the constants' types, that 1 is a layout, and that an unset value is no value. *Chart* (`ChartInv`): each handler draws what it
changes at once but for the limits of the view, so at any moment the lines are those of the ticked and visible signals and only the limits may wait for the
redraw (`ChartDrawn`); that the mouse serves one tool is part of it. *Calibration page* (`PageInv`): a calibrating operation
is in one place, a job, an answer or a message (`PageSingle`); while it is pending no dialog is open that enters or withdraws a
value, and a batch to write is what was entered (`PageLocked`); an answer tells the truth about the target, and so does what is shown but for an answer not
yet handled (`PageCurrent`). `EditsKept` is an action property and follows at each handler that clears an entered value, with the exception of a restore of nothing.
`PageImplementsTransaction` maps what is dirty to the recorded names and what was found to their records and, elsewhere, to the target (`Found`); it needs that
a batch has values (in `PageLocked`), that the target has, and that nothing is recorded without a session (`PageTarget`).

**Only model-checked.** The network changes that overlap, and the liveness properties `StopTerminates`, `ChangeSettles`, `Settles` and
`EverythingReturns`, since the prover does not handle fairness. Every other property of a passing run is stated by a theorem.

## 5. Not modelled, and the plan

Done, in the order of how much the system depends on it: the runtime (`RtSchedule`, `RtLifecycle`) with
proofs; the session, with the transaction it implements, `DaqPolicy`, `HostController`, `NetworkTransaction`, `PayloadDeployment`, the drivers and the target page with proofs;
deletion, clock, builds and observers with proofs; the chart, the calibration page and the sample store with proofs.

What remains worth doing:

1. The composition of `HostController` and `TargetWorkspace`, whose guard each reduces to an answer that may come at any time.

Not modelled within the parts that are: a compiler package exchanged during a build and an edit that is undone while a
file is compiled (the digests would agree again); the export of samples and the saving of the log as jobs of the host controller, and the wording of the state it shows after a guard has failed; the console's cache of manifests; extraction and
checking of the payload archive on the host; the variant of a network change without files; the reading and writing of open
serial, DIO and EtherCAT devices, which changes none of the modelled state; validation of input
before anything changes.

Left out for good: the code generator's XCP protocol layers and the vendor
libraries (not in the repository), the MATLAB build hooks (they run once, at build
time), A2L parsing and the rendering of the catalogue (no state that changes), the credential store (one file, one process, replaced
as a whole), the command-line client and the real-time tuning (one-shot programs), presentation, and the vendored EtherCAT master.
