----------------------------- MODULE MCOwnership -----------------------------
(***************************************************************************)
(* The components in which something is handed out, used by several actors *)
(* and taken back: a CAN channel, a network endpoint, a device slot, the   *)
(* target page.  They share no state in the program; "part" says which one *)
(* a behaviour is about, and the variables of the others keep the value 0. *)
(***************************************************************************)
EXTENDS Naturals

CONSTANTS
    Callers, Ports, Nobody, Worker, CanCapacity, Batch, MaxToken,
    Kinds, Capacity, MessageSize, MaxTokens, MaxConns, MaxUnits,
    Drivers, Clients, Devices, SlotCount, TokenCount,
    MaxFaults, MaxBoxes

VARIABLES
    part,
    life, sdk, up, running, channel,                                  \* CanDriver
    token, kind, status, error, tx, rx, conns, taken, line, got,      \* NetDriver
    stop, nextToken, caller, worker,                                  \* shared names
    driver, lock, slots, open, client,                                \* SlotDrivers
    conn, job, refreshing, queued, boxes, control, guard, dialog,     \* TargetWorkspace
    menu, deferred, shown, was, dirty, closing, closed, submitted, faults

canOnly == <<life, sdk, up, running, channel>>
netOnly == <<token, kind, status, error, tx, rx, taken, line, got>>
slotOnly == <<driver, lock, slots, open, client>>
pageOnly == <<conn, job, refreshing, queued, boxes, control, guard, dialog, menu, deferred,
              shown, was, dirty, closing, closed, submitted, faults>>

vars == <<part, canOnly, netOnly, slotOnly, pageOnly, stop, caller, worker, nextToken, conns>>

Can == INSTANCE CanDriver WITH Capacity <- CanCapacity
Net == INSTANCE NetDriver
Slot == INSTANCE SlotDrivers
Page == INSTANCE TargetWorkspace

ASSUME OwnershipAssumption ==
    /\ Can!CanAssumption /\ Net!NetAssumption
    /\ Slot!SlotAssumption /\ Page!WorkspaceAssumption

\* The variables that do not belong to a part.
NotCan == <<part, netOnly, slotOnly, pageOnly, conns>>
NotNet == <<part, canOnly, slotOnly, pageOnly>>
NotSlot == <<part, canOnly, netOnly, pageOnly, stop, caller, worker, conns>>
NotPage == <<part, canOnly, netOnly, slotOnly, stop, caller, worker, nextToken>>

NoCan == life = 0 /\ sdk = 0 /\ up = 0 /\ running = 0 /\ channel = 0
NoNet ==
    /\ token = 0 /\ kind = 0 /\ status = 0 /\ error = 0 /\ tx = 0 /\ rx = 0
    /\ taken = 0 /\ line = 0 /\ got = 0
NoThread == stop = 0 /\ caller = 0 /\ worker = 0
NoSlot == driver = 0 /\ lock = 0 /\ slots = 0 /\ open = 0 /\ client = 0
NoPage ==
    /\ conn = 0 /\ job = 0 /\ refreshing = 0 /\ queued = 0 /\ boxes = 0 /\ control = 0 /\ guard = 0 /\ dialog = 0
    /\ menu = 0 /\ deferred = 0 /\ shown = 0 /\ was = 0 /\ dirty = 0
    /\ closing = 0 /\ closed = 0 /\ submitted = 0 /\ faults = 0

Init ==
    \/ part = "can" /\ Can!Init /\ NoNet /\ NoSlot /\ NoPage /\ conns = 0
    \/ part = "net" /\ Net!Init /\ NoCan /\ NoSlot /\ NoPage
    \/ part = "slot" /\ Slot!Init /\ NoCan /\ NoNet /\ NoThread /\ NoPage /\ conns = 0
    \/ part = "page" /\ Page!Init /\ NoCan /\ NoNet /\ NoThread /\ NoSlot /\ nextToken = 0

Next ==
    \/ part = "can" /\ Can!Next /\ UNCHANGED NotCan
    \/ part = "net" /\ Net!Next /\ UNCHANGED NotNet
    \/ part = "slot" /\ Slot!Next /\ UNCHANGED NotSlot
    \/ part = "page" /\ Page!Next /\ UNCHANGED NotPage

CanWorker == part = "can" /\ Can!WorkerStep /\ UNCHANGED NotCan
CanCall(c) == part = "can" /\ Can!CallStep(c) /\ UNCHANGED NotCan
CanLock(c) == part = "can" /\ Can!LockStep(c) /\ UNCHANGED NotCan
NetWorker == part = "net" /\ Net!WorkerStep /\ UNCHANGED NotNet
NetJoin == part = "net" /\ Net!Join /\ UNCHANGED NotNet
PageEnds ==
    /\ part = "page"
    /\ Page!Execute \/ Page!Deliver \/ Page!FinishClose \/ Page!DeliverClose
    /\ UNCHANGED NotPage

\* Threads that can go on do; a lock that is free again and again is taken in
\* the end, as the CAN worker sleeps outside all locks in every round.
Fairness ==
    /\ WF_vars(CanWorker)
    /\ \A c \in Callers : WF_vars(CanCall(c)) /\ SF_vars(CanLock(c))
    /\ WF_vars(NetWorker) /\ WF_vars(NetJoin)
    /\ WF_vars(PageEnds)

Spec == Init /\ [][Next]_vars /\ Fairness

-----------------------------------------------------------------------------
(* The properties of the parts, stated where they are defined.             *)

\* A CAN frame never crosses from one owner of a channel to the next, and the
\* vendor library is used by one thread at a time, while it is loaded.
ChannelsExclusive == part = "can" => Can!OwnFramesOnly /\ Can!SdkExclusive

\* A message is sent whole and on the connection it was queued for, and the
\* received stream has no gap.
StreamsWhole == part = "net" => Net!MessagesWhole /\ Net!StreamIntact

\* A block reaches the device it opened and no other, and no descriptor stays
\* open that nobody can close.
BlocksIsolated == part = "slot" => Slot!ReachesOwnDevice /\ Slot!NothingLeaked

\* The target page is never left reserved by nobody.
ControlIsHeld == part = "page" => Page!ControlIsHeld

\* A late answer starts nothing on the target once the page closes.
LateAnswerStartsNothing ==
    [][part = "page" /\ closing /\ job' # job /\ job'.state = "runs" => job'.kind = "close"]_vars

\* What waits for others to give something back returns: every CAN setup and
\* release, every release of an endpoint, and the closing of the page.
EverythingReturns ==
    /\ \A c \in Callers :
        part = "can" /\ caller[c].pc # "rest" ~> part = "can" /\ caller[c].pc = "rest"
    /\ part = "net" /\ caller = "join" ~> part = "net" /\ caller = "rest"
    /\ part = "page" /\ closing = TRUE ~> part = "page" /\ closed = TRUE

=============================================================================
