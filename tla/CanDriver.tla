------------------------------ MODULE CanDriver ------------------------------
(***************************************************************************)
(* The TC1013 driver, simrt_tc1013_can.c: two channels of one adapter, an  *)
(* I/O worker that alone moves frames, setup and release calls that may    *)
(* come from several threads, and step calls that only touch the queues.   *)
(*                                                                         *)
(* Locks are taken in the order lifecycle, SDK, queue.  What is done under *)
(* queue_lock is one step; a step call that finds it taken returns BUSY    *)
(* and changes nothing.  A frame is the token of the owner it belongs to.  *)
(***************************************************************************)
EXTENDS Naturals, Sequences

CONSTANTS
    Callers,      \* threads that set up and release channels
    Ports,        \* channels of the adapter
    Nobody,       \* holder of a free lock
    Worker,       \* the I/O worker as a holder of a lock
    Capacity,     \* QUEUE_CAPACITY
    Batch,        \* WORK_BATCH
    MaxToken      \* bound: setups that succeed

CanAssumption ==
    /\ Nobody \notin Callers \union {Worker}
    /\ Worker \notin Callers
    /\ Ports \in Nat \ {0} /\ Capacity \in Nat \ {0} /\ Batch \in Nat \ {0} /\ MaxToken \in Nat

VARIABLES
    life,         \* holder of lifecycle_lock
    sdk,          \* holder of sdk_lock
    up,           \* the SDK is loaded, initialized and connected
    running,      \* driver.running
    stop,         \* driver.stop
    nextToken,    \* next_token
    channel,      \* token, pending_error and queues of each channel
    caller,       \* what each caller is doing
    worker        \* step, channel, token, and frames taken or received

vars == <<life, sdk, up, running, stop, nextToken, channel, caller, worker>>

Channels == 1..Ports

Closed == [token |-> 0, error |-> FALSE, tx |-> <<>>, rx |-> <<>>]
AtRest == [pc |-> "rest", ch |-> 1, token |-> 0, first |-> FALSE]
Ended == [pc |-> "ended", ch |-> 1, token |-> 0, frames |-> <<>>]

Init ==
    /\ life = Nobody /\ sdk = Nobody
    /\ up = FALSE /\ running = FALSE /\ stop = FALSE
    /\ nextToken = 0
    /\ channel = [x \in Channels |-> Closed]
    /\ caller = [c \in Callers |-> AtRest]
    /\ worker = Ended

Goes(c, from, to) ==
    caller[c].pc = from /\ caller' = [caller EXCEPT ![c].pc = to]

Returns(c) == caller' = [caller EXCEPT ![c] = AtRest] /\ life' = Nobody

-----------------------------------------------------------------------------
(* simrt_can_configure_channel.                                            *)

Configure(c) ==
    /\ caller[c] = AtRest /\ nextToken < MaxToken
    /\ \E x \in Channels :
           caller' = [caller EXCEPT ![c] = [AtRest EXCEPT !.pc = "configure", !.ch = x]]
    /\ UNCHANGED <<life, sdk, up, running, stop, nextToken, channel, worker>>

\* setup_failure: an owner of the channel is told by its next step call.
Fails(c) ==
    /\ channel' = [channel EXCEPT ![caller[c].ch].error =
           (@ \/ channel[caller[c].ch].token # 0)]
    /\ caller' = [caller EXCEPT ![c] = AtRest]
    /\ life' = Nobody

\* Under lifecycle_lock: the channel has to be free and, when the driver runs,
\* the adapter the same.
ConfigureCheck(c) ==
    /\ caller[c].pc = "configure" /\ life = Nobody
    /\ \/ /\ channel[caller[c].ch].token = 0
          /\ life' = c
          /\ caller' = [caller EXCEPT ![c].pc = "sdk", ![c].first = ~running]
          /\ UNCHANGED channel
       \/ /\ channel[caller[c].ch].token # 0 \/ running
          /\ Fails(c)
    /\ UNCHANGED <<sdk, up, running, stop, nextToken, worker>>

\* Mutant: the SDK is used without its lock.
MutantNoSdkLock(c) ==
    /\ Goes(c, "sdk", "call")
    /\ sdk' = sdk
    /\ UNCHANGED <<life, up, running, stop, nextToken, channel, worker>>

ConfigureSdk(c) ==
    /\ sdk = Nobody /\ sdk' = c
    /\ Goes(c, "sdk", "call")
    /\ UNCHANGED <<life, up, running, stop, nextToken, channel, worker>>

\* The first setup loads and connects the SDK; then the channel is set up.
ConfigureCall(c) ==
    /\ caller[c].pc = "call"
    /\ up' = TRUE
    /\ \/ Goes(c, "call", "open")
       \/ Goes(c, "call", "undo")
    /\ UNCHANGED <<life, sdk, running, stop, nextToken, channel, worker>>

\* The first setup starts the worker; the channel gets a token of its own.
ConfigureOpen(c) ==
    /\ caller[c].pc = "open"
    /\ \/ /\ IF caller[c].first
               THEN stop' = FALSE /\ worker' = [Ended EXCEPT !.pc = "top"]
               ELSE UNCHANGED <<stop, worker>>
          /\ nextToken' = nextToken + 1
          /\ channel' = [channel EXCEPT ![caller[c].ch] =
                 [Closed EXCEPT !.token = nextToken + 1]]
          /\ running' = TRUE
          /\ sdk' = Nobody
          /\ Returns(c)
       \/ /\ caller[c].first
          /\ Goes(c, "open", "undo")
          /\ stop' = FALSE
          /\ UNCHANGED <<life, sdk, running, nextToken, channel, worker>>
    /\ UNCHANGED up

ConfigureUndo(c) ==
    /\ caller[c].pc = "undo"
    /\ up' = (up /\ ~caller[c].first)
    /\ sdk' = Nobody
    /\ Fails(c)
    /\ UNCHANGED <<running, stop, nextToken, worker>>

-----------------------------------------------------------------------------
(* simrt_can_release, also of a token that was released before.            *)

Release(c) ==
    /\ caller[c] = AtRest
    /\ \E t \in 1..nextToken :
           caller' = [caller EXCEPT ![c] = [AtRest EXCEPT !.pc = "release", !.token = t]]
    /\ UNCHANGED <<life, sdk, up, running, stop, nextToken, channel, worker>>

ReleaseLife(c) ==
    /\ life = Nobody /\ life' = c
    /\ Goes(c, "release", "clear")
    /\ UNCHANGED <<sdk, up, running, stop, nextToken, channel, worker>>

Cleared(c) == [x \in Channels |->
    IF channel[x].token = caller[c].token THEN Closed ELSE channel[x]]

\* Mutant: the SDK lock is kept while the worker is awaited.
MutantKeepSdk(c) ==
    /\ caller[c].pc = "clear" /\ sdk = Nobody
    /\ channel' = Cleared(c)
    /\ IF channel' # channel /\ \A x \in Channels : channel'[x].token = 0
         THEN stop' = TRUE /\ Goes(c, "clear", "join") /\ sdk' = c /\ UNCHANGED life
         ELSE Returns(c) /\ UNCHANGED <<stop, sdk>>
    /\ UNCHANGED <<up, running, nextToken, worker>>

\* Under the SDK lock, so that an SDK call of the worker ends before the
\* token becomes invalid; the lock is let go before the worker is awaited.
ReleaseClear(c) ==
    /\ caller[c].pc = "clear" /\ sdk = Nobody
    /\ channel' = Cleared(c)
    /\ IF channel' # channel /\ \A x \in Channels : channel'[x].token = 0
         THEN stop' = TRUE /\ Goes(c, "clear", "join") /\ UNCHANGED life
         ELSE Returns(c) /\ UNCHANGED stop
    /\ UNCHANGED <<sdk, up, running, nextToken, worker>>

\* The last release waits for the worker and unloads the SDK.
ReleaseJoin(c) ==
    /\ worker.pc = "ended"
    /\ Goes(c, "join", "unload")
    /\ UNCHANGED <<life, sdk, up, running, stop, nextToken, channel, worker>>

ReleaseUnload(c) ==
    /\ caller[c].pc = "unload"
    /\ up' = FALSE /\ running' = FALSE
    /\ Returns(c)
    /\ UNCHANGED <<sdk, stop, nextToken, channel, worker>>

-----------------------------------------------------------------------------
(* Step calls.                                                             *)

\* channel_status reports a pending error once, and nothing is queued or
\* taken then; a full queue refuses the frame.
Send(x) ==
    /\ channel[x].token # 0
    /\ channel' = [channel EXCEPT ![x].error = FALSE,
           ![x].tx = IF channel[x].error \/ Len(@) = Capacity THEN @
                     ELSE Append(@, channel[x].token)]
    /\ UNCHANGED <<life, sdk, up, running, stop, nextToken, caller, worker>>

Receive(x) ==
    /\ channel[x].token # 0
    /\ channel' = [channel EXCEPT ![x].error = FALSE,
           ![x].rx = IF channel[x].error \/ @ = <<>> THEN @ ELSE Tail(@)]
    /\ UNCHANGED <<life, sdk, up, running, stop, nextToken, caller, worker>>

-----------------------------------------------------------------------------
(* io_worker.                                                              *)

To(pc) == worker' = [worker EXCEPT !.pc = pc]

\* The next channel of the round, or the pause and a new round.
NextChannel ==
    worker' = IF worker.ch < Ports
                THEN [Ended EXCEPT !.pc = "take", !.ch = worker.ch + 1]
                ELSE [Ended EXCEPT !.pc = "top"]

WorkerTop ==
    /\ worker.pc = "top"
    /\ To(IF stop THEN "ended" ELSE "take")
    /\ UNCHANGED <<life, sdk, up, running, stop, nextToken, channel, caller>>

WorkerTake ==
    /\ worker.pc = "take"
    /\ LET x == worker.ch
           tx == channel[x].tx
           taken == IF Len(tx) < Batch THEN Len(tx) ELSE Batch
       IN IF channel[x].token = 0
            THEN NextChannel /\ UNCHANGED channel
            ELSE /\ worker' = [worker EXCEPT !.pc = "sdk", !.token = channel[x].token,
                                   !.frames = SubSeq(tx, 1, taken)]
                 /\ channel' = [channel EXCEPT ![x].tx = SubSeq(tx, taken + 1, Len(tx))]
    /\ UNCHANGED <<life, sdk, up, running, stop, nextToken, caller>>

\* Mutant: the token is not looked at again under the SDK lock.
MutantNoRecheck ==
    /\ worker.pc = "sdk" /\ sdk = Nobody
    /\ To("call") /\ sdk' = Worker
    /\ UNCHANGED <<life, up, running, stop, nextToken, channel, caller>>

\* Under the SDK lock: when the channel was released meanwhile or the driver
\* stops, the frames taken are lost.
WorkerSdk ==
    /\ worker.pc = "sdk" /\ sdk = Nobody
    /\ IF channel[worker.ch].token # worker.token \/ stop
         THEN NextChannel /\ UNCHANGED sdk
         ELSE To("call") /\ sdk' = Worker
    /\ UNCHANGED <<life, up, running, stop, nextToken, channel, caller>>

\* The frames taken are sent, each with or without success, and up to a
\* batch is received; a failure is reported to the owner.
WorkerCall ==
    /\ worker.pc = "call"
    /\ \E received \in 0..Batch, failed \in BOOLEAN :
        /\ worker' = [worker EXCEPT !.pc = "deliver",
                          !.frames = [i \in 1..received |-> worker.token]]
        /\ channel' = [channel EXCEPT ![worker.ch].error =
               (@ \/ (failed /\ channel[worker.ch].token = worker.token))]
    /\ sdk' = Nobody
    /\ UNCHANGED <<life, up, running, stop, nextToken, caller>>

\* Mutant: the frames go to whoever has the channel now.
MutantDeliverToAny ==
    /\ worker.pc = "deliver"
    /\ channel' = [channel EXCEPT ![worker.ch].rx = worker.frames]
    /\ NextChannel
    /\ UNCHANGED <<life, sdk, up, running, stop, nextToken, caller>>

\* What does not fit or is not valid is dropped, and the owner told.
WorkerDeliver ==
    /\ worker.pc = "deliver"
    /\ \E valid \in 0..Len(worker.frames) :
        LET old == channel[worker.ch].rx
            fits == IF valid < Capacity - Len(old) THEN valid ELSE Capacity - Len(old)
        IN channel' = IF channel[worker.ch].token # worker.token THEN channel
             ELSE [channel EXCEPT ![worker.ch].rx = old \o SubSeq(worker.frames, 1, fits),
                                  ![worker.ch].error = (@ \/ fits < Len(worker.frames))]
    /\ NextChannel
    /\ UNCHANGED <<life, sdk, up, running, stop, nextToken, caller>>

WorkerStep ==
    \/ WorkerTop \/ WorkerTake \/ WorkerSdk \/ WorkerCall \/ WorkerDeliver

CallStep(c) ==
    \/ ConfigureCall(c) \/ ConfigureOpen(c) \/ ConfigureUndo(c)
    \/ ReleaseJoin(c) \/ ReleaseUnload(c)

\* Steps that wait for a lock.
LockStep(c) ==
    ConfigureCheck(c) \/ ConfigureSdk(c) \/ ReleaseLife(c) \/ ReleaseClear(c)

Next ==
    \/ \E c \in Callers : Configure(c) \/ Release(c) \/ CallStep(c) \/ LockStep(c)
    \/ \E x \in Channels : Send(x) \/ Receive(x)
    \/ WorkerStep

Spec == Init /\ [][Next]_vars

-----------------------------------------------------------------------------
(* Properties.                                                             *)

\* A frame never crosses from one owner of a channel to the next: what is
\* queued belongs to the owner of the channel, and while the worker is in
\* the SDK for a channel its token is the one the frames were taken for.
OwnFramesOnly ==
    /\ \A x \in Channels :
        LET q == channel[x].tx \o channel[x].rx IN
        \A i \in 1..Len(q) : q[i] = channel[x].token
    /\ worker.pc = "call" => channel[worker.ch].token = worker.token

InSdk == {c \in Callers : caller[c].pc \in {"call", "undo", "unload"}}

\* The vendor library is in use by one thread at most, and the worker never
\* calls it before it is up or after it was unloaded.
SdkExclusive ==
    /\ \A c, d \in InSdk : c = d
    /\ worker.pc = "call" => InSdk = {} /\ up

\* Every setup and release returns.
CallsReturn == \A c \in Callers : caller[c].pc # "rest" ~> caller[c].pc = "rest"

=============================================================================
