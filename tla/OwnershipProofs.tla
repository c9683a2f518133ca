--------------------------- MODULE OwnershipProofs ---------------------------
(***************************************************************************)
(* What is handed out to one owner at a time serves only that owner, for   *)
(* every number of threads, channels, slots, messages and connections: the *)
(* CAN channels, the endpoints of the network driver, the device slots and *)
(* the target page.  Each part has an invariant of its own; the theorems   *)
(* at the end are about the union of the parts.                            *)
(***************************************************************************)
EXTENDS MCOwnership, SequenceTheorems, FunctionTheorems, FiniteSetTheorems,
        WellFoundedInduction, TLAPS

-----------------------------------------------------------------------------
(* The CAN driver.                                                         *)

CanPcs == {"rest", "configure", "sdk", "call", "open", "undo",
           "release", "clear", "join", "unload"}
CanCallers == [pc: CanPcs, ch: Can!Channels, token: Nat, first: BOOLEAN]
CanChannels == [token: Nat, error: BOOLEAN, tx: Seq(Nat), rx: Seq(Nat)]
CanWorkers == [pc: {"ended", "top", "take", "sdk", "call", "deliver"},
               ch: Can!Channels, token: Nat, frames: Seq(Nat)]

\* The types of the driver's variables.
CanTyped ==
    /\ life \in Callers \cup {Nobody} /\ sdk \in Callers \cup {Worker, Nobody}
    /\ up \in BOOLEAN /\ running \in BOOLEAN /\ stop \in BOOLEAN /\ nextToken \in Nat
    /\ channel \in [Can!Channels -> CanChannels]
    /\ caller \in [Callers -> CanCallers]
    /\ worker \in CanWorkers

\* A caller between taking and letting go a lock holds it, and knows whether the
\* driver runs, because only the holder of the life cycle lock changes that.
CallerPoint(c) ==
    /\ caller[c].pc \in {"sdk", "call", "open", "undo", "clear", "join", "unload"} => life = c
    /\ caller[c].pc \in {"call", "open", "undo"} => sdk = c
    /\ caller[c].pc \in {"sdk", "call", "open", "undo"} => caller[c].first = ~running
    /\ caller[c].pc \in {"open", "undo"} => up
    /\ caller[c].pc = "unload" => worker.pc = "ended"

\* The worker is in the SDK under its lock and while it is up, and for the owner
\* for whom it has taken the frames.
WorkerPoint ==
    /\ running => up
    /\ worker.pc # "ended" => running
    /\ worker.pc = "call" => sdk = Worker /\ channel[worker.ch].token = worker.token
    /\ worker.pc = "deliver" => worker.frames \in Seq({worker.token})

\* A frame that is queued is its owner's.
FramesOwned ==
    \A x \in Can!Channels :
        channel[x].tx \in Seq({channel[x].token}) /\ channel[x].rx \in Seq({channel[x].token})

CanInv == CanTyped /\ (\A c \in Callers : CallerPoint(c)) /\ WorkerPoint /\ FramesOwned

LEMMA CanConstants ==
    /\ Ports \in Nat \ {0} /\ CanCapacity \in Nat \ {0} /\ Batch \in Nat \ {0}
    /\ Nobody \notin Callers \cup {Worker} /\ Worker \notin Callers
    /\ 1 \in Can!Channels
  BY OwnershipAssumption DEF OwnershipAssumption, Can!CanAssumption, Can!Channels

LEMMA CanRecords ==
    Can!Closed \in CanChannels /\ Can!AtRest \in CanCallers /\ Can!Ended \in CanWorkers
  BY CanConstants DEF CanChannels, CanCallers, CanWorkers, Can!Closed, Can!AtRest, Can!Ended, CanPcs

\* A caller goes to another step of its call.
LEMMA CanGoes ==
    ASSUME CanTyped, NEW c \in Callers, NEW from, NEW to \in CanPcs, Can!Goes(c, from, to)
    PROVE  /\ caller[c].pc = from /\ caller' \in [Callers -> CanCallers]
           /\ caller'[c].pc = to /\ caller'[c].first = caller[c].first
           /\ \A d \in Callers : d # c => caller'[d] = caller[d]
  <1>1. PICK k \in CanCallers : k = [caller[c] EXCEPT !.pc = to]
    <2>1. [caller[c] EXCEPT !.pc = to] \in CanCallers
      BY DEF CanTyped, CanCallers
    <2>2. QED  BY <2>1
  <1>2. k.pc = to /\ k.first = caller[c].first
    BY <1>1 DEF CanTyped, CanCallers
  <1>3. caller' = [caller EXCEPT ![c] = k] /\ caller[c].pc = from
    BY <1>1 DEF Can!Goes
  <1>4. QED  BY <1>2, <1>3 DEF CanTyped

\* A call returns.
LEMMA CanReturns ==
    ASSUME CanTyped, NEW c \in Callers, caller' = [caller EXCEPT ![c] = Can!AtRest]
    PROVE  /\ caller' \in [Callers -> CanCallers] /\ caller'[c].pc = "rest"
           /\ \A d \in Callers : d # c => caller'[d] = caller[d]
  BY CanRecords DEF CanTyped, Can!AtRest

\* Nobody but its holder is in the life cycle.
LEMMA CanAlone ==
    ASSUME CanInv, NEW c \in Callers, life = c \/ life = Nobody,
           \A d \in Callers : d # c => caller'[d] = caller[d],
           CallerPoint(c)'
    PROVE  \A d \in Callers : CallerPoint(d)'
  <1>1. ASSUME NEW d \in Callers, d # c
        PROVE  caller'[d].pc \notin {"sdk", "call", "open", "undo", "clear", "join", "unload"}
    BY <1>1, CanConstants DEF CanInv, CallerPoint
  <1>2. ASSUME NEW d \in Callers, d # c PROVE CallerPoint(d)'
    BY <1>1, <1>2 DEF CallerPoint
  <1>3. QED  BY <1>2

LEMMA CanBegins ==
    ASSUME CanInv, NEW c \in Callers, Can!Configure(c) \/ Can!Release(c)
    PROVE  CanInv'
  <1>1. PICK k \in CanCallers : /\ caller' = [caller EXCEPT ![c] = k]
                               /\ k.pc \in {"configure", "release"}
    <2>1. ASSUME NEW x \in Can!Channels
          PROVE  /\ [Can!AtRest EXCEPT !.pc = "configure", !.ch = x] \in CanCallers
                 /\ [Can!AtRest EXCEPT !.pc = "configure", !.ch = x].pc = "configure"
      BY CanConstants DEF CanCallers, Can!AtRest, CanPcs
    <2>2. ASSUME NEW t \in 1..nextToken
          PROVE  /\ [Can!AtRest EXCEPT !.pc = "release", !.token = t] \in CanCallers
                 /\ [Can!AtRest EXCEPT !.pc = "release", !.token = t].pc = "release"
      <3>1. t \in Nat
        BY DEF CanInv, CanTyped
      <3>2. QED  BY <3>1, CanConstants DEF CanCallers, Can!AtRest, CanPcs
    <2>3. CASE Can!Configure(c)
      BY <2>1, <2>3 DEF Can!Configure
    <2>4. CASE Can!Release(c)
      BY <2>2, <2>4 DEF Can!Release
    <2>5. QED  BY <2>3, <2>4
  <1>2. UNCHANGED <<life, sdk, up, running, stop, nextToken, channel, worker>>
    BY DEF Can!Configure, Can!Release
  <1>3. CanTyped' /\ \A d \in Callers : d # c => caller'[d] = caller[d]
    BY <1>1, <1>2 DEF CanInv, CanTyped
  <1>4. caller'[c] = k
    BY <1>1 DEF CanInv, CanTyped
  <1>5. ASSUME NEW d \in Callers PROVE CallerPoint(d)'
    BY <1>1, <1>2, <1>3, <1>4 DEF CanInv, CallerPoint
  <1>6. WorkerPoint' /\ FramesOwned'
    BY <1>2 DEF CanInv, WorkerPoint, FramesOwned
  <1>7. QED  BY <1>3, <1>5, <1>6 DEF CanInv

\* An error is noted on the channel a caller names, and its call returns.
LEMMA CanFails ==
    ASSUME CanTyped, FramesOwned, NEW c \in Callers, Can!Fails(c)
    PROVE  /\ channel' \in [Can!Channels -> CanChannels] /\ FramesOwned'
           /\ \A x \in Can!Channels : channel'[x].token = channel[x].token
           /\ caller' = [caller EXCEPT ![c] = Can!AtRest] /\ life' = Nobody
  <1> DEFINE x == caller[c].ch
  <1>1. x \in Can!Channels /\ channel[x] \in CanChannels
    BY DEF CanTyped, CanCallers
  <1>2. PICK e \in BOOLEAN : channel' = [channel EXCEPT ![x].error = e]
    BY <1>1 DEF Can!Fails, CanChannels
  <1>3. PICK h \in CanChannels : h = [channel[x] EXCEPT !.error = e]
    <2>1. [channel[x] EXCEPT !.error = e] \in CanChannels
      BY <1>1 DEF CanChannels
    <2>2. QED  BY <2>1
  <1>4. h.token = channel[x].token /\ h.tx = channel[x].tx /\ h.rx = channel[x].rx
    BY <1>1, <1>3 DEF CanChannels
  <1>5. channel' = [channel EXCEPT ![x] = h]
    BY <1>2, <1>3
  <1> HIDE DEF x
  <1>6. channel' \in [Can!Channels -> CanChannels] /\ channel'[x] = h
        /\ \A y \in Can!Channels : y # x => channel'[y] = channel[y]
    BY <1>1, <1>5 DEF CanTyped
  <1>7. \A y \in Can!Channels : channel'[y].token = channel[y].token
          /\ channel'[y].tx = channel[y].tx /\ channel'[y].rx = channel[y].rx
    BY <1>4, <1>6
  <1>8. FramesOwned'
    BY <1>7 DEF FramesOwned
  <1>9. QED  BY <1>6, <1>7, <1>8 DEF Can!Fails

LEMMA CanCheckStep ==
    ASSUME CanInv, NEW c \in Callers, Can!ConfigureCheck(c)
    PROVE  CanInv'
  <1>1. CanTyped /\ FramesOwned /\ life = Nobody
        /\ UNCHANGED <<sdk, up, running, stop, nextToken, worker>>
    BY DEF CanInv, Can!ConfigureCheck
  <1>2. CASE Can!Fails(c)
    <2>1. CanTyped' /\ FramesOwned' /\ caller'[c].pc = "rest"
          /\ (\A d \in Callers : d # c => caller'[d] = caller[d])
          /\ \A x \in Can!Channels : channel'[x].token = channel[x].token
      BY <1>1, <1>2, CanFails, CanReturns DEF CanTyped
    <2>2. CallerPoint(c)'
      BY <2>1 DEF CallerPoint
    <2>3. WorkerPoint'
      BY <1>1, <2>1 DEF WorkerPoint, CanInv, CanTyped, CanWorkers
    <2>4. QED  BY <1>1, <2>1, <2>2, <2>3, CanAlone DEF CanInv
  <1>3. CASE /\ life' = c /\ UNCHANGED channel
             /\ caller' = [caller EXCEPT ![c].pc = "sdk", ![c].first = ~running]
    <2>1. PICK k \in CanCallers : k = [caller[c] EXCEPT !.pc = "sdk", !.first = ~running]
      <3>1. [caller[c] EXCEPT !.pc = "sdk", !.first = ~running] \in CanCallers
        BY <1>1 DEF CanTyped, CanCallers, CanPcs
      <3>2. QED  BY <3>1
    <2>2. k.pc = "sdk" /\ k.first = ~running
      BY <1>1, <2>1 DEF CanTyped, CanCallers
    <2>3. caller' = [caller EXCEPT ![c] = k]
      BY <1>3, <2>1
    <2>4. CanTyped' /\ caller'[c] = k /\ \A d \in Callers : d # c => caller'[d] = caller[d]
      BY <1>1, <1>3, <2>3 DEF CanTyped
    <2>5. CallerPoint(c)'
      BY <1>1, <1>3, <2>2, <2>4 DEF CallerPoint
    <2>6. WorkerPoint' /\ FramesOwned'
      BY <1>1, <1>3 DEF CanInv, WorkerPoint, FramesOwned
    <2>7. QED  BY <1>1, <2>4, <2>5, <2>6, CanAlone DEF CanInv
  <1>4. QED  BY <1>2, <1>3 DEF Can!ConfigureCheck

\* Steps of a caller that only take or hand over a lock.
LEMMA CanQuietSteps ==
    ASSUME CanInv, NEW c \in Callers,
           \/ Can!ConfigureSdk(c) \/ Can!ConfigureCall(c)
           \/ Can!ReleaseLife(c) \/ Can!ReleaseJoin(c)
    PROVE  CanInv'
  <1>1. CanTyped /\ CallerPoint(c) /\ WorkerPoint
    BY DEF CanInv
  <1>2. PICK to \in CanPcs : \E from : Can!Goes(c, from, to)
    BY DEF Can!ConfigureSdk, Can!ConfigureCall, Can!ReleaseLife, Can!ReleaseJoin, CanPcs
  <1>3. /\ caller' \in [Callers -> CanCallers]
        /\ caller'[c].pc = to /\ caller'[c].first = caller[c].first
        /\ \A d \in Callers : d # c => caller'[d] = caller[d]
    BY <1>1, <1>2, CanGoes
  <1>4. UNCHANGED <<running, stop, nextToken, channel, worker>>
    BY DEF Can!ConfigureSdk, Can!ConfigureCall, Can!ReleaseLife, Can!ReleaseJoin
  <1>5. /\ life = c \/ life = Nobody
        /\ life' \in Callers \cup {Nobody} /\ sdk' \in Callers \cup {Worker, Nobody}
        /\ up' \in BOOLEAN
        /\ up => up'
        /\ worker.pc = "call" => sdk' = sdk
    BY <1>1, CanConstants
       DEF Can!ConfigureSdk, Can!ConfigureCall, Can!ReleaseLife, Can!ReleaseJoin, Can!Goes,
           CanTyped, CallerPoint, WorkerPoint
  <1>6. CallerPoint(c)'
    <2>1. CASE Can!ConfigureSdk(c)
      BY <1>1, <1>3, <1>4, <2>1, CanGoes, CanConstants
         DEF Can!ConfigureSdk, CallerPoint, CanPcs, Can!Goes
    <2>2. CASE Can!ConfigureCall(c)
      <3>1. caller[c].pc = "call" /\ up' /\ UNCHANGED <<life, sdk>> /\ to \in {"open", "undo"}
        <4>1. caller'[c].pc \in {"open", "undo"}
          BY <1>1, <2>2, CanGoes DEF Can!ConfigureCall, CanPcs
        <4>2. QED  BY <1>3, <2>2, <4>1 DEF Can!ConfigureCall
      <3>2. QED  BY <1>1, <1>3, <1>4, <3>1 DEF CallerPoint
    <2>3. CASE Can!ReleaseLife(c)
      <3>1. caller'[c].pc = "clear" /\ life' = c
        BY <1>1, <2>3, CanGoes DEF Can!ReleaseLife, CanPcs
      <3>2. QED  BY <3>1 DEF CallerPoint
    <2>4. CASE Can!ReleaseJoin(c)
      <3>1. caller'[c].pc = "unload" /\ caller[c].pc = "join" /\ life' = life /\ worker.pc = "ended"
        BY <1>1, <2>4, CanGoes DEF Can!ReleaseJoin, CanPcs
      <3>2. QED  BY <1>1, <1>4, <3>1 DEF CallerPoint
    <2>5. QED  BY <2>1, <2>2, <2>3, <2>4
  <1>7. CanTyped'
    BY <1>1, <1>3, <1>4, <1>5 DEF CanTyped
  <1>8. WorkerPoint' /\ FramesOwned'
    BY <1>4, <1>5 DEF CanInv, WorkerPoint, FramesOwned, CanTyped
  <1>9. QED  BY <1>3, <1>5, <1>6, <1>7, <1>8, CanAlone DEF CanInv

\* The first setup starts the worker, and a channel gets a token of its own.
LEMMA CanOpenStep ==
    ASSUME CanInv, NEW c \in Callers, Can!ConfigureOpen(c)
    PROVE  CanInv'
  <1>1. CanTyped /\ CallerPoint(c) /\ WorkerPoint /\ FramesOwned
        /\ caller[c].pc = "open" /\ life = c /\ sdk = c /\ up /\ UNCHANGED up
        /\ caller[c].first = ~running
    BY DEF CanInv, Can!ConfigureOpen, CallerPoint
  <1> DEFINE x == caller[c].ch
  <1>2. x \in Can!Channels /\ sdk # Worker
    BY <1>1, CanConstants DEF CanTyped, CanCallers
  <1>3. CASE /\ IF caller[c].first
                  THEN stop' = FALSE /\ worker' = [Can!Ended EXCEPT !.pc = "top"]
                  ELSE UNCHANGED <<stop, worker>>
             /\ nextToken' = nextToken + 1
             /\ channel' = [channel EXCEPT ![x] = [Can!Closed EXCEPT !.token = nextToken + 1]]
             /\ running' = TRUE /\ sdk' = Nobody /\ Can!Returns(c)
    <2>1. PICK h \in CanChannels : h = [Can!Closed EXCEPT !.token = nextToken + 1]
      <3>1. [Can!Closed EXCEPT !.token = nextToken + 1] \in CanChannels
        <4>1. nextToken + 1 \in Nat /\ <<>> \in Seq(Nat)
          BY <1>1 DEF CanTyped
        <4>2. QED  BY <4>1 DEF CanChannels, Can!Closed
      <3>2. QED  BY <3>1
    <2>2. h.tx = <<>> /\ h.rx = <<>>
      BY <2>1 DEF Can!Closed
    <2>3. /\ channel' \in [Can!Channels -> CanChannels] /\ channel'[x] = h
          /\ \A y \in Can!Channels : y # x => channel'[y] = channel[y]
      <3> HIDE DEF x
      <3>1. QED  BY <1>1, <1>2, <1>3, <2>1 DEF CanTyped
    <2>4. FramesOwned'
      <3> HIDE DEF x
      <3>1. ASSUME NEW y \in Can!Channels
            PROVE  /\ channel'[y].tx \in Seq({channel'[y].token})
                   /\ channel'[y].rx \in Seq({channel'[y].token})
        <4>1. CASE y = x
          BY <2>2, <2>3, <4>1, EmptySeq
        <4>2. CASE y # x
          BY <1>1, <2>3, <4>2 DEF FramesOwned
        <4>3. QED  BY <4>1, <4>2
      <3>2. QED  BY <3>1 DEF FramesOwned
    <2>5. /\ caller' \in [Callers -> CanCallers] /\ caller'[c].pc = "rest" /\ life' = Nobody
          /\ \A d \in Callers : d # c => caller'[d] = caller[d]
      BY <1>1, <1>3, CanReturns DEF Can!Returns
    <2>6. worker' \in CanWorkers /\ worker'.pc # "call"
          /\ (worker'.pc = "deliver" => worker' = worker)
      <3>1. CASE caller[c].first
        <4>1. [Can!Ended EXCEPT !.pc = "top"] \in CanWorkers
              /\ [Can!Ended EXCEPT !.pc = "top"].pc = "top"
          BY CanConstants, EmptySeq DEF CanWorkers, Can!Ended
        <4>2. QED  BY <1>3, <3>1, <4>1
      <3>2. CASE ~caller[c].first
        BY <1>1, <1>2, <1>3, <3>2 DEF CanTyped, WorkerPoint
      <3>3. QED  BY <3>1, <3>2
    <2>7. CanTyped'
      <3>1. nextToken' \in Nat /\ running' \in BOOLEAN /\ stop' \in BOOLEAN
        <4>1. nextToken' \in Nat /\ running' = TRUE
          BY <1>1, <1>3 DEF CanTyped
        <4>2. CASE caller[c].first
          BY <1>3, <4>1, <4>2
        <4>3. CASE ~caller[c].first
          BY <1>1, <1>3, <4>1, <4>3 DEF CanTyped
        <4>4. QED  BY <4>2, <4>3
      <3>2. life' = Nobody /\ sdk' = Nobody /\ up' \in BOOLEAN
        BY <1>1, <1>3, <2>5 DEF CanTyped
      <3>3. QED  BY <2>3, <2>5, <2>6, <3>1, <3>2 DEF CanTyped
    <2>8. WorkerPoint'
      BY <1>1, <1>3, <2>6 DEF WorkerPoint
    <2>9. CallerPoint(c)'
      BY <2>5 DEF CallerPoint
    <2>10. QED  BY <1>1, <2>4, <2>5, <2>7, <2>8, <2>9, CanAlone DEF CanInv
  <1>4. CASE /\ caller[c].first /\ Can!Goes(c, "open", "undo") /\ stop' = FALSE
             /\ UNCHANGED <<life, sdk, running, nextToken, channel, worker>>
    <2>1. /\ caller' \in [Callers -> CanCallers]
          /\ caller'[c].pc = "undo" /\ caller'[c].first = caller[c].first
          /\ \A d \in Callers : d # c => caller'[d] = caller[d]
      BY <1>1, <1>4, CanGoes DEF CanPcs
    <2>2. CanTyped'
      BY <1>1, <1>4, <2>1 DEF CanTyped
    <2>3. CallerPoint(c)'
      BY <1>1, <1>4, <2>1 DEF CallerPoint
    <2>4. WorkerPoint' /\ FramesOwned'
      BY <1>1, <1>4 DEF WorkerPoint, FramesOwned
    <2>5. QED  BY <1>1, <2>1, <2>2, <2>3, <2>4, CanAlone DEF CanInv
  <1>5. QED  BY <1>1, <1>3, <1>4 DEF Can!ConfigureOpen

LEMMA CanUndoStep ==
    ASSUME CanInv, NEW c \in Callers, Can!ConfigureUndo(c)
    PROVE  CanInv'
  <1>1. CanTyped /\ CallerPoint(c) /\ WorkerPoint /\ FramesOwned
        /\ life = c /\ sdk = c /\ up /\ caller[c].first = ~running
        /\ up' = (up /\ ~caller[c].first) /\ sdk' = Nobody /\ Can!Fails(c)
        /\ UNCHANGED <<running, stop, nextToken, worker>>
    BY DEF CanInv, Can!ConfigureUndo, CallerPoint
  <1>2. /\ channel' \in [Can!Channels -> CanChannels] /\ FramesOwned' /\ life' = Nobody
        /\ caller' \in [Callers -> CanCallers] /\ caller'[c].pc = "rest"
        /\ \A d \in Callers : d # c => caller'[d] = caller[d]
    BY <1>1, CanFails, CanReturns
  <1>3. CanTyped'
    BY <1>1, <1>2 DEF CanTyped, CanCallers
  <1>4. WorkerPoint'
    BY <1>1, CanConstants DEF WorkerPoint
  <1>5. CallerPoint(c)'
    BY <1>2 DEF CallerPoint
  <1>6. QED  BY <1>1, <1>2, <1>3, <1>4, <1>5, CanAlone DEF CanInv

\* The token becomes invalid while nobody is in the SDK.
LEMMA CanClearStep ==
    ASSUME CanInv, NEW c \in Callers, Can!ReleaseClear(c)
    PROVE  CanInv'
  <1>1. CanTyped /\ CallerPoint(c) /\ WorkerPoint /\ FramesOwned
        /\ caller[c].pc = "clear" /\ life = c /\ sdk = Nobody /\ worker.pc # "call"
        /\ UNCHANGED <<sdk, up, running, nextToken, worker>>
    BY CanConstants DEF CanInv, Can!ReleaseClear, CallerPoint, WorkerPoint
  <1>2. channel' = Can!Cleared(c)
    BY DEF Can!ReleaseClear
  <1>3. channel' \in [Can!Channels -> CanChannels] /\ FramesOwned'
    <2>1. ASSUME NEW y \in Can!Channels
          PROVE  /\ channel'[y] \in CanChannels
                 /\ channel'[y].tx \in Seq({channel'[y].token})
                 /\ channel'[y].rx \in Seq({channel'[y].token})
      <3>1. CASE channel'[y] = Can!Closed
        BY <3>1, CanRecords DEF Can!Closed
      <3>2. CASE channel'[y] = channel[y]
        BY <1>1, <3>2 DEF CanTyped, FramesOwned
      <3>3. QED  BY <1>2, <3>1, <3>2 DEF Can!Cleared
    <2>2. channel' = [y \in Can!Channels |-> channel'[y]]
      BY <1>2 DEF Can!Cleared
    <2>3. QED  BY <2>1, <2>2 DEF FramesOwned
  <1>4. /\ caller' \in [Callers -> CanCallers] /\ caller'[c].pc \in {"rest", "join"}
        /\ \A d \in Callers : d # c => caller'[d] = caller[d]
        /\ life' \in {c, Nobody} /\ stop' \in BOOLEAN
        /\ caller'[c].pc = "join" => life' = c
    <2>1. CASE stop' = TRUE /\ Can!Goes(c, "clear", "join") /\ UNCHANGED life
      BY <1>1, <2>1, CanGoes DEF CanPcs
    <2>2. CASE Can!Returns(c) /\ UNCHANGED stop
      BY <1>1, <2>2, CanReturns DEF Can!Returns, CanTyped
    <2>3. QED  BY <2>1, <2>2 DEF Can!ReleaseClear
  <1>5. CanTyped'
    BY <1>1, <1>3, <1>4 DEF CanTyped
  <1>6. CallerPoint(c)'
    BY <1>4 DEF CallerPoint
  <1>7. WorkerPoint'
    BY <1>1 DEF WorkerPoint
  <1>8. QED  BY <1>1, <1>3, <1>4, <1>5, <1>6, <1>7, CanAlone DEF CanInv

LEMMA CanUnloadStep ==
    ASSUME CanInv, NEW c \in Callers, Can!ReleaseUnload(c)
    PROVE  CanInv'
  <1>1. CanTyped /\ CallerPoint(c) /\ life = c /\ worker.pc = "ended"
        /\ up' = FALSE /\ running' = FALSE /\ Can!Returns(c)
        /\ UNCHANGED <<sdk, stop, nextToken, channel, worker>>
    BY DEF CanInv, Can!ReleaseUnload, CallerPoint
  <1>2. /\ caller' \in [Callers -> CanCallers] /\ caller'[c].pc = "rest" /\ life' = Nobody
        /\ \A d \in Callers : d # c => caller'[d] = caller[d]
    BY <1>1, CanReturns DEF Can!Returns
  <1>3. CanTyped'
    BY <1>1, <1>2 DEF CanTyped
  <1>4. WorkerPoint' /\ FramesOwned' /\ CallerPoint(c)'
    BY <1>1, <1>2 DEF WorkerPoint, FramesOwned, CallerPoint, CanInv
  <1>5. QED  BY <1>1, <1>2, <1>3, <1>4, CanAlone DEF CanInv

\* Writing some fields of a channel writes the channel.
Written(f, x, e, t, r) ==
    [f EXCEPT ![x] = [token |-> f[x].token, error |-> e, tx |-> t, rx |-> r]]
ErrorWritten(f, x, e) == [f EXCEPT ![x].error = e]
TxWritten(f, x, t) == [f EXCEPT ![x].tx = t]
ErrorTxWritten(f, x, e, t) == [f EXCEPT ![x].error = e, ![x].tx = t]
ErrorRxWritten(f, x, e, r) == [f EXCEPT ![x].error = e, ![x].rx = r]
RxErrorWritten(f, x, r, e) == [f EXCEPT ![x].rx = r, ![x].error = e]

LEMMA CanFields ==
    ASSUME NEW f \in [Can!Channels -> CanChannels], NEW x \in Can!Channels, NEW e, NEW t
    PROVE  /\ ErrorWritten(f, x, e) = Written(f, x, e, f[x].tx, f[x].rx)
           /\ TxWritten(f, x, t) = Written(f, x, f[x].error, t, f[x].rx)
           /\ ErrorTxWritten(f, x, e, t) = Written(f, x, e, t, f[x].rx)
           /\ ErrorRxWritten(f, x, e, t) = Written(f, x, e, f[x].tx, t)
           /\ RxErrorWritten(f, x, t, e) = Written(f, x, e, f[x].tx, t)
  <1> DEFINE Full(er, ts, rs) ==
             [token |-> f[x].token, error |-> er, tx |-> ts, rx |-> rs]
  <1>1. f[x] = Full(f[x].error, f[x].tx, f[x].rx)
    BY DEF CanChannels
  <1>2. [f EXCEPT ![x].error = e] = [f EXCEPT ![x] = Full(e, f[x].tx, f[x].rx)]
    <2>1. [f[x] EXCEPT !.error = e] = Full(e, f[x].tx, f[x].rx)
      BY <1>1
    <2>2. [f EXCEPT ![x].error = e] = [f EXCEPT ![x] = [f[x] EXCEPT !.error = e]]
      OBVIOUS
    <2>3. QED  BY <2>1, <2>2
  <1>3. [f EXCEPT ![x].tx = t] = [f EXCEPT ![x] = Full(f[x].error, t, f[x].rx)]
    <2>1. [f[x] EXCEPT !.tx = t] = Full(f[x].error, t, f[x].rx)
      BY <1>1
    <2>2. [f EXCEPT ![x].tx = t] = [f EXCEPT ![x] = [f[x] EXCEPT !.tx = t]]
      OBVIOUS
    <2>3. QED  BY <2>1, <2>2
  <1>4. [f EXCEPT ![x].rx = t] = [f EXCEPT ![x] = Full(f[x].error, f[x].tx, t)]
    <2>1. [f[x] EXCEPT !.rx = t] = Full(f[x].error, f[x].tx, t)
      BY <1>1
    <2>2. [f EXCEPT ![x].rx = t] = [f EXCEPT ![x] = [f[x] EXCEPT !.rx = t]]
      OBVIOUS
    <2>3. QED  BY <2>1, <2>2
  <1>5. [f EXCEPT ![x].error = e, ![x].tx = t] = [f EXCEPT ![x] = Full(e, t, f[x].rx)]
    <2>1. PICK g : g = [f EXCEPT ![x].error = e]
      OBVIOUS
    <2>2. g = [f EXCEPT ![x] = Full(e, f[x].tx, f[x].rx)]
      BY <1>2, <2>1
    <2>3. g[x] = Full(e, f[x].tx, f[x].rx)
      BY <2>2
    <2>4. [g[x] EXCEPT !.tx = t] = Full(e, t, f[x].rx)
      BY <2>3
    <2>5. [g EXCEPT ![x].tx = t] = [g EXCEPT ![x] = [g[x] EXCEPT !.tx = t]]
      OBVIOUS
    <2>6. [f EXCEPT ![x].error = e, ![x].tx = t] = [g EXCEPT ![x].tx = t]
      BY <2>1
    <2>7. QED  BY <2>2, <2>4, <2>5, <2>6
  <1>6. [f EXCEPT ![x].error = e, ![x].rx = t] = [f EXCEPT ![x] = Full(e, f[x].tx, t)]
    <2>1. PICK g : g = [f EXCEPT ![x].error = e]
      OBVIOUS
    <2>2. g = [f EXCEPT ![x] = Full(e, f[x].tx, f[x].rx)]
      BY <1>2, <2>1
    <2>3. g[x] = Full(e, f[x].tx, f[x].rx)
      BY <2>2
    <2>4. [g[x] EXCEPT !.rx = t] = Full(e, f[x].tx, t)
      BY <2>3
    <2>5. [g EXCEPT ![x].rx = t] = [g EXCEPT ![x] = [g[x] EXCEPT !.rx = t]]
      OBVIOUS
    <2>6. [f EXCEPT ![x].error = e, ![x].rx = t] = [g EXCEPT ![x].rx = t]
      BY <2>1
    <2>7. QED  BY <2>2, <2>4, <2>5, <2>6
  <1>7. [f EXCEPT ![x].rx = t, ![x].error = e] = [f EXCEPT ![x] = Full(e, f[x].tx, t)]
    <2>1. PICK g : g = [f EXCEPT ![x].rx = t]
      OBVIOUS
    <2>2. g = [f EXCEPT ![x] = Full(f[x].error, f[x].tx, t)]
      BY <1>4, <2>1
    <2>3. g[x] = Full(f[x].error, f[x].tx, t)
      BY <2>2
    <2>4. [g[x] EXCEPT !.error = e] = Full(e, f[x].tx, t)
      BY <2>3
    <2>5. [g EXCEPT ![x].error = e] = [g EXCEPT ![x] = [g[x] EXCEPT !.error = e]]
      OBVIOUS
    <2>6. [f EXCEPT ![x].rx = t, ![x].error = e] = [g EXCEPT ![x].error = e]
      BY <2>1
    <2>7. QED  BY <2>2, <2>4, <2>5, <2>6
  <1>8. QED  BY <1>2, <1>3, <1>5, <1>6, <1>7
             DEF Written, ErrorWritten, TxWritten, ErrorTxWritten, ErrorRxWritten, RxErrorWritten

\* A step call changes one queue by at most one frame of the owner.
LEMMA CanSendReceive ==
    ASSUME CanInv, NEW x \in Can!Channels, Can!Send(x) \/ Can!Receive(x)
    PROVE  CanInv'
  <1> DEFINE q == channel[x]
  <1>1. CanTyped /\ WorkerPoint /\ FramesOwned /\ q \in CanChannels
        /\ q.tx \in Seq({q.token}) /\ q.rx \in Seq({q.token})
        /\ q.tx \in Seq(Nat) /\ q.rx \in Seq(Nat) /\ q.token \in Nat
        /\ UNCHANGED <<life, sdk, up, running, stop, nextToken, caller, worker>>
    BY DEF CanInv, CanTyped, CanChannels, FramesOwned, Can!Send, Can!Receive
  <1>2. PICK tx1 \in Seq(Nat), rx1 \in Seq(Nat) :
          /\ channel' = Written(channel, x, FALSE, tx1, rx1)
          /\ tx1 \in Seq({q.token}) /\ rx1 \in Seq({q.token})
    <2>1. CASE Can!Send(x)
      <3>1. PICK t : /\ channel' = [channel EXCEPT ![x].error = FALSE, ![x].tx = t]
                     /\ t = q.tx \/ t = Append(q.tx, q.token)
        BY <2>1 DEF Can!Send
      <3>2. t \in Seq({q.token}) /\ t \in Seq(Nat)
        <4>1. ASSUME NEW S, q.tx \in Seq(S), q.token \in S PROVE t \in Seq(S)
          BY <3>1, <4>1, AppendProperties
        <4>2. QED  BY <1>1, <4>1
      <3>3. channel' = Written(channel, x, FALSE, t, channel[x].rx)
        <4>1. channel \in [Can!Channels -> CanChannels]
          BY <1>1 DEF CanTyped
        <4>2. channel' = ErrorTxWritten(channel, x, FALSE, t)
          BY <3>1 DEF ErrorTxWritten
        <4>3. QED  BY <4>1, <4>2, CanFields
      <3>4. QED  BY <1>1, <3>2, <3>3
    <2>2. CASE Can!Receive(x)
      <3>1. PICK r : /\ channel' = [channel EXCEPT ![x].error = FALSE, ![x].rx = r]
                     /\ r = q.rx \/ (q.rx # <<>> /\ r = Tail(q.rx))
        BY <2>2 DEF Can!Receive
      <3>2. r \in Seq({q.token}) /\ r \in Seq(Nat)
        BY <1>1, <3>1, HeadTailProperties
      <3>3. channel' = Written(channel, x, FALSE, channel[x].tx, r)
        <4>1. channel \in [Can!Channels -> CanChannels]
          BY <1>1 DEF CanTyped
        <4>2. channel' = ErrorRxWritten(channel, x, FALSE, r)
          BY <3>1 DEF ErrorRxWritten
        <4>3. ASSUME NEW e
              PROVE  ErrorRxWritten(channel, x, e, r) = Written(channel, x, e, channel[x].tx, r)
          BY <4>1, CanFields
        <4>4. QED  BY <4>2, <4>3
      <3>4. QED  BY <1>1, <3>2, <3>3
    <2>3. QED  BY <2>1, <2>2
  <1>3. PICK h \in CanChannels :
          h = [token |-> q.token, error |-> FALSE, tx |-> tx1, rx |-> rx1]
    BY <1>1, <1>2 DEF CanChannels
  <1>4. channel' = [channel EXCEPT ![x] = h]
    BY <1>2, <1>3 DEF Written
  <1>5. h.token = q.token /\ h.tx \in Seq({h.token}) /\ h.rx \in Seq({h.token})
    BY <1>2, <1>3
  <1>6. /\ channel' \in [Can!Channels -> CanChannels] /\ channel'[x] = h
        /\ \A y \in Can!Channels : y # x => channel'[y] = channel[y]
    BY <1>1, <1>4 DEF CanTyped
  <1>7. CanTyped' /\ FramesOwned'
    BY <1>1, <1>5, <1>6 DEF CanTyped, FramesOwned
  <1>8. WorkerPoint'
    BY <1>1, <1>5, <1>6 DEF WorkerPoint, CanTyped, CanWorkers
  <1>9. ASSUME NEW d \in Callers PROVE CallerPoint(d)'
    BY <1>1 DEF CanInv, CallerPoint
  <1>10. QED  BY <1>7, <1>8, <1>9 DEF CanInv

\* The next channel of the worker's round.
LEMMA CanNextChannel ==
    ASSUME CanTyped, Can!NextChannel
    PROVE  worker' \in CanWorkers /\ worker'.pc \in {"take", "top"}
  <1>1. worker.ch \in 1..Ports /\ Ports \in Nat \ {0}
    BY CanConstants DEF CanTyped, CanWorkers, Can!Channels
  <1>2. CASE worker.ch < Ports
    <2>1. worker.ch + 1 \in Can!Channels
      BY <1>1, <1>2 DEF Can!Channels
    <2>2. worker' = [pc |-> "take", ch |-> worker.ch + 1, token |-> 0, frames |-> <<>>]
      BY <1>2 DEF Can!NextChannel, Can!Ended
    <2>3. QED  BY <2>1, <2>2, EmptySeq DEF CanWorkers
  <1>3. CASE ~(worker.ch < Ports)
    <2>1. worker' = [pc |-> "top", ch |-> 1, token |-> 0, frames |-> <<>>]
      BY <1>3 DEF Can!NextChannel, Can!Ended
    <2>2. QED  BY <2>1, EmptySeq, CanConstants DEF CanWorkers
  <1>4. QED  BY <1>2, <1>3

\* The worker changes only itself, the SDK lock and the channel it works on.
LEMMA CanWorkerStep ==
    ASSUME CanInv, Can!WorkerStep
    PROVE  CanInv'
  <1>1. CanTyped /\ WorkerPoint /\ FramesOwned /\ worker.pc # "ended" /\ running
        /\ worker.ch \in Can!Channels /\ worker.token \in Nat
        /\ UNCHANGED <<life, up, running, stop, nextToken, caller>>
    BY DEF CanInv, CanTyped, CanWorkers, WorkerPoint, Can!WorkerStep, Can!WorkerTop, Can!WorkerTake,
           Can!WorkerSdk, Can!WorkerCall, Can!WorkerDeliver
  <1>2. PICK x \in Can!Channels, q \in CanChannels :
          /\ x = worker.ch /\ q = channel[x]
          /\ q.tx \in Seq({q.token}) /\ q.rx \in Seq({q.token})
        /\ q.tx \in Seq(Nat) /\ q.rx \in Seq(Nat) /\ q.token \in Nat /\ q.error \in BOOLEAN
    BY <1>1 DEF CanTyped, CanChannels, FramesOwned
  <1>3. /\ worker' \in CanWorkers /\ sdk' \in Callers \cup {Worker, Nobody}
        /\ \A c \in Callers : sdk = c => sdk' = c
        /\ worker'.pc = "call" => sdk' = Worker /\ q.token = worker'.token /\ worker'.ch = x
        /\ worker'.pc = "deliver" => worker'.frames \in Seq({worker'.token})
    <2>1. CASE Can!WorkerTop
      <3>1. worker' \in CanWorkers /\ worker'.pc \in {"ended", "take"} /\ UNCHANGED sdk
        BY <1>1, <2>1 DEF Can!WorkerTop, Can!To, CanTyped, CanWorkers
      <3>2. QED  BY <1>1, <3>1 DEF CanTyped
    <2>2. CASE Can!WorkerTake
      <3>1. CASE Can!NextChannel
        BY <1>1, <2>2, <3>1, CanNextChannel DEF Can!WorkerTake, CanTyped
      <3>2. CASE ~Can!NextChannel
        <4>1. PICK n : n = IF Len(q.tx) < Batch THEN Len(q.tx) ELSE Batch
          OBVIOUS
        <4>2. PICK f : f = SubSeq(q.tx, 1, n)
          OBVIOUS
        <4>3. worker' = [worker EXCEPT !.pc = "sdk", !.token = q.token, !.frames = f]
          BY <1>2, <2>2, <3>2, <4>1, <4>2 DEF Can!WorkerTake
        <4>4. n \in 0..Len(q.tx)
          BY <1>2, <4>1, CanConstants
        <4>5. f \in Seq(Nat)
          BY <1>2, <4>2, <4>4, SubSeqProperties
        <4>6. worker' \in CanWorkers /\ worker'.pc = "sdk"
          BY <1>1, <1>2, <4>3, <4>5 DEF CanTyped, CanWorkers
        <4>7. QED  BY <1>1, <2>2, <4>6 DEF Can!WorkerTake, CanTyped
      <3>3. QED  BY <3>1, <3>2
    <2>3. CASE Can!WorkerSdk
      <3>1. CASE Can!NextChannel /\ UNCHANGED sdk
        BY <1>1, <3>1, CanNextChannel DEF CanTyped
      <3>2. CASE Can!To("call") /\ sdk' = Worker /\ q.token = worker.token /\ sdk = Nobody
        <4>1. /\ worker' \in CanWorkers /\ worker'.pc = "call" /\ worker'.ch = x
              /\ worker'.token = worker.token
          BY <1>1, <1>2, <3>2 DEF Can!To, CanTyped, CanWorkers
        <4>2. QED  BY <3>2, <4>1, CanConstants
      <3>3. QED  BY <1>2, <2>3, <3>1, <3>2 DEF Can!WorkerSdk
    <2>4. CASE Can!WorkerCall
      <3>1. PICK n \in 0..Batch :
              worker' = [worker EXCEPT !.pc = "deliver", !.frames = [i \in 1..n |-> worker.token]]
        <4>1. \E received \in 0..Batch, failed \in BOOLEAN :
                /\ worker' = [worker EXCEPT !.pc = "deliver",
                                  !.frames = [i \in 1..received |-> worker.token]]
                /\ channel' = [channel EXCEPT ![worker.ch].error =
                       (@ \/ (failed /\ channel[worker.ch].token = worker.token))]
          BY <2>4, Zenon DEF Can!WorkerCall
        <4>2. QED  BY <4>1, Zenon
      <3>2. PICK f : f = [i \in 1..n |-> worker.token]
        OBVIOUS
      <3>3. worker' = [worker EXCEPT !.pc = "deliver", !.frames = f]
        BY <3>1, <3>2
      <3>4. f \in Seq(Nat) /\ f \in Seq({worker.token})
        <4>1. n \in Nat
          BY CanConstants
        <4>2. QED  BY <1>1, <3>2, <4>1, IsASeq
      <3>5. worker' \in CanWorkers /\ worker'.pc = "deliver" /\ worker'.token = worker.token
            /\ worker'.frames = f
        BY <1>1, <3>3, <3>4 DEF CanTyped, CanWorkers
      <3>6. sdk = Worker /\ sdk' = Nobody
        BY <1>1, <2>4 DEF Can!WorkerCall, WorkerPoint
      <3>7. QED  BY <3>4, <3>5, <3>6, CanConstants
    <2>5. CASE Can!WorkerDeliver
      BY <1>1, <2>5, CanNextChannel DEF Can!WorkerDeliver, CanTyped
    <2>6. QED  BY <2>1, <2>2, <2>3, <2>4, <2>5 DEF Can!WorkerStep
  <1>4. PICK h \in CanChannels :
          /\ channel' = [channel EXCEPT ![x] = h]
          /\ h.token = q.token /\ h.tx \in Seq({q.token}) /\ h.rx \in Seq({q.token})
    <2>1. ASSUME NEW e \in BOOLEAN, NEW t, NEW r, channel' = Written(channel, x, e, t, r),
                 \A S : q.tx \in Seq(S) /\ q.token \in S => t \in Seq(S),
                 \A S : q.rx \in Seq(S) /\ q.token \in S => r \in Seq(S)
          PROVE  \E h \in CanChannels :
                   /\ channel' = [channel EXCEPT ![x] = h]
                   /\ h.token = q.token /\ h.tx \in Seq({q.token}) /\ h.rx \in Seq({q.token})
      <3>1. t \in Seq(Nat) /\ t \in Seq({q.token}) /\ r \in Seq(Nat) /\ r \in Seq({q.token})
        BY <1>2, <2>1
      <3>2. PICK h \in CanChannels : h = [token |-> q.token, error |-> e, tx |-> t, rx |-> r]
        BY <1>2, <3>1 DEF CanChannels
      <3>3. channel' = [channel EXCEPT ![x] = h]
        BY <1>2, <2>1, <3>2 DEF Written
      <3>4. QED  BY <3>1, <3>2, <3>3
    <2>2. CASE UNCHANGED channel
      <3>1. channel' = [channel EXCEPT ![x] = q]
        BY <1>1, <1>2, <2>2 DEF CanTyped
      <3>2. QED  BY <1>2, <3>1
    <2>3. channel \in [Can!Channels -> CanChannels]
      BY <1>1 DEF CanTyped
    <2>4. CASE Can!WorkerTop \/ Can!WorkerSdk
      BY <2>2, <2>4 DEF Can!WorkerTop, Can!WorkerSdk
    <2>5. CASE Can!WorkerTake
      <3>1. CASE ~UNCHANGED channel
        <4>1. PICK n, t :
                 /\ n \in 0..Len(q.tx) /\ t = SubSeq(q.tx, n + 1, Len(q.tx))
                 /\ channel' = [channel EXCEPT ![x].tx = t]
          <5>1. (IF Len(q.tx) < Batch THEN Len(q.tx) ELSE Batch) \in 0..Len(q.tx)
            BY <1>2, CanConstants
          <5>2. QED  BY <1>2, <2>5, <3>1, <5>1 DEF Can!WorkerTake
        <4>2. channel' = TxWritten(channel, x, t)
          BY <4>1 DEF TxWritten
        <4>3. channel' = Written(channel, x, q.error, t, q.rx)
          BY <1>2, <2>3, <4>2, CanFields
        <4>4. ASSUME NEW S, q.tx \in Seq(S) PROVE t \in Seq(S)
          <5>1. \A i \in (n + 1)..Len(q.tx) : q.tx[i] \in S
            BY <4>1, <4>4, ElementOfSeq
          <5>2. QED  BY <4>1, <4>4, <5>1, SubSeqProperties
        <4>5. QED  BY <1>2, <2>1, <4>3, <4>4
      <3>2. QED  BY <2>2, <3>1
    <2>6. CASE Can!WorkerCall
      <3>1. PICK e \in BOOLEAN : channel' = [channel EXCEPT ![x].error = e]
        BY <1>2, <2>6 DEF Can!WorkerCall
      <3>2. channel' = ErrorWritten(channel, x, e)
        BY <3>1 DEF ErrorWritten
      <3>3. channel' = Written(channel, x, e, q.tx, q.rx)
        BY <1>2, <2>3, <3>2, CanFields
      <3>4. QED  BY <2>1, <3>3
    <2>7. CASE Can!WorkerDeliver
      <3>1. CASE q.token # worker.token
        BY <1>2, <2>2, <2>7, <3>1 DEF Can!WorkerDeliver
      <3>2. CASE q.token = worker.token
        <4>1. worker.frames \in Seq({q.token}) /\ Len(q.rx) \in Nat /\ Len(worker.frames) \in Nat
          BY <1>1, <1>2, <2>7, <3>2 DEF Can!WorkerDeliver, WorkerPoint
        <4>2. PICK valid, fits :
                /\ valid \in 0..Len(worker.frames)
                /\ fits \in {valid, CanCapacity - Len(q.rx)} /\ fits <= valid
                /\ channel' = [channel EXCEPT ![x].rx = q.rx \o SubSeq(worker.frames, 1, fits),
                                             ![x].error = (@ \/ fits < Len(worker.frames))]
          <5>1. ASSUME NEW valid \in 0..Len(worker.frames)
                PROVE  (IF valid < CanCapacity - Len(q.rx) THEN valid
                         ELSE CanCapacity - Len(q.rx)) <= valid
            BY <4>1, CanConstants
          <5>2. QED  BY <1>2, <2>7, <3>2, <5>1 DEF Can!WorkerDeliver
        <4>3. fits \in Int /\ fits <= Len(worker.frames)
          BY <4>1, <4>2, CanConstants
        <4>4. PICK r : r = q.rx \o SubSeq(worker.frames, 1, fits)
          OBVIOUS
        <4>5. PICK e : e = ([channel EXCEPT ![x].rx = r][x].error \/ fits < Len(worker.frames))
          OBVIOUS
        <4>6. e \in BOOLEAN /\ channel' = [channel EXCEPT ![x].rx = r, ![x].error = e]
          BY <4>2, <4>4, <4>5
        <4>7. channel' = RxErrorWritten(channel, x, r, e)
          BY <4>6 DEF RxErrorWritten
        <4>8. channel' = Written(channel, x, e, q.tx, r)
          BY <1>2, <2>3, <4>7, CanFields
        <4>9. ASSUME NEW S, q.rx \in Seq(S), q.token \in S PROVE r \in Seq(S)
          <5>1. worker.frames \in Seq(S)
            <6>1. \A i \in 1..Len(worker.frames) : worker.frames[i] \in S
              BY <4>1, <4>9, ElementOfSeq
            <6>2. QED  BY <4>1, <6>1, SeqDef
          <5>2. SubSeq(worker.frames, 1, fits) \in Seq(S)
            BY <4>1, <4>3, <5>1, SubSeqProperties, ElementOfSeq
          <5>3. QED  BY <4>4, <4>9, <5>2, ConcatProperties
        <4>10. QED  BY <2>1, <4>6, <4>8, <4>9
      <3>3. QED  BY <3>1, <3>2
    <2>8. QED  BY <2>4, <2>5, <2>6, <2>7 DEF Can!WorkerStep
  <1>5. /\ channel' \in [Can!Channels -> CanChannels] /\ channel'[x] = h
        /\ \A y \in Can!Channels : y # x => channel'[y] = channel[y]
    BY <1>1, <1>4 DEF CanTyped
  <1>6. CanTyped'
    BY <1>1, <1>3, <1>5 DEF CanTyped
  <1>7. FramesOwned'
    BY <1>1, <1>4, <1>5 DEF FramesOwned
  <1>8. WorkerPoint'
    BY <1>1, <1>3, <1>4, <1>5 DEF WorkerPoint
  <1>9. ASSUME NEW d \in Callers PROVE CallerPoint(d)'
    <2>1. CallerPoint(d) /\ (caller[d].pc = "unload" => FALSE)
      BY <1>1 DEF CanInv, CallerPoint
    <2>2. QED  BY <1>1, <1>3, <2>1 DEF CallerPoint
  <1>10. QED  BY <1>6, <1>7, <1>8, <1>9 DEF CanInv

LEMMA CanNextInv == CanInv /\ Can!Next => CanInv'
  BY CanBegins, CanCheckStep, CanQuietSteps, CanOpenStep, CanUndoStep, CanClearStep,
     CanUnloadStep, CanSendReceive, CanWorkerStep
     DEF Can!Next, Can!CallStep, Can!LockStep

LEMMA CanInitInv == Can!Init => CanInv
  <1> SUFFICES ASSUME Can!Init PROVE CanInv
    OBVIOUS
  <1>1. CanTyped
    BY CanConstants, CanRecords DEF Can!Init, CanTyped
  <1>2. FramesOwned /\ WorkerPoint
    BY CanConstants, EmptySeq DEF Can!Init, FramesOwned, WorkerPoint, Can!Closed, Can!Ended
  <1>3. ASSUME NEW c \in Callers PROVE CallerPoint(c)
    BY CanConstants DEF Can!Init, CallerPoint, Can!AtRest
  <1>4. QED  BY <1>1, <1>2, <1>3 DEF CanInv

LEMMA CanSafe == CanInv => Can!OwnFramesOnly /\ Can!SdkExclusive
  <1> SUFFICES ASSUME CanInv PROVE Can!OwnFramesOnly /\ Can!SdkExclusive
    OBVIOUS
  <1>1. ASSUME NEW x \in Can!Channels,
               NEW i \in 1..Len(channel[x].tx \o channel[x].rx)
        PROVE  (channel[x].tx \o channel[x].rx)[i] = channel[x].token
    <2>1. channel[x].tx \in Seq({channel[x].token}) /\ channel[x].rx \in Seq({channel[x].token})
      BY DEF CanInv, FramesOwned
    <2>2. channel[x].tx \o channel[x].rx \in Seq({channel[x].token})
      BY <2>1, ConcatProperties
    <2>3. (channel[x].tx \o channel[x].rx)[i] \in {channel[x].token}
      BY <1>1, <2>2, ElementOfSeq
    <2>4. QED  BY <2>3
  <1>2. Can!OwnFramesOnly
    BY <1>1 DEF Can!OwnFramesOnly, CanInv, WorkerPoint
  <1>3. Can!SdkExclusive
    BY CanConstants DEF Can!SdkExclusive, Can!InSdk, CanInv, CallerPoint, WorkerPoint
  <1>4. QED  BY <1>2, <1>3

-----------------------------------------------------------------------------
(* The network driver.                                                     *)

NetPcs == {"ended", "top", "retry", "open", "transmit", "receive", "reset"}
NetPackets == [conn: Nat]
NetChunks == [conn: Nat, first: Nat, last: Nat]
NetWorkers == [pc: NetPcs, fd: Nat, listener: BOOLEAN, connecting: BOOLEAN,
               out: NetPackets, offset: Nat]

\* The types of the endpoint's variables.
NetTyped ==
    /\ token \in Nat /\ nextToken \in Nat /\ conns \in Nat /\ taken \in Nat
    /\ caller \in {"rest", "join"} /\ worker \in NetWorkers
    /\ tx \in Seq(NetPackets) /\ rx \in Seq(NetChunks)
    /\ line \in [conn: Nat, units: Nat] /\ got \in [conn: Nat, unit: Nat]

\* The worker has a socket exactly while it moves data, and that socket is the
\* last connection made; without one it has no packet, and before the next
\* one nothing is queued and nothing can be.
NetPoint ==
    /\ token = 0 => worker.pc = "ended"
    /\ worker.pc = "ended" => worker = Net!Idle
    /\ worker.pc \in {"retry", "open", "reset"} => worker.fd = 0
    /\ worker.pc \in {"transmit", "receive"} => worker.fd # 0
    /\ worker.fd = 0 => worker.out = Net!NoPacket
    /\ worker.fd # 0 => worker.fd = conns /\ ~worker.connecting
    /\ worker.fd = 0 /\ worker.pc \in {"top", "retry", "open"} => tx = <<>> /\ status # "ok"

\* The units of the current connection that are on the wire.
OnWire == IF line.conn = worker.fd THEN line.units ELSE 0

\* Everything queued is for the current connection, and the packet being sent
\* is as far as the wire says.
NetSending ==
    /\ worker.fd # 0 => \A i \in 1..Len(tx) : tx[i].conn = conns
    /\ line.conn <= conns
    /\ worker.fd # 0 /\ worker.out = Net!NoPacket => OnWire = 0
    /\ worker.out # Net!NoPacket =>
           worker.out.conn = worker.fd /\ worker.offset = OnWire /\ worker.offset < MessageSize

\* What a chunk of the received stream has to follow.
ReadBefore(i) == IF i = 1 THEN got ELSE [conn |-> rx[i-1].conn, unit |-> rx[i-1].last]
Follows(chunk, before) ==
    IF chunk.conn = before.conn THEN chunk.first = before.unit + 1
                                ELSE chunk.first = 1 /\ chunk.conn > before.conn
LastRead == ReadBefore(Len(rx) + 1)

\* The stream has no gap, and its end is what was received last on the current
\* connection, if anything was.
NetReceiving ==
    /\ got.conn <= conns /\ \A i \in 1..Len(rx) : rx[i].conn <= conns
    /\ Net!Tcp => \A i \in 1..Len(rx) : Follows(rx[i], ReadBefore(i))
    /\ Net!Tcp /\ rx # <<>> /\ LastRead.conn = conns => LastRead.unit = taken
    /\ Net!Tcp /\ worker.fd # 0 =>
           IF LastRead.conn = conns THEN LastRead.unit = taken ELSE taken = 0

NetInv == NetTyped /\ NetPoint /\ NetSending /\ NetReceiving

LEMMA NetConstants ==
    /\ Capacity \in Nat \ {0} /\ MessageSize \in Nat \ {0}
    /\ Net!Idle \in NetWorkers /\ Net!NoPacket = [conn |-> 0]
    /\ Net!Idle.pc = "ended" /\ Net!Idle.fd = 0 /\ Net!Idle.out = Net!NoPacket
  <1>1. Capacity \in Nat \ {0} /\ MessageSize \in Nat \ {0}
    <2>1. Net!NetAssumption
      BY OwnershipAssumption DEF OwnershipAssumption
    <2>2. QED  BY <2>1, Zenon DEF Net!NetAssumption
  <1>2. Net!NoPacket \in NetPackets
    BY DEF Net!NoPacket, NetPackets
  <1>3. Net!Idle \in NetWorkers
    BY <1>2 DEF NetWorkers, NetPcs, Net!Idle
  <1>4. QED  BY <1>1, <1>3 DEF Net!Idle, Net!NoPacket

\* The last chunk of the stream, or what was read of it.
LEMMA NetLastRead ==
    ASSUME NetTyped
    PROVE  /\ Len(rx) \in Nat /\ (rx = <<>> <=> Len(rx) = 0)
           /\ rx = <<>> => LastRead = got
           /\ rx # <<>> => LastRead = [conn |-> rx[Len(rx)].conn, unit |-> rx[Len(rx)].last]
           /\ \A i \in 1..Len(rx) : rx[i] \in NetChunks
  <1>1. Len(rx) \in Nat /\ (rx = <<>> <=> Len(rx) = 0) /\ \A i \in 1..Len(rx) : rx[i] \in NetChunks
    BY EmptySeq, LenProperties, ElementOfSeq DEF NetTyped
  <1>2. CASE rx = <<>>
    BY <1>1, <1>2 DEF LastRead, ReadBefore
  <1>3. CASE rx # <<>>
    BY <1>1, <1>3 DEF LastRead, ReadBefore
  <1>4. QED  BY <1>1, <1>2, <1>3

\* What changes neither the stream nor the connection keeps the stream.
LEMMA NetKeepsStream ==
    ASSUME NetReceiving, UNCHANGED <<kind, rx, got, conns, taken>>,
           worker'.fd # 0 => worker.fd # 0
    PROVE  NetReceiving'
  BY DEF NetReceiving, LastRead, ReadBefore, Net!Tcp

\* What at most ends the connection keeps what is sent.
LEMMA NetKeepsSending ==
    ASSUME NetTyped, NetSending, UNCHANGED <<conns, line>>, UNCHANGED tx \/ tx' = <<>>,
           \/ worker'.fd = 0 /\ worker'.out = Net!NoPacket
           \/ worker'.fd = worker.fd /\ worker'.out = worker.out /\ worker'.offset = worker.offset
    PROVE  NetSending'
  <1>1. worker'.fd # 0 => \A i \in 1..Len(tx') : tx'[i].conn = conns'
    BY DEF NetSending
  <1>2. QED  BY <1>1 DEF NetSending, OnWire

LEMMA NetUserSteps ==
    ASSUME NetInv, Net!Configure \/ Net!Release \/ Net!Join
    PROVE  NetInv'
  <1>1. NetTyped /\ NetPoint /\ NetSending /\ NetReceiving
    BY DEF NetInv
  <1>2. CASE Net!Configure
    <2>1. /\ worker = Net!Idle /\ caller' = caller /\ conns' = conns /\ taken' = taken
          /\ line' = line /\ got' = got /\ tx' = <<>> /\ rx' = <<>>
          /\ nextToken' = nextToken + 1 /\ token' \in {0, nextToken + 1}
          /\ token' = 0 => worker' = worker
      BY <1>1, <1>2 DEF NetPoint, NetTyped, Net!Configure, Net!ghosts
    <2>2. /\ worker' \in NetWorkers /\ worker'.fd = 0 /\ worker'.out = Net!NoPacket
          /\ \/ worker'.pc = "ended" /\ worker' = worker
             \/ worker'.pc = "top" /\ status' = "pending" /\ token' # 0
      <3>1. [Net!Idle EXCEPT !.pc = "top"] \in NetWorkers
            /\ [Net!Idle EXCEPT !.pc = "top"].fd = 0 /\ [Net!Idle EXCEPT !.pc = "top"].pc = "top"
            /\ [Net!Idle EXCEPT !.pc = "top"].out = Net!NoPacket
        BY NetConstants DEF NetWorkers, NetPcs
      <3>2. CASE /\ token' = nextToken + 1 /\ status' = "pending"
                 /\ worker' = [Net!Idle EXCEPT !.pc = "top"]
        BY <1>1, <3>1, <3>2 DEF NetTyped
      <3>3. CASE UNCHANGED worker
        BY <2>1, <3>3, NetConstants
      <3>4. QED  BY <1>2, <3>2, <3>3 DEF Net!Configure
    <2>3. NetTyped'
      <3>1. token' \in Nat /\ nextToken' \in Nat
        BY <1>1, <2>1 DEF NetTyped
      <3>2. tx' \in Seq(NetPackets) /\ rx' \in Seq(NetChunks)
        BY <2>1, EmptySeq
      <3>3. QED  BY <1>1, <2>1, <2>2, <3>1, <3>2 DEF NetTyped
    <2>4. NetPoint'
      BY <1>1, <2>1, <2>2 DEF NetPoint, NetTyped
    <2>5. NetSending'
      BY <1>1, <2>1, <2>2, NetKeepsSending
    <2>6. NetReceiving'
      <3>1. Len(rx') = 0 /\ got'.conn <= conns'
        BY <1>1, <2>1 DEF NetReceiving
      <3>2. \A i \in 1..Len(rx') : FALSE
        BY <3>1
      <3>3. QED  BY <2>1, <2>2, <3>1, <3>2 DEF NetReceiving
    <2>7. QED  BY <2>3, <2>4, <2>5, <2>6 DEF NetInv
  <1>3. CASE Net!Release
    <2>1. UNCHANGED <<token, nextToken, kind, status, tx, rx, worker, conns, taken, line, got>>
          /\ caller' = "join"
      BY <1>3 DEF Net!Release, Net!ghosts
    <2>2. NetTyped' /\ NetPoint' /\ NetSending' /\ NetReceiving'
      BY <1>1, <2>1, NetKeepsSending, NetKeepsStream DEF NetTyped, NetPoint
    <2>3. QED  BY <2>2 DEF NetInv
  <1>4. CASE Net!Join
    <2>1. /\ worker.pc = "ended" /\ UNCHANGED <<nextToken, kind, worker, conns, taken, line, got>>
          /\ caller' = "rest" /\ token' = 0 /\ tx' = <<>> /\ rx' = <<>>
      BY <1>4 DEF Net!Join, Net!ghosts
    <2>2. worker = Net!Idle /\ worker.fd = 0 /\ worker.out = Net!NoPacket
      BY <1>1, <2>1, NetConstants DEF NetPoint
    <2>3. NetTyped'
      BY <1>1, <2>1, EmptySeq DEF NetTyped
    <2>4. NetPoint'
      BY <2>1, <2>2 DEF NetPoint
    <2>5. NetSending'
      BY <1>1, <2>1, <2>2, NetKeepsSending
    <2>6. NetReceiving'
      <3>1. Len(rx') = 0 /\ got'.conn <= conns'
        BY <1>1, <2>1 DEF NetReceiving
      <3>2. \A i \in 1..Len(rx') : FALSE
        BY <3>1
      <3>3. QED  BY <2>1, <2>2, <3>1, <3>2 DEF NetReceiving
    <2>7. QED  BY <2>3, <2>4, <2>5, <2>6 DEF NetInv
  <1>5. QED  BY <1>2, <1>3, <1>4

\* A message is queued for the current connection.
LEMMA NetSendStep ==
    ASSUME NetInv, Net!Send
    PROVE  NetInv'
  <1>1. NetTyped /\ NetPoint /\ NetSending /\ NetReceiving
    BY DEF NetInv
  <1>2. /\ status = "ok" /\ tx' = Append(tx, [conn |-> conns])
        /\ UNCHANGED <<token, nextToken, kind, caller, status, rx, worker, conns, taken, line, got>>
    BY DEF Net!Send, Net!endpoint, Net!ghosts
  <1>3. [conn |-> conns] \in NetPackets
    BY <1>1 DEF NetTyped, NetPackets
  <1>4. /\ tx' \in Seq(NetPackets) /\ Len(tx') = Len(tx) + 1 /\ Len(tx) \in Nat
        /\ tx'[Len(tx) + 1] = [conn |-> conns]
        /\ \A i \in 1..Len(tx) : tx'[i] = tx[i]
    BY <1>1, <1>2, <1>3, AppendProperties, LenProperties DEF NetTyped
  <1>5. NetTyped'
    BY <1>1, <1>2, <1>4 DEF NetTyped
  <1>6. NetPoint'
    BY <1>1, <1>2 DEF NetPoint
  <1>7. ASSUME worker.fd # 0, NEW i \in 1..Len(tx')
        PROVE  tx'[i].conn = conns
    <2>1. CASE i = Len(tx) + 1
      BY <1>4, <2>1
    <2>2. CASE i # Len(tx) + 1
      <3>1. i \in 1..Len(tx)
        BY <1>4, <1>7, <2>2
      <3>2. QED  BY <1>1, <1>4, <1>7, <3>1 DEF NetSending
    <2>3. QED  BY <2>1, <2>2
  <1>8. NetSending'
    BY <1>1, <1>2, <1>7 DEF NetSending, OnWire
  <1>9. NetReceiving'
    BY <1>1, <1>2, NetKeepsStream
  <1>10. QED  BY <1>5, <1>6, <1>8, <1>9 DEF NetInv

\* The worker opens a connection, or waits.
LEMMA NetOpenStep ==
    ASSUME NetInv, Net!OpenServer \/ Net!OpenUdp \/ Net!OpenClient
    PROVE  NetInv'
  <1>1. NetTyped /\ NetPoint /\ NetSending /\ NetReceiving
    BY DEF NetInv
  <1>2. /\ worker.pc = "open"
        /\ UNCHANGED <<token, nextToken, kind, caller, tx, rx, line, got>>
    BY Zenon DEF Net!OpenServer, Net!OpenUdp, Net!OpenClient, Net!endpoint, Net!ghosts
  <1>3. worker.fd = 0 /\ worker.out = Net!NoPacket /\ tx = <<>> /\ status # "ok" /\ token # 0
    BY <1>1, <1>2 DEF NetPoint
  <1>4. ASSUME NEW w, NEW st, Net!Waits(w, st), w \in NetWorkers, w.pc \in {"retry", "top"},
               w.fd = worker.fd, w.out = worker.out, w.offset = worker.offset, st # "ok"
        PROVE  NetInv'
    <2>1. worker' = w /\ status' = st /\ UNCHANGED <<conns, taken>>
      BY <1>4 DEF Net!Waits
    <2>2. NetTyped'
      BY <1>1, <1>2, <1>4, <2>1 DEF NetTyped
    <2>3. NetPoint'
      BY <1>2, <1>3, <1>4, <2>1 DEF NetPoint
    <2>4. NetSending' /\ NetReceiving'
      BY <1>1, <1>2, <1>3, <1>4, <2>1, NetKeepsSending, NetKeepsStream
    <2>5. QED  BY <2>2, <2>3, <2>4 DEF NetInv
  <1>5. ASSUME NEW w, Net!Connected(w), w \in NetWorkers,
               w.out = worker.out, w.offset = worker.offset
        PROVE  NetInv'
    <2>1. conns' = conns + 1 /\ taken' = 0
          /\ worker' = [w EXCEPT !.fd = conns + 1, !.connecting = FALSE, !.pc = "transmit"]
      BY <1>5 DEF Net!Connected
    <2>2. conns \in Nat /\ conns + 1 \in Nat /\ conns + 1 # 0
      BY <1>1 DEF NetTyped
    <2>3. /\ worker' \in NetWorkers /\ worker'.fd = conns + 1 /\ worker'.pc = "transmit"
          /\ worker'.out = w.out /\ worker'.connecting = FALSE
      BY <1>5, <2>1, <2>2 DEF NetWorkers, NetPcs
    <2>4. NetTyped'
      BY <1>1, <1>2, <2>1, <2>2, <2>3 DEF NetTyped
    <2>5. NetPoint'
      BY <1>2, <1>3, <2>1, <2>2, <2>3 DEF NetPoint
    <2>6. NetSending'
      <3>1. line' = line /\ line.conn <= conns /\ line.conn \in Nat
        BY <1>1, <1>2 DEF NetSending, NetTyped
      <3>2. line'.conn <= conns' /\ OnWire' = 0
        BY <2>1, <2>2, <2>3, <3>1 DEF OnWire
      <3>3. Len(tx') = 0
        BY <1>2, <1>3
      <3>4. \A i \in 1..Len(tx') : FALSE
        BY <3>3
      <3>5. worker'.out = Net!NoPacket
        BY <1>3, <1>5, <2>3
      <3>6. QED  BY <3>2, <3>4, <3>5 DEF NetSending
    <2>7. NetReceiving'
      <3>1. got' = got /\ rx' = rx /\ kind' = kind
        BY <1>2
      <3>2. got'.conn <= conns' /\ got.conn # conns'
        BY <1>1, <2>1, <2>2, <3>1 DEF NetReceiving, NetTyped
      <3>3. \A i \in 1..Len(rx') : rx'[i].conn <= conns' /\ rx'[i].conn # conns'
        <4>1. \A i \in 1..Len(rx) : rx[i].conn \in Nat
          BY <1>1, NetLastRead DEF NetChunks
        <4>2. QED  BY <1>1, <2>1, <2>2, <3>1, <4>1 DEF NetReceiving
      <3>4. LastRead'.conn # conns' /\ LastRead' = LastRead
        <4>1. CASE rx = <<>>
          BY <1>1, <3>1, <3>2, <4>1, NetLastRead DEF LastRead, ReadBefore
        <4>2. CASE rx # <<>>
          <5>1. Len(rx) \in 1..Len(rx) /\ LastRead.conn = rx[Len(rx)].conn
            BY <1>1, <4>2, NetLastRead
          <5>2. QED  BY <3>1, <3>3, <5>1 DEF LastRead, ReadBefore
        <4>3. QED  BY <4>1, <4>2
      <3>5. Net!Tcp' => \A i \in 1..Len(rx') : Follows(rx'[i], ReadBefore(i)')
        BY <1>1, <3>1 DEF NetReceiving, ReadBefore, Net!Tcp
      <3>6. QED  BY <2>1, <3>2, <3>3, <3>4, <3>5 DEF NetReceiving
    <2>8. QED  BY <2>4, <2>5, <2>6, <2>7 DEF NetInv
  <1>6. \/ \E st : st # "ok" /\ Net!Waits(Net!To("retry"), st)
        \/ \E st : st # "ok" /\ Net!Waits([Net!To("retry") EXCEPT !.connecting = FALSE], st)
        \/ Net!Waits([Net!To("top") EXCEPT !.listener = TRUE],
                     IF worker.listener THEN status ELSE "pending")
        \/ Net!Waits([Net!To("top") EXCEPT !.connecting = TRUE], "pending")
        \/ Net!Connected([worker EXCEPT !.listener = TRUE])
        \/ Net!Connected(worker)
    <2>1. "socket" # "ok" /\ "bind" # "ok" /\ "connect" # "ok"
      OBVIOUS
    <2>2. CASE Net!OpenServer
      BY <2>1, <2>2, Zenon DEF Net!OpenServer
    <2>3. CASE Net!OpenUdp
      BY <2>1, <2>3, Zenon DEF Net!OpenUdp
    <2>4. CASE Net!OpenClient
      BY <2>1, <2>4, Zenon DEF Net!OpenClient
    <2>5. QED  BY <2>2, <2>3, <2>4
  <1>7. ASSUME NEW w, \/ w = Net!To("retry") \/ w = [Net!To("retry") EXCEPT !.connecting = FALSE]
                      \/ w = [Net!To("top") EXCEPT !.listener = TRUE]
                      \/ w = [Net!To("top") EXCEPT !.connecting = TRUE]
        PROVE  w \in NetWorkers /\ w.pc \in {"retry", "top"}
               /\ w.fd = worker.fd /\ w.out = worker.out /\ w.offset = worker.offset
    <2>1. ASSUME NEW pc \in {"retry", "top"}
          PROVE  Net!To(pc) \in NetWorkers /\ Net!To(pc).pc = pc /\ Net!To(pc).fd = worker.fd
                 /\ Net!To(pc).out = worker.out /\ Net!To(pc).offset = worker.offset
      BY <1>1 DEF Net!To, NetTyped, NetWorkers, NetPcs
    <2>2. ASSUME NEW k \in NetWorkers, \/ w = [k EXCEPT !.connecting = FALSE]
                                       \/ w = [k EXCEPT !.connecting = TRUE]
                                       \/ w = [k EXCEPT !.listener = TRUE]
          PROVE  /\ w \in NetWorkers /\ w.pc = k.pc /\ w.fd = k.fd /\ w.out = k.out
                 /\ w.offset = k.offset
      BY <2>2 DEF NetWorkers
    <2>3. QED  BY <1>7, <2>1, <2>2
  <1>8. [worker EXCEPT !.listener = TRUE] \in NetWorkers
        /\ [worker EXCEPT !.listener = TRUE].out = worker.out
        /\ [worker EXCEPT !.listener = TRUE].offset = worker.offset
        /\ worker \in NetWorkers
    BY <1>1 DEF NetTyped, NetWorkers
  <1>9. (IF worker.listener THEN status ELSE "pending") # "ok" /\ "pending" # "ok"
    BY <1>3
  <1>10. QED  BY <1>4, <1>5, <1>6, <1>7, <1>8, <1>9

\* A new round, and the end of the worker.
LEMMA NetTopStep ==
    ASSUME NetInv, Net!WorkerTop \/ Net!Reset
    PROVE  NetInv'
  <1>1. NetTyped /\ NetPoint /\ NetSending /\ NetReceiving
    BY DEF NetInv
  <1>2. UNCHANGED <<token, nextToken, kind, caller, rx, conns, taken, line, got>>
    BY DEF Net!WorkerTop, Net!Reset, Net!endpoint, Net!ghosts
  <1>3. CASE Net!WorkerTop
    <2>1. worker.pc \in {"top", "retry"} /\ UNCHANGED <<tx, status>>
      BY <1>3 DEF Net!WorkerTop
    <2>2. CASE worker' = Net!Idle
      <3>1. /\ worker' \in NetWorkers /\ worker'.pc = "ended" /\ worker'.fd = 0
            /\ worker'.out = Net!NoPacket
        BY <2>2, NetConstants
      <3>2. NetTyped'
        BY <1>1, <1>2, <2>1, <3>1 DEF NetTyped
      <3>3. NetPoint'
        BY <1>1, <1>2, <2>2, <3>1 DEF NetPoint
      <3>4. NetSending' /\ NetReceiving'
        BY <1>1, <1>2, <2>1, <3>1, NetKeepsSending, NetKeepsStream
      <3>5. QED  BY <3>2, <3>3, <3>4 DEF NetInv
    <2>3. ASSUME NEW pc \in {"top", "open", "transmit"}, worker' = Net!To(pc),
                 pc = "open" => worker.fd = 0, pc = "transmit" => worker.fd # 0
          PROVE  NetInv'
      <3>1. /\ worker' \in NetWorkers /\ worker'.pc = pc /\ worker'.fd = worker.fd
            /\ worker'.out = worker.out /\ worker'.offset = worker.offset
            /\ worker'.connecting = worker.connecting
        BY <1>1, <2>3 DEF Net!To, NetTyped, NetWorkers, NetPcs
      <3>2. NetTyped'
        BY <1>1, <1>2, <2>1, <3>1 DEF NetTyped
      <3>3. NetPoint'
        BY <1>1, <1>2, <2>1, <2>3, <3>1 DEF NetPoint
      <3>4. NetSending' /\ NetReceiving'
        BY <1>1, <1>2, <2>1, <3>1, NetKeepsSending, NetKeepsStream
      <3>5. QED  BY <3>2, <3>3, <3>4 DEF NetInv
    <2>4. QED  BY <1>1, <1>3, <2>2, <2>3 DEF Net!WorkerTop, NetPoint
  <1>4. CASE Net!Reset
    <2>1. worker.pc = "reset" /\ tx' = <<>> /\ status' = "pending" /\ worker' = Net!To("retry")
      BY <1>4 DEF Net!Reset
    <2>2. /\ worker' \in NetWorkers /\ worker'.pc = "retry" /\ worker'.fd = worker.fd
          /\ worker'.out = worker.out /\ worker'.offset = worker.offset
          /\ worker'.connecting = worker.connecting
      BY <1>1, <2>1 DEF Net!To, NetTyped, NetWorkers, NetPcs
    <2>3. NetTyped'
      BY <1>1, <1>2, <2>1, <2>2, EmptySeq DEF NetTyped
    <2>4. NetPoint'
      BY <1>1, <1>2, <2>1, <2>2 DEF NetPoint
    <2>5. NetSending' /\ NetReceiving'
      BY <1>1, <1>2, <2>1, <2>2, NetKeepsSending, NetKeepsStream
    <2>6. QED  BY <2>3, <2>4, <2>5 DEF NetInv
  <1>5. QED  BY <1>3, <1>4

\* The remainder of what is at most one division.
LEMMA SmallRemainder ==
    ASSUME NEW n \in Nat, NEW m \in Nat \ {0}, n <= m
    PROVE  n % m = IF n = m THEN 0 ELSE n
  <1>1. n % m \in 0..(m - 1) /\ n = m * (n \div m) + (n % m) /\ n \div m \in Nat
    BY SMT
  <1> DEFINE q == n \div m
             r == n % m
  <1> HIDE DEF q, r
  <1>2. r \in 0..(m - 1) /\ n = m * q + r /\ q \in Nat
    BY <1>1 DEF q, r
  <1>3. CASE q = 0
    BY <1>2, <1>3 DEF r
  <1>4. CASE q = 1
    BY <1>2, <1>4 DEF r
  <1>5. CASE q > 1
    <2>1. m * q >= m * 2
      BY <1>2, <1>5, SMT
    <2>2. QED  BY <1>2, <2>1, SMT
  <1>6. QED  BY <1>2, <1>3, <1>4, <1>5

\* The connection is lost.
LEMMA NetLoses ==
    ASSUME worker \in NetWorkers, Net!Lost
    PROVE  /\ worker' \in NetWorkers /\ worker'.pc = "reset" /\ worker'.fd = 0
           /\ worker'.out = Net!NoPacket /\ worker'.connecting = worker.connecting
  <1>1. Net!NoPacket \in NetPackets
    BY NetConstants DEF NetPackets
  <1>2. PICK o : o = Net!NoPacket
    OBVIOUS
  <1>3. worker' = [worker EXCEPT !.pc = "reset", !.fd = 0, !.out = o, !.offset = 0]
    BY <1>2 DEF Net!Lost
  <1>4. worker' \in NetWorkers /\ worker'.pc = "reset" /\ worker'.fd = 0 /\ worker'.out = o
        /\ worker'.connecting = worker.connecting
    BY <1>1, <1>2, <1>3 DEF NetWorkers, NetPcs
  <1>5. QED  BY <1>2, <1>4

\* The worker goes to receive with a packet and its offset.
ToReceive(packet, offset) == [Net!To("receive") EXCEPT !.out = packet, !.offset = offset]

\* A part of a packet, or nothing of it, goes on the wire.
LEMMA NetTransmitStep ==
    ASSUME NetInv, Net!Transmit
    PROVE  NetInv'
  <1>1. NetTyped /\ NetPoint /\ NetSending /\ NetReceiving /\ conns \in Nat
    BY DEF NetInv, NetTyped
  <1>2. /\ worker.pc = "transmit"
        /\ UNCHANGED <<token, nextToken, kind, caller, status, rx, conns, taken, got>>
    BY DEF Net!Transmit, Net!endpoint
  <1>3. worker.fd = conns /\ conns # 0 /\ token # 0 /\ ~worker.connecting
    BY <1>1, <1>2 DEF NetPoint
  <1>4. NetReceiving'
    BY <1>1, <1>2, <1>3, NetKeepsStream
  \* What is true of the packet, the queue and the wire is enough.
  <1>5. ASSUME tx' \in Seq(NetPackets), \A i \in 1..Len(tx') : tx'[i].conn = conns,
               worker' \in NetWorkers, line' \in [conn: Nat, units: Nat], line'.conn <= conns,
               \/ worker'.pc = "reset" /\ worker'.fd = 0 /\ worker'.out = Net!NoPacket
               \/ /\ worker'.pc = "receive" /\ worker'.fd = conns /\ ~worker'.connecting
                  /\ IF worker'.out = Net!NoPacket THEN OnWire' = 0
                     ELSE worker'.out.conn = conns /\ worker'.offset = OnWire'
                          /\ worker'.offset < MessageSize
        PROVE  NetInv'
    <2>1. NetTyped'
      BY <1>1, <1>2, <1>5 DEF NetTyped
    <2>2. NetPoint'
      BY <1>2, <1>3, <1>5 DEF NetPoint
    <2>3. NetSending'
      BY <1>2, <1>3, <1>5 DEF NetSending
    <2>4. QED  BY <1>4, <2>1, <2>2, <2>3 DEF NetInv
  <1>6. worker \in NetWorkers /\ line \in [conn: Nat, units: Nat] /\ line.conn <= conns
        /\ tx \in Seq(NetPackets) /\ \A i \in 1..Len(tx) : tx[i].conn = conns
    BY <1>1, <1>3 DEF NetTyped, NetSending
  <1>7. CASE worker.out = Net!NoPacket /\ tx = <<>>
    <2>1. worker' = Net!To("receive") /\ UNCHANGED <<tx, line>>
      BY <1>7 DEF Net!Transmit
    <2>2. /\ worker' \in NetWorkers /\ worker'.pc = "receive" /\ worker'.fd = worker.fd
          /\ worker'.out = Net!NoPacket /\ worker'.connecting = worker.connecting
      BY <1>6, <1>7, <2>1 DEF Net!To, NetWorkers, NetPcs
    <2>3. OnWire' = 0
      BY <1>1, <1>3, <1>7, <2>1, <2>2 DEF NetSending, OnWire
    <2>4. QED  BY <1>3, <1>5, <1>6, <2>1, <2>2, <2>3
  <1>8. CASE ~(worker.out = Net!NoPacket /\ tx = <<>>)
    <2>1. PICK packet, offset :
            /\ packet = IF worker.out = Net!NoPacket THEN Head(tx) ELSE worker.out
            /\ offset = IF worker.out = Net!NoPacket THEN 0 ELSE worker.offset
      OBVIOUS
    <2>2. /\ tx' = IF worker.out = Net!NoPacket THEN Tail(tx) ELSE tx
          /\ \/ /\ worker' = ToReceive(packet, offset)
                /\ UNCHANGED line
             \/ \E count \in 1..(MessageSize - offset) : Net!Sent(packet, offset, count)
             \/ Net!Lost /\ UNCHANGED line
      BY <1>8, <2>1 DEF Net!Transmit, ToReceive
    <2>3. /\ tx' \in Seq(NetPackets) /\ \A i \in 1..Len(tx') : tx'[i].conn = conns
          /\ packet \in NetPackets /\ packet.conn = conns
      <3>1. CASE worker.out = Net!NoPacket
        <4>1. tx # <<>>
          BY <1>8, <3>1
        <4>2. /\ Head(tx) = tx[1] /\ Tail(tx) \in Seq(NetPackets)
              /\ Len(tx) \in Nat /\ Len(tx) # 0 /\ Len(Tail(tx)) = Len(tx) - 1
              /\ \A i \in 1..Len(Tail(tx)) : Tail(tx)[i] = tx[i + 1]
          BY <1>6, <4>1, HeadTailProperties, EmptySeq
        <4>3. 1 \in 1..Len(tx) /\ \A i \in 1..Len(Tail(tx)) : i + 1 \in 1..Len(tx)
          BY <4>2
        <4>4. tx[1] \in NetPackets
          BY <1>6, <4>3, ElementOfSeq
        <4>5. QED  BY <1>6, <2>1, <2>2, <3>1, <4>2, <4>3, <4>4
      <3>2. CASE worker.out # Net!NoPacket
        BY <1>1, <1>3, <1>6, <2>1, <2>2, <3>2 DEF NetSending, NetWorkers
      <3>3. QED  BY <3>1, <3>2
    <2>4. offset \in Nat /\ offset = OnWire /\ offset < MessageSize /\ packet # Net!NoPacket
      <3>1. CASE worker.out = Net!NoPacket
        BY <1>1, <1>3, <2>1, <2>3, <3>1, NetConstants DEF NetSending, NetPackets
      <3>2. CASE worker.out # Net!NoPacket
        BY <1>1, <1>6, <2>1, <3>2 DEF NetSending, NetWorkers
      <3>3. QED  BY <3>1, <3>2
    \* The record after a step to "receive".
    <2>5. ASSUME NEW o \in NetPackets, NEW n \in Nat,
                 worker' = ToReceive(o, n)
          PROVE  /\ worker' \in NetWorkers /\ worker'.pc = "receive" /\ worker'.fd = conns
                 /\ worker'.out = o /\ worker'.offset = n /\ ~worker'.connecting
      <3>1. PICK k \in NetWorkers : k = Net!To("receive")
        <4>1. Net!To("receive") \in NetWorkers
          BY <1>6 DEF Net!To, NetWorkers, NetPcs
        <4>2. QED  BY <4>1
      <3>2. k.pc = "receive" /\ k.fd = worker.fd /\ k.connecting = worker.connecting
        BY <1>6, <3>1 DEF Net!To, NetWorkers
      <3>3. worker' = [k EXCEPT !.out = o, !.offset = n]
        BY <2>5, <3>1 DEF ToReceive
      <3>4. QED  BY <1>3, <3>2, <3>3 DEF NetWorkers
    <2>6. CASE worker' = ToReceive(packet, offset) /\ UNCHANGED line
      <3>1. /\ worker' \in NetWorkers /\ worker'.pc = "receive" /\ worker'.fd = conns
            /\ worker'.out = packet /\ worker'.offset = offset /\ ~worker'.connecting
        BY <2>3, <2>4, <2>5, <2>6
      <3>2. OnWire' = OnWire
        BY <1>3, <2>6, <3>1 DEF OnWire
      <3>3. QED  BY <1>5, <1>6, <2>3, <2>4, <2>6, <3>1, <3>2
    <2>7. ASSUME NEW count \in 1..(MessageSize - offset), Net!Sent(packet, offset, count)
          PROVE  NetInv'
      <3>1. /\ line' = [conn |-> conns, units |-> (offset + count) % MessageSize]
            /\ worker' = IF offset + count = MessageSize
                 THEN ToReceive(Net!NoPacket, 0) ELSE ToReceive(packet, offset + count)
        BY <1>3, <2>4, <2>7 DEF Net!Sent, OnWire, ToReceive
      <3>2. offset + count \in Nat /\ offset + count <= MessageSize /\ MessageSize \in Nat \ {0}
        BY <2>4, NetConstants
      <3>3. (offset + count) % MessageSize =
                IF offset + count = MessageSize THEN 0 ELSE offset + count
        BY <3>2, SmallRemainder
      <3>4. /\ line' \in [conn: Nat, units: Nat] /\ line'.conn = conns
            /\ line'.units = IF offset + count = MessageSize THEN 0 ELSE offset + count
        BY <1>1, <3>1, <3>2, <3>3
      <3>5. CASE offset + count = MessageSize
        <4>1. /\ worker' \in NetWorkers /\ worker'.pc = "receive" /\ worker'.fd = conns
              /\ worker'.out = Net!NoPacket /\ ~worker'.connecting
          <5>1. Net!NoPacket \in NetPackets
            BY NetConstants DEF NetPackets
          <5>2. QED  BY <2>5, <3>1, <3>5, <5>1
        <4>2. OnWire' = 0
          BY <3>4, <3>5, <4>1 DEF OnWire
        <4>3. QED  BY <1>1, <1>5, <2>3, <3>4, <4>1, <4>2
      <3>6. CASE offset + count # MessageSize
        <4>1. /\ worker' \in NetWorkers /\ worker'.pc = "receive" /\ worker'.fd = conns
              /\ worker'.out = packet /\ worker'.offset = offset + count /\ ~worker'.connecting
          BY <2>3, <2>5, <3>1, <3>2, <3>6
        <4>2. OnWire' = offset + count
          BY <3>4, <3>6, <4>1 DEF OnWire
        <4>3. offset + count < MessageSize
          BY <3>2, <3>6
        <4>4. QED  BY <1>1, <1>5, <2>3, <2>4, <3>4, <4>1, <4>2, <4>3
      <3>7. QED  BY <3>5, <3>6
    <2>8. CASE Net!Lost /\ UNCHANGED line
      <3>1. /\ worker' \in NetWorkers /\ worker'.pc = "reset" /\ worker'.fd = 0
            /\ worker'.out = Net!NoPacket
        BY <1>6, <2>8, NetLoses
      <3>2. QED  BY <1>5, <1>6, <2>3, <2>8, <3>1
    <2>9. QED  BY <2>2, <2>6, <2>7, <2>8
  <1>9. QED  BY <1>7, <1>8

\* A chunk is received at the end of the stream.
LEMMA NetReceivePacketStep ==
    ASSUME NetInv, Net!ReceivePacket
    PROVE  NetInv'
  <1>1. NetTyped /\ NetPoint /\ NetSending /\ NetReceiving /\ conns \in Nat /\ taken \in Nat
    BY DEF NetInv, NetTyped
  <1>2. /\ worker.pc = "receive"
        /\ UNCHANGED <<token, nextToken, kind, caller, status, tx, conns, line, got>>
    BY DEF Net!ReceivePacket, Net!endpoint, Net!ghosts
  <1>3. worker.fd = conns /\ conns # 0 /\ token # 0 /\ ~worker.connecting
    BY <1>1, <1>2 DEF NetPoint
  <1>4. CASE worker' = Net!To("top") /\ UNCHANGED <<error, rx, taken>>
    <2>1. /\ worker' \in NetWorkers /\ worker'.pc = "top" /\ worker'.fd = worker.fd
          /\ worker'.out = worker.out /\ worker'.offset = worker.offset
          /\ worker'.connecting = worker.connecting
      BY <1>1, <1>4 DEF Net!To, NetTyped, NetWorkers, NetPcs
    <2>2. NetTyped' /\ NetPoint'
      BY <1>1, <1>2, <1>3, <1>4, <2>1 DEF NetTyped, NetPoint
    <2>3. NetSending' /\ NetReceiving'
      BY <1>1, <1>2, <1>4, <2>1, NetKeepsSending, NetKeepsStream
    <2>4. QED  BY <2>2, <2>3 DEF NetInv
  <1>5. CASE Net!Lost /\ UNCHANGED <<error, rx, taken>>
    <2>1. /\ worker' \in NetWorkers /\ worker'.pc = "reset" /\ worker'.fd = 0
          /\ worker'.out = Net!NoPacket
      BY <1>1, <1>5, NetLoses DEF NetTyped
    <2>2. NetTyped' /\ NetPoint'
      BY <1>1, <1>2, <1>3, <1>5, <2>1 DEF NetTyped, NetPoint
    <2>3. NetSending' /\ NetReceiving'
      BY <1>1, <1>2, <1>5, <2>1, NetKeepsSending, NetKeepsStream
    <2>4. QED  BY <2>2, <2>3 DEF NetInv
  <1>6. ASSUME NEW n \in 1..2, taken' = taken + n, UNCHANGED worker,
               \/ UNCHANGED rx /\ ~Net!Tcp
               \/ rx' = Append(rx, [conn |-> worker.fd, first |-> taken + 1, last |-> taken + n])
        PROVE  NetInv'
    <2>1. taken' \in Nat
      BY <1>1, <1>6
    <2>2. NetPoint'
      BY <1>1, <1>2, <1>6 DEF NetPoint
    <2>3. NetSending'
      BY <1>1, <1>2, <1>6, NetKeepsSending
    <2>4. CASE UNCHANGED rx /\ ~Net!Tcp
      <3>1. NetTyped'
        BY <1>1, <1>2, <1>6, <2>1, <2>4 DEF NetTyped
      <3>2. NetReceiving'
        BY <1>1, <1>2, <2>4 DEF NetReceiving, Net!Tcp
      <3>3. QED  BY <2>2, <2>3, <3>1, <3>2 DEF NetInv
    <2>5. CASE rx' = Append(rx, [conn |-> worker.fd, first |-> taken + 1, last |-> taken + n])
      <3>1. PICK c \in NetChunks : c = [conn |-> conns, first |-> taken + 1, last |-> taken + n]
        <4>1. [conn |-> conns, first |-> taken + 1, last |-> taken + n] \in NetChunks
          BY <1>1, <1>6 DEF NetChunks
        <4>2. QED  BY <4>1
      <3>2. /\ rx' \in Seq(NetChunks) /\ Len(rx) \in Nat /\ Len(rx') = Len(rx) + 1
            /\ rx'[Len(rx) + 1] = c /\ \A i \in 1..Len(rx) : rx'[i] = rx[i]
        BY <1>1, <1>3, <2>5, <3>1, AppendProperties, LenProperties DEF NetTyped
      <3>3. NetTyped'
        BY <1>1, <1>2, <1>6, <2>1, <3>2 DEF NetTyped
      <3>4. \A i \in 1..Len(rx) : ReadBefore(i)' = ReadBefore(i)
        <4>1. ASSUME NEW i \in 1..Len(rx) PROVE ReadBefore(i)' = ReadBefore(i)
          <5>1. CASE i = 1
            BY <1>2, <5>1 DEF ReadBefore
          <5>2. CASE i # 1
            <6>1. i - 1 \in 1..Len(rx)
              BY <3>2, <5>2
            <6>2. QED  BY <3>2, <5>2, <6>1 DEF ReadBefore
          <5>3. QED  BY <5>1, <5>2
        <4>2. QED  BY <4>1
      <3>5. ASSUME NEW k, k = Len(rx) + 1 PROVE ReadBefore(k)' = LastRead
        <4>1. CASE Len(rx) = 0
          BY <1>2, <3>2, <3>5, <4>1 DEF ReadBefore, LastRead
        <4>2. CASE Len(rx) # 0
          <5>1. Len(rx) \in 1..Len(rx) /\ Len(rx) + 1 # 1 /\ (Len(rx) + 1) - 1 = Len(rx)
            BY <3>2, <4>2
          <5>2. QED  BY <3>2, <3>5, <5>1 DEF ReadBefore, LastRead
        <4>3. QED  BY <4>1, <4>2
      <3>6. Net!Tcp => Follows(c, LastRead)
        <4>1. ASSUME Net!Tcp PROVE Follows(c, LastRead)
          <5>1. LastRead.conn <= conns
            <6>1. CASE rx = <<>>
              BY <1>1, <6>1, NetLastRead DEF NetReceiving
            <6>2. CASE rx # <<>>
              <7>1. Len(rx) \in 1..Len(rx)
                BY <1>1, <6>2, NetLastRead
              <7>2. QED  BY <1>1, <6>2, <7>1, NetLastRead DEF NetReceiving
            <6>3. QED  BY <6>1, <6>2
          <5>2. LastRead.conn \in Nat
            <6>1. CASE rx = <<>>
              BY <1>1, <6>1, NetLastRead DEF NetTyped
            <6>2. CASE rx # <<>>
              BY <1>1, <6>2, NetLastRead DEF NetChunks
            <6>3. QED  BY <6>1, <6>2
          <5>3. IF LastRead.conn = conns THEN LastRead.unit = taken ELSE taken = 0
            BY <1>1, <1>3, <4>1 DEF NetReceiving
          <5>4. QED  BY <1>1, <3>1, <5>1, <5>2, <5>3 DEF Follows
        <4>2. QED  BY <4>1
      <3>7. LastRead'.conn = conns /\ LastRead'.unit = taken'
        <4>1. LastRead' = [conn |-> c.conn, unit |-> c.last]
          <5>1. Len(rx') + 1 # 1 /\ (Len(rx') + 1) - 1 = Len(rx) + 1
            BY <3>2
          <5>2. QED  BY <3>2, <5>1 DEF LastRead, ReadBefore
        <4>2. QED  BY <1>6, <3>1, <4>1
      <3>8. \A i \in 1..Len(rx') : i \in 1..Len(rx) \/ i = Len(rx) + 1
        BY <3>2
      <3>9. \A i \in 1..Len(rx') : rx'[i].conn <= conns'
        BY <1>1, <1>2, <3>1, <3>2, <3>8 DEF NetReceiving
      <3>10. Net!Tcp' => \A i \in 1..Len(rx') : Follows(rx'[i], ReadBefore(i)')
        <4>1. ASSUME Net!Tcp, NEW i \in 1..Len(rx') PROVE Follows(rx'[i], ReadBefore(i)')
          <5>1. CASE i \in 1..Len(rx)
            BY <1>1, <3>2, <3>4, <4>1, <5>1 DEF NetReceiving
          <5>2. CASE i = Len(rx) + 1
            BY <3>2, <3>5, <3>6, <4>1, <5>2
          <5>3. QED  BY <3>8, <5>1, <5>2
        <4>2. QED  BY <1>2, <4>1 DEF Net!Tcp
      <3>11. got'.conn <= conns' /\ conns' = conns
        BY <1>1, <1>2 DEF NetReceiving
      <3>12. NetReceiving'
        BY <3>7, <3>9, <3>10, <3>11 DEF NetReceiving
      <3>13. QED  BY <2>2, <2>3, <3>3, <3>12 DEF NetInv
    <2>6. QED  BY <1>6, <2>4, <2>5
  <1>7. QED  BY <1>4, <1>5, <1>6 DEF Net!ReceivePacket

\* The application reads at the head of the stream.
LEMMA NetReceiveStep ==
    ASSUME NetInv, NEW n \in 1..2, Net!Receive(n)
    PROVE  NetInv'
  <1>1. NetTyped /\ NetPoint /\ NetSending /\ NetReceiving /\ conns \in Nat /\ taken \in Nat
    BY DEF NetInv, NetTyped
  <1>2. UNCHANGED <<token, nextToken, kind, caller, status, tx, worker, conns, taken, line>>
    BY DEF Net!Receive, Net!endpoint
  <1>3. NetPoint' /\ NetSending'
    BY <1>1, <1>2, NetKeepsSending DEF NetPoint
  <1>4. CASE rx = <<>>
    <2>1. UNCHANGED <<rx, got>>
      BY <1>4 DEF Net!Receive
    <2>2. NetTyped' /\ NetReceiving'
      BY <1>1, <1>2, <2>1, NetKeepsStream DEF NetTyped
    <2>3. QED  BY <1>3, <2>2 DEF NetInv
  <1>5. CASE rx # <<>>
    <2>1. PICK p : p = Head(rx)
      OBVIOUS
    <2>2. /\ Len(rx) \in Nat /\ Len(rx) # 0 /\ p = rx[1] /\ 1 \in 1..Len(rx)
          /\ Tail(rx) \in Seq(NetChunks) /\ Len(Tail(rx)) = Len(rx) - 1
          /\ \A i \in 1..Len(Tail(rx)) : Tail(rx)[i] = rx[i + 1]
      BY <1>1, <1>5, <2>1, HeadTailProperties, EmptySeq, LenProperties DEF NetTyped
    <2>3. p \in NetChunks /\ p.conn \in Nat /\ p.first \in Nat /\ p.last \in Nat /\ p.conn <= conns
      BY <1>1, <2>2, NetLastRead DEF NetChunks, NetReceiving
    \* The rest of the stream follows what was read, and its end is the same.
    <2>4. ASSUME rx' \in Seq(NetChunks), got' \in [conn: Nat, unit: Nat], got'.conn <= conns,
                 LastRead' = LastRead, rx' = <<>> => LastRead.conn <= conns,
                 rx' # <<>> => rx # <<>>,
                 \A i \in 1..Len(rx') : rx'[i].conn <= conns,
                 Net!Tcp => \A i \in 1..Len(rx') : Follows(rx'[i], ReadBefore(i)')
          PROVE  NetInv'
      <3>1. NetTyped'
        BY <1>1, <1>2, <2>4 DEF NetTyped
      <3>2. NetReceiving'
        BY <1>1, <1>2, <2>4 DEF NetReceiving, Net!Tcp
      <3>3. QED  BY <1>3, <3>1, <3>2 DEF NetInv
    <2>5. CASE Net!Tcp /\ p.last - p.first + 1 > n
      <3>1. /\ rx' = <<[p EXCEPT !.first = @ + n]>> \o Tail(rx)
            /\ got' = [conn |-> p.conn, unit |-> p.first + n - 1]
        BY <1>5, <2>1, <2>5 DEF Net!Receive
      <3>2. PICK h \in NetChunks : h = [p EXCEPT !.first = p.first + n]
        <4>1. [p EXCEPT !.first = p.first + n] \in NetChunks
          BY <2>3 DEF NetChunks
        <4>2. QED  BY <4>1
      <3>3. h.conn = p.conn /\ h.first = p.first + n /\ h.last = p.last
        BY <2>3, <3>2 DEF NetChunks
      <3>4. <<h>> \in Seq(NetChunks) /\ Len(<<h>>) = 1 /\ <<h>>[1] = h
        OBVIOUS
      <3>5. /\ rx' \in Seq(NetChunks) /\ Len(rx') = Len(rx) /\ rx'[1] = h
            /\ \A i \in 1..Len(rx) : i # 1 => rx'[i] = rx[i]
        <4>1. rx' = <<h>> \o Tail(rx)
          BY <3>1, <3>2
        <4>2. rx' \in Seq(NetChunks) /\ Len(rx') = Len(<<h>>) + Len(Tail(rx))
              /\ \A i \in 1..(Len(<<h>>) + Len(Tail(rx))) :
                     rx'[i] = IF i <= Len(<<h>>) THEN <<h>>[i] ELSE Tail(rx)[i - Len(<<h>>)]
          BY <2>2, <3>4, <4>1, ConcatProperties
        <4>3. Len(rx') = Len(rx) /\ rx'[1] = h
          BY <2>2, <3>4, <4>2
        <4>4. ASSUME NEW i \in 1..Len(rx), i # 1 PROVE rx'[i] = rx[i]
          <5>1. i - 1 \in 1..Len(Tail(rx)) /\ (i - 1) + 1 = i
            BY <2>2, <4>4
          <5>2. rx'[i] = Tail(rx)[i - 1]
            BY <2>2, <3>4, <4>2, <4>4
          <5>3. QED  BY <2>2, <5>1, <5>2
        <4>5. QED  BY <4>2, <4>3, <4>4
      <3>6. \A i \in 1..Len(rx) : rx'[i].conn = rx[i].conn /\ rx'[i].last = rx[i].last
        BY <2>2, <3>3, <3>5
      <3>7. got' \in [conn: Nat, unit: Nat] /\ got'.conn = p.conn /\ got'.unit + 1 = h.first
        BY <2>3, <3>1, <3>3
      <3>8. \A i \in 1..(Len(rx) + 1) : i # 1 => ReadBefore(i)' = ReadBefore(i)
        <4>1. ASSUME NEW i \in 1..(Len(rx) + 1), i # 1 PROVE ReadBefore(i)' = ReadBefore(i)
          <5>1. i - 1 \in 1..Len(rx)
            BY <2>2, <4>1
          <5>2. QED  BY <3>6, <4>1, <5>1 DEF ReadBefore
        <4>2. QED  BY <4>1
      <3>9. LastRead' = LastRead
        BY <2>2, <3>5, <3>8 DEF LastRead
      <3>10. ASSUME NEW i \in 1..Len(rx') PROVE Follows(rx'[i], ReadBefore(i)')
        <4>1. CASE i = 1
          BY <3>3, <3>5, <3>7, <4>1 DEF Follows, ReadBefore
        <4>2. CASE i # 1
          <5>1. i \in 1..Len(rx) /\ i \in 1..(Len(rx) + 1)
            BY <2>2, <3>5
          <5>2. QED  BY <1>1, <2>5, <3>5, <3>8, <4>2, <5>1 DEF NetReceiving
        <4>3. QED  BY <4>1, <4>2
      <3>11. \A i \in 1..Len(rx') : rx'[i].conn <= conns
        BY <1>1, <3>5, <3>6 DEF NetReceiving
      <3>12. rx' # <<>>
        BY <2>2, <3>5, EmptySeq
      <3>13. QED  BY <1>5, <2>3, <2>4, <3>5, <3>7, <3>9, <3>10, <3>11, <3>12
    <2>6. CASE ~(Net!Tcp /\ p.last - p.first + 1 > n)
      <3>1. rx' = Tail(rx) /\ got' = [conn |-> p.conn, unit |-> p.last]
        BY <1>5, <2>1, <2>6 DEF Net!Receive
      <3>2. \A i \in 1..Len(rx') : i + 1 \in 1..Len(rx) /\ rx'[i] = rx[i + 1]
        BY <2>2, <3>1
      <3>3. \A i \in 1..(Len(rx') + 1) : ReadBefore(i)' = ReadBefore(i + 1)
        <4>1. ASSUME NEW i \in 1..(Len(rx') + 1) PROVE ReadBefore(i)' = ReadBefore(i + 1)
          <5>1. CASE i = 1
            BY <2>2, <3>1, <5>1 DEF ReadBefore
          <5>2. CASE i # 1
            <6>1. i - 1 \in 1..Len(rx') /\ (i - 1) + 1 = i /\ (i + 1) - 1 = i /\ i + 1 # 1
              BY <2>2, <3>1, <5>2
            <6>2. QED  BY <3>2, <5>2, <6>1 DEF ReadBefore
          <5>3. QED  BY <5>1, <5>2
        <4>2. QED  BY <4>1
      <3>4. LastRead' = LastRead
        BY <2>2, <3>1, <3>3 DEF LastRead
      <3>5. \A i \in 1..Len(rx') : rx'[i].conn <= conns
        BY <1>1, <3>2 DEF NetReceiving
      <3>6. Net!Tcp => \A i \in 1..Len(rx') : Follows(rx'[i], ReadBefore(i)')
        <4>1. ASSUME Net!Tcp, NEW i \in 1..Len(rx') PROVE Follows(rx'[i], ReadBefore(i)')
          <5>1. i \in 1..(Len(rx') + 1)
            BY <2>2, <3>1
          <5>2. QED  BY <1>1, <3>2, <3>3, <4>1, <5>1 DEF NetReceiving
        <4>2. QED  BY <4>1
      <3>7. rx' \in Seq(NetChunks) /\ got' \in [conn: Nat, unit: Nat] /\ got'.conn = p.conn
        BY <2>2, <2>3, <3>1
      <3>8. LastRead.conn <= conns
        <4>1. Len(rx) \in 1..Len(rx) /\ LastRead.conn = rx[Len(rx)].conn
          BY <1>1, <1>5, <2>2, NetLastRead
        <4>2. QED  BY <1>1, <4>1 DEF NetReceiving
      <3>9. QED  BY <1>5, <2>3, <2>4, <3>4, <3>5, <3>6, <3>7, <3>8
    <2>7. QED  BY <2>5, <2>6
  <1>6. QED  BY <1>4, <1>5

LEMMA NetNextInv == NetInv /\ Net!Next => NetInv'
  BY NetUserSteps, NetSendStep, NetReceiveStep, NetTopStep, NetOpenStep, NetTransmitStep,
     NetReceivePacketStep
     DEF Net!Next, Net!WorkerStep

LEMMA NetInitInv == Net!Init => NetInv
  <1> SUFFICES ASSUME Net!Init PROVE NetInv
    OBVIOUS
  <1>1. /\ token = 0 /\ nextToken = 0 /\ tx = <<>> /\ rx = <<>> /\ worker = Net!Idle
        /\ caller = "rest" /\ conns = 0 /\ taken = 0 /\ kind = "udp"
        /\ line = [conn |-> 0, units |-> 0] /\ got = [conn |-> 0, unit |-> 0]
    BY DEF Net!Init
  <1>2. NetTyped
    BY <1>1, NetConstants, EmptySeq DEF NetTyped
  <1>3. NetPoint
    BY <1>1, NetConstants DEF NetPoint
  <1>4. Len(rx) = 0 /\ Len(tx) = 0
    BY <1>1
  <1>5. (\A i \in 1..Len(rx) : FALSE) /\ (\A i \in 1..Len(tx) : FALSE)
    BY <1>4
  <1>6. NetSending
    BY <1>1, <1>5, NetConstants DEF NetSending
  <1>7. NetReceiving
    BY <1>1, <1>5 DEF NetReceiving, Net!Tcp
  <1>8. QED  BY <1>2, <1>3, <1>6, <1>7 DEF NetInv

LEMMA NetSafe == NetInv => Net!MessagesWhole /\ Net!StreamIntact
  <1> SUFFICES ASSUME NetInv PROVE Net!MessagesWhole /\ Net!StreamIntact
    OBVIOUS
  <1>1. NetTyped /\ NetPoint /\ NetSending /\ NetReceiving
    BY DEF NetInv
  <1>2. Net!MessagesWhole
    BY <1>1 DEF Net!MessagesWhole, NetPoint, NetSending, OnWire
  <1>3. ASSUME Net!Tcp, NEW i \in 1..Len(rx)
        PROVE  LET before == IF i = 1 THEN got ELSE [conn |-> rx[i-1].conn, unit |-> rx[i-1].last]
               IN IF rx[i].conn = before.conn THEN rx[i].first = before.unit + 1
                                              ELSE rx[i].first = 1 /\ rx[i].conn > before.conn
    BY <1>1, <1>3 DEF NetReceiving, Follows, ReadBefore
  <1>4. Net!Tcp /\ rx # <<>> /\ rx[Len(rx)].conn = conns => rx[Len(rx)].last = taken
    BY <1>1, NetLastRead DEF NetReceiving
  <1>5. QED  BY <1>2, <1>3, <1>4 DEF Net!StreamIntact

-----------------------------------------------------------------------------
(* The target page.                                                        *)

PageJobs == [kind: {"none", "connect", "disconnect", "operation", "inventory", "poll",
                    "stop", "delete", "close"},
             reserved: BOOLEAN, state: {"none", "runs", "ok", "failed"}, read: Nat]

PageTyped ==
    /\ job \in PageJobs /\ queued \in PageJobs /\ conn \in Nat /\ conns \in Nat
    /\ control \in BOOLEAN /\ guard \in BOOLEAN /\ dialog \in BOOLEAN
    /\ refreshing \in BOOLEAN /\ boxes \in Nat

\* Only one has reserved the page at a time.
PageOne ==
    ~closing =>
        /\ guard => ~dialog /\ ~job.reserved /\ ~queued.reserved
        /\ dialog => ~job.reserved /\ ~queued.reserved
        /\ job.reserved => ~queued.reserved

\* A reserved job is never in the background, and behind an error box nothing else
\* runs on a reserved page: so the worker is idle when complete() takes a reserved
\* job from the queue.
PageBehindBox ==
    /\ job.reserved => ~refreshing
    /\ control /\ boxes > 0 => job = Page!NoJob \/ job.reserved

\* A job that closes SSH is neither reserved nor ever queued, and nothing is
\* queued or reserved once the page closes.
PageInv ==
    /\ PageTyped /\ Page!ControlIsHeld /\ PageOne /\ PageBehindBox
    /\ job.kind = "close" => ~job.reserved /\ closing
    /\ queued.kind # "close"
    /\ closing => queued = Page!NoJob

LEMMA PageNoJob ==
    /\ Page!NoJob \in PageJobs /\ ~Page!NoJob.reserved
    /\ Page!NoJob.kind = "none" /\ Page!NoJob.state = "none"
  BY DEF Page!NoJob, PageJobs

\* A job that is accepted starts at once, or waits for a background job.  It is
\* reserved for the one who was asked, or the page is not reserved.
LEMMA PageSubmits ==
    ASSUME PageInv, NEW j \in PageJobs, j # Page!NoJob, j.kind # "close", NEW background \in BOOLEAN,
           Page!Accepts(j, background), Page!Submit(j, background),
           UNCHANGED <<conn, conns, closing, control, boxes>>,
           guard' \in BOOLEAN, dialog' \in BOOLEAN,
           \/ ~j.reserved /\ UNCHANGED <<guard, dialog>>
           \/ j.reserved /\ ~background /\ (guard \/ dialog) /\ ~guard' /\ ~dialog'
    PROVE  PageInv'
  <1>1. /\ ~closing /\ queued = Page!NoJob /\ (control => j.reserved)
        /\ (job # Page!NoJob => refreshing)
    BY DEF Page!Accepts, Page!Working
  <1>2. \/ job # Page!NoJob /\ queued' = j /\ UNCHANGED <<job, refreshing>>
        \/ job = Page!NoJob /\ job' = j /\ refreshing' = background /\ UNCHANGED queued
    BY DEF Page!Submit, Page!Working
  <1>3. /\ PageTyped /\ PageOne /\ PageBehindBox /\ ~closing'
        /\ (control <=> guard \/ dialog \/ job.reserved \/ queued.reserved)
    BY <1>1 DEF PageInv, Page!ControlIsHeld
  <1>4. ~job.reserved
    BY <1>1, <1>3 DEF PageOne
  <1>5. PageTyped' /\ Page!ControlIsHeld' /\ PageOne'
    <2>1. PageTyped'
      BY <1>2, <1>3 DEF PageTyped
    <2>2. CASE ~j.reserved /\ UNCHANGED <<guard, dialog>>
      BY <1>1, <1>2, <1>3, <2>1, <2>2, PageNoJob
         DEF PageTyped, Page!ControlIsHeld, PageOne, Page!Working
    <2>3. CASE j.reserved /\ (guard \/ dialog) /\ ~guard' /\ ~dialog'
      BY <1>1, <1>2, <1>3, <1>4, <2>1, <2>3, PageNoJob
         DEF PageTyped, Page!ControlIsHeld, PageOne, Page!Working
    <2>4. QED  BY <2>1, <2>2, <2>3
  <1>6. PageBehindBox'
    BY <1>1, <1>2, <1>3, <1>4 DEF PageBehindBox, PageTyped
  <1>7. QED  BY <1>1, <1>2, <1>3, <1>5, <1>6 DEF PageInv

\* What leaves the worker and its queue alone: the reservation is held as before,
\* somebody is asked on a free page, or the one who was asked releases it.
LEMMA PageQuiet ==
    ASSUME PageInv, UNCHANGED <<job, refreshing, queued, boxes, conns, closing>>, conn' \in Nat,
           \/ UNCHANGED <<control, guard, dialog>>
           \/ /\ ~control /\ ~closing /\ boxes = 0 /\ control' = TRUE
              /\ \/ guard' = TRUE /\ UNCHANGED dialog
                 \/ dialog' = TRUE /\ UNCHANGED guard
           \/ /\ control' = FALSE
              /\ \/ guard /\ guard' = FALSE /\ UNCHANGED dialog
                 \/ dialog /\ dialog' = FALSE /\ UNCHANGED guard
    PROVE  PageInv'
  <1>1. PageTyped' /\ PageBehindBox'
    <2>1. PageTyped /\ PageBehindBox
      BY DEF PageInv
    <2>2. control' \in BOOLEAN /\ guard' \in BOOLEAN /\ dialog' \in BOOLEAN
      BY <2>1, Zenon DEF PageTyped
    <2>3. control' => control \/ boxes = 0
      OBVIOUS
    <2>4. QED  BY <2>1, <2>2, <2>3 DEF PageTyped, PageBehindBox
  <1>2. Page!ControlIsHeld' /\ PageOne'
    <2>1. CASE UNCHANGED <<control, guard, dialog>>
      BY <2>1 DEF PageInv, PageOne, Page!ControlIsHeld, Page!Working
    <2>2. CASE /\ ~control /\ ~closing /\ boxes = 0 /\ control' = TRUE
               /\ \/ guard' = TRUE /\ UNCHANGED dialog
                  \/ dialog' = TRUE /\ UNCHANGED guard
      <3>1. ~guard /\ ~dialog /\ ~job.reserved /\ ~queued.reserved
        BY <2>2 DEF PageInv, Page!ControlIsHeld
      <3>2. QED  BY <2>2, <3>1 DEF PageInv, PageOne, Page!ControlIsHeld, Page!Working
    <2>3. CASE /\ control' = FALSE
               /\ \/ guard /\ guard' = FALSE /\ UNCHANGED dialog
                  \/ dialog /\ dialog' = FALSE /\ UNCHANGED guard
      BY <2>3 DEF PageInv, PageOne, Page!ControlIsHeld, Page!Working
    <2>4. QED  BY <2>1, <2>2, <2>3
  <1>3. QED  BY <1>1, <1>2 DEF PageInv

LEMMA PageUserSteps ==
    ASSUME PageInv,
           \/ Page!Connect \/ Page!Foreground \/ Page!Refresh \/ Page!TickInventory \/ Page!TickPoll
    PROVE  PageInv'
  <1>1. ASSUME NEW what \in {"connect", "disconnect", "operation", "inventory", "poll"},
               NEW background \in BOOLEAN,
               Page!Accepts(Page!Job(what, FALSE), background),
               Page!Submit(Page!Job(what, FALSE), background),
               UNCHANGED <<conn, conns, control, boxes, guard, dialog, closing>>
        PROVE  PageInv'
    <2>1. PICK j : j = Page!Job(what, FALSE)
      OBVIOUS
    <2>2. j \in PageJobs /\ j # Page!NoJob /\ j.kind # "close" /\ j.reserved = FALSE
      BY <2>1 DEF Page!Job, Page!NoJob, PageJobs
    <2>3. Page!Accepts(j, background) /\ Page!Submit(j, background)
      BY <1>1, <2>1
    <2>4. guard' \in BOOLEAN /\ dialog' \in BOOLEAN
      BY <1>1 DEF PageInv, PageTyped
    <2>5. QED  BY <1>1, <2>2, <2>3, <2>4, PageSubmits
  <1>2. CASE Page!Connect
    BY <1>1, <1>2 DEF Page!Connect, Page!service, Page!asking, Page!ending
  <1>3. CASE Page!Foreground
    BY <1>1, <1>3 DEF Page!Foreground, Page!service, Page!asking, Page!ending
  <1>4. CASE Page!Refresh \/ Page!TickInventory
    BY <1>1, <1>4 DEF Page!Refresh, Page!TickInventory, Page!Inventory, Page!service,
                      Page!asking, Page!ending
  <1>5. CASE Page!TickPoll
    BY <1>1, <1>5 DEF Page!TickPoll, Page!service, Page!asking, Page!ending
  <1>6. QED  BY <1>2, <1>3, <1>4, <1>5

\* A question is asked and answered; a yes starts the reserved job.
LEMMA PageAskSteps ==
    ASSUME PageInv,
           \/ Page!AskStop \/ Page!GuardProceeds \/ Page!GuardFails
           \/ Page!AskDelete \/ Page!AnswerDelete \/ Page!OpenMenu \/ Page!CloseMenu
    PROVE  PageInv'
  <1>1. UNCHANGED <<conn, conns, closing, boxes>> /\ conn' \in Nat
    <2>1. UNCHANGED <<conn, conns, closing, boxes>>
      BY DEF Page!ending, Page!AskStop, Page!GuardProceeds, Page!GuardFails, Page!AskDelete,
             Page!AnswerDelete, Page!OpenMenu, Page!CloseMenu, Page!service
    <2>2. QED  BY <2>1 DEF PageInv, PageTyped
  <1>2. ASSUME NEW what \in {"stop", "delete"},
               Page!Accepts(Page!Job(what, TRUE), FALSE), Page!Submit(Page!Job(what, TRUE), FALSE),
               UNCHANGED control,
               \/ guard /\ guard' = FALSE /\ UNCHANGED dialog
               \/ dialog /\ dialog' = FALSE /\ UNCHANGED guard
        PROVE  PageInv'
    <2>1. PICK j : j = Page!Job(what, TRUE)
      BY Zenon
    <2>2. j \in PageJobs /\ j # Page!NoJob /\ j.kind # "close" /\ j.reserved = TRUE
      BY <2>1 DEF Page!Job, Page!NoJob, PageJobs
    <2>3. Page!Accepts(j, FALSE) /\ Page!Submit(j, FALSE)
      BY <1>2, <2>1
    <2>4. /\ (guard \/ dialog) /\ ~guard' /\ ~dialog'
          /\ guard' \in BOOLEAN /\ dialog' \in BOOLEAN
      <3>1. ~closing
        BY <2>3 DEF Page!Accepts
      <3>2. guard' \in BOOLEAN /\ dialog' \in BOOLEAN
        BY <1>2, Zenon DEF PageInv, PageTyped
      <3>3. QED  BY <1>2, <3>1, <3>2 DEF PageInv, PageOne
    <2>5. QED  BY <1>1, <1>2, <2>2, <2>3, <2>4, PageSubmits
  <1>3. CASE Page!AskStop \/ Page!AskDelete
    <2>1. /\ control' = TRUE /\ UNCHANGED <<job, refreshing, queued>> /\ boxes = 0
          /\ \/ guard' = TRUE /\ UNCHANGED dialog
             \/ dialog' = TRUE /\ UNCHANGED guard
      BY <1>3 DEF Page!AskStop, Page!AskDelete, Page!work
    <2>2. ~closing /\ ~control
      BY <1>3 DEF Page!AskStop, Page!AskDelete, Page!Ready, Page!Busy
    <2>3. QED  BY <1>1, <2>1, <2>2, PageQuiet
  <1>4. CASE Page!GuardProceeds
    <2>1. guard /\ guard' = FALSE /\ UNCHANGED dialog
      BY <1>4 DEF Page!GuardProceeds
    <2>2. \/ /\ Page!Accepts(Page!Job("stop", TRUE), FALSE)
             /\ Page!Submit(Page!Job("stop", TRUE), FALSE) /\ UNCHANGED control
          \/ control' = FALSE /\ UNCHANGED Page!work
      BY <1>4, Zenon DEF Page!GuardProceeds
    <2>3. CASE control' = FALSE /\ UNCHANGED Page!work
      BY <1>1, <2>1, <2>3, PageQuiet DEF Page!work
    <2>4. CASE /\ Page!Accepts(Page!Job("stop", TRUE), FALSE)
               /\ Page!Submit(Page!Job("stop", TRUE), FALSE) /\ UNCHANGED control
      BY <1>2, <2>1, <2>4
    <2>5. QED  BY <2>2, <2>3, <2>4, Zenon
  <1>5. CASE Page!GuardFails
    <2>1. /\ guard /\ guard' = FALSE /\ UNCHANGED dialog /\ control' = FALSE
          /\ UNCHANGED <<job, refreshing, queued>>
      BY <1>5 DEF Page!GuardFails, Page!work
    <2>2. QED  BY <1>1, <2>1, PageQuiet
  <1>6. CASE Page!AnswerDelete
    <2>1. dialog /\ dialog' = FALSE /\ UNCHANGED guard
      BY <1>6 DEF Page!AnswerDelete
    <2>2. \/ /\ Page!Accepts(Page!Job("delete", TRUE), FALSE)
             /\ Page!Submit(Page!Job("delete", TRUE), FALSE) /\ UNCHANGED control
          \/ control' = FALSE /\ UNCHANGED Page!work
      BY <1>6, Zenon DEF Page!AnswerDelete
    <2>3. CASE control' = FALSE /\ UNCHANGED Page!work
      BY <1>1, <2>1, <2>3, PageQuiet DEF Page!work
    <2>4. CASE /\ Page!Accepts(Page!Job("delete", TRUE), FALSE)
               /\ Page!Submit(Page!Job("delete", TRUE), FALSE) /\ UNCHANGED control
      BY <1>2, <2>1, <2>4
    <2>5. QED  BY <2>2, <2>3, <2>4, Zenon
  <1>7. CASE Page!OpenMenu \/ Page!CloseMenu
    <2>1. UNCHANGED <<job, refreshing, queued, control, guard, dialog>>
      BY <1>7 DEF Page!OpenMenu, Page!CloseMenu, Page!work
    <2>2. QED  BY <1>1, <2>1, PageQuiet
  <1>8. QED  BY <1>3, <1>4, <1>5, <1>6, <1>7

\* The worker runs a job or one ends and complete() follows at once or when the
\* error box is closed: what was queued starts or is dropped.
LEMMA PageCompletes ==
    ASSUME PageInv, NEW idle, Page!Completes(idle), control' \in BOOLEAN,
           UNCHANGED <<conn, conns, guard, dialog, closing>>, boxes' \in Nat, boxes' <= boxes,
           \/ (idle <=> job = Page!NoJob) /\ UNCHANGED control /\ boxes > 0
           \/ idle /\ job # Page!NoJob /\ control' = (control /\ ~job.reserved)
    PROVE  PageInv'
  <1>1. /\ PageTyped /\ Page!ControlIsHeld /\ PageOne /\ PageBehindBox
        /\ (closing => queued = Page!NoJob) /\ queued.kind # "close"
        /\ (job.kind = "close" => ~job.reserved /\ closing)
    BY DEF PageInv
  <1>2. /\ refreshing' = FALSE /\ queued' = Page!NoJob
        /\ \/ /\ queued # Page!NoJob /\ ~closing /\ idle /\ (control' => queued.reserved)
              /\ job' = queued
           \/ /\ ~(queued # Page!NoJob /\ ~closing /\ idle /\ (control' => queued.reserved))
              /\ job' = IF idle THEN Page!NoJob ELSE job
    BY DEF Page!Completes
  <1>3. PageTyped' /\ queued'.kind # "close" /\ (closing' => queued' = Page!NoJob)
    BY <1>1, <1>2, PageNoJob DEF PageTyped
  <1>4. job'.kind = "close" => ~job'.reserved /\ closing'
    BY <1>1, <1>2, PageNoJob
  <1>5. queued.reserved /\ ~closing => idle
    <2> SUFFICES ASSUME queued.reserved, ~closing, ~idle PROVE FALSE
      OBVIOUS
    <2>1. job # Page!NoJob /\ ~job.reserved /\ control /\ queued # Page!NoJob
      BY <1>1, PageNoJob DEF Page!ControlIsHeld, PageOne
    <2>2. boxes > 0
      OBVIOUS
    <2>3. QED  BY <1>1, <2>1, <2>2 DEF PageBehindBox
  <1>6. Page!ControlIsHeld' /\ PageOne' /\ PageBehindBox'
    BY <1>1, <1>2, <1>3, <1>5, PageNoJob
       DEF Page!ControlIsHeld, PageOne, PageBehindBox, PageTyped
  <1>7. QED  BY <1>3, <1>4, <1>6 DEF PageInv

LEMMA PageDeliver == ASSUME PageInv, Page!Deliver \/ Page!DismissError PROVE PageInv'
  <1>1. PageTyped
    BY DEF PageInv
  <1>2. UNCHANGED <<conn, conns, guard, dialog, closing>>
    BY DEF Page!Deliver, Page!DismissError, Page!service, Page!asking, Page!ending
  <1>3. CASE Page!DismissError
    <2>1. /\ boxes > 0 /\ boxes' \in Nat /\ boxes' <= boxes /\ UNCHANGED control
          /\ Page!Completes(~Page!Working) /\ (~Page!Working <=> job = Page!NoJob)
      BY <1>1, <1>3 DEF Page!DismissError, PageTyped, Page!Working
    <2>2. control' \in BOOLEAN
      BY <1>1, <2>1, Zenon DEF PageTyped
    <2>3. QED  BY <1>2, <2>1, <2>2, PageCompletes
  <1>4. CASE Page!Deliver
    <2>1. control' = (control /\ ~job.reserved) /\ control' \in BOOLEAN /\ job # Page!NoJob
      BY <1>1, <1>4, PageNoJob DEF Page!Deliver, Page!StillReserved, PageTyped
    <2>2. CASE UNCHANGED boxes /\ Page!Completes(TRUE)
      <3>1. boxes' \in Nat /\ boxes' <= boxes
        BY <1>1, <2>2 DEF PageTyped
      <3>2. QED  BY <1>2, <2>1, <2>2, <3>1, PageCompletes
    <2>3. CASE /\ ~closing /\ boxes' = boxes + 1 /\ job' = Page!NoJob
               /\ UNCHANGED <<refreshing, queued>>
      <3>1. PageTyped' /\ boxes' > 0
        BY <1>1, <1>2, <2>1, <2>3, PageNoJob DEF PageTyped
      <3>2. Page!ControlIsHeld' /\ PageOne' /\ PageBehindBox'
        BY <1>1, <1>2, <2>1, <2>3, <3>1, PageNoJob
           DEF PageInv, Page!ControlIsHeld, PageOne, PageBehindBox, PageTyped
      <3>3. QED  BY <1>2, <2>3, <3>1, <3>2, PageNoJob DEF PageInv
    <2>4. QED  BY <1>4, <2>2, <2>3 DEF Page!Deliver
  <1>5. QED  BY <1>3, <1>4

\* The job runs; the page closes.
LEMMA PageWorkSteps ==
    ASSUME PageInv,
           \/ Page!ConnectionLost \/ Page!Execute \/ Page!TickLost
           \/ Page!CloseWorkspace \/ Page!FinishClose \/ Page!DeliverClose
    PROVE  PageInv'
  <1>1. /\ PageTyped /\ Page!ControlIsHeld /\ PageOne /\ PageBehindBox
        /\ (closing => queued = Page!NoJob) /\ queued.kind # "close"
        /\ (job.kind = "close" => ~job.reserved /\ closing)
    BY DEF PageInv
  <1>2. CASE Page!ConnectionLost \/ Page!TickLost
    <2>1. /\ UNCHANGED <<job, refreshing, queued, boxes, conns, control, guard, dialog, closing>>
          /\ conn' \in {conn, 0}
      BY <1>2 DEF Page!ConnectionLost, Page!TickLost, Page!service, Page!asking, Page!ending, Page!work
    <2>2. conn' \in Nat
      BY <1>1, <2>1 DEF PageTyped
    <2>3. QED  BY <2>1, <2>2, PageQuiet
  <1>3. CASE Page!Execute
    <2>1. UNCHANGED <<refreshing, queued, boxes, control, guard, dialog, closing>>
      BY <1>3 DEF Page!Execute, Page!asking, Page!ending
    <2>2. conn' \in Nat /\ conns' \in Nat /\ job.state = "runs" /\ job \in PageJobs
      BY <1>1, <1>3 DEF Page!Execute, Page!service, PageTyped
    <2>3. /\ job' \in PageJobs /\ job'.kind = job.kind
          /\ job'.reserved = job.reserved /\ job'.state \in {"ok", "failed"}
      <3>1. ASSUME NEW s \in {"ok", "failed"}, NEW n \in Nat, job' = [job EXCEPT !.state = s, !.read = n]
            PROVE  /\ job' \in PageJobs /\ job'.kind = job.kind
                   /\ job'.reserved = job.reserved /\ job'.state = s
        BY <2>2, <3>1 DEF PageJobs
      <3>2. ASSUME NEW s \in {"ok", "failed"}, job' = [job EXCEPT !.state = s]
            PROVE  /\ job' \in PageJobs /\ job'.kind = job.kind
                   /\ job'.reserved = job.reserved /\ job'.state = s
        BY <2>2, <3>2 DEF PageJobs
      <3>3. conns + 1 \in Nat /\ conn \in Nat
        BY <1>1 DEF PageTyped
      <3>4. \/ job' = [job EXCEPT !.state = "ok", !.read = conns + 1]
            \/ job' = [job EXCEPT !.state = "ok", !.read = conn]
            \/ job' = [job EXCEPT !.state = "ok"]
            \/ job' = [job EXCEPT !.state = "failed"]
        BY <1>3, Zenon DEF Page!Execute
      <3>5. QED  BY <3>1, <3>2, <3>3, <3>4
    <2>4. job # Page!NoJob /\ job' # Page!NoJob
      BY <2>2, <2>3, PageNoJob
    <2>5. PageTyped' /\ Page!ControlIsHeld' /\ PageOne' /\ PageBehindBox'
      BY <1>1, <2>1, <2>2, <2>3, <2>4
         DEF PageTyped, Page!ControlIsHeld, PageOne, PageBehindBox, Page!Working
    <2>6. QED  BY <1>1, <2>1, <2>3, <2>5 DEF PageInv
  <1>4. CASE Page!CloseWorkspace
    <2>1. /\ UNCHANGED <<conn, conns, job, refreshing, boxes, guard, dialog>>
          /\ control' = FALSE /\ queued' = Page!NoJob /\ closing' = TRUE
      BY <1>4 DEF Page!CloseWorkspace, Page!service, Page!asking
    <2>2. QED  BY <1>1, <2>1, PageNoJob
                  DEF PageInv, PageTyped, Page!ControlIsHeld, PageOne, PageBehindBox
  <1>5. CASE Page!FinishClose
    <2>1. /\ closing /\ job = Page!NoJob /\ job' = Page!Job("close", FALSE)
          /\ UNCHANGED <<conn, conns, refreshing, queued, boxes, control, guard, dialog, closing>>
      BY <1>5 DEF Page!FinishClose, Page!service, Page!asking, Page!Working
    <2>2. job' \in PageJobs /\ job'.reserved = FALSE
      BY <2>1 DEF Page!Job, PageJobs
    <2>3. QED  BY <1>1, <2>1, <2>2
                  DEF PageInv, PageTyped, Page!ControlIsHeld, PageOne, PageBehindBox
  <1>6. CASE Page!DeliverClose
    <2>1. /\ job.kind = "close" /\ job' = Page!NoJob
          /\ UNCHANGED <<conn, conns, refreshing, queued, boxes, control, guard, dialog, closing>>
      BY <1>6 DEF Page!DeliverClose, Page!service, Page!asking
    <2>2. closing /\ queued = Page!NoJob
      BY <1>1, <2>1
    <2>3. QED  BY <1>1, <2>1, <2>2, PageNoJob
                  DEF PageInv, PageTyped, Page!ControlIsHeld, PageOne, PageBehindBox
  <1>7. QED  BY <1>2, <1>3, <1>4, <1>5, <1>6

LEMMA PageNextInv == PageInv /\ Page!Next => PageInv'
  BY PageUserSteps, PageAskSteps, PageDeliver, PageWorkSteps DEF Page!Next

LEMMA PageInitInv == Page!Init => PageInv
  <1> SUFFICES ASSUME Page!Init PROVE PageInv
    OBVIOUS
  <1>1. /\ job = Page!NoJob /\ queued = Page!NoJob /\ control = FALSE /\ guard = FALSE
        /\ dialog = FALSE /\ refreshing = FALSE /\ boxes = 0
        /\ conn = 0 /\ conns = 0 /\ closing = FALSE
    BY DEF Page!Init
  <1>2. QED  BY <1>1, PageNoJob
                DEF PageInv, PageTyped, Page!ControlIsHeld, PageOne, PageBehindBox

\* While the page closes no step starts a job but the one that closes SSH.
LEMMA PageStartsNothing ==
    ASSUME PageInv, closing, Page!Next, job' # job, job'.state = "runs"
    PROVE  job'.kind = "close"
  <1>1. ASSUME NEW j, NEW background, Page!Accepts(j, background) PROVE FALSE
    BY <1>1 DEF Page!Accepts
  <1>2. CASE Page!Execute
    <2>1. job \in PageJobs
      BY DEF PageInv, PageTyped
    <2>2. job'.state \in {"ok", "failed"}
      BY <1>2, <2>1 DEF Page!Execute, PageJobs
    <2>3. QED  BY <2>2
  <1>3. CASE Page!Deliver \/ Page!DismissError
    <2>1. job' = Page!NoJob \/ job' = job
      BY <1>3 DEF Page!Deliver, Page!DismissError, Page!Completes
    <2>2. QED  BY <2>1, PageNoJob
  <1>4. CASE Page!FinishClose
    <2>1. job' = Page!Job("close", FALSE)
      BY <1>4 DEF Page!FinishClose
    <2>2. QED  BY <2>1 DEF Page!Job
  <1>5. CASE Page!DeliverClose
    <2>1. job' = Page!NoJob
      BY <1>5 DEF Page!DeliverClose
    <2>2. QED  BY <2>1, PageNoJob
  <1>6. CASE Page!Connect \/ Page!Foreground \/ Page!Refresh \/ Page!TickInventory \/ Page!TickPoll
    BY <1>1, <1>6 DEF Page!Connect, Page!Foreground, Page!Refresh, Page!TickInventory,
                      Page!TickPoll, Page!Inventory
  <1>7. CASE \/ Page!AskStop \/ Page!GuardProceeds \/ Page!GuardFails
             \/ Page!AskDelete \/ Page!AnswerDelete \/ Page!OpenMenu \/ Page!CloseMenu
             \/ Page!ConnectionLost \/ Page!TickLost \/ Page!CloseWorkspace
    <2>1. UNCHANGED job
      BY <1>1, <1>7 DEF Page!AskStop, Page!GuardProceeds, Page!GuardFails, Page!AskDelete,
             Page!AnswerDelete, Page!OpenMenu, Page!CloseMenu, Page!ConnectionLost,
             Page!TickLost, Page!CloseWorkspace, Page!work
    <2>2. QED  BY <2>1
  <1>8. QED  BY <1>2, <1>3, <1>4, <1>5, <1>6, <1>7 DEF Page!Next

-----------------------------------------------------------------------------
(* The device slots.                                                       *)

SlotTokens == 0..(TokenCount - 1)
SlotRecords == [token: SlotTokens, fd: 0..(SlotCount + 2), device: Devices \cup {Nobody}]
SlotClients == [pc: {"rest", "open", "lines", "setup", "commit"}, device: Devices \cup {Nobody},
                slot: 0..SlotCount, fd: 0..(SlotCount + 2), token: SlotTokens]

\* The types of the drivers' variables.
SlotTyped ==
    /\ driver \in {"serial", "dio", "ethercat"}
    /\ lock \in Clients \cup {Nobody}
    /\ slots \in [1..SlotCount -> SlotRecords]
    /\ nextToken \in SlotTokens
    /\ open \in [Slot!Fds -> Devices \cup {Nobody}]
    /\ client \in [Clients -> SlotClients]

UsedSlots == Slot!Slots \ Slot!FreeSlots
Opening == {"lines", "setup", "commit"}

\* Every slot in use has a device of its own behind a descriptor of its own,
\* under a token of its own.
SlotsDistinct ==
    /\ \A s \in UsedSlots : slots[s].fd \in Slot!Fds /\ slots[s].device \in Devices
                            /\ open[slots[s].fd] = slots[s].device
    /\ \A r, s \in UsedSlots :
           slots[r].token = slots[s].token \/ slots[r].fd = slots[s].fd => r = s

\* Slots in use and blocks that hold a token belong to each other.
SlotsHeld ==
    /\ \A c \in Slot!Holders : \E s \in UsedSlots :
           slots[s].token = client[c].token /\ slots[s].device = client[c].device
    /\ \A c, d \in Slot!Holders : client[c].token = client[d].token => c = d
    /\ \A s \in UsedSlots : \E c \in Slot!Holders : client[c].token = slots[s].token

\* The block that is opening a device holds the lock, has a free slot in
\* view and, from the moment the device is open, a descriptor no slot has.
OpeningPoint(c) ==
    /\ client[c].pc # "rest" =>
           /\ lock = c
           /\ client[c].slot \in Slot!FreeSlots /\ client[c].device \in Devices
    /\ client[c].pc \notin Opening => client[c].fd = 0
    /\ client[c].pc \in Opening =>
           /\ client[c].fd \in Slot!Fds /\ open[client[c].fd] = client[c].device
           /\ \A s \in UsedSlots : slots[s].fd # client[c].fd

\* An open descriptor is a slot's or that of the open under way.
DescriptorsOwned ==
    \A f \in Slot!Fds : open[f] # Nobody =>
        \/ \E s \in UsedSlots : slots[s].fd = f
        \/ lock # Nobody /\ client[lock].fd = f

SlotInv ==
    /\ SlotTyped /\ SlotsDistinct /\ SlotsHeld /\ DescriptorsOwned
    /\ \A c \in Clients : OpeningPoint(c)
    /\ lock # Nobody => client[lock].pc # "rest"

\* The operators on finite sets that the instance brings are the library's.
LEMMA SlotFiniteSets ==
    ASSUME NEW S
    PROVE  /\ Slot!IsFiniteSet(S) <=> IsFiniteSet(S)
           /\ Slot!Cardinality(S) = Cardinality(S)
  <1>1. Slot!IsFiniteSet(S) <=> IsFiniteSet(S)
    BY DEF Slot!IsFiniteSet, IsFiniteSet
  <1>2. Slot!Cardinality(S) = Cardinality(S)
    BY DEF Slot!Cardinality, Cardinality
  <1>3. QED  BY <1>1, <1>2

LEMMA SlotConstants ==
    /\ SlotCount \in Nat \ {0} /\ TokenCount \in Nat /\ TokenCount > SlotCount + 1
    /\ Nobody \notin Clients /\ Nobody \notin Devices /\ IsFiniteSet(Clients)
    /\ Slot!Free \in SlotRecords /\ Slot!Free.token = 0
    /\ Slot!AtRest \in SlotClients /\ Slot!AtRest.pc = "rest" /\ Slot!AtRest.token = 0
  <1>1. /\ SlotCount \in Nat \ {0} /\ TokenCount \in Nat /\ TokenCount > SlotCount + 1
        /\ Nobody \notin Clients /\ Nobody \notin Devices /\ IsFiniteSet(Clients)
    BY OwnershipAssumption, SlotFiniteSets DEF Slot!SlotAssumption
  <1>2. 0 \in SlotTokens /\ 0 \in 0..SlotCount /\ 0 \in 0..(SlotCount + 2)
    BY <1>1 DEF SlotTokens
  <1>3. QED  BY <1>1, <1>2 DEF Slot!Free, Slot!AtRest, SlotRecords, SlotClients

LEMMA SlotRange == Slot!Slots \subseteq 1..SlotCount /\ 1 \in Slot!Slots
  BY SlotConstants DEF Slot!Slots

\* A set of numbers that is not empty has a least one.
LEMMA LeastNumber ==
    ASSUME NEW T \in SUBSET Nat, T # {}
    PROVE  \E x \in T : \A y \in T : x <= y
  <1> DEFINE I == {0..x : x \in T}
  <1>1. I \in SUBSET FiniteSubsetsOf(Nat)
    <2>1. ASSUME NEW x \in T PROVE 0..x \in FiniteSubsetsOf(Nat)
      <3>1. IsFiniteSet(0..x) /\ 0..x \subseteq Nat
        BY FS_Interval
      <3>2. QED  BY <3>1 DEF FiniteSubsetsOf
    <2>2. QED  BY <2>1
  <1>2. I # {}
    OBVIOUS
  <1>3. \E X \in I : \A Y \in I : ~ (<<Y, X>> \in StrictSubsetOrdering(Nat))
    <2> HIDE DEF I
    <2> QED  BY <1>1, <1>2, WFMin, FS_StrictSubsetOrderingWellFounded
  <1>4. PICK x \in T : \A y \in T : ~ (<<0..y, 0..x>> \in StrictSubsetOrdering(Nat))
    BY <1>3
  <1>5. ASSUME NEW y \in T, y < x PROVE FALSE
    <2>1. 0..y \subseteq 0..x /\ 0..x # 0..y /\ 0..x \subseteq Nat /\ 0..y \subseteq Nat
      <3>1. x \in 0..x /\ x \notin 0..y
        BY <1>5
      <3> QED  BY <3>1, <1>5
    <2> QED  BY <1>4, <2>1 DEF StrictSubsetOrdering
  <1>6. QED  BY <1>5

\* Serial takes the last free slot, the others the first.
LEMMA SlotTakenIsFree ==
    ASSUME Slot!FreeSlots # {}
    PROVE  Slot!SlotTaken \in Slot!FreeSlots
  <1>1. Slot!FreeSlots \subseteq 1..SlotCount /\ SlotCount \in Nat
    BY SlotRange, SlotConstants DEF Slot!FreeSlots
  <1>2. \E s \in Slot!FreeSlots : \A r \in Slot!FreeSlots : s <= r
    BY <1>1, LeastNumber
  <1>3. \E s \in Slot!FreeSlots : \A r \in Slot!FreeSlots : r <= s
    <2> DEFINE T == {SlotCount - s : s \in Slot!FreeSlots}
    <2>1. T \in SUBSET Nat /\ T # {}
      <3>1. \A s \in Slot!FreeSlots : SlotCount - s \in Nat
        BY <1>1
      <3>2. QED  BY <3>1
    <2>2. PICK x \in T : \A y \in T : x <= y
      <3> HIDE DEF T
      <3> QED  BY <2>1, LeastNumber
    <2>3. PICK s \in Slot!FreeSlots : x = SlotCount - s
      BY <2>2
    <2>4. ASSUME NEW r \in Slot!FreeSlots PROVE r <= s
      <3>1. x <= SlotCount - r
        BY <2>2
      <3>2. QED  BY <1>1, <2>3, <3>1
    <2>5. QED  BY <2>4
  <1>4. QED  BY <1>2, <1>3 DEF Slot!SlotTaken

\* The counter wraps once at most.
LEMMA OnceAround ==
    ASSUME NEW n \in Nat, NEW m \in Nat \ {0}, n < 2 * m
    PROVE  n % m = IF n >= m THEN n - m ELSE n
  <1>1. n % m \in 0..(m - 1) /\ n = m * (n \div m) + (n % m) /\ n \div m \in Nat
    BY SMT
  <1> DEFINE q == n \div m
             r == n % m
  <1> HIDE DEF q, r
  <1>2. r \in 0..(m - 1) /\ n = m * q + r /\ q \in Nat
    BY <1>1 DEF q, r
  <1>3. CASE q = 0
    BY <1>2, <1>3 DEF r
  <1>4. CASE q = 1
    BY <1>2, <1>4 DEF r
  <1>5. CASE q > 1
    <2>1. m * q >= m * 2
      BY <1>2, <1>5, SMT
    <2>2. QED  BY <1>2, <2>1
  <1>6. QED  BY <1>2, <1>3, <1>4, <1>5

\* There are more tokens than slots, so one that is not in use is found, and
\* it is not 0.
LEMMA FreshTokenIsFree ==
    ASSUME SlotTyped
    PROVE  Slot!FreshToken \in SlotTokens \ {0} /\ ~Slot!InUse(Slot!FreshToken)
  <1> DEFINE after(i) == (nextToken + i) % TokenCount
             fresh(i) == after(i) # 0 /\ ~Slot!InUse(after(i))
  <1>1. nextToken \in 0..(TokenCount - 1) /\ SlotCount \in Nat \ {0} /\ TokenCount \in Nat
        /\ TokenCount > SlotCount + 1
    BY SlotConstants DEF SlotTyped, SlotTokens
  <1>2. PICK t \in 1..(TokenCount - 1) : ~Slot!InUse(t)
    <2> DEFINE S == 1..(TokenCount - 1)
               f == [u \in S |-> CHOOSE s \in Slot!Slots : slots[s].token = u]
    <2> SUFFICES ASSUME \A u \in S : Slot!InUse(u) PROVE FALSE
      OBVIOUS
    <2>1. \A u \in S : f[u] \in Slot!Slots /\ slots[f[u]].token = u
      BY DEF Slot!InUse
    <2>2. f \in [S -> 1..SlotCount]
      BY <2>1, SlotRange
    <2>3. /\ IsFiniteSet(S) /\ IsFiniteSet(1..SlotCount)
          /\ Cardinality(1..SlotCount) < Cardinality(S)
      BY <1>1, FS_Interval
    <2> HIDE DEF f, S
    <2>4. \E u, v \in S : u # v /\ f[u] = f[v]
      BY <2>2, <2>3, FS_PigeonHole
    <2>5. QED  BY <2>1, <2>4
  <1>3. ASSUME NEW i \in 1..TokenCount
        PROVE  after(i) = IF nextToken + i >= TokenCount THEN nextToken + i - TokenCount
                                                         ELSE nextToken + i
    <2>1. PICK n : n = nextToken + i
      OBVIOUS
    <2>2. n \in Nat /\ n < 2 * TokenCount /\ TokenCount \in Nat \ {0}
      BY <1>1, <2>1
    <2>3. n % TokenCount = IF n >= TokenCount THEN n - TokenCount ELSE n
      BY <2>2, OnceAround
    <2>4. after(i) = IF n >= TokenCount THEN n - TokenCount ELSE n
      BY <2>1, <2>3, Zenon
    <2> HIDE DEF after
    <2>5. QED  BY <1>1, <2>1, <2>2, <2>4
  <1>4. \E i \in 1..TokenCount : after(i) = t
    <2> DEFINE i == IF t > nextToken THEN t - nextToken ELSE t + TokenCount - nextToken
    <2>1. i \in 1..TokenCount
      BY <1>1
    <2>2. after(i) = t
      <3> HIDE DEF after
      <3>1. QED  BY <1>1, <1>3, <2>1
    <2>3. QED  BY <2>1, <2>2
  <1> HIDE DEF after
  <1>5. {i \in 1..TokenCount : fresh(i)} # {}
    BY <1>2, <1>4
  <1>6. \E i \in 1..TokenCount : fresh(i) /\ \A j \in 1..(i-1) : ~fresh(j)
    <2> DEFINE F == {i \in 1..TokenCount : fresh(i)}
    <2>1. F \in SUBSET Nat
      BY <1>1
    <2>2. PICK i \in F : \A j \in F : i <= j
      <3> HIDE DEF F
      <3> QED  BY <1>5, <2>1, LeastNumber DEF F
    <2>3. ASSUME NEW j \in 1..(i-1), fresh(j) PROVE FALSE
      <3>1. j \in 1..TokenCount /\ j < i
        BY <1>1, <2>2
      <3>2. QED  BY <2>2, <2>3, <3>1
    <2>4. QED  BY <2>2, <2>3
  <1> DEFINE k == CHOOSE i \in 1..TokenCount : fresh(i) /\ \A j \in 1..(i-1) : ~fresh(j)
  <1>7. k \in 1..TokenCount /\ fresh(k)
    <2> HIDE DEF fresh
    <2> QED  BY <1>6
  <1>8. Slot!FreshToken = after(k)
    BY DEF Slot!FreshToken, after
  <1> HIDE DEF k
  <1>9. after(k) \in SlotTokens
    BY <1>1, <1>3, <1>7 DEF SlotTokens
  <1>10. QED  BY <1>7, <1>8, <1>9

LEMMA SlotUsed ==
    /\ UsedSlots = {s \in Slot!Slots : slots[s].token # 0}
    /\ Slot!FreeSlots = Slot!Slots \ UsedSlots /\ UsedSlots \subseteq Slot!Slots
  BY DEF UsedSlots, Slot!FreeSlots

\* What a record of a slot or of a block consists of.
LEMMA SlotFields ==
    ASSUME SlotTyped
    PROVE  /\ \A s \in 1..SlotCount : slots[s].token \in SlotTokens
           /\ \A c \in Clients :
                  /\ client[c].token \in SlotTokens /\ client[c].fd \in 0..(SlotCount + 2)
                  /\ client[c].slot \in 0..SlotCount /\ client[c].device \in Devices \cup {Nobody}
                  /\ client[c].pc \in {"rest", "open", "lines", "setup", "commit"}
  BY DEF SlotTyped, SlotRecords, SlotClients

\* An open is under way only while somebody holds the lock.
LEMMA SlotLock ==
    ASSUME SlotInv
    PROVE  /\ \A c \in Clients : client[c].pc # "rest" <=> lock = c
           /\ \A c \in Slot!Holders : c \in Clients /\ lock # c
  BY SlotConstants, SlotFields DEF SlotInv, OpeningPoint, SlotTyped, Slot!Holders

\* An open that gives up closes its descriptor and lets the lock go.
LEMMA SlotGivesUp ==
    ASSUME SlotInv, NEW c \in Clients, client[c].pc # "rest", Slot!Returns(c, 0),
           UNCHANGED <<driver, slots, nextToken>>,
           open' \in [Slot!Fds -> Devices \cup {Nobody}],
           \A g \in Slot!Fds : open'[g] = IF g = client[c].fd THEN Nobody ELSE open[g]
    PROVE  SlotInv'
  <1>1. client' = [client EXCEPT ![c] = Slot!AtRest] /\ lock' = Nobody
    BY DEF Slot!Returns
  <1>2. client'[c] = Slot!AtRest /\ \A e \in Clients : e # c => client'[e] = client[e]
    BY <1>1 DEF SlotInv, SlotTyped
  <1>3. SlotTyped'
    BY <1>1, SlotConstants DEF SlotInv, SlotTyped, Slot!Fds
  <1>4. UsedSlots' = UsedSlots /\ Slot!Fds' = Slot!Fds /\ Slot!FreeSlots' = Slot!FreeSlots
    BY DEF UsedSlots, Slot!FreeSlots, Slot!Slots, Slot!Fds
  <1>5. lock = c /\ \A e \in Clients : e # c => client[e].pc = "rest"
    BY SlotLock
  <1>6. \A s \in UsedSlots : slots[s].fd # client[c].fd
    BY SlotConstants DEF SlotInv, OpeningPoint, SlotsDistinct, Slot!Fds
  <1>7. SlotsDistinct'
    BY <1>4, <1>6 DEF SlotInv, SlotsDistinct
  <1>8. Slot!Holders' = Slot!Holders /\ c \notin Slot!Holders
    BY <1>2, <1>5, SlotConstants DEF Slot!Holders
  <1>9. SlotsHeld'
    <2>1. \A e \in Slot!Holders : client'[e] = client[e]
      BY <1>2, <1>8 DEF Slot!Holders
    <2>2. QED  BY <1>4, <1>8, <2>1 DEF SlotInv, SlotsHeld
  <1>10. DescriptorsOwned'
    BY <1>1, <1>4, <1>5 DEF SlotInv, DescriptorsOwned
  <1>11. \A e \in Clients : OpeningPoint(e)'
    <2> SUFFICES ASSUME NEW e \in Clients PROVE OpeningPoint(e)'
      OBVIOUS
    <2>1. client'[e].pc = "rest" /\ client'[e].fd = 0
      <3>1. CASE e = c
        BY <1>2, <3>1 DEF Slot!AtRest
      <3>2. CASE e # c
        BY <1>2, <1>5, <3>2 DEF SlotInv, OpeningPoint, Opening
      <3>3. QED  BY <3>1, <3>2
    <2>2. QED  BY <2>1 DEF OpeningPoint, Opening
  <1>12. QED  BY <1>1, <1>3, <1>7, <1>9, <1>10, <1>11 DEF SlotInv

\* An open goes on with a descriptor that is new, or is its own.
LEMMA SlotGoesOn ==
    ASSUME SlotInv, NEW c \in Clients, client[c].pc # "rest", NEW k \in SlotClients,
           NEW f \in Slot!Fds,
           client' = [client EXCEPT ![c] = k], k.pc \in Opening, k.fd = f,
           k.slot = client[c].slot, k.device = client[c].device,
           open[f] = Nobody \/ (client[c].pc \in Opening /\ f = client[c].fd),
           UNCHANGED <<driver, slots, nextToken, lock>>,
           open' \in [Slot!Fds -> Devices \cup {Nobody}],
           \A g \in Slot!Fds :
               open'[g] = IF g = f THEN client[c].device
                          ELSE IF g = client[c].fd THEN Nobody ELSE open[g]
    PROVE  SlotInv'
  <1>1. client'[c] = k /\ \A e \in Clients : e # c => client'[e] = client[e]
    BY DEF SlotInv, SlotTyped
  <1>2. SlotTyped'
    BY SlotConstants DEF SlotInv, SlotTyped, Slot!Fds
  <1>3. UsedSlots' = UsedSlots /\ Slot!Fds' = Slot!Fds /\ Slot!FreeSlots' = Slot!FreeSlots
    BY DEF UsedSlots, Slot!FreeSlots, Slot!Slots, Slot!Fds
  <1>4. lock = c /\ lock # Nobody /\ \A e \in Clients : e # c => client[e].pc = "rest"
    BY SlotLock, SlotConstants
  <1>5. /\ \A s \in UsedSlots : slots[s].fd # client[c].fd /\ slots[s].fd # f
        /\ client[c].device \in Devices /\ client[c].slot \in Slot!FreeSlots
    BY SlotConstants DEF SlotInv, OpeningPoint, SlotsDistinct, Slot!Fds
  <1>6. SlotsDistinct'
    BY <1>3, <1>5 DEF SlotInv, SlotsDistinct
  <1>7. Slot!Holders' = Slot!Holders /\ c \notin Slot!Holders
    BY <1>1, <1>4, SlotConstants DEF Slot!Holders, Opening
  <1>8. SlotsHeld'
    <2>1. \A e \in Slot!Holders : client'[e] = client[e]
      BY <1>1, <1>7 DEF Slot!Holders
    <2>2. QED  BY <1>3, <1>7, <2>1 DEF SlotInv, SlotsHeld
  <1>9. DescriptorsOwned'
    BY <1>1, <1>3, <1>4 DEF SlotInv, DescriptorsOwned
  <1>10. \A e \in Clients : OpeningPoint(e)'
    <2> SUFFICES ASSUME NEW e \in Clients PROVE OpeningPoint(e)'
      OBVIOUS
    <2>1. CASE e = c
      BY <1>1, <1>3, <1>4, <1>5, <2>1 DEF OpeningPoint, Opening
    <2>2. CASE e # c
      BY <1>1, <1>4, <2>2 DEF SlotInv, OpeningPoint, Opening
    <2>3. QED  BY <2>1, <2>2
  <1>11. QED  BY <1>1, <1>2, <1>4, <1>6, <1>8, <1>9, <1>10 DEF SlotInv, Opening

\* An open takes the lock and looks at a free slot.
LEMMA SlotCheckStep ==
    ASSUME SlotInv, NEW c \in Clients, NEW d \in Devices, Slot!OpenCheck(c, d)
    PROVE  SlotInv'
  <1>1. PICK k : k = [Slot!AtRest EXCEPT !.pc = "open", !.device = d, !.slot = Slot!SlotTaken]
    OBVIOUS
  <1>2. /\ client' = [client EXCEPT ![c] = k] /\ lock' = c /\ client[c] = Slot!AtRest
        /\ lock = Nobody /\ Slot!FreeSlots # {} /\ UNCHANGED <<driver, slots, nextToken, open>>
    BY <1>1 DEF Slot!OpenCheck
  <1>3. Slot!SlotTaken \in Slot!FreeSlots /\ Slot!SlotTaken \in 0..SlotCount
    <2>1. Slot!SlotTaken \in Slot!FreeSlots
      BY <1>2, SlotTakenIsFree
    <2>2. Slot!FreeSlots \subseteq 1..SlotCount
      BY SlotRange DEF Slot!FreeSlots
    <2>3. QED  BY <2>1, <2>2, SlotConstants
  <1>4. /\ k \in SlotClients /\ k.pc = "open" /\ k.device = d /\ k.slot = Slot!SlotTaken
        /\ k.fd = 0
    BY <1>1, <1>3, SlotConstants DEF SlotClients, SlotTokens, Slot!AtRest
  <1>5. client'[c] = k /\ \A e \in Clients : e # c => client'[e] = client[e]
    BY <1>2 DEF SlotInv, SlotTyped
  <1>6. SlotTyped'
    BY <1>2, <1>4, SlotConstants DEF SlotInv, SlotTyped, Slot!Fds
  <1>7. UsedSlots' = UsedSlots /\ Slot!Fds' = Slot!Fds /\ Slot!FreeSlots' = Slot!FreeSlots
    BY <1>2 DEF UsedSlots, Slot!FreeSlots, Slot!Slots, Slot!Fds
  <1>8. \A e \in Clients : client[e].pc = "rest"
    BY <1>2, SlotLock, SlotConstants
  <1>9. Slot!Holders' = Slot!Holders /\ c \notin Slot!Holders
    BY <1>2, <1>4, <1>5, SlotConstants DEF Slot!Holders
  <1>10. SlotsHeld'
    <2>1. \A e \in Slot!Holders : client'[e] = client[e]
      BY <1>5, <1>9 DEF Slot!Holders
    <2>2. QED  BY <1>2, <1>7, <1>9, <2>1 DEF SlotInv, SlotsHeld
  <1>11. SlotsDistinct' /\ DescriptorsOwned'
    BY <1>2, <1>7 DEF SlotInv, SlotsDistinct, DescriptorsOwned
  <1>12. \A e \in Clients : OpeningPoint(e)'
    <2> SUFFICES ASSUME NEW e \in Clients PROVE OpeningPoint(e)'
      OBVIOUS
    <2>1. CASE e = c
      BY <1>2, <1>3, <1>4, <1>5, <1>7, <2>1 DEF OpeningPoint, Opening
    <2>2. CASE e # c
      BY <1>5, <1>8, <2>2 DEF SlotInv, OpeningPoint, Opening
    <2>3. QED  BY <2>1, <2>2
  <1>13. QED  BY <1>2, <1>4, <1>5, <1>6, <1>10, <1>11, <1>12 DEF SlotInv

\* The system calls of an open.
LEMMA SlotOpenSteps ==
    ASSUME SlotInv, NEW c \in Clients,
           Slot!OpenDevice(c) \/ Slot!RequestLines(c) \/ Slot!SetUp(c)
    PROVE  SlotInv'
  <1>1. /\ client[c].pc # "rest" /\ UNCHANGED <<driver, slots, nextToken>>
        /\ client[c].device \in Devices /\ client[c] \in SlotClients
        /\ client[c].fd # 0 => client[c].pc \in Opening /\ client[c].fd \in Slot!Fds
                               /\ open[client[c].fd] = client[c].device
        /\ open \in [Slot!Fds -> Devices \cup {Nobody}]
    BY DEF Slot!OpenDevice, Slot!RequestLines, Slot!SetUp, SlotInv, OpeningPoint, SlotTyped
  <1>2. CASE Slot!Returns(c, 0) /\ UNCHANGED open /\ client[c].fd = 0
    <2>1. \A g \in Slot!Fds : g # client[c].fd
      BY <1>2, SlotConstants DEF Slot!Fds
    <2>2. QED  BY <1>1, <1>2, <2>1, SlotGivesUp
  <1>3. CASE Slot!Returns(c, 0) /\ open' = [open EXCEPT ![client[c].fd] = Nobody]
    BY <1>1, <1>3, SlotGivesUp
  <1>4. CASE Slot!OpenDevice(c)
    <2>1. client[c].pc = "open" /\ client[c].fd = 0
      BY <1>4 DEF Slot!OpenDevice, SlotInv, OpeningPoint, Opening
    <2>2. CASE Slot!Returns(c, 0) /\ UNCHANGED open
      BY <1>2, <2>1, <2>2
    <2>3. ASSUME NEW f \in Slot!Fds, Slot!NewFd(f),
                 open' = [open EXCEPT ![f] = client[c].device],
                 client' = [client EXCEPT ![c].pc = IF driver = "dio" THEN "lines" ELSE "setup",
                                          ![c].fd = f],
                 UNCHANGED lock
          PROVE  SlotInv'
      <3>1. PICK p : p = IF driver = "dio" THEN "lines" ELSE "setup"
        OBVIOUS
      <3>2. PICK k : k = [client[c] EXCEPT !.pc = p, !.fd = f]
        OBVIOUS
      <3>3. /\ k \in SlotClients /\ k.pc \in Opening /\ k.fd = f /\ k.slot = client[c].slot
            /\ k.device = client[c].device
        <4>1. f \in 0..(SlotCount + 2) /\ p \in {"lines", "setup"}
          BY <3>1, SlotConstants DEF Slot!Fds
        <4>2. QED  BY <1>1, <3>2, <4>1 DEF SlotClients, Opening
      <3>4. client' = [client EXCEPT ![c] = k]
        BY <1>1, <2>3, <3>1, <3>2 DEF SlotInv, SlotTyped
      <3>5. open[f] = Nobody /\ \A g \in Slot!Fds : g # client[c].fd
        BY <2>1, <2>3, SlotConstants DEF Slot!NewFd, Slot!Fds
      <3>6. /\ open' \in [Slot!Fds -> Devices \cup {Nobody}]
            /\ \A g \in Slot!Fds : open'[g] = IF g = f THEN client[c].device
                                  ELSE IF g = client[c].fd THEN Nobody ELSE open[g]
        BY <1>1, <2>3, <3>5
      <3>7. QED  BY <1>1, <2>3, <3>3, <3>4, <3>5, <3>6, SlotGoesOn
    <2>4. QED  BY <1>4, <2>2, <2>3 DEF Slot!OpenDevice
  <1>5. CASE Slot!RequestLines(c)
    <2>1. client[c].pc = "lines" /\ client[c].fd \in Slot!Fds /\ open[client[c].fd] # Nobody
      BY <1>5, SlotConstants DEF Slot!RequestLines, SlotInv, OpeningPoint, Opening
    <2>2. ASSUME NEW f \in Slot!Fds, Slot!NewFd(f),
                 open' = [open EXCEPT ![f] = client[c].device, ![client[c].fd] = Nobody],
                 client' = [client EXCEPT ![c].pc = "commit", ![c].fd = f],
                 UNCHANGED lock
          PROVE  SlotInv'
      <3>1. PICK k : k = [client[c] EXCEPT !.pc = "commit", !.fd = f]
        OBVIOUS
      <3>2. /\ k \in SlotClients /\ k.pc \in Opening /\ k.fd = f /\ k.slot = client[c].slot
            /\ k.device = client[c].device
        <4>1. f \in 0..(SlotCount + 2)
          BY SlotConstants DEF Slot!Fds
        <4>2. QED  BY <1>1, <3>1, <4>1 DEF SlotClients, Opening
      <3>3. client' = [client EXCEPT ![c] = k]
        BY <1>1, <2>2, <3>1 DEF SlotInv, SlotTyped
      <3>4. open[f] = Nobody /\ f # client[c].fd
        BY <2>1, <2>2 DEF Slot!NewFd
      <3>5. /\ open' \in [Slot!Fds -> Devices \cup {Nobody}]
            /\ \A g \in Slot!Fds : open'[g] = IF g = f THEN client[c].device
                                  ELSE IF g = client[c].fd THEN Nobody ELSE open[g]
        BY <1>1, <2>1, <2>2, <3>4
      <3>6. UNCHANGED lock
        BY <2>2
      <3>7. QED  BY <1>1, <3>2, <3>3, <3>4, <3>5, <3>6, SlotGoesOn
    <2>3. QED  BY <1>3, <1>5, <2>2 DEF Slot!RequestLines
  <1>6. CASE Slot!SetUp(c)
    <2>1. client[c].pc = "setup" /\ client[c].fd \in Slot!Fds
      BY <1>6 DEF Slot!SetUp, SlotInv, OpeningPoint, Opening
    <2>2. ASSUME client' = [client EXCEPT ![c].pc = "commit"], UNCHANGED <<open, lock>>
          PROVE  SlotInv'
      <3>1. PICK k : k = [client[c] EXCEPT !.pc = "commit"]
        OBVIOUS
      <3>2. /\ k \in SlotClients /\ k.pc \in Opening /\ k.fd = client[c].fd
            /\ k.slot = client[c].slot /\ k.device = client[c].device
        BY <1>1, <3>1 DEF SlotClients, Opening
      <3>3. client' = [client EXCEPT ![c] = k]
        BY <1>1, <2>2, <3>1 DEF SlotInv, SlotTyped
      <3>4. client[c].pc \in Opening /\ open[client[c].fd] = client[c].device
        BY <2>1 DEF SlotInv, OpeningPoint, Opening
      <3>5. PICK f \in Slot!Fds : f = client[c].fd
        BY <2>1
      <3>6. /\ open' \in [Slot!Fds -> Devices \cup {Nobody}]
            /\ \A g \in Slot!Fds : open'[g] = IF g = f THEN client[c].device
                                  ELSE IF g = client[c].fd THEN Nobody ELSE open[g]
        BY <1>1, <2>1, <2>2, <3>4, <3>5
      <3>7. QED  BY <1>1, <2>2, <3>2, <3>3, <3>4, <3>5, <3>6, SlotGoesOn
    <2>3. QED  BY <1>3, <1>6, <2>2 DEF Slot!SetUp
  <1>7. QED  BY <1>4, <1>5, <1>6

\* The open ends: the slot is in use under a token that no other slot has.
LEMMA SlotCommitStep ==
    ASSUME SlotInv, NEW c \in Clients, Slot!Commit(c)
    PROVE  SlotInv'
  <1>1. PICK t : t = Slot!FreshToken
    OBVIOUS
  <1>2. PICK r : r = client[c].slot
    OBVIOUS
  <1>3. PICK rec : rec = [token |-> t, fd |-> client[c].fd, device |-> client[c].device]
    OBVIOUS
  <1>4. PICK k : k = [Slot!AtRest EXCEPT !.token = t, !.device = client[c].device]
    OBVIOUS
  <1>5. t \in SlotTokens /\ t # 0 /\ ~Slot!InUse(t)
    BY <1>1, FreshTokenIsFree DEF SlotInv
  <1>6. /\ client[c].pc = "commit" /\ nextToken' = t /\ slots' = [slots EXCEPT ![r] = rec]
        /\ client' = [client EXCEPT ![c] = k] /\ lock' = Nobody /\ UNCHANGED <<driver, open>>
    BY <1>1, <1>2, <1>3, <1>4, <1>5 DEF Slot!Commit, Slot!Returns
  <1>7. /\ lock = c /\ c # Nobody /\ r \in Slot!FreeSlots /\ r \in Slot!Slots /\ r \in 1..SlotCount
        /\ client[c].device \in Devices /\ client[c].fd \in Slot!Fds
        /\ open[client[c].fd] = client[c].device
        /\ \A s \in UsedSlots : slots[s].fd # client[c].fd
    BY <1>2, <1>6, SlotRange, SlotConstants
       DEF SlotInv, OpeningPoint, Opening, Slot!FreeSlots
  <1>8. /\ rec \in SlotRecords /\ rec.token = t /\ rec.fd = client[c].fd
        /\ rec.device = client[c].device
    BY <1>3, <1>5, <1>7 DEF SlotRecords, Slot!Fds
  <1>9. /\ k \in SlotClients /\ k.pc = "rest" /\ k.token = t /\ k.device = client[c].device
        /\ k.fd = 0
    BY <1>4, <1>5, <1>7, SlotConstants DEF SlotClients, Slot!AtRest
  <1>10. /\ client'[c] = k /\ \A e \in Clients : e # c => client'[e] = client[e]
         /\ slots'[r] = rec /\ \A s \in 1..SlotCount : s # r => slots'[s] = slots[s]
    BY <1>6, <1>7 DEF SlotInv, SlotTyped
  <1>11. SlotTyped'
    BY <1>5, <1>6, <1>8, <1>9 DEF SlotInv, SlotTyped, Slot!Fds
  <1>12. /\ UsedSlots' = UsedSlots \cup {r} /\ r \notin UsedSlots
         /\ UsedSlots \subseteq 1..SlotCount
         /\ Slot!Fds' = Slot!Fds
    <2>1. Slot!Slots' = Slot!Slots /\ Slot!Fds' = Slot!Fds
      BY <1>6 DEF Slot!Slots, Slot!Fds
    <2>2. UsedSlots' = {s \in Slot!Slots : slots'[s].token # 0}
      BY <2>1 DEF UsedSlots, Slot!FreeSlots
    <2>3. QED  BY <1>5, <1>7, <1>8, <1>10, <2>1, <2>2, SlotUsed, SlotRange
  <1>13. \A s \in UsedSlots : slots'[s] = slots[s] /\ slots[s].token # t
    BY <1>5, <1>10, <1>12, SlotUsed DEF Slot!InUse
  <1>14. SlotsDistinct'
    BY <1>6, <1>7, <1>8, <1>10, <1>12, <1>13 DEF SlotInv, SlotsDistinct
  <1>15. Slot!Holders' = Slot!Holders \cup {c} /\ c \notin Slot!Holders
    BY <1>5, <1>6, <1>9, <1>10 DEF Slot!Holders
  <1>16. SlotsHeld'
    <2>1. \A e \in Slot!Holders : client'[e] = client[e] /\ client[e].token # t
      <3>1. \A e \in Slot!Holders : client'[e] = client[e]
        BY <1>10, <1>15 DEF Slot!Holders
      <3>2. QED  BY <1>13, <3>1 DEF SlotInv, SlotsHeld
    <2>2. (\A e \in Slot!Holders : \E s \in UsedSlots :
               slots[s].token = client[e].token /\ slots[s].device = client[e].device)'
      <3> SUFFICES ASSUME NEW e \in Slot!Holders \cup {c}
                   PROVE  \E s \in UsedSlots \cup {r} :
                              /\ slots'[s].token = client'[e].token
                              /\ slots'[s].device = client'[e].device
        BY <1>12, <1>15
      <3>1. CASE e = c
        BY <1>8, <1>9, <1>10, <3>1
      <3>2. CASE e \in Slot!Holders
        <4>1. PICK s \in UsedSlots : /\ slots[s].token = client[e].token
                                     /\ slots[s].device = client[e].device
          BY <3>2 DEF SlotInv, SlotsHeld
        <4>2. QED  BY <1>13, <2>1, <3>2, <4>1
      <3>3. QED  BY <3>1, <3>2
    <2>3. (\A d, e \in Slot!Holders : client[d].token = client[e].token => d = e)'
      BY <1>9, <1>10, <1>15, <2>1 DEF SlotInv, SlotsHeld
    <2>4. (\A s \in UsedSlots : \E e \in Slot!Holders : client[e].token = slots[s].token)'
      BY <1>8, <1>9, <1>10, <1>12, <1>13, <1>15, <2>1 DEF SlotInv, SlotsHeld
    <2>5. QED  BY <2>2, <2>3, <2>4 DEF SlotsHeld
  <1>17. DescriptorsOwned'
    BY <1>6, <1>7, <1>8, <1>10, <1>12, <1>13 DEF SlotInv, DescriptorsOwned
  <1>18. \A e \in Clients : OpeningPoint(e)'
    <2> SUFFICES ASSUME NEW e \in Clients PROVE OpeningPoint(e)'
      OBVIOUS
    <2>1. client'[e].pc = "rest" /\ client'[e].fd = 0
      <3>1. CASE e # c
        BY <1>7, <1>10, <3>1, SlotLock DEF SlotInv, OpeningPoint, Opening
      <3>2. QED  BY <1>9, <1>10, <3>1
    <2>2. QED  BY <2>1 DEF OpeningPoint, Opening
  <1>19. QED  BY <1>6, <1>11, <1>14, <1>16, <1>17, <1>18 DEF SlotInv

\* A close frees the slot of the block's token, which is the block's own.
LEMMA SlotCloseStep ==
    ASSUME SlotInv, NEW c \in Clients, Slot!Close(c)
    PROVE  SlotInv'
  <1>1. /\ c \in Slot!Holders /\ client[c].token # 0 /\ lock = Nobody
        /\ client' = [client EXCEPT ![c] = Slot!AtRest] /\ UNCHANGED <<driver, lock, nextToken>>
    BY DEF Slot!Close, Slot!Holders
  <1>2. PICK r \in UsedSlots : slots[r].token = client[c].token
    BY <1>1 DEF SlotInv, SlotsHeld
  <1>3. /\ r \in Slot!Slots /\ r \in 1..SlotCount /\ UsedSlots \subseteq 1..SlotCount
        /\ slots[r].fd \in Slot!Fds
    BY <1>2, SlotRange, SlotUsed DEF SlotInv, SlotsDistinct
  <1>4. Slot!Found(client[c].token) = {r}
    BY <1>1, <1>2, <1>3, SlotUsed DEF Slot!Found, SlotInv, SlotsDistinct
  <1>5. /\ open' \in [Slot!Fds -> Devices \cup {Nobody}]
        /\ \A f \in Slot!Fds : open'[f] = IF slots[r].fd = f THEN Nobody ELSE open[f]
    <2>1. open' = [f \in Slot!Fds |-> IF slots[r].fd = f THEN Nobody ELSE open[f]]
      BY <1>4 DEF Slot!Close
    <2>2. QED  BY <2>1 DEF SlotInv, SlotTyped
  <1>6. /\ slots' \in [1..SlotCount -> SlotRecords]
        /\ \A s \in 1..SlotCount : slots'[s] = IF s = r THEN Slot!Free ELSE slots[s]
    <2>1. slots' = [s \in 1..SlotCount |-> IF s = r THEN Slot!Free ELSE slots[s]]
      BY <1>4 DEF Slot!Close
    <2>2. QED  BY <2>1, SlotConstants DEF SlotInv, SlotTyped
  <1>7. client'[c] = Slot!AtRest /\ \A e \in Clients : e # c => client'[e] = client[e]
    BY <1>1 DEF SlotInv, SlotTyped
  <1>8. SlotTyped'
    BY <1>1, <1>5, <1>6, SlotConstants DEF SlotInv, SlotTyped, Slot!Fds
  <1>9. /\ UsedSlots' = UsedSlots \ {r} /\ Slot!Fds' = Slot!Fds
        /\ \A s \in UsedSlots : s # r => slots'[s] = slots[s]
    <2>1. Slot!Slots' = Slot!Slots /\ Slot!Fds' = Slot!Fds
      BY <1>1 DEF Slot!Slots, Slot!Fds
    <2>2. UsedSlots' = {s \in Slot!Slots : slots'[s].token # 0}
      BY <2>1 DEF UsedSlots, Slot!FreeSlots
    <2>3. QED  BY <1>3, <1>6, <2>1, <2>2, SlotUsed, SlotRange, SlotConstants
  <1>10. \A s \in UsedSlots : s # r => slots[s].fd # slots[r].fd /\ slots[s].token # slots[r].token
    BY <1>2 DEF SlotInv, SlotsDistinct
  <1>11. SlotsDistinct'
    BY <1>3, <1>5, <1>9, <1>10 DEF SlotInv, SlotsDistinct
  <1>12. Slot!Holders' = Slot!Holders \ {c}
    BY <1>7, SlotConstants DEF Slot!Holders
  <1>13. SlotsHeld'
    <2>1. \A e \in Slot!Holders :
              e # c => client'[e] = client[e] /\ client[e].token # client[c].token
      BY <1>1, <1>7 DEF SlotInv, SlotsHeld, Slot!Holders
    <2>2. (\A e \in Slot!Holders : \E s \in UsedSlots :
               slots[s].token = client[e].token /\ slots[s].device = client[e].device)'
      BY <1>2, <1>9, <1>12, <2>1 DEF SlotInv, SlotsHeld
    <2>3. (\A d, e \in Slot!Holders : client[d].token = client[e].token => d = e)'
      BY <1>12, <2>1 DEF SlotInv, SlotsHeld
    <2>4. (\A s \in UsedSlots : \E e \in Slot!Holders : client[e].token = slots[s].token)'
      BY <1>2, <1>9, <1>10, <1>12, <2>1 DEF SlotInv, SlotsHeld
    <2>5. QED  BY <2>2, <2>3, <2>4 DEF SlotsHeld
  <1>14. DescriptorsOwned'
    BY <1>1, <1>5, <1>9 DEF SlotInv, DescriptorsOwned
  <1>15. \A e \in Clients : OpeningPoint(e)'
    <2> SUFFICES ASSUME NEW e \in Clients PROVE OpeningPoint(e)'
      OBVIOUS
    <2>1. client'[e].pc = "rest" /\ client'[e].fd = 0
      <3>1. CASE e = c
        BY <1>7, <3>1 DEF Slot!AtRest
      <3>2. CASE e # c
        BY <1>1, <1>7, <3>2, SlotLock, SlotConstants DEF SlotInv, OpeningPoint, Opening
      <3>3. QED  BY <3>1, <3>2
    <2>2. QED  BY <2>1 DEF OpeningPoint, Opening
  <1>16. QED  BY <1>1, <1>8, <1>11, <1>13, <1>14, <1>15 DEF SlotInv

LEMMA SlotNextInv == SlotInv /\ Slot!Next => SlotInv'
  BY SlotCheckStep, SlotOpenSteps, SlotCommitStep, SlotCloseStep DEF Slot!Next

LEMMA SlotInitInv == Slot!Init => SlotInv
  <1> SUFFICES ASSUME Slot!Init PROVE SlotInv
    OBVIOUS
  <1>1. /\ driver \in {"serial", "dio", "ethercat"} /\ lock = Nobody
        /\ slots = [s \in 1..SlotCount |-> Slot!Free] /\ nextToken = 0
        /\ open = [f \in Slot!Fds |-> Nobody] /\ client = [c \in Clients |-> Slot!AtRest]
    BY OwnershipAssumption DEF Slot!Init, Slot!SlotAssumption
  <1>2. SlotTyped
    BY <1>1, SlotConstants DEF SlotTyped, SlotTokens
  <1>3. UsedSlots = {} /\ Slot!Holders = {}
    BY <1>1, SlotUsed, SlotRange, SlotConstants DEF Slot!Holders
  <1>4. SlotsDistinct /\ SlotsHeld /\ DescriptorsOwned
    BY <1>1, <1>3 DEF SlotsDistinct, SlotsHeld, DescriptorsOwned
  <1>5. \A c \in Clients : OpeningPoint(c)
    BY <1>1 DEF OpeningPoint, Opening, Slot!AtRest
  <1>6. QED  BY <1>1, <1>2, <1>4, <1>5 DEF SlotInv

\* What the invariant is for.
LEMMA SlotSafe ==
    ASSUME SlotInv
    PROVE  Slot!ReachesOwnDevice /\ Slot!NothingLeaked
  <1>1. \A s \in UsedSlots : Slot!Found(slots[s].token) = {s}
    BY SlotUsed DEF Slot!Found, SlotInv, SlotsDistinct
  <1>2. Slot!ReachesOwnDevice
    <2> SUFFICES ASSUME lock = Nobody, NEW c \in Slot!Holders
                 PROVE  \E f \in Slot!Fds :
                            /\ Slot!Reached(client[c].token) = {f}
                            /\ open[f] = client[c].device
                            /\ \A e \in Slot!Holders \ {c} : f \notin Slot!Reached(client[e].token)
      BY DEF Slot!ReachesOwnDevice
    <2>1. PICK s \in UsedSlots : /\ slots[s].token = client[c].token
                                 /\ slots[s].device = client[c].device
      BY DEF SlotInv, SlotsHeld
    <2>2. /\ slots[s].fd \in Slot!Fds /\ open[slots[s].fd] = client[c].device
          /\ Slot!Reached(client[c].token) = {slots[s].fd}
      BY <1>1, <2>1 DEF SlotInv, SlotsDistinct, Slot!Reached
    <2>3. ASSUME NEW e \in Slot!Holders \ {c} PROVE slots[s].fd \notin Slot!Reached(client[e].token)
      <3>1. PICK r \in UsedSlots : slots[r].token = client[e].token
        BY DEF SlotInv, SlotsHeld
      <3>2. Slot!Reached(client[e].token) = {slots[r].fd}
        BY <1>1, <3>1 DEF Slot!Reached
      <3>3. client[e].token # client[c].token
        BY DEF SlotInv, SlotsHeld
      <3>4. slots[s].fd # slots[r].fd
        BY <2>1, <3>1, <3>3 DEF SlotInv, SlotsDistinct
      <3>5. QED  BY <3>2, <3>4
    <2>4. QED  BY <2>2, <2>3
  <1>3. Cardinality(UsedSlots) = Cardinality(Slot!Holders)
    <2> DEFINE g == [c \in Slot!Holders |->
                        CHOOSE s \in UsedSlots : slots[s].token = client[c].token]
    <2>1. \A c \in Slot!Holders : g[c] \in UsedSlots /\ slots[g[c]].token = client[c].token
      BY DEF SlotInv, SlotsHeld
    <2>2. g \in [Slot!Holders -> UsedSlots]
      BY <2>1
    <2> HIDE DEF g
    <2>3. \A c, d \in Slot!Holders : g[c] = g[d] => c = d
      BY <2>1 DEF SlotInv, SlotsHeld
    <2>4. \A s \in UsedSlots : \E c \in Slot!Holders : g[c] = s
      <3> SUFFICES ASSUME NEW s \in UsedSlots PROVE \E c \in Slot!Holders : g[c] = s
        OBVIOUS
      <3>1. PICK c \in Slot!Holders : client[c].token = slots[s].token
        BY DEF SlotInv, SlotsHeld
      <3>2. g[c] = s
        BY <2>1, <3>1 DEF SlotInv, SlotsDistinct
      <3>3. QED  BY <3>2
    <2>5. g \in Bijection(Slot!Holders, UsedSlots)
      BY <2>2, <2>3, <2>4, Fun_IsBij
    <2>6. IsFiniteSet(Slot!Holders)
      BY SlotConstants, FS_Subset DEF Slot!Holders
    <2>7. QED  BY <2>5, <2>6, FS_Bijection DEF ExistsBijection
  <1>4. Slot!NothingLeaked
    BY <1>3, SlotUsed, SlotFiniteSets DEF Slot!NothingLeaked, SlotInv, DescriptorsOwned, UsedSlots
  <1>5. QED  BY <1>2, <1>4

-----------------------------------------------------------------------------
(* The union of the parts.                                                 *)

\* The part a behaviour is about keeps its invariant; the variables of the
\* others do not move.
OwnInv ==
    /\ part = "can" => CanInv
    /\ part = "net" => NetInv
    /\ part = "slot" => SlotInv
    /\ part = "page" => PageInv

LEMMA OwnInitInv == Init => OwnInv
  <1>1. ASSUME part = "can", Can!Init PROVE OwnInv
    BY <1>1, CanInitInv DEF OwnInv
  <1>2. ASSUME part = "net", Net!Init PROVE OwnInv
    BY <1>2, NetInitInv DEF OwnInv
  <1>3. ASSUME part = "slot", Slot!Init PROVE OwnInv
    BY <1>3, SlotInitInv DEF OwnInv
  <1>4. ASSUME part = "page", Page!Init PROVE OwnInv
    BY <1>4, PageInitInv DEF OwnInv
  <1>5. QED  BY <1>1, <1>2, <1>3, <1>4 DEF Init

LEMMA OwnNextInv == OwnInv /\ Next => OwnInv'
  <1> SUFFICES ASSUME OwnInv, Next PROVE OwnInv'
    OBVIOUS
  <1>1. CASE part = "can" /\ Can!Next /\ UNCHANGED NotCan
    <2>1. part' = "can"
      BY <1>1 DEF NotCan
    <2>2. QED  BY <1>1, <2>1, CanNextInv DEF OwnInv
  <1>2. CASE part = "net" /\ Net!Next /\ UNCHANGED NotNet
    <2>1. part' = "net"
      BY <1>2 DEF NotNet
    <2>2. QED  BY <1>2, <2>1, NetNextInv DEF OwnInv
  <1>3. CASE part = "slot" /\ Slot!Next /\ UNCHANGED NotSlot
    <2>1. part' = "slot"
      BY <1>3 DEF NotSlot
    <2>2. QED  BY <1>3, <2>1, SlotNextInv DEF OwnInv
  <1>4. CASE part = "page" /\ Page!Next /\ UNCHANGED NotPage
    <2>1. part' = "page"
      BY <1>4 DEF NotPage
    <2>2. QED  BY <1>4, <2>1, PageNextInv DEF OwnInv
  <1>5. QED  BY <1>1, <1>2, <1>3, <1>4 DEF Next

LEMMA OwnStutterInv == OwnInv /\ UNCHANGED vars => OwnInv'
  <1> SUFFICES ASSUME OwnInv, UNCHANGED vars PROVE OwnInv'
    OBVIOUS
  <1>1. UNCHANGED <<part, life, sdk, up, running, channel, token, kind, status, error, tx, rx,
                    conns, taken, line, got, stop, nextToken, caller, worker>>
    BY DEF vars, canOnly, netOnly
  <1>2. UNCHANGED <<driver, lock, slots, open, client, conn, job, refreshing, queued, boxes,
                    control, guard, dialog, closing>>
    BY DEF vars, slotOnly, pageOnly
  <1>3. CanInv => CanInv'
    <2> SUFFICES ASSUME CanInv PROVE CanInv'
      OBVIOUS
    <2>1. CanTyped' /\ WorkerPoint' /\ FramesOwned'
      BY <1>1 DEF CanInv, CanTyped, WorkerPoint, FramesOwned, CanChannels, CanCallers, CanWorkers,
                  Can!Channels
    <2>2. \A c \in Callers : CallerPoint(c)'
      BY <1>1 DEF CanInv, CallerPoint
    <2>3. QED  BY <2>1, <2>2 DEF CanInv
  <1>4. NetInv => NetInv'
    <2> SUFFICES ASSUME NetInv PROVE NetInv'
      OBVIOUS
    <2>1. NetTyped' /\ NetPoint' /\ NetSending'
      BY <1>1 DEF NetInv, NetTyped, NetPoint, NetSending, OnWire
    <2>2. NetReceiving'
      BY <1>1 DEF NetInv, NetReceiving, LastRead, ReadBefore, Follows, Net!Tcp
    <2>3. QED  BY <2>1, <2>2 DEF NetInv
  <1>5. SlotInv => SlotInv'
    <2> SUFFICES ASSUME SlotInv PROVE SlotInv'
      OBVIOUS
    <2>1. /\ UsedSlots' = UsedSlots /\ Slot!Fds' = Slot!Fds /\ Slot!FreeSlots' = Slot!FreeSlots
          /\ Slot!Holders' = Slot!Holders
      BY <1>1, <1>2 DEF UsedSlots, Slot!Holders, Slot!FreeSlots, Slot!Slots, Slot!Fds
    <2>2. SlotTyped' /\ SlotsDistinct' /\ DescriptorsOwned'
      BY <1>1, <1>2, <2>1 DEF SlotInv, SlotTyped, SlotsDistinct, DescriptorsOwned
    <2>3. SlotsHeld' /\ \A c \in Clients : OpeningPoint(c)'
      BY <1>1, <1>2, <2>1 DEF SlotInv, SlotsHeld, OpeningPoint
    <2>4. QED  BY <1>2, <2>2, <2>3 DEF SlotInv
  <1>6. PageInv => PageInv'
    BY <1>1, <1>2 DEF PageInv, PageTyped, PageOne, PageBehindBox, Page!ControlIsHeld, Page!Working
  <1>7. QED  BY <1>1, <1>3, <1>4, <1>5, <1>6 DEF OwnInv

LEMMA OwnInvariant == Spec => []OwnInv
  <1>1. OwnInv /\ [Next]_vars => OwnInv'
    BY OwnNextInv, OwnStutterInv
  <1>2. QED  BY <1>1, OwnInitInv, PTL DEF Spec

\* A CAN frame, queued or received, is that of the owner its channel has now,
\* and never two threads are in the vendor library, nor one when it is not
\* loaded: for every number of callers, channels and queued frames
\* (simrt_tc1013_can.c: configure, release, send, receive and the worker).
THEOREM ChannelsAreExclusive == Spec => []ChannelsExclusive
  <1>1. OwnInv => ChannelsExclusive
    BY CanSafe DEF OwnInv, ChannelsExclusive
  <1>2. QED  BY <1>1, OwnInvariant, PTL

\* A message goes out whole on the connection it was queued for, and what is
\* read is the received stream without a gap: for every capacity, size of a
\* message and number of connections (the network worker in its three modes).
THEOREM StreamsAreWhole == Spec => []StreamsWhole
  <1>1. OwnInv => StreamsWhole
    BY NetSafe DEF OwnInv, StreamsWhole
  <1>2. QED  BY <1>1, OwnInvariant, PTL

\* A block reaches the device it opened and no other, however often the token
\* counter wraps and descriptor numbers come back, and nothing stays open that
\* nobody can close: for every number of slots, blocks and devices (open and
\* close of the serial, DIO and EtherCAT drivers).
THEOREM BlocksAreIsolated == Spec => []BlocksIsolated
  <1>1. OwnInv => BlocksIsolated
    BY SlotSafe DEF OwnInv, BlocksIsolated
  <1>2. QED  BY <1>1, OwnInvariant, PTL

\* While the target page does not close it is reserved exactly while a guard or
\* the user has to answer or a reserved job is queued or runs, and an operation
\* is queued only behind a background job or an open error box: for every
\* number of connections, failures and boxes (_submit with complete, _deliver,
\* _guarded_stop, delete_model and close_workspace).
THEOREM ControlAlwaysHeld == Spec => []ControlIsHeld
  <1>1. OwnInv => ControlIsHeld
    BY DEF OwnInv, PageInv, ControlIsHeld
  <1>2. QED  BY <1>1, OwnInvariant, PTL

\* Once the target page closes, no step starts a job but the one that closes
\* SSH: what a guard or the user answers late is dropped.
THEOREM LateAnswersStartNothing == Spec => LateAnswerStartsNothing
  <1>1. ASSUME OwnInv, [Next]_vars
        PROVE  [part = "page" /\ closing /\ job' # job /\ job'.state = "runs"
                    => job'.kind = "close"]_vars
    <2>1. CASE UNCHANGED vars
      BY <2>1
    <2>2. CASE Next
      <3> SUFFICES ASSUME part = "page", closing, job' # job, job'.state = "runs"
                   PROVE  job'.kind = "close"
        OBVIOUS
      <3>1. PageInv /\ Page!Next
        BY <1>1, <2>2 DEF OwnInv, Next
      <3>2. QED  BY <3>1, PageStartsNothing
    <2>3. QED  BY <1>1, <2>1, <2>2
  <1>2. QED  BY <1>1, OwnInvariant, PTL DEF Spec, LateAnswerStartsNothing
=============================================================================
