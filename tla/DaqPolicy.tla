------------------------------ MODULE DaqPolicy ------------------------------
(***************************************************************************)
(* BufferedDaqPolicy: what the host does with the DAQ frames the transport *)
(* listener hands to it, and the bounded queue the user interface drains.  *)
(*                                                                         *)
(* The target sends one timestamped event per model period, split into     *)
(* OdtCount frames, over a link that loses, duplicates, reorders and       *)
(* damages frames.  Command responses share the transport counter.  The    *)
(* policy checks counter, identifier, length and ODT order, passes frames  *)
(* to pyxcp's native decoder (external, modelled as the list of the ODTs   *)
(* it has collected) and unwraps the timestamp of a finished sample.       *)
(*                                                                         *)
(* A frame is identified by its position on the wire; its counter is that  *)
(* position modulo CounterModulus (2^16 in the code).  A sample's values   *)
(* are the numbers of the events its ODTs were measured in.                *)
(***************************************************************************)
EXTENDS Integers, Sequences, FiniteSets

CONSTANTS
    OdtCount,       \* frames per event
    Capacity,       \* deque(maxlen)
    CounterModulus, \* of the transport counter
    Period,         \* ticks between two model events
    TsModulus,      \* of the target's timestamp, in ticks
    FirstTick,      \* timestamp of event 0
    MaxFrames,      \* bound: frames on the wire
    MaxEvents       \* bound: model events

\* prepare() refuses a timestamp range of two periods or less.
ASSUME DaqAssumption ==
    /\ {OdtCount, Capacity, Period, MaxFrames, MaxEvents} \subseteq Nat \ {0}
    /\ FirstTick \in Nat /\ CounterModulus \in Nat \ {0}
    /\ TsModulus \in Nat /\ TsModulus > 2 * Period

None == -1

VARIABLES
    event,          \* target: the event it sends
    odt,            \* target: the next frame of that event
    wire,           \* every frame sent so far
    newest,         \* position of the newest frame the policy accepted, 0 for none
    newest_daq,     \* the same of DAQ frames
    first_frame,    \* history: position of the first accepted frame
    accepted,       \* history: how many frames the policy accepted
    phase,          \* "attached", "active" or "closed"
    counter,        \* _counter
    next_odt,       \* _next_odt
    reset_decoder,  \* _reset_decoder
    decoder,        \* native decoder: events of the ODTs it has collected
    torn,           \* history: a burst as long as an event was lost among them
    last_raw, last_unwrapped, origin, wrap_offset,
    queue,          \* _queue
    counts,         \* the counters that account for losses
    drained,        \* samples the user interface has taken
    first_event, last_event   \* history: events of the first and newest sample

targetVars == <<event, odt, wire>>
linkVars   == <<newest, newest_daq, first_frame, accepted>>
clockVars  == <<last_raw, last_unwrapped, origin, wrap_offset>>
sampleVars == <<clockVars, queue, first_event, last_event>>
assembly   == <<decoder, torn>>
vars == <<targetVars, linkVars, phase, counter, next_odt, reset_decoder, assembly,
          sampleVars, counts, drained>>

Frames == [kind: {"DAQ"}, event: 0..(MaxEvents - 1), odt: 0..(OdtCount - 1)]
            \cup [kind: {"CTO"}]

Init ==
    /\ event = 0 /\ odt = 0
    /\ wire = <<>>
    /\ newest = 0 /\ newest_daq = 0 /\ first_frame = 0 /\ accepted = 0
    /\ phase = "attached"
    /\ counter = None
    /\ next_odt = 0
    /\ reset_decoder = FALSE
    /\ decoder = <<>> /\ torn = FALSE
    /\ last_raw = None /\ last_unwrapped = None /\ origin = None
    /\ wrap_offset = 0
    /\ queue = <<>>
    /\ counts = [gaps |-> 0, event_gaps |-> 0, received |-> 0, dropped |-> 0,
                  late |-> 0]
    /\ drained = 0
    /\ first_event = None /\ last_event = None

-----------------------------------------------------------------------------
(* The target (external): it streams from the start command on *)

SendOdt ==
    /\ phase = "active"
    /\ event < MaxEvents
    /\ Len(wire) < MaxFrames
    /\ wire' = Append(wire, [kind |-> "DAQ", event |-> event, odt |-> odt])
    /\ odt' = (odt + 1) % OdtCount
    /\ event' = IF odt + 1 = OdtCount THEN event + 1 ELSE event
    /\ UNCHANGED <<linkVars, phase, counter, next_odt, reset_decoder, assembly,
                   sampleVars, counts, drained>>

\* The target skips an event it has no time to send.
Overload ==
    /\ phase = "active"
    /\ event < MaxEvents
    /\ odt = 0
    /\ event' = event + 1
    /\ UNCHANGED <<odt, wire, linkVars, phase, counter, next_odt, reset_decoder,
                   assembly, sampleVars, counts, drained>>

\* A command response, event or service packet.
SendCto ==
    /\ Len(wire) < MaxFrames
    /\ wire' = Append(wire, [kind |-> "CTO"])
    /\ UNCHANGED <<event, odt, linkVars, phase, counter, next_odt, reset_decoder,
                   assembly, sampleVars, counts, drained>>

-----------------------------------------------------------------------------
(* Starting and stopping *)

\* activate(), after the policy is attached and before the start command.
Activate ==
    /\ phase = "attached"
    /\ phase' = "active"
    /\ UNCHANGED <<targetVars, linkVars, counter, next_odt, reset_decoder, assembly,
                   sampleVars, counts, drained>>

\* finalize(), after the stop command.
Finalize ==
    /\ phase = "active"
    /\ phase' = "closed"
    /\ UNCHANGED <<targetVars, linkVars, counter, next_odt, reset_decoder, assembly,
                   sampleVars, counts, drained>>

-----------------------------------------------------------------------------
(* feed *)

CounterDelta(k) == (k - counter) % CounterModulus

\* A repeated or late frame: its counter is not ahead of the last one.
Reordered(k) ==
    counter # None /\ (CounterDelta(k) = 0 \/ 2 * CounterDelta(k) >= CounterModulus)

DaqBetween(i, j) == {m \in (i + 1)..(j - 1) : wire[m].kind = "DAQ"}

\* Frames the link (external) may hand to the policy: none is half a counter range
\* away, and half the range of the timestamp does not pass without a sample.
Deliverable(k) ==
    /\ phase # "closed"
    /\ 2 * (newest - k) < CounterModulus /\ 2 * (k - newest) < CounterModulus
    /\ wire[k].kind = "DAQ" /\ first_event # None =>
        2 * Period * (wire[k].event - last_event) < TsModulus

\* The counter of an accepted frame; what is missing before it is counted.
Accept(k) ==
    /\ Deliverable(k)
    /\ ~Reordered(k)
    /\ newest' = k
    /\ newest_daq' = IF wire[k].kind = "DAQ" THEN k ELSE newest_daq
    /\ first_frame' = IF accepted = 0 THEN k ELSE first_frame
    /\ accepted' = accepted + 1
    /\ counter' = k % CounterModulus

GapBefore(k) == IF counter = None THEN 0 ELSE CounterDelta(k) - 1

ReorderedFrame(k) ==
    /\ Deliverable(k)
    /\ Reordered(k)
    /\ UNCHANGED vars

\* Only the counter matters of frames that carry no DAQ data, and of DAQ frames
\* before activation.
OtherFrame(k) ==
    /\ Accept(k)
    /\ wire[k].kind = "CTO" \/ phase # "active"
    /\ counts' = [counts EXCEPT !.gaps = @ + GapBefore(k)]
    /\ UNCHANGED <<targetVars, phase, next_odt, reset_decoder, assembly, sampleVars, drained>>

DaqFrame(k) == Accept(k) /\ wire[k].kind = "DAQ" /\ phase = "active"

\* Mutant of InvalidFrame: the native decoder keeps what it had collected.
InvalidFrameKeepsDecoder(k) ==
    /\ DaqFrame(k)
    /\ next_odt' = 0
    /\ counts' = [counts EXCEPT !.gaps = @ + GapBefore(k)]
    /\ UNCHANGED <<targetVars, phase, reset_decoder, assembly, sampleVars, drained>>

\* Mutant of InvalidFrame: the damaged frame is dropped without a reset.
InvalidFrameIgnored(k) ==
    /\ DaqFrame(k)
    /\ counts' = [counts EXCEPT !.gaps = @ + GapBefore(k)]
    /\ UNCHANGED <<targetVars, phase, next_odt, reset_decoder, assembly, sampleVars, drained>>

\* A DAQ frame with a bad header, identifier or length.
InvalidFrame(k) ==
    /\ DaqFrame(k)
    /\ reset_decoder' = TRUE
    /\ next_odt' = 0
    /\ counts' = [counts EXCEPT !.gaps = @ + GapBefore(k)]
    /\ UNCHANGED <<targetVars, phase, assembly, sampleVars, drained>>

\* A frame out of ODT order that does not start an event is skipped.
OutOfOrderOdt(k) ==
    /\ DaqFrame(k)
    /\ wire[k].odt # next_odt
    /\ wire[k].odt # 0
    /\ reset_decoder' = TRUE
    /\ next_odt' = 0
    /\ counts' = [counts EXCEPT !.gaps = @ + GapBefore(k)]
    /\ UNCHANGED <<targetVars, phase, assembly, sampleVars, drained>>

\* What the decoder has collected after the frame; a frame that starts an event
\* early, or follows a reset, finds it empty.
Collected(frame) ==
    Append(IF reset_decoder \/ frame.odt # next_odt THEN <<>> ELSE decoder, frame.event)

\* DAQ frames lost in a row before the frame, or before one collected with it, are
\* as many as an event has: the next ODT may be that of a later event.
Torn(k) ==
    wire[k].odt # 0 /\ (torn \/ Cardinality(DaqBetween(newest_daq, k)) >= OdtCount)

\* An accepted ODT that does not finish its event.
OdtFrame(k) ==
    /\ DaqFrame(k)
    /\ wire[k].odt = next_odt \/ wire[k].odt = 0
    /\ wire[k].odt + 1 < OdtCount
    /\ decoder' = Collected(wire[k]) /\ torn' = Torn(k)
    /\ next_odt' = wire[k].odt + 1
    /\ reset_decoder' = FALSE
    /\ counts' = [counts EXCEPT !.gaps = @ + GapBefore(k)]
    /\ UNCHANGED <<targetVars, phase, sampleVars, drained>>

-----------------------------------------------------------------------------
(* on_daq_list *)

\* The target's timestamp of an event.
Raw(e) == (FirstTick + e * Period) % TsModulus

\* Mutant of Wraps: every decrease of the timestamp is taken for a late sample.
WrapsNever(raw) == FALSE

\* The timestamp has wrapped, rather than the sample being late.
Wraps(raw) ==
    /\ last_raw # None
    /\ raw < last_raw
    /\ last_raw - raw > TsModulus \div 2

Late(raw) == last_raw # None /\ raw < last_raw /\ ~Wraps(raw)

Offset(raw) == IF Wraps(raw) THEN wrap_offset + TsModulus ELSE wrap_offset

\* Mutant of MissingEvents: the event that did arrive is counted as missing too.
MissingEventsInclusive(delta) ==
    IF 2 * delta > 3 * Period THEN (2 * delta + Period) \div (2 * Period) ELSE 0

\* round(delta / period) - 1 for a delta above one and a half periods.
MissingEvents(delta) ==
    IF 2 * delta > 3 * Period THEN (2 * delta + Period) \div (2 * Period) - 1 ELSE 0

\* A full queue loses its oldest sample.
Enqueue(sample) ==
    Append(IF Len(queue) = Capacity THEN Tail(queue) ELSE queue, sample)

\* The sample's time goes into the queue and the counters.
TakeSample(k, parts) ==
    LET raw       == Raw(parts[1])
        unwrapped == raw + Offset(raw)
        start     == IF origin = None THEN unwrapped ELSE origin
        missing   == IF last_unwrapped = None
                     THEN 0 ELSE MissingEvents(unwrapped - last_unwrapped)
        full      == IF Len(queue) = Capacity THEN 1 ELSE 0
    IN  /\ last_raw' = raw
        /\ last_unwrapped' = unwrapped
        /\ origin' = start
        /\ queue' = Enqueue([time |-> unwrapped - start, parts |-> parts, torn |-> Torn(k)])
        /\ counts' = [gaps       |-> counts.gaps + GapBefore(k),
                      event_gaps |-> counts.event_gaps + missing,
                      received   |-> counts.received + 1,
                      dropped    |-> counts.dropped + full,
                      late       |-> counts.late]
        /\ first_event' = IF first_event = None THEN parts[1] ELSE first_event
        /\ last_event' = parts[1]

\* The last ODT of an event: the decoder calls on_daq_list, which drops a sample
\* whose time is not after the previous one's.
FinalOdtFrame(k) ==
    /\ DaqFrame(k)
    /\ wire[k].odt = next_odt \/ wire[k].odt = 0
    /\ wire[k].odt + 1 = OdtCount
    /\ LET parts == Collected(wire[k])
           raw   == Raw(parts[1])
           stale == \/ Late(raw)
                    \/ last_unwrapped # None /\ raw + Offset(raw) <= last_unwrapped
       IN  /\ wrap_offset' = IF Late(raw) THEN wrap_offset ELSE Offset(raw)
           /\ IF stale
              THEN /\ counts' = [counts EXCEPT !.gaps = @ + GapBefore(k), !.late = @ + 1]
                   /\ UNCHANGED <<last_raw, last_unwrapped, origin, queue,
                                  first_event, last_event>>
              ELSE TakeSample(k, parts)
    /\ decoder' = <<>> /\ torn' = FALSE
    /\ next_odt' = 0
    /\ reset_decoder' = FALSE
    /\ UNCHANGED <<targetVars, phase, drained>>

-----------------------------------------------------------------------------
\* drain(n), from the user interface's timer; it also works after the stop.
Drain(n) ==
    /\ n <= Len(queue)
    /\ queue' = SubSeq(queue, n + 1, Len(queue))
    /\ drained' = drained + n
    /\ UNCHANGED <<targetVars, linkVars, phase, counter, next_odt, reset_decoder,
                   assembly, clockVars, first_event, last_event, counts>>

Next ==
    \/ SendOdt \/ Overload \/ SendCto
    \/ Activate \/ Finalize
    \/ \E k \in 1..Len(wire) :
        \/ ReorderedFrame(k)
        \/ OtherFrame(k)
        \/ InvalidFrame(k)
        \/ OutOfOrderOdt(k)
        \/ OdtFrame(k)
        \/ FinalOdtFrame(k)
    \/ \E n \in 1..Capacity : Drain(n)

Spec == Init /\ [][Next]_vars
-----------------------------------------------------------------------------
(* Properties *)

\* The types of the variables; the decoder holds exactly the ODTs before the
\* next one unless it is about to be reset.
TypeOK ==
    /\ event \in 0..MaxEvents
    /\ odt \in 0..(OdtCount - 1)
    /\ wire \in Seq(Frames) /\ Len(wire) <= MaxFrames
    /\ newest \in 0..Len(wire) /\ newest_daq \in 0..newest
    /\ phase \in {"attached", "active", "closed"}
    /\ counter \in 0..(CounterModulus - 1) \cup {None}
    /\ next_odt \in 0..(OdtCount - 1)
    /\ reset_decoder \in BOOLEAN
    /\ ~reset_decoder => Len(decoder) = next_odt
    /\ Len(queue) <= Capacity
    /\ wrap_offset \in {i * TsModulus : i \in 0..MaxEvents}

\* A sample never mixes values of two model events, whatever is lost, damaged or
\* reordered between its frames: a missing ODT makes the policy resynchronize
\* (feed's check of _next_odt).  Excepted are bursts of as many DAQ frames as an
\* event has, which the order of the ODTs does not show.
EventsNotMixed ==
    \A i \in 1..Len(queue) :
        queue[i].torn \/ \A j \in 1..OdtCount : queue[i].parts[j] = queue[i].parts[1]

\* The same without the exception: the counter of the transport, which the policy
\* reads, shows such a burst, and the test of a missing ODT is named for this
\* (test_missing_odt_resynchronizes_without_mixing_events).
NeverMixed ==
    \A i \in 1..Len(queue) : \A j \in 1..OdtCount :
        queue[i].parts[j] = queue[i].parts[1]

\* A sample's time is the time that really passed on the target from the first
\* sample to its own first frame, across timestamp wraps, lost events and bursts
\* of any length, and no finished event is taken for a late one and dropped
\* (on_daq_list).
TimesTrue ==
    /\ counts.late = 0
    /\ \A i \in 1..Len(queue) :
            queue[i].time = (queue[i].parts[1] - first_event) * Period

\* transport_counter_gaps is the number of frames that were sent between the
\* first and the newest accepted one and not accepted, across counter wraps.
\* Samples still queued, drained and evicted add up to received_samples, and
\* together with timestamp_gap_samples they account for every model event from
\* the first to the newest sample (feed, on_daq_list).
LossesAccounted ==
    /\ accepted > 0 => counts.gaps + accepted = newest - first_frame + 1
    /\ counts.received = Len(queue) + drained + counts.dropped
    /\ first_event # None =>
            counts.received + counts.event_gaps = last_event - first_event + 1
=============================================================================
