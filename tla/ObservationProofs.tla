-------------------------- MODULE ObservationProofs --------------------------
(***************************************************************************)
(* From a frame of the target to the page the engineer looks at: safety of *)
(* the DAQ policy, of the chart and of the calibration page.               *)
(*                                                                         *)
(* The DAQ policy, for every number of frames per event, queue, counter,   *)
(* period and timestamp range, and for runs of any length: what the target *)
(* has sent bounds how many frames lie between two that arrive (WireInv);  *)
(* from that a decoder holds ODTs of one event only, unless a burst as     *)
(* long as an event was lost (DecoderInv), and samples come in the order   *)
(* of their first frames (ClockInv), so timestamps unwrap and losses add   *)
(* up whatever is lost.                                                    *)
(*                                                                         *)
(* The pages, for every set of signals, characteristics and values: what   *)
(* is drawn differs from what it should be in its limits only while a      *)
(* redraw is due (ChartInv); a calibrating operation is a job, an answer   *)
(* or a message, and nothing is entered meanwhile (PageInv).  With what    *)
(* the records of the session say (PageTarget) the operations of the page  *)
(* implement CalibrationTransaction.                                       *)
(***************************************************************************)
EXTENDS DaqPolicy, MCWorkbench, SequenceTheorems, FiniteSetTheorems, TLAPS

-----------------------------------------------------------------------------
(* The inductive invariant.                                                *)

Samples == [time: Int, parts: Seq(Nat), torn: BOOLEAN]
Counts == [gaps: Int, event_gaps: Int, received: Int, dropped: Int, late: Int]

DaqTyped ==
    /\ phase \in {"attached", "active", "closed"}
    /\ event \in Nat /\ odt \in 0..(OdtCount - 1) /\ wire \in Seq(Frames)
    /\ newest \in 0..Len(wire) /\ newest_daq \in 0..newest
    /\ first_frame \in Nat /\ accepted \in Nat
    /\ next_odt \in 0..(OdtCount - 1) /\ decoder \in Seq(Nat) /\ torn \in BOOLEAN
    /\ wrap_offset \in Nat /\ queue \in Seq(Samples)
    /\ counts \in Counts /\ drained \in Nat

IsDaq(k) == wire[k].kind = "DAQ"

\* Between frame i, and frame j with ODT o of event e, are the frames of the
\* events from the one to the other.
Precedes(i, j, e, o) ==
    /\ wire[i].event <= e
    /\ wire[i].event = e =>
           wire[i].odt < o /\ Cardinality(DaqBetween(i, j)) >= o - wire[i].odt - 1
    /\ wire[i].event < e =>
           Cardinality(DaqBetween(i, j)) >= OdtCount - 1 - wire[i].odt + o

\* Of any two frames, and of any frame and the one the target sends next.
WireInv ==
    /\ \A i \in 1..Len(wire) : IsDaq(i) => Precedes(i, Len(wire) + 1, event, odt)
    /\ \A i, j \in 1..Len(wire) :
           i < j /\ IsDaq(i) /\ IsDaq(j) => Precedes(i, j, wire[j].event, wire[j].odt)

\* The counter is that of the newest frame, and the gaps are what is missing.
LinkInv ==
    /\ newest_daq > 0 => IsDaq(newest_daq)
    /\ accepted = 0 => newest = 0 /\ counter = None /\ counts.gaps = 0
    /\ accepted > 0 =>
           /\ newest > 0 /\ counter = newest % CounterModulus
           /\ counts.gaps + accepted = newest - first_frame + 1

\* Without a reset to come the decoder holds the ODTs before the next one, the
\* first of an event after the newest sample's; without a burst as long as an
\* event all are of the event of the newest DAQ frame.
DecoderInv ==
    /\ reset_decoder \/ phase = "attached" => next_odt = 0
    /\ ~reset_decoder => Len(decoder) = next_odt
    /\ next_odt > 0 =>
           /\ newest_daq > 0 /\ wire[newest_daq].odt = next_odt - 1
           /\ torn \/ \A j \in 1..next_odt : decoder[j] = wire[newest_daq].event
           /\ decoder[1] \in Nat /\ decoder[1] <= wire[newest_daq].event
           /\ first_event # None => decoder[1] > last_event

\* The last frame of the event of the newest sample, or of a later one, is seen,
\* its timestamp is the last one, and the counters tell of the events up to it.
ClockInv ==
    /\ first_event = None =>
           /\ last_raw = None /\ last_unwrapped = None /\ origin = None
           /\ wrap_offset = 0 /\ queue = <<>>
           /\ counts.received = 0 /\ counts.event_gaps = 0
    /\ first_event # None =>
           /\ first_event \in Nat /\ last_event \in Nat /\ origin \in Nat
           /\ last_raw = Raw(last_event) /\ last_unwrapped = last_raw + wrap_offset
           /\ last_unwrapped - origin = (last_event - first_event) * Period
           /\ counts.received + counts.event_gaps = last_event - first_event + 1
           /\ \E j \in 1..newest_daq :
                  IsDaq(j) /\ wire[j].event >= last_event /\ wire[j].odt = OdtCount - 1

\* A sample in the queue is of one event, unless a burst as long as an event was
\* lost in it, and has the time of its first frame; none is late.
Whole(sample) ==
    /\ sample.torn \/ \A j \in 1..OdtCount : sample.parts[j] = sample.parts[1]
    /\ sample.time = (sample.parts[1] - first_event) * Period
SampleInv ==
    /\ \A i \in 1..Len(queue) : Whole(queue[i])
    /\ counts.late = 0
    /\ counts.received = Len(queue) + drained + counts.dropped

DaqInv == DaqTyped /\ WireInv /\ LinkInv /\ DecoderInv /\ ClockInv /\ SampleInv

-----------------------------------------------------------------------------
(* Arithmetic.                                                             *)

LEMMA Typed ==
    /\ OdtCount \in Nat \ {0} /\ Capacity \in Nat \ {0} /\ Period \in Nat \ {0}
    /\ MaxEvents \in Nat \ {0} /\ FirstTick \in Nat
    /\ CounterModulus \in Nat \ {0} /\ TsModulus \in Nat \ {0}
  <1>1. /\ {OdtCount, Capacity, Period, MaxFrames, MaxEvents} \subseteq Nat \ {0}
        /\ FirstTick \in Nat /\ CounterModulus \in Nat \ {0}
        /\ TsModulus \in Nat /\ TsModulus > 2 * Period
    BY DaqAssumption DEF DaqAssumption
  <1>2. TsModulus > 0
    BY <1>1
  <1>3. QED  BY <1>1, <1>2

\* Quotient and remainder are the only ones with their property.
LEMMA DivisionUnique ==
    ASSUME NEW a \in Int, NEW m \in Nat \ {0}, NEW q \in Int, NEW r \in 0..(m - 1), a = m * q + r
    PROVE  a % m = r /\ a \div m = q
  <1>1. a % m \in 0..(m - 1) /\ a = m * (a \div m) + (a % m) /\ a \div m \in Int
    BY SMT
  <1> DEFINE p == a \div m
             s == a % m
  <1> HIDE DEF p, s
  <1>2. s \in 0..(m - 1) /\ a = m * p + s /\ p \in Int
    BY <1>1 DEF p, s
  <1>3. CASE p > q
    <2>1. m * p >= m * (q + 1)
      BY <1>2, <1>3, SMT
    <2>2. m * (q + 1) = m * q + m
      BY SMT
    <2>3. QED  BY <1>2, <2>1, <2>2
  <1>4. CASE q > p
    <2>1. m * q >= m * (p + 1)
      BY <1>2, <1>4, SMT
    <2>2. m * (p + 1) = m * p + m
      BY <1>2, SMT
    <2>3. QED  BY <1>2, <2>1, <2>2
  <1>5. CASE p = q
    <2>1. s = r
      BY <1>2, <1>5
    <2>2. QED  BY <1>5, <2>1 DEF p, s
  <1>6. QED  BY <1>2, <1>3, <1>4, <1>5

\* How far a number is ahead of another, from the remainder of that one.
LEMMA Ahead ==
    ASSUME NEW k \in Int, NEW n \in Nat, NEW m \in Nat \ {0}, k - n < m, n - k < m
    PROVE  /\ n % m \in 0..(m - 1)
           /\ (k - (n % m)) % m = IF k >= n THEN k - n ELSE m - (n - k)
  <1>1. n % m \in 0..(m - 1) /\ n = m * (n \div m) + (n % m) /\ n \div m \in Int
    BY SMT
  <1>2. PICK q \in Int, c \in 0..(m - 1) : c = n % m /\ n = m * q + c
    BY <1>1
  <1>3. CASE k >= n
    <2>1. k - c \in Int /\ k - n \in 0..(m - 1) /\ k - c = m * q + (k - n)
      BY <1>2, <1>3
    <2>2. (k - c) % m = k - n
      BY <2>1, DivisionUnique
    <2>3. QED  BY <1>1, <1>2, <1>3, <2>2
  <1>4. CASE k < n
    <2>1. PICK x \in Int : x = m * q /\ m * (q - 1) = x - m
      BY SMT
    <2>2. n = x + c
      BY <1>2, <2>1
    <2>3. k - c = (x - m) + (m - (n - k))
      BY <2>2
    <2>4. k - c \in Int /\ q - 1 \in Int
      OBVIOUS
    <2>5. m - (n - k) \in 0..(m - 1)
      BY <1>4
    <2>6. k - c = m * (q - 1) + (m - (n - k))
      BY <2>1, <2>3
    <2>7. (k - c) % m = m - (n - k)
      BY <2>4, <2>5, <2>6, DivisionUnique
    <2>8. QED  BY <1>1, <1>2, <1>4, <2>7
  <1>5. QED  BY <1>3, <1>4

\* A clock read again less than its range later.
LEMMA LaterRead ==
    ASSUME NEW t \in Nat, NEW d \in Nat, NEW m \in Nat \ {0}, d < m
    PROVE  /\ t % m \in 0..(m - 1)
           /\ (t + d) % m = IF (t % m) + d < m THEN (t % m) + d ELSE (t % m) + d - m
  <1>1. t % m \in 0..(m - 1) /\ t = m * (t \div m) + (t % m) /\ t \div m \in Int
    BY SMT
  <1>2. PICK q \in Int, a \in 0..(m - 1) : a = t % m /\ t = m * q + a
    BY <1>1
  <1>3. CASE a + d < m
    <2>1. t + d \in Int /\ a + d \in 0..(m - 1) /\ t + d = m * q + (a + d)
      BY <1>2, <1>3
    <2>2. (t + d) % m = a + d
      BY <2>1, DivisionUnique
    <2>3. QED  BY <1>1, <1>2, <1>3, <2>2
  <1>4. CASE a + d >= m
    <2>1. m * (q + 1) = m * q + m
      BY SMT
    <2>2. /\ t + d \in Int /\ a + d - m \in 0..(m - 1) /\ q + 1 \in Int
          /\ t + d = m * (q + 1) + (a + d - m)
      BY <1>2, <1>4, <2>1
    <2>3. (t + d) % m = a + d - m
      BY <2>2, DivisionUnique
    <2>4. QED  BY <1>1, <1>2, <1>4, <2>3
  <1>5. QED  BY <1>2, <1>3, <1>4

\* What is missing between two events that are n apart.
LEMMA MissingOfMultiple ==
    ASSUME NEW n \in Nat \ {0}
    PROVE  MissingEvents(n * Period) = n - 1
  <1>1. Period \in Nat \ {0}
    BY Typed
  <1>2. CASE n = 1
    BY <1>1, <1>2 DEF MissingEvents
  <1>3. CASE n >= 2
    <2>1. 2 * (n * Period) > 3 * Period
      <3>1. n * Period >= 2 * Period
        BY <1>1, <1>3, SMT
      <3>2. n * Period \in Nat
        BY <1>1
      <3>3. QED  BY <1>1, <3>1, <3>2
    <2>2. 2 * (n * Period) + Period = (2 * Period) * n + Period
      BY <1>1, SMT
    <2>3. 2 * (n * Period) + Period \in Int /\ 2 * Period \in Nat \ {0} /\ Period \in 0..(2 * Period - 1)
      BY <1>1
    <2>4. (2 * (n * Period) + Period) \div (2 * Period) = n
      BY <2>2, <2>3, DivisionUnique
    <2>5. QED  BY <2>1, <2>4 DEF MissingEvents
  <1>4. QED  BY <1>2, <1>3

-----------------------------------------------------------------------------
(* The wire.                                                               *)

LEMMA FrameFacts ==
    ASSUME DaqTyped
    PROVE  /\ Len(wire) \in Nat
           /\ \A k \in 1..Len(wire) :
                  /\ wire[k] \in Frames
                  /\ IsDaq(k) => wire[k].event \in Nat /\ wire[k].odt \in 0..(OdtCount - 1)
                  /\ ~IsDaq(k) => wire[k].kind = "CTO"
  <1>1. wire \in Seq(Frames)
    BY DEF DaqTyped
  <1>2. Len(wire) \in Nat /\ \A k \in 1..Len(wire) : wire[k] \in Frames
    BY <1>1, LenProperties, ElementOfSeq
  <1>3. \A f \in Frames : /\ f.kind = "DAQ" => f.event \in Nat /\ f.odt \in 0..(OdtCount - 1)
                          /\ f.kind # "DAQ" => f.kind = "CTO"
    BY Typed DEF Frames
  <1>4. QED  BY <1>2, <1>3 DEF IsDaq

LEMMA BetweenFinite ==
    ASSUME NEW i \in Int, NEW j \in Int
    PROVE  IsFiniteSet(DaqBetween(i, j)) /\ Cardinality(DaqBetween(i, j)) \in Nat
  <1>1. IsFiniteSet((i + 1)..(j - 1))
    BY FS_Interval
  <1>2. DaqBetween(i, j) \in SUBSET ((i + 1)..(j - 1))
    BY DEF DaqBetween
  <1>3. QED  BY <1>1, <1>2, FS_Subset, FS_CardinalityType

\* A frame is sent: what is between frames sent before stays, and it comes last.
LEMMA SentFrame ==
    ASSUME DaqTyped, NEW f \in Frames, wire' = Append(wire, f)
    PROVE  /\ wire' \in Seq(Frames) /\ Len(wire) \in Nat /\ Len(wire') = Len(wire) + 1
           /\ \A k \in 1..Len(wire) : wire'[k] = wire[k]
           /\ wire'[Len(wire) + 1] = f
           /\ \A i \in 1..Len(wire), j \in 1..(Len(wire) + 1) : DaqBetween(i, j)' = DaqBetween(i, j)
           /\ \A i \in 1..Len(wire) :
                  Cardinality(DaqBetween(i, Len(wire) + 1)') =
                      Cardinality(DaqBetween(i, Len(wire) + 1)) + IF f.kind = "DAQ" THEN 1 ELSE 0
  <1>1. /\ wire' \in Seq(Frames) /\ Len(wire) \in Nat /\ Len(wire') = Len(wire) + 1
        /\ \A k \in 1..Len(wire) : wire'[k] = wire[k]
        /\ wire'[Len(wire) + 1] = f
    BY AppendProperties, LenProperties DEF DaqTyped
  <1>2. ASSUME NEW i \in 1..Len(wire), NEW j \in 1..(Len(wire) + 1)
        PROVE  DaqBetween(i, j)' = DaqBetween(i, j)
    <2>1. \A m \in (i + 1)..(j - 1) : wire'[m] = wire[m]
      BY <1>1
    <2>2. QED  BY <2>1 DEF DaqBetween
  <1>3. ASSUME NEW i \in 1..Len(wire)
        PROVE  Cardinality(DaqBetween(i, Len(wire) + 1)') =
                   Cardinality(DaqBetween(i, Len(wire) + 1)) + IF f.kind = "DAQ" THEN 1 ELSE 0
    <2> DEFINE old == DaqBetween(i, Len(wire) + 1)
    <2>1. \A m \in (i + 1)..Len(wire) : wire'[m] = wire[m]
      BY <1>1
    <2>2. /\ old = {m \in (i + 1)..Len(wire) : wire[m].kind = "DAQ"}
          /\ DaqBetween(i, Len(wire) + 1)' = {m \in (i + 1)..(Len(wire) + 1) : wire'[m].kind = "DAQ"}
      <3>1. Len(wire) + 1 - 1 = Len(wire) /\ Len(wire') + 1 - 1 = Len(wire) + 1
        BY <1>1
      <3>2. QED  BY <3>1 DEF DaqBetween
    <2>3. IsFiniteSet(old) /\ Cardinality(old) \in Nat /\ Len(wire) + 1 \notin old
      <3>1. i \in Int /\ Len(wire) + 1 \in Int
        BY <1>1
      <3>2. IsFiniteSet(old) /\ Cardinality(old) \in Nat
        BY <3>1, BetweenFinite
      <3>3. Len(wire) + 1 \notin (i + 1)..Len(wire)
        BY <1>1
      <3>4. QED  BY <2>2, <3>2, <3>3
    <2> HIDE DEF old
    <2>4. CASE f.kind = "DAQ"
      <3>1. DaqBetween(i, Len(wire) + 1)' = old \cup {Len(wire) + 1}
        BY <1>1, <2>1, <2>2, <2>4
      <3>2. Cardinality(old \cup {Len(wire) + 1}) = Cardinality(old) + 1
        BY <2>3, FS_AddElement
      <3>3. QED  BY <3>1, <3>2, <2>4 DEF old
    <2>5. CASE f.kind # "DAQ"
      <3>1. DaqBetween(i, Len(wire) + 1)' = old
        <4>1. wire'[Len(wire) + 1].kind # "DAQ"
          BY <1>1, <2>5
        <4>2. \A m : m \in (i + 1)..(Len(wire) + 1) <=> m \in (i + 1)..Len(wire) \/ m = Len(wire) + 1
          BY <1>1
        <4>3. \A m : m \in DaqBetween(i, Len(wire) + 1)' <=> m \in old
          BY <2>1, <2>2, <4>1, <4>2
        <4>4. QED  BY <4>3, <2>2
      <3>2. QED  BY <3>1, <2>3, <2>5 DEF old
    <2>6. QED  BY <2>4, <2>5
  <1>4. QED  BY <1>1, <1>2, <1>3

\* The wire goes on: between frames sent before everything is as it was.
LEMMA PrecedesStays ==
    ASSUME DaqTyped, NEW f \in Frames, wire' = Append(wire, f),
           NEW i \in 1..Len(wire), NEW j \in 1..(Len(wire) + 1), NEW e, NEW o, Precedes(i, j, e, o)
    PROVE  Precedes(i, j, e, o)'
  <1>1. wire'[i] = wire[i] /\ DaqBetween(i, j)' = DaqBetween(i, j)
    BY SentFrame
  <1>2. QED  BY <1>1 DEF Precedes

\* The pairs of the frames sent before, when one more is sent.
LEMMA SentPairs ==
    ASSUME DaqTyped, WireInv, NEW f \in Frames, wire' = Append(wire, f),
           f.kind = "DAQ" => f.event = event /\ f.odt = odt,
           \A i \in 1..Len(wire') : IsDaq(i)' => Precedes(i, Len(wire) + 1, event, odt)'
    PROVE  WireInv'
  <1>1. /\ Len(wire) \in Nat /\ Len(wire') = Len(wire) + 1
        /\ \A k \in 1..Len(wire) : wire'[k] = wire[k]
        /\ wire'[Len(wire) + 1] = f
    BY SentFrame
  <1>2. ASSUME NEW i \in 1..Len(wire'), NEW j \in 1..Len(wire'), i < j, IsDaq(i)', IsDaq(j)'
        PROVE  Precedes(i, j, wire[j].event, wire[j].odt)'
    <2>1. i \in 1..Len(wire) /\ IsDaq(i)
      BY <1>1, <1>2 DEF IsDaq
    <2>2. CASE j \in 1..Len(wire)
      <3>1. IsDaq(j) /\ wire'[j] = wire[j]
        BY <1>1, <1>2, <2>2 DEF IsDaq
      <3>2. PICK e, o : e = wire[j].event /\ o = wire[j].odt
        OBVIOUS
      <3>3. Precedes(i, j, e, o)
        BY <1>2, <2>1, <2>2, <3>1, <3>2 DEF WireInv
      <3>4. Precedes(i, j, e, o)'
        BY <1>1, <2>1, <2>2, <3>3, PrecedesStays
      <3>5. QED  BY <3>1, <3>2, <3>4
    <2>3. CASE j = Len(wire) + 1
      <3>1. wire'[j] = f /\ f.event = event /\ f.odt = odt
        BY <1>1, <1>2, <2>3 DEF IsDaq
      <3>2. PICK e, o : e = event /\ o = odt
        OBVIOUS
      <3>3. Precedes(i, j, e, o)
        BY <2>1, <2>3, <3>2 DEF WireInv
      <3>4. Precedes(i, j, e, o)'
        BY <1>1, <2>1, <2>3, <3>3, PrecedesStays
      <3>5. QED  BY <3>1, <3>2, <3>4
    <2>4. QED  BY <1>1, <2>2, <2>3
  <1>3. QED  BY <1>2 DEF WireInv

-----------------------------------------------------------------------------
(* The target.                                                             *)

\* The wire alone changes, at its end: what was seen stays.
LEMMA TargetKeeps ==
    ASSUME DaqInv, NEW f \in Frames, wire' = Append(wire, f), event' \in Nat,
           odt' \in 0..(OdtCount - 1), WireInv',
           UNCHANGED <<linkVars, phase, counter, next_odt, reset_decoder, assembly,
                       sampleVars, counts, drained>>
    PROVE  DaqInv'
  <1>1. UNCHANGED <<newest, newest_daq, first_frame, accepted, phase, counter, next_odt, reset_decoder,
                    decoder, torn, last_raw, last_unwrapped, origin, wrap_offset, queue,
                    first_event, last_event, counts, drained>>
    BY DEF linkVars, sampleVars, clockVars, assembly
  <1>2. /\ wire' \in Seq(Frames) /\ Len(wire) \in Nat /\ Len(wire') = Len(wire) + 1
        /\ \A k \in 1..Len(wire) : wire'[k] = wire[k]
    BY SentFrame DEF DaqInv
  <1>3. DaqTyped'
    BY <1>1, <1>2 DEF DaqInv, DaqTyped, Frames, Counts, Samples
  <1>4. newest \in Nat /\ newest_daq \in Nat /\ newest_daq <= newest /\ newest <= Len(wire)
    BY <1>2 DEF DaqInv, DaqTyped
  <1>5. \A k \in 1..newest_daq : wire'[k] = wire[k] /\ (IsDaq(k)' <=> IsDaq(k))
    BY <1>2, <1>4 DEF IsDaq
  <1>6. newest_daq > 0 => newest_daq \in 1..newest_daq
    BY <1>4
  <1>7. LinkInv'
    BY <1>1, <1>5, <1>6 DEF DaqInv, LinkInv
  <1>8. DecoderInv'
    <2>1. newest_daq > 0 => wire'[newest_daq] = wire[newest_daq]
      BY <1>5, <1>6
    <2>2. reset_decoder' \/ phase' = "attached" => next_odt' = 0
      BY <1>1 DEF DaqInv, DecoderInv
    <2>3. ~reset_decoder' => Len(decoder') = next_odt'
      BY <1>1 DEF DaqInv, DecoderInv
    <2>4. QED  BY <1>1, <2>1, <2>2, <2>3 DEF DaqInv, DecoderInv
  <1>9. ClockInv'
    BY <1>1, <1>5 DEF DaqInv, ClockInv, Raw
  <1>10. SampleInv'
    BY <1>1 DEF DaqInv, SampleInv, Whole
  <1>11. QED  BY <1>3, <1>7, <1>8, <1>9, <1>10 DEF DaqInv

LEMMA SendOdtKeeps ==
    ASSUME DaqInv, SendOdt  PROVE DaqInv'
  <1>1. PICK f : f = [kind |-> "DAQ", event |-> event, odt |-> odt] /\ wire' = Append(wire, f)
    BY DEF SendOdt
  <1>2. /\ event \in Nat /\ odt \in 0..(OdtCount - 1) /\ event < MaxEvents
        /\ OdtCount \in Nat \ {0} /\ MaxEvents \in Nat
    BY Typed DEF DaqInv, DaqTyped, SendOdt
  <1>3. f \in Frames /\ f.kind = "DAQ" /\ f.event = event /\ f.odt = odt
    BY <1>1, <1>2 DEF Frames
  <1>4. \/ odt + 1 < OdtCount /\ odt' = odt + 1 /\ event' = event
        \/ odt + 1 = OdtCount /\ odt' = 0 /\ event' = event + 1
    <2>1. CASE odt + 1 < OdtCount
      <3>1. (odt + 1) % OdtCount = odt + 1
        <4>1. odt + 1 \in 0..(OdtCount - 1) /\ odt + 1 = OdtCount * 0 + (odt + 1)
          BY <1>2, <2>1
        <4>2. QED  BY <1>2, <4>1, DivisionUnique
      <3>2. QED  BY <1>2, <2>1, <3>1 DEF SendOdt
    <2>2. CASE odt + 1 = OdtCount
      <3>1. (odt + 1) % OdtCount = 0
        <4>1. 0 \in 0..(OdtCount - 1) /\ odt + 1 = OdtCount * 1 + 0
          BY <1>2, <2>2
        <4>2. QED  BY <1>2, <4>1, DivisionUnique
      <3>2. QED  BY <1>2, <2>2, <3>1 DEF SendOdt
    <2>3. QED  BY <1>2, <2>1, <2>2
  <1>5. event' \in Nat /\ odt' \in 0..(OdtCount - 1)
    BY <1>2, <1>4
  <1>6. /\ Len(wire) \in Nat /\ Len(wire') = Len(wire) + 1
        /\ \A k \in 1..Len(wire) : wire'[k] = wire[k]
        /\ wire'[Len(wire) + 1] = f
        /\ \A i \in 1..Len(wire) :
               Cardinality(DaqBetween(i, Len(wire) + 1)') = Cardinality(DaqBetween(i, Len(wire) + 1)) + 1
    BY <1>1, <1>3, SentFrame DEF DaqInv
  <1>7. ASSUME NEW i \in 1..Len(wire'), IsDaq(i)'
        PROVE  Precedes(i, Len(wire) + 1, event, odt)'
    <2>1. CASE i \in 1..Len(wire)
      <3>1. wire'[i] = wire[i] /\ IsDaq(i)
        BY <1>6, <1>7, <2>1 DEF IsDaq
      <3>2. wire[i].event \in Nat /\ wire[i].odt \in 0..(OdtCount - 1)
        BY <2>1, <3>1, FrameFacts DEF DaqInv
      <3>3. Precedes(i, Len(wire) + 1, event, odt)
        BY <2>1, <3>1 DEF DaqInv, WireInv
      <3>4. PICK c \in Nat : c = Cardinality(DaqBetween(i, Len(wire) + 1))
        <4>1. i \in Int /\ Len(wire) + 1 \in Int
          BY <1>6, <2>1
        <4>2. QED  BY <4>1, BetweenFinite
      <3>5. Cardinality(DaqBetween(i, Len(wire) + 1)') = c + 1
        BY <1>6, <2>1, <3>4
      <3>6. /\ wire[i].event <= event
            /\ wire[i].event = event => wire[i].odt < odt /\ c >= odt - wire[i].odt - 1
            /\ wire[i].event < event => c >= OdtCount - 1 - wire[i].odt + odt
        BY <3>3, <3>4 DEF Precedes
      <3>7. /\ wire[i].event <= event'
            /\ wire[i].event = event' => wire[i].odt < odt' /\ c + 1 >= odt' - wire[i].odt - 1
            /\ wire[i].event < event' => c + 1 >= OdtCount - 1 - wire[i].odt + odt'
        <4>1. PICK v \in Nat, w \in 0..(OdtCount - 1) : v = wire[i].event /\ w = wire[i].odt
          BY <3>2
        <4>2. /\ v <= event
              /\ v = event => w < odt /\ c >= odt - w - 1
              /\ v < event => c >= OdtCount - 1 - w + odt
          BY <3>6, <4>1
        <4>3. CASE odt + 1 < OdtCount /\ odt' = odt + 1 /\ event' = event
          <5>1. CASE v = event
            <6>1. PICK a \in Nat, b \in Nat : a = odt /\ b = w
              BY <1>2
            <6>2. b < a /\ c >= a - b - 1
              BY <4>2, <5>1, <6>1
            <6>3. b < a + 1 /\ c + 1 >= (a + 1) - b - 1
              BY <6>2
            <6>4. w < odt + 1 /\ c + 1 >= (odt + 1) - w - 1
              BY <6>1, <6>3
            <6>5. QED  BY <1>2, <4>1, <4>3, <5>1, <6>4
          <5>2. CASE v < event
            <6>1. c >= OdtCount - 1 - w + odt
              BY <4>2, <5>2
            <6>2. c + 1 >= OdtCount - 1 - w + (odt + 1)
              BY <1>2, <4>1, <6>1
            <6>3. v # event' /\ v <= event'
              BY <1>2, <4>1, <4>3, <5>2
            <6>4. QED  BY <4>1, <4>3, <6>2, <6>3
          <5>3. QED  BY <1>2, <4>1, <4>2, <5>1, <5>2
        <4>4. CASE odt + 1 = OdtCount /\ odt' = 0 /\ event' = event + 1
          <5>1. v < event' /\ c + 1 >= OdtCount - 1 - w
            BY <1>2, <4>2, <4>4
          <5>2. QED  BY <1>2, <4>1, <4>4, <5>1
        <4>5. QED  BY <1>4, <4>3, <4>4
      <3>8. QED  BY <3>1, <3>5, <3>7 DEF Precedes
    <2>2. CASE i = Len(wire) + 1
      <3>1. wire'[i] = f /\ i = Len(wire')
        BY <1>6, <2>2
      <3>2. DaqBetween(i, Len(wire) + 1)' = {}
        BY <1>6, <3>1, <2>2 DEF DaqBetween
      <3>3. Cardinality(DaqBetween(i, Len(wire) + 1)') = 0
        BY <3>2, FS_EmptySet
      <3>4. /\ event <= event'
            /\ event = event' => odt < odt' /\ 0 >= odt' - odt - 1
            /\ event < event' => 0 >= OdtCount - 1 - odt + odt'
        BY <1>2, <1>4
      <3>5. QED  BY <1>3, <3>1, <3>3, <3>4 DEF Precedes
    <2>3. QED  BY <1>6, <2>1, <2>2
  <1>8. WireInv'
    BY <1>1, <1>3, <1>7, SentPairs DEF DaqInv
  <1>9. UNCHANGED <<linkVars, phase, counter, next_odt, reset_decoder, assembly,
                    sampleVars, counts, drained>>
    BY DEF SendOdt
  <1>10. QED  BY <1>1, <1>3, <1>5, <1>8, <1>9, TargetKeeps

LEMMA SendCtoKeeps ==
    ASSUME DaqInv, SendCto  PROVE DaqInv'
  <1>1. PICK f : f = [kind |-> "CTO"] /\ wire' = Append(wire, f)
    BY DEF SendCto
  <1>2. f \in Frames /\ f.kind # "DAQ"
    BY <1>1 DEF Frames
  <1>3. event' = event /\ odt' = odt /\ event \in Nat /\ odt \in 0..(OdtCount - 1)
    BY DEF SendCto, DaqInv, DaqTyped
  <1>4. /\ Len(wire) \in Nat /\ Len(wire') = Len(wire) + 1
        /\ \A k \in 1..Len(wire) : wire'[k] = wire[k]
        /\ wire'[Len(wire) + 1] = f
        /\ \A i \in 1..Len(wire) :
               Cardinality(DaqBetween(i, Len(wire) + 1)') = Cardinality(DaqBetween(i, Len(wire) + 1)) + 0
    BY <1>1, <1>2, SentFrame DEF DaqInv
  <1>5. ASSUME NEW i \in 1..Len(wire'), IsDaq(i)'
        PROVE  Precedes(i, Len(wire) + 1, event, odt)'
    <2>1. i \in 1..Len(wire) /\ wire'[i] = wire[i] /\ IsDaq(i)
      BY <1>2, <1>4, <1>5 DEF IsDaq
    <2>2. Precedes(i, Len(wire) + 1, event, odt)
      BY <2>1 DEF DaqInv, WireInv
    <2>3. PICK c \in Nat : c = Cardinality(DaqBetween(i, Len(wire) + 1))
      <3>1. i \in Int /\ Len(wire) + 1 \in Int
        BY <1>4, <2>1
      <3>2. QED  BY <3>1, BetweenFinite
    <2>4. Cardinality(DaqBetween(i, Len(wire) + 1)') = c
      BY <1>4, <2>1, <2>3
    <2>5. QED  BY <1>3, <2>1, <2>2, <2>3, <2>4 DEF Precedes
  <1>6. WireInv'
    BY <1>1, <1>2, <1>5, SentPairs DEF DaqInv
  <1>7. UNCHANGED <<linkVars, phase, counter, next_odt, reset_decoder, assembly,
                    sampleVars, counts, drained>>
    BY DEF SendCto
  <1>8. QED  BY <1>1, <1>2, <1>3, <1>6, <1>7, TargetKeeps

\* Only the phase or the next frame of the target changes.
LEMMA OverloadKeeps ==
    ASSUME DaqInv, Overload  PROVE DaqInv'
  <1>1. /\ event' = event + 1 /\ odt = 0
        /\ UNCHANGED <<odt, wire, newest, newest_daq, first_frame, accepted, phase, counter, next_odt,
                       reset_decoder, decoder, torn, last_raw, last_unwrapped, origin, wrap_offset,
                       queue, first_event, last_event, counts, drained>>
    BY DEF Overload, linkVars, sampleVars, clockVars, assembly
  <1>2. event \in Nat /\ Len(wire) \in Nat
    BY FrameFacts DEF DaqInv, DaqTyped
  <1>3. DaqTyped'
    BY <1>1, <1>2 DEF DaqInv, DaqTyped, Frames, Counts, Samples
  <1>4. WireInv'
    <2>1. ASSUME NEW i \in 1..Len(wire), IsDaq(i)
          PROVE  Precedes(i, Len(wire) + 1, event', odt)
      <3>1. Precedes(i, Len(wire) + 1, event, odt)
        BY <2>1 DEF DaqInv, WireInv
      <3>2. wire[i].event \in Nat /\ wire[i].odt \in 0..(OdtCount - 1)
        BY <2>1, FrameFacts DEF DaqInv
      <3>3. wire[i].event < event
        BY <1>1, <1>2, <3>1, <3>2, Typed DEF Precedes
      <3>4. QED  BY <1>1, <1>2, <3>1, <3>2, <3>3 DEF Precedes
    <2>2. \A i, j, e, o : Precedes(i, j, e, o)' <=> Precedes(i, j, e, o)
      BY <1>1 DEF Precedes, DaqBetween
    <2>3. \A i : IsDaq(i)' <=> IsDaq(i)
      BY <1>1 DEF IsDaq
    <2>4. QED  BY <1>1, <2>1, <2>2, <2>3 DEF DaqInv, WireInv
  <1>5. LinkInv' /\ DecoderInv' /\ ClockInv' /\ SampleInv'
    BY <1>1 DEF DaqInv, LinkInv, DecoderInv, ClockInv, SampleInv, IsDaq, Raw, Whole
  <1>6. QED  BY <1>3, <1>4, <1>5 DEF DaqInv

LEMMA PhaseKeeps ==
    ASSUME DaqInv, Activate \/ Finalize  PROVE DaqInv'
  <1>1. /\ phase' \in {"active", "closed"}
        /\ UNCHANGED <<event, odt, wire, newest, newest_daq, first_frame, accepted, counter, next_odt,
                       reset_decoder, decoder, torn, last_raw, last_unwrapped, origin, wrap_offset,
                       queue, first_event, last_event, counts, drained>>
    BY DEF Activate, Finalize, targetVars, linkVars, sampleVars, clockVars, assembly
  <1>2. DaqTyped' /\ WireInv'
    <2>1. DaqTyped'
      BY <1>1 DEF DaqInv, DaqTyped, Frames, Counts, Samples
    <2>2. \A i, j, e, o : Precedes(i, j, e, o)' <=> Precedes(i, j, e, o)
      BY <1>1 DEF Precedes, DaqBetween
    <2>3. \A i : IsDaq(i)' <=> IsDaq(i)
      BY <1>1 DEF IsDaq
    <2>4. QED  BY <1>1, <2>1, <2>2, <2>3 DEF DaqInv, WireInv
  <1>3. LinkInv' /\ DecoderInv' /\ ClockInv' /\ SampleInv'
    BY <1>1 DEF DaqInv, LinkInv, DecoderInv, ClockInv, SampleInv, IsDaq, Raw, Whole
  <1>4. QED  BY <1>2, <1>3 DEF DaqInv

-----------------------------------------------------------------------------
(* The counter.                                                            *)

\* A frame that is accepted is ahead, and what lies between is counted.
LEMMA AcceptFacts ==
    ASSUME DaqInv, NEW k \in 1..Len(wire), Accept(k)
    PROVE  /\ k > newest /\ k > newest_daq /\ k \in Nat
           /\ newest' = k /\ accepted' = accepted + 1
           /\ newest_daq' = IF IsDaq(k) THEN k ELSE newest_daq
           /\ GapBefore(k) = IF accepted = 0 THEN 0 ELSE k - newest - 1
           /\ counter' = k % CounterModulus /\ first_frame' \in Nat
           /\ accepted = 0 => first_frame' = k
           /\ accepted > 0 => first_frame' = first_frame
  <1>1. /\ Len(wire) \in Nat /\ k \in Nat /\ k >= 1 /\ newest \in Nat /\ newest_daq \in 0..newest
        /\ accepted \in Nat /\ CounterModulus \in Nat \ {0} /\ first_frame \in Nat
    BY FrameFacts, Typed DEF DaqInv, DaqTyped
  <1>2. /\ 2 * (newest - k) < CounterModulus /\ 2 * (k - newest) < CounterModulus
        /\ ~Reordered(k) /\ newest' = k /\ accepted' = accepted + 1
        /\ newest_daq' = IF IsDaq(k) THEN k ELSE newest_daq
        /\ first_frame' = IF accepted = 0 THEN k ELSE first_frame
        /\ counter' = k % CounterModulus
    BY DEF Accept, Deliverable, IsDaq
  <1>3. CASE accepted = 0
    <2>1. newest = 0 /\ counter = None
      BY <1>3 DEF DaqInv, LinkInv
    <2>2. k > newest /\ GapBefore(k) = 0
      BY <1>1, <2>1 DEF GapBefore
    <2>3. k > newest_daq
      BY <1>1, <2>2
    <2>4. QED  BY <1>1, <1>2, <1>3, <2>2, <2>3
  <1>4. CASE accepted > 0
    <2>1. newest > 0 /\ counter = newest % CounterModulus
      BY <1>4 DEF DaqInv, LinkInv
    <2>2. k - newest < CounterModulus /\ newest - k < CounterModulus
      BY <1>1, <1>2
    <2>3. /\ counter \in 0..(CounterModulus - 1)
          /\ CounterDelta(k) = IF k >= newest THEN k - newest ELSE CounterModulus - (newest - k)
      <3>1. k \in Int
        BY <1>1
      <3>2. QED  BY <1>1, <2>1, <2>2, <3>1, Ahead DEF CounterDelta
    <2>4. counter # None
      BY <1>1, <2>3 DEF None
    <2>5. CounterDelta(k) # 0 /\ ~(2 * CounterDelta(k) >= CounterModulus)
      BY <1>2, <2>4 DEF Reordered
    <2>6. k > newest
      BY <1>1, <1>2, <2>3, <2>5
    <2>7. GapBefore(k) = k - newest - 1
      BY <1>1, <2>3, <2>4, <2>6 DEF GapBefore
    <2>8. k > newest_daq
      BY <1>1, <2>6
    <2>9. QED  BY <1>1, <1>2, <1>4, <2>6, <2>7, <2>8
  <1>5. QED  BY <1>1, <1>3, <1>4

\* The newest DAQ frame only moves on, and what it skips is a number.
LEMMA AcceptTyped ==
    ASSUME DaqInv, NEW k \in 1..Len(wire), Accept(k)
    PROVE  /\ newest_daq \in Nat /\ newest_daq' \in Nat /\ newest_daq' >= newest_daq
           /\ GapBefore(k) \in Int
  <1>1. newest \in Nat /\ newest_daq \in Nat
    BY FrameFacts DEF DaqInv, DaqTyped
  <1>2. /\ k \in Nat /\ k > newest_daq /\ newest_daq' = IF IsDaq(k) THEN k ELSE newest_daq
        /\ GapBefore(k) = IF accepted = 0 THEN 0 ELSE k - newest - 1
    BY AcceptFacts
  <1>3. QED  BY <1>1, <1>2

LEMMA LinkKeeps ==
    ASSUME DaqInv, NEW k \in 1..Len(wire), Accept(k), UNCHANGED wire,
           counts'.gaps = counts.gaps + GapBefore(k)
    PROVE  /\ LinkInv' /\ newest' \in 0..Len(wire) /\ newest_daq' \in 0..newest'
           /\ first_frame' \in Nat /\ accepted' \in Nat
  <1>1. /\ k > newest /\ k > newest_daq /\ k \in Nat
        /\ newest' = k /\ accepted' = accepted + 1
        /\ newest_daq' = IF IsDaq(k) THEN k ELSE newest_daq
        /\ GapBefore(k) = IF accepted = 0 THEN 0 ELSE k - newest - 1
        /\ counter' = k % CounterModulus /\ first_frame' \in Nat
        /\ accepted = 0 => first_frame' = k
        /\ accepted > 0 => first_frame' = first_frame
    BY AcceptFacts
  <1>2. /\ Len(wire) \in Nat /\ accepted \in Nat /\ newest \in Nat /\ newest_daq \in 0..newest
        /\ counts.gaps \in Int /\ first_frame \in Nat
    BY FrameFacts DEF DaqInv, DaqTyped, Counts
  <1>3. \A i : IsDaq(i)' <=> IsDaq(i)
    BY DEF IsDaq
  <1>4. newest_daq' > 0 => wire'[newest_daq'].kind = "DAQ"
    <2>1. CASE IsDaq(k)
      BY <1>1, <2>1 DEF IsDaq
    <2>2. CASE ~IsDaq(k)
      BY <1>1, <2>2 DEF DaqInv, LinkInv, IsDaq
    <2>3. QED  BY <2>1, <2>2
  <1>5. counts'.gaps + accepted' = newest' - first_frame' + 1
    <2>1. CASE accepted = 0
      <3>1. counts.gaps = 0 /\ newest' = k /\ first_frame' = k /\ GapBefore(k) = 0 /\ accepted' = 1
        BY <1>1, <2>1 DEF DaqInv, LinkInv
      <3>2. counts'.gaps = 0
        BY <3>1
      <3>3. k - k + 1 = 1
        BY <1>1
      <3>4. QED  BY <3>1, <3>2, <3>3
    <2>2. CASE accepted > 0
      <3>1. PICK g \in Int : g = counts.gaps
        BY <1>2
      <3>2. g + accepted = newest - first_frame + 1
        BY <2>2, <3>1 DEF DaqInv, LinkInv
      <3>3. counts'.gaps = g + (k - newest - 1)
        BY <1>1, <2>2, <3>1
      <3>4. g + (k - newest - 1) + (accepted + 1) = k - first_frame + 1
        BY <1>1, <1>2, <3>2
      <3>5. QED  BY <1>1, <2>2, <3>3, <3>4
    <2>3. QED  BY <1>2, <2>1, <2>2
  <1>6. accepted' > 0 /\ newest' > 0
    BY <1>1, <1>2
  <1>7. LinkInv'
    BY <1>1, <1>4, <1>5, <1>6 DEF LinkInv, IsDaq
  <1>8. QED  BY <1>1, <1>2, <1>7

\* A frame that arrives keeps what the wire has been.
LEMMA WireKept ==
    ASSUME WireInv, UNCHANGED <<event, odt, wire>>
    PROVE  WireInv'
  <1>1. \A i, j, e, o : Precedes(i, j, e, o)' <=> Precedes(i, j, e, o)
    BY DEF Precedes, DaqBetween
  <1>2. \A i : IsDaq(i)' <=> IsDaq(i)
    BY DEF IsDaq
  <1>3. QED  BY <1>1, <1>2 DEF WireInv

\* Only the gaps are counted: the samples stay as they are.
LEMMA ClockKept ==
    ASSUME DaqInv, NEW k \in 1..Len(wire), Accept(k), UNCHANGED <<wire, sampleVars, drained>>,
           counts' = [counts EXCEPT !.gaps = @ + GapBefore(k)]
    PROVE  /\ ClockInv' /\ SampleInv' /\ counts' \in Counts
           /\ counts'.gaps = counts.gaps + GapBefore(k)
  <1>1. UNCHANGED <<last_raw, last_unwrapped, origin, wrap_offset, queue, first_event, last_event>>
    BY DEF sampleVars, clockVars
  <1>2. newest_daq' >= newest_daq /\ newest_daq \in Nat /\ newest_daq' \in Nat
    BY AcceptTyped
  <1>3. counts \in Counts
    BY DEF DaqInv, DaqTyped
  <1>4. PICK g \in Int : g = GapBefore(k)
    BY AcceptTyped
  <1>5. counts' = [counts EXCEPT !.gaps = @ + g]
    BY <1>4
  <1>6. /\ counts'.gaps = counts.gaps + g
        /\ counts'.event_gaps = counts.event_gaps /\ counts'.received = counts.received
        /\ counts'.dropped = counts.dropped /\ counts'.late = counts.late
        /\ counts' \in Counts
    BY <1>3, <1>5 DEF Counts
  <1>7. SampleInv'
    BY <1>1, <1>6 DEF DaqInv, SampleInv, Whole
  <1>8. ClockInv'
    <2>1. CASE first_event = None
      BY <1>1, <1>6, <2>1 DEF DaqInv, ClockInv
    <2>2. CASE first_event # None
      <3>1. PICK j \in 1..newest_daq :
                IsDaq(j) /\ wire[j].event >= last_event /\ wire[j].odt = OdtCount - 1
        BY <2>2 DEF DaqInv, ClockInv
      <3>2. j \in 1..newest_daq' /\ IsDaq(j)' /\ wire'[j].event >= last_event' /\ wire'[j].odt = OdtCount - 1
        BY <1>1, <1>2, <3>1 DEF IsDaq
      <3>3. QED  BY <1>1, <1>6, <2>2, <3>2 DEF DaqInv, ClockInv, Raw
    <2>3. QED  BY <2>1, <2>2
  <1>9. QED  BY <1>4, <1>6, <1>7, <1>8


-----------------------------------------------------------------------------
(* The decoder.                                                            *)

\* The frames of an event that follow one another on the link are of that event,
\* unless a burst between them reaches the same ODT of a later one.
LEMMA SameEvent ==
    ASSUME DaqInv, NEW k \in 1..Len(wire), DaqFrame(k), wire[k].odt = next_odt, next_odt > 0
    PROVE  /\ newest_daq > 0 /\ wire[newest_daq].event \in Nat
           /\ wire[newest_daq].event <= wire[k].event
           /\ \/ Cardinality(DaqBetween(newest_daq, k)) >= OdtCount
              \/ wire[newest_daq].event = wire[k].event
  <1>1. k > newest_daq /\ Accept(k)
    BY AcceptFacts DEF DaqFrame
  <1>2. /\ newest_daq > 0 /\ wire[newest_daq].odt = next_odt - 1 /\ IsDaq(newest_daq)
    BY DEF DaqInv, DecoderInv, LinkInv
  <1>3. newest_daq \in 1..Len(wire) /\ next_odt \in 0..(OdtCount - 1) /\ OdtCount \in Nat
    BY <1>2, FrameFacts, Typed DEF DaqInv, DaqTyped
  <1>4. IsDaq(k)
    BY DEF DaqFrame, IsDaq
  <1>5. PICK e, o : e = wire[k].event /\ o = wire[k].odt
    OBVIOUS
  <1>6. Precedes(newest_daq, k, e, o)
    BY <1>1, <1>2, <1>3, <1>4, <1>5 DEF DaqInv, WireInv
  <1>7. wire[newest_daq].event \in Nat /\ e \in Nat
    BY <1>2, <1>3, <1>4, <1>5, FrameFacts DEF DaqInv
  <1>8. PICK c \in Nat : c = Cardinality(DaqBetween(newest_daq, k))
    <2>1. newest_daq \in Int /\ k \in Int
      BY <1>3, FrameFacts DEF DaqInv
    <2>2. QED  BY <2>1, BetweenFinite
  <1>9. wire[newest_daq].event < e => c >= OdtCount
    <2>1. SUFFICES ASSUME wire[newest_daq].event < e PROVE c >= OdtCount
      OBVIOUS
    <2>2. c >= OdtCount - 1 - (next_odt - 1) + next_odt
      BY <1>2, <1>5, <1>6, <1>8, <2>1 DEF Precedes
    <2>3. QED  BY <1>3, <2>2
  <1>10. wire[newest_daq].event <= e
    BY <1>6 DEF Precedes
  <1>11. QED  BY <1>2, <1>5, <1>7, <1>8, <1>9, <1>10

\* A DAQ frame that arrives after a sample is of a later event.
LEMMA AfterSample ==
    ASSUME DaqInv, NEW k \in 1..Len(wire), DaqFrame(k), first_event # None
    PROVE  wire[k].event > last_event /\ last_event \in Nat
  <1>1. PICK j \in 1..newest_daq : IsDaq(j) /\ wire[j].event >= last_event /\ wire[j].odt = OdtCount - 1
    BY DEF DaqInv, ClockInv
  <1>2. k > newest_daq /\ newest_daq \in Nat /\ IsDaq(k) /\ Len(wire) \in Nat
    BY AcceptFacts, FrameFacts DEF DaqFrame, IsDaq, DaqInv, DaqTyped
  <1>3. last_event \in Nat
    BY DEF DaqInv, ClockInv
  <1>4. j \in 1..Len(wire) /\ j < k
    BY <1>1, <1>2
  <1>5. PICK e, o : e = wire[k].event /\ o = wire[k].odt
    OBVIOUS
  <1>6. e \in Nat /\ o \in 0..(OdtCount - 1) /\ wire[j].event \in Nat /\ OdtCount \in Nat
    BY <1>1, <1>2, <1>4, <1>5, FrameFacts, Typed DEF DaqInv
  <1>7. Precedes(j, k, e, o)
    BY <1>1, <1>2, <1>4, <1>5 DEF DaqInv, WireInv
  <1>8. wire[j].event <= e /\ (wire[j].event = e => OdtCount - 1 < o)
    BY <1>1, <1>7 DEF Precedes
  <1>9. wire[j].event < e
    BY <1>6, <1>8
  <1>10. QED  BY <1>1, <1>3, <1>5, <1>6, <1>9

LEMMA CollectedWhole ==
    ASSUME DaqInv, NEW k \in 1..Len(wire), DaqFrame(k), wire[k].odt = next_odt \/ wire[k].odt = 0
    PROVE  /\ Collected(wire[k]) \in Seq(Nat) /\ Len(Collected(wire[k])) = wire[k].odt + 1
           /\ Torn(k) \/ \A j \in 1..(wire[k].odt + 1) : Collected(wire[k])[j] = wire[k].event
           /\ Collected(wire[k])[1] \in Nat /\ Collected(wire[k])[1] <= wire[k].event
           /\ first_event # None => Collected(wire[k])[1] > last_event
           /\ wire[k].event \in Nat /\ wire[k].odt \in 0..(OdtCount - 1) /\ Torn(k) \in BOOLEAN
  <1>1. wire[k].event \in Nat /\ wire[k].odt \in 0..(OdtCount - 1) /\ next_odt \in Nat /\ OdtCount \in Nat
    BY FrameFacts, Typed DEF DaqInv, DaqTyped, DaqFrame, IsDaq
  <1>2. Torn(k) \in BOOLEAN
    BY DEF Torn
  <1>3. CASE wire[k].odt = 0
    <2>1. PICK held : held = IF reset_decoder \/ wire[k].odt # next_odt THEN <<>> ELSE decoder
      OBVIOUS
    <2>2. held \in Seq(Nat) /\ Len(held) = 0
      <3>1. decoder \in Seq(Nat) /\ (~reset_decoder => Len(decoder) = next_odt)
        BY DEF DaqInv, DaqTyped, DecoderInv
      <3>2. <<>> \in Seq(Nat) /\ Len(<<>>) = 0
        BY EmptySeq
      <3>3. QED  BY <1>3, <2>1, <3>1, <3>2
    <2>3. Collected(wire[k]) = Append(held, wire[k].event)
      BY <2>1 DEF Collected
    <2>4. PICK e \in Nat : e = wire[k].event
      BY <1>1
    <2>5. Append(held, e) \in Seq(Nat) /\ Len(Append(held, e)) = 0 + 1 /\ Append(held, e)[0 + 1] = e
      BY <2>2, AppendProperties
    <2>6. Collected(wire[k]) \in Seq(Nat) /\ Len(Collected(wire[k])) = 1 /\ Collected(wire[k])[1] = e
      BY <2>3, <2>4, <2>5
    <2>7. first_event # None => e > last_event
      BY <2>4, AfterSample
    <2>8. QED  BY <1>1, <1>2, <1>3, <2>4, <2>6, <2>7
  <1>4. CASE wire[k].odt # 0
    <2>1. wire[k].odt = next_odt /\ next_odt > 0
      BY <1>1, <1>4
    <2>2. decoder \in Seq(Nat) /\ ~reset_decoder /\ Len(decoder) = next_odt
      BY <2>1 DEF DaqInv, DaqTyped, DecoderInv
    <2>3. /\ torn \/ \A j \in 1..next_odt : decoder[j] = wire[newest_daq].event
          /\ decoder[1] \in Nat /\ decoder[1] <= wire[newest_daq].event
          /\ first_event # None => decoder[1] > last_event
      BY <2>1 DEF DaqInv, DecoderInv
    <2>4. /\ wire[newest_daq].event \in Nat /\ wire[newest_daq].event <= wire[k].event
          /\ \/ Cardinality(DaqBetween(newest_daq, k)) >= OdtCount
             \/ wire[newest_daq].event = wire[k].event
      BY <2>1, SameEvent
    <2>5. Torn(k) \/ (~torn /\ wire[newest_daq].event = wire[k].event)
      BY <1>4, <2>4 DEF Torn
    <2>6. Collected(wire[k]) = Append(decoder, wire[k].event)
      BY <2>1, <2>2 DEF Collected
    <2>7. PICK e \in Nat, n \in Nat : e = wire[k].event /\ n = wire[k].odt
      BY <1>1
    <2>8. /\ Append(decoder, e) \in Seq(Nat) /\ Len(Append(decoder, e)) = n + 1
          /\ \A j \in 1..n : Append(decoder, e)[j] = decoder[j]
          /\ Append(decoder, e)[n + 1] = e
      BY <2>1, <2>2, <2>7, AppendProperties
    <2>9. Torn(k) \/ \A j \in 1..(n + 1) : Append(decoder, e)[j] = e
      <3>1. SUFFICES ASSUME ~Torn(k), NEW j \in 1..(n + 1) PROVE Append(decoder, e)[j] = e
        OBVIOUS
      <3>2. \A m \in 1..next_odt : decoder[m] = e
        BY <2>3, <2>5, <2>7, <3>1
      <3>3. j \in 1..n \/ j = n + 1
        BY <3>1
      <3>4. QED  BY <2>1, <2>7, <2>8, <3>2, <3>3
    <2>10. Append(decoder, e)[1] = decoder[1]
      BY <2>1, <2>7, <2>8
    <2>11. decoder[1] <= e
      BY <2>3, <2>4, <2>7
    <2>12. QED  BY <1>1, <1>2, <2>3, <2>6, <2>7, <2>8, <2>9, <2>10, <2>11
  <1>5. QED  BY <1>3, <1>4

-----------------------------------------------------------------------------
(* The frames that finish no sample.                                       *)

LEMMA FrameKeeps ==
    ASSUME DaqInv, NEW k \in 1..Len(wire), Accept(k), UNCHANGED <<targetVars, phase, sampleVars, drained>>,
           counts' = [counts EXCEPT !.gaps = @ + GapBefore(k)],
           next_odt' \in 0..(OdtCount - 1), decoder' \in Seq(Nat), torn' \in BOOLEAN,
           DecoderInv'
    PROVE  DaqInv'
  <1>1. UNCHANGED <<event, odt, wire, phase, queue, wrap_offset, drained>>
    BY DEF targetVars, sampleVars, clockVars
  <1>2. /\ ClockInv' /\ SampleInv' /\ counts' \in Counts
        /\ counts'.gaps = counts.gaps + GapBefore(k)
    BY <1>1, ClockKept
  <1>3. /\ LinkInv' /\ newest' \in 0..Len(wire) /\ newest_daq' \in 0..newest'
        /\ first_frame' \in Nat /\ accepted' \in Nat
    BY <1>1, <1>2, LinkKeeps
  <1>4. WireInv'
    BY <1>1, WireKept DEF DaqInv
  <1>5. DaqTyped'
    BY <1>1, <1>2, <1>3 DEF DaqInv, DaqTyped, Frames, Samples, Counts
  <1>6. QED  BY <1>2, <1>3, <1>4, <1>5 DEF DaqInv

LEMMA OtherFrameKeeps ==
    ASSUME DaqInv, NEW k \in 1..Len(wire), OtherFrame(k)  PROVE DaqInv'
  <1>1. /\ Accept(k) /\ UNCHANGED <<targetVars, phase, sampleVars, drained>>
        /\ counts' = [counts EXCEPT !.gaps = @ + GapBefore(k)]
    BY DEF OtherFrame
  <1>2. UNCHANGED <<wire, phase, next_odt, reset_decoder, decoder, torn, first_event, last_event>>
    BY DEF OtherFrame, targetVars, assembly, sampleVars
  <1>3. next_odt > 0 => newest_daq' = newest_daq
    <2>1. SUFFICES ASSUME next_odt > 0, IsDaq(k) PROVE FALSE
      BY <1>1, AcceptFacts
    <2>2. phase # "attached"
      BY <2>1 DEF DaqInv, DecoderInv
    <2>3. phase # "active"
      <3>1. wire[k].kind # "CTO"
        BY <2>1 DEF IsDaq
      <3>2. QED  BY <3>1 DEF OtherFrame
    <2>4. phase # "closed"
      BY <1>1 DEF Accept, Deliverable
    <2>5. phase \in {"attached", "active", "closed"}
      BY DEF DaqInv, DaqTyped
    <2>6. QED  BY <2>2, <2>3, <2>4, <2>5
  <1>4. DecoderInv'
    <2>1. reset_decoder' \/ phase' = "attached" => next_odt' = 0
      BY <1>2 DEF DaqInv, DecoderInv
    <2>2. ~reset_decoder' => Len(decoder') = next_odt'
      BY <1>2 DEF DaqInv, DecoderInv
    <2>3. QED  BY <1>2, <1>3, <2>1, <2>2 DEF DaqInv, DecoderInv
  <1>5. next_odt' \in 0..(OdtCount - 1) /\ decoder' \in Seq(Nat) /\ torn' \in BOOLEAN
    BY <1>2 DEF DaqInv, DaqTyped
  <1>6. QED  BY <1>1, <1>4, <1>5, FrameKeeps

\* A frame that is skipped makes the decoder start again.
LEMMA SkippedFrameKeeps ==
    ASSUME DaqInv, NEW k \in 1..Len(wire), InvalidFrame(k) \/ OutOfOrderOdt(k)  PROVE DaqInv'
  <1>1. /\ Accept(k) /\ UNCHANGED <<targetVars, phase, sampleVars, drained>>
        /\ counts' = [counts EXCEPT !.gaps = @ + GapBefore(k)]
    BY DEF InvalidFrame, OutOfOrderOdt, DaqFrame
  <1>2. next_odt' = 0 /\ UNCHANGED <<decoder, torn>>
    BY DEF InvalidFrame, OutOfOrderOdt, assembly
  <1>3. reset_decoder'
    BY Zenon DEF InvalidFrame, OutOfOrderOdt
  <1>4. DecoderInv'
    BY <1>2, <1>3 DEF DecoderInv
  <1>5. next_odt' \in 0..(OdtCount - 1) /\ decoder' \in Seq(Nat) /\ torn' \in BOOLEAN
    BY <1>2, Typed DEF DaqInv, DaqTyped
  <1>6. QED  BY <1>1, <1>4, <1>5, FrameKeeps

LEMMA OdtFrameKeeps ==
    ASSUME DaqInv, NEW k \in 1..Len(wire), OdtFrame(k)  PROVE DaqInv'
  <1>1. /\ Accept(k) /\ UNCHANGED <<targetVars, phase, sampleVars, drained>>
        /\ counts' = [counts EXCEPT !.gaps = @ + GapBefore(k)]
        /\ DaqFrame(k) /\ (wire[k].odt = next_odt \/ wire[k].odt = 0)
        /\ IsDaq(k) /\ k > 0
    BY DEF OdtFrame, DaqFrame, IsDaq
  <1>2. /\ decoder' = Collected(wire[k]) /\ next_odt' = wire[k].odt + 1 /\ wire[k].odt + 1 < OdtCount
        /\ torn' = Torn(k) /\ wire' = wire /\ phase' = "active"
        /\ UNCHANGED <<first_event, last_event>>
    BY DEF OdtFrame, targetVars, DaqFrame, sampleVars
  <1>3. newest_daq' = k
    BY <1>1, AcceptFacts
  <1>4. /\ Collected(wire[k]) \in Seq(Nat) /\ Len(Collected(wire[k])) = wire[k].odt + 1
        /\ Torn(k) \/ \A j \in 1..(wire[k].odt + 1) : Collected(wire[k])[j] = wire[k].event
        /\ Collected(wire[k])[1] \in Nat /\ Collected(wire[k])[1] <= wire[k].event
        /\ first_event # None => Collected(wire[k])[1] > last_event
        /\ wire[k].event \in Nat /\ wire[k].odt \in 0..(OdtCount - 1) /\ Torn(k) \in BOOLEAN
    BY <1>1, CollectedWhole
  <1>5. ~reset_decoder'
    BY Zenon DEF OdtFrame
  <1>6. DecoderInv'
    <2>1. ~(reset_decoder' \/ phase' = "attached")
      BY <1>2, <1>5
    <2>2. Len(decoder') = next_odt'
      BY <1>2, <1>4
    <2>3. next_odt' - 1 = wire[k].odt
      BY <1>2, <1>4
    <2>4. newest_daq' > 0 /\ wire'[newest_daq'].odt = next_odt' - 1
      BY <1>1, <1>2, <1>3, <2>3
    <2>5. torn' \/ \A j \in 1..next_odt' : decoder'[j] = wire'[newest_daq'].event
      BY <1>2, <1>3, <1>4
    <2>6. /\ decoder'[1] \in Nat /\ decoder'[1] <= wire'[newest_daq'].event
          /\ first_event' # None => decoder'[1] > last_event'
      BY <1>2, <1>3, <1>4
    <2>7. QED  BY <2>1, <2>2, <2>4, <2>5, <2>6 DEF DecoderInv
  <1>7. next_odt' \in 0..(OdtCount - 1) /\ decoder' \in Seq(Nat) /\ torn' \in BOOLEAN
    BY <1>2, <1>4, Typed
  <1>8. QED  BY <1>1, <1>6, <1>7, FrameKeeps

-----------------------------------------------------------------------------
(* The frame that finishes a sample.                                       *)

\* A sample of a later event than the newest one's: its timestamp unwraps to the
\* time between them.
LEMMA NextSample ==
    ASSUME DaqInv, NEW k \in 1..Len(wire), DaqFrame(k), first_event # None,
           NEW e \in Nat, e > last_event, e <= wire[k].event
    PROVE  /\ ~Late(Raw(e)) /\ Offset(Raw(e)) \in Nat /\ Raw(e) \in Nat
           /\ Raw(e) + Offset(Raw(e)) = last_unwrapped + (e - last_event) * Period
  <1>1. Accept(k) /\ IsDaq(k)
    BY DEF DaqFrame, IsDaq
  <1>2. /\ last_event \in Nat /\ last_raw = Raw(last_event) /\ last_unwrapped = last_raw + wrap_offset
        /\ wrap_offset \in Nat
    BY DEF DaqInv, ClockInv, DaqTyped
  <1>3. PICK n \in Nat : n = e - last_event /\ n > 0
    BY <1>2
  <1>4. Period \in Nat \ {0} /\ TsModulus \in Nat \ {0} /\ FirstTick \in Nat
    BY Typed
  <1>5. PICK d \in Nat : d = n * Period /\ d = (e - last_event) * Period
    BY <1>3, <1>4, SMT
  <1>6. d > 0 /\ 2 * d < TsModulus
    <2>1. 2 * Period * (e - last_event) < TsModulus
      <3>1. 2 * Period * (wire[k].event - last_event) < TsModulus
        BY <1>1 DEF Accept, Deliverable, IsDaq
      <3>2. PICK f \in Nat : f = wire[k].event
        BY <1>1, FrameFacts DEF DaqInv
      <3>3. PICK m \in Nat : m = f - e
        BY <3>2
      <3>4. 2 * Period * (f - last_event) = 2 * Period * (e - last_event) + 2 * (Period * m)
        BY <1>2, <1>4, <3>3, SMT
      <3>5. Period * m \in Nat /\ 2 * Period * (e - last_event) \in Int
        BY <1>2, <1>4, <3>3, SMT
      <3>6. PICK x \in Int, y \in Nat : x = 2 * Period * (e - last_event) /\ y = Period * m
        BY <3>5
      <3>7. x + 2 * y < TsModulus
        BY <3>1, <3>2, <3>4, <3>6
      <3>8. x < TsModulus
        BY <1>4, <3>6, <3>7
      <3>9. QED  BY <3>6, <3>8
    <2>2. 2 * Period * n = 2 * d
      BY <1>3, <1>4, <1>5, SMT
    <2>3. n * Period >= Period
      BY <1>3, <1>4, SMT
    <2>4. 2 * Period * (e - last_event) = 2 * Period * n
      BY <1>3
    <2>5. d > 0
      BY <1>4, <1>5, <2>3
    <2>6. 2 * d < TsModulus
      BY <2>1, <2>2, <2>4
    <2>7. QED  BY <2>5, <2>6
  <1>7. PICK t \in Nat : t = FirstTick + last_event * Period
    BY <1>2, <1>4, SMT
  <1>8. FirstTick + e * Period = t + d
    <2>1. e = last_event + n
      BY <1>2, <1>3
    <2>2. (last_event + n) * Period = last_event * Period + n * Period
      BY <1>2, <1>3, <1>4, SMT
    <2>3. last_event * Period \in Int
      BY <1>2, <1>4, SMT
    <2>4. PICK p \in Int : p = last_event * Period
      BY <2>3
    <2>5. t = FirstTick + p
      BY <1>7, <2>4
    <2>6. e * Period = p + d
      BY <1>5, <2>1, <2>2, <2>4
    <2>7. FirstTick + (p + d) = (FirstTick + p) + d
      BY <1>4, <1>5, <2>4
    <2>8. QED  BY <2>5, <2>6, <2>7
  <1>9. d < TsModulus
    BY <1>4, <1>6
  <1>10. PICK r \in 0..(TsModulus - 1) :
             /\ r = last_raw
             /\ Raw(e) = IF r + d < TsModulus THEN r + d ELSE r + d - TsModulus
    <2>1. t % TsModulus = last_raw /\ (t + d) % TsModulus = Raw(e)
      BY <1>2, <1>7, <1>8 DEF Raw
    <2>2. /\ t % TsModulus \in 0..(TsModulus - 1)
          /\ (t + d) % TsModulus = IF (t % TsModulus) + d < TsModulus
                                   THEN (t % TsModulus) + d ELSE (t % TsModulus) + d - TsModulus
      BY <1>4, <1>9, LaterRead
    <2>3. PICK r : r = t % TsModulus
      OBVIOUS
    <2>4. /\ r \in 0..(TsModulus - 1) /\ r = last_raw
          /\ Raw(e) = IF r + d < TsModulus THEN r + d ELSE r + d - TsModulus
      BY <2>1, <2>2, <2>3
    <2>5. QED  BY <2>4
  <1>11. last_raw # None
    BY <1>4, <1>10 DEF None
  <1>12. CASE r + d < TsModulus
    <2>1. Raw(e) = r + d /\ ~(Raw(e) < last_raw)
      BY <1>10, <1>12
    <2>2. ~Wraps(Raw(e)) /\ ~Late(Raw(e))
      BY <2>1 DEF Wraps, Late
    <2>3. Offset(Raw(e)) = wrap_offset
      BY <2>2 DEF Offset
    <2>4. Raw(e) + wrap_offset = last_unwrapped + d
      <3>1. \A a, b, c \in Int : (a + b) + c = (a + c) + b
        OBVIOUS
      <3>2. r \in Int /\ d \in Int /\ wrap_offset \in Int
        BY <1>2, <1>4, <1>5, <1>10
      <3>3. Raw(e) = r + d
        BY <2>1
      <3>4. last_unwrapped = r + wrap_offset
        BY <1>2, <1>10
      <3>5. QED  BY <3>1, <3>2, <3>3, <3>4
    <2>5. Raw(e) \in Nat
      BY <1>10, <1>4, <2>1
    <2>6. QED  BY <1>2, <1>5, <2>2, <2>3, <2>4, <2>5
  <1>13. CASE r + d >= TsModulus
    <2>1. Raw(e) = r + d - TsModulus
      BY <1>4, <1>10, <1>13
    <2>2. Raw(e) < last_raw /\ last_raw - Raw(e) = TsModulus - d /\ Raw(e) \in Nat
      BY <1>4, <1>9, <1>10, <1>13, <2>1
    <2>3. TsModulus - d > TsModulus \div 2
      BY <1>4, <1>6
    <2>4. Wraps(Raw(e))
      BY <1>11, <2>2, <2>3 DEF Wraps
    <2>5. ~Late(Raw(e)) /\ Offset(Raw(e)) = wrap_offset + TsModulus
      BY <2>4 DEF Late, Offset
    <2>6. Raw(e) + (wrap_offset + TsModulus) = last_unwrapped + d
      <3>1. \A a, b, c, m \in Int : (a + b - m) + (c + m) = (a + c) + b
        OBVIOUS
      <3>2. r \in Int /\ d \in Int /\ wrap_offset \in Int /\ TsModulus \in Int
        BY <1>2, <1>4, <1>5, <1>10
      <3>3. last_unwrapped = r + wrap_offset
        BY <1>2, <1>10
      <3>4. QED  BY <2>1, <3>1, <3>2, <3>3
    <2>7. wrap_offset + TsModulus \in Nat
      BY <1>2, <1>4
    <2>8. QED  BY <1>3, <1>5, <2>2, <2>5, <2>6, <2>7
  <1>14. QED  BY <1>4, <1>10, <1>12, <1>13

\* What a finished event adds: the time since the first sample, and what was
\* missing before it.
LEMMA SampleTaken ==
    ASSUME DaqInv, NEW k \in 1..Len(wire), FinalOdtFrame(k),
           NEW parts, parts = Collected(wire[k]), NEW e, e = parts[1]
    PROVE  /\ e \in Nat /\ wrap_offset' \in Nat
           /\ last_raw' = Raw(e) /\ last_unwrapped' = last_raw' + wrap_offset' /\ origin' \in Nat
           /\ last_event' = e /\ first_event' \in Nat
           /\ first_event # None => first_event' = first_event
           /\ last_unwrapped' - origin' = (e - first_event') * Period
           /\ queue' = Enqueue([time |-> (e - first_event') * Period, parts |-> parts, torn |-> Torn(k)])
           /\ counts'.gaps = counts.gaps + GapBefore(k)
           /\ counts'.received = counts.received + 1
           /\ counts'.dropped = counts.dropped + (IF Len(queue) = Capacity THEN 1 ELSE 0)
           /\ counts'.late = counts.late
           /\ counts'.received + counts'.event_gaps = e - first_event' + 1
           /\ counts' \in Counts
  <1>1. DaqFrame(k) /\ (wire[k].odt = next_odt \/ wire[k].odt = 0) /\ wire[k].odt + 1 = OdtCount
    BY DEF FinalOdtFrame
  <1>2. /\ parts[1] = e /\ e \in Nat /\ e <= wire[k].event
        /\ first_event # None => e > last_event
    BY <1>1, CollectedWhole
  <1>3. PICK u, full : /\ u = Raw(e) + Offset(Raw(e))
                       /\ full = IF Len(queue) = Capacity THEN 1 ELSE 0
    OBVIOUS
  <1>4. PICK g \in Int : g = GapBefore(k)
    BY <1>1, AcceptTyped DEF DaqFrame
  <1>5. /\ counts \in Counts /\ wrap_offset \in Nat /\ full \in Int
        /\ counts.gaps \in Int /\ counts.event_gaps \in Int /\ counts.received \in Int
        /\ counts.dropped \in Int /\ counts.late \in Int
    BY <1>3 DEF DaqInv, DaqTyped, Counts
  <1>6. Raw(e) \in Nat /\ Period \in Nat
    <2>1. FirstTick + e * Period \in Nat /\ Period \in Nat /\ TsModulus \in Nat \ {0}
      BY <1>2, Typed, SMT
    <2>2. \A t \in Nat : t % TsModulus \in Nat
      BY <2>1
    <2>3. QED  BY <2>1, <2>2 DEF Raw
  <1>7. \/ ~Late(Raw(e)) /\ ~(last_unwrapped # None /\ u <= last_unwrapped)
           => wrap_offset' = Offset(Raw(e)) /\ TakeSample(k, parts)
    BY <1>2, <1>3 DEF FinalOdtFrame
  <1>8. TakeSample(k, parts) =>
            LET start   == IF origin = None THEN u ELSE origin
                missing == IF last_unwrapped = None THEN 0 ELSE MissingEvents(u - last_unwrapped)
            IN  /\ last_raw' = Raw(e) /\ last_unwrapped' = u /\ origin' = start
                /\ queue' = Enqueue([time |-> u - start, parts |-> parts, torn |-> Torn(k)])
                /\ counts' = [gaps |-> counts.gaps + GapBefore(k),
                              event_gaps |-> counts.event_gaps + missing,
                              received |-> counts.received + 1, dropped |-> counts.dropped + full,
                              late |-> counts.late]
                /\ first_event' = IF first_event = None THEN e ELSE first_event
                /\ last_event' = e
    BY <1>2, <1>3 DEF TakeSample
  <1>9. CASE first_event = None
    <2>1. /\ last_raw = None /\ last_unwrapped = None /\ origin = None /\ wrap_offset = 0
          /\ counts.received = 0 /\ counts.event_gaps = 0
      BY <1>9 DEF DaqInv, ClockInv
    <2>2. ~Late(Raw(e)) /\ Offset(Raw(e)) = 0
      BY <2>1 DEF Late, Offset, Wraps
    <2>3. wrap_offset' = 0 /\ TakeSample(k, parts) /\ u = Raw(e)
      BY <1>3, <1>6, <1>7, <2>1, <2>2
    <2>4. /\ last_raw' = Raw(e) /\ last_unwrapped' = u /\ origin' = u
          /\ queue' = Enqueue([time |-> u - u, parts |-> parts, torn |-> Torn(k)])
          /\ counts' = [gaps |-> counts.gaps + g, event_gaps |-> counts.event_gaps + 0,
                        received |-> counts.received + 1, dropped |-> counts.dropped + full,
                        late |-> counts.late]
          /\ first_event' = e /\ last_event' = e
      BY <1>4, <1>8, <1>9, <2>1, <2>3
    <2>5. u - u = 0 /\ (e - e) * Period = 0
      BY <1>2, <1>6, <2>3
    <2>6. /\ counts'.gaps = counts.gaps + g /\ counts'.event_gaps = counts.event_gaps + 0
          /\ counts'.received = counts.received + 1 /\ counts'.dropped = counts.dropped + full
          /\ counts'.late = counts.late
      BY <2>4
    <2>7. counts' \in Counts
      <3>1. \A x, y \in Int : x + y \in Int
        OBVIOUS
      <3>2. counts.gaps + g \in Int /\ counts.event_gaps + 0 \in Int
        BY <1>5, <3>1
      <3>3. counts.received + 1 \in Int /\ counts.dropped + full \in Int
        BY <1>5, <3>1
      <3>4. QED  BY <1>5, <2>4, <3>2, <3>3 DEF Counts
    <2>8. counts'.received + counts'.event_gaps = e - e + 1
      BY <1>2, <2>1, <2>6
    <2>9. last_unwrapped' = last_raw' + wrap_offset' /\ last_unwrapped' - origin' = 0 /\ origin' \in Nat
      BY <1>6, <2>3, <2>4
    <2>10. /\ wrap_offset' \in Nat /\ first_event' \in Nat /\ (e - first_event') * Period = 0
           /\ counts'.received + counts'.event_gaps = e - first_event' + 1
      BY <1>2, <2>3, <2>4, <2>5, <2>8
    <2>11. queue' = Enqueue([time |-> (e - first_event') * Period, parts |-> parts, torn |-> Torn(k)])
      BY <2>4, <2>5, <2>10
    <2>12. QED  BY <1>2, <1>3, <1>4, <1>9, <2>4, <2>6, <2>7, <2>9, <2>10, <2>11
  <1>10. CASE first_event # None
    <2>1. /\ first_event \in Nat /\ last_event \in Nat /\ origin \in Nat
          /\ last_unwrapped = last_raw + wrap_offset /\ last_raw = Raw(last_event)
          /\ last_unwrapped - origin = (last_event - first_event) * Period
          /\ counts.received + counts.event_gaps = last_event - first_event + 1
      BY <1>10 DEF DaqInv, ClockInv
    <2>2. /\ e > last_event /\ ~Late(Raw(e)) /\ Offset(Raw(e)) \in Nat
          /\ Raw(e) + Offset(Raw(e)) = last_unwrapped + (e - last_event) * Period
      BY <1>1, <1>2, <1>10, NextSample
    <2>3. PICK n \in Nat \ {0} : n = e - last_event
      BY <1>2, <2>1, <2>2
    <2>4. PICK d \in Nat : d = n * Period /\ d > 0
      <3>1. Period \in Nat \ {0}
        BY Typed
      <3>2. n * Period \in Nat /\ n * Period >= Period
        BY <3>1, <2>3, SMT
      <3>3. QED  BY <3>1, <3>2
    <2>5. last_unwrapped \in Nat
      <3>1. FirstTick + last_event * Period \in Nat /\ TsModulus \in Nat \ {0}
        BY <2>1, Typed, SMT
      <3>2. \A t \in Nat : t % TsModulus \in Nat
        BY <3>1
      <3>3. Raw(last_event) \in Nat
        BY <3>1, <3>2 DEF Raw
      <3>4. wrap_offset \in Nat /\ last_unwrapped = Raw(last_event) + wrap_offset
        BY <1>5, <2>1
      <3>5. \A a, b \in Nat : a + b \in Nat
        OBVIOUS
      <3>6. QED  BY <3>3, <3>4, <3>5
    <2>6. u = last_unwrapped + d
      BY <1>3, <2>2, <2>3, <2>4
    <2>7. wrap_offset' = Offset(Raw(e)) /\ TakeSample(k, parts)
      <3>1. ~(u <= last_unwrapped)
        BY <2>4, <2>5, <2>6
      <3>2. QED  BY <1>7, <2>2, <3>1
    <2>8. origin # None /\ last_unwrapped # None
      BY <2>1, <2>5 DEF None
    <2>9. MissingEvents(u - last_unwrapped) = n - 1
      <3>1. u - last_unwrapped = n * Period
        BY <2>4, <2>5, <2>6
      <3>2. QED  BY <3>1, MissingOfMultiple
    <2>10. /\ last_raw' = Raw(e) /\ last_unwrapped' = u /\ origin' = origin
           /\ queue' = Enqueue([time |-> u - origin, parts |-> parts, torn |-> Torn(k)])
           /\ counts' = [gaps |-> counts.gaps + g, event_gaps |-> counts.event_gaps + (n - 1),
                         received |-> counts.received + 1, dropped |-> counts.dropped + full,
                         late |-> counts.late]
           /\ first_event' = first_event /\ last_event' = e
      BY <1>4, <1>8, <1>10, <2>7, <2>8, <2>9
    <2>11. u - origin = (e - first_event) * Period
      <3>1. PICK m \in Int : m = last_event - first_event
        BY <2>1
      <3>2. e - first_event = m + n
        BY <1>2, <2>1, <2>3, <3>1
      <3>3. (m + n) * Period = m * Period + n * Period
        BY <1>6, <3>1, <2>3, SMT
      <3>4. PICK x \in Int : x = m * Period
        BY <1>6, <3>1, SMT
      <3>5. last_unwrapped - origin = x
        BY <2>1, <3>1, <3>4
      <3>6. u - origin = x + d
        BY <2>1, <2>5, <2>6, <3>4, <3>5
      <3>7. QED  BY <2>4, <3>2, <3>3, <3>4, <3>6
    <2>12. /\ counts'.gaps = counts.gaps + g /\ counts'.event_gaps = counts.event_gaps + (n - 1)
           /\ counts'.received = counts.received + 1 /\ counts'.dropped = counts.dropped + full
           /\ counts'.late = counts.late
      BY <2>10
    <2>13. counts' \in Counts
      <3>1. PICK m \in Int : m = n - 1
        BY <2>3
      <3>2. \A x, y \in Int : x + y \in Int
        OBVIOUS
      <3>3. counts.gaps + g \in Int /\ counts.event_gaps + m \in Int
        BY <1>5, <3>2
      <3>4. counts.received + 1 \in Int /\ counts.dropped + full \in Int
        BY <1>5, <3>2
      <3>5. QED  BY <1>5, <2>10, <3>1, <3>3, <3>4 DEF Counts
    <2>14. counts'.received + counts'.event_gaps = e - first_event + 1
      <3>1. PICK r \in Int, x \in Int : r = counts.received /\ x = counts.event_gaps
        BY <1>5
      <3>2. counts'.received = r + 1 /\ counts'.event_gaps = x + (n - 1) /\ r + x = last_event - first_event + 1
        BY <2>1, <2>12, <3>1
      <3>3. e \in Nat /\ last_event \in Nat /\ first_event \in Nat /\ n \in Nat /\ n = e - last_event
        BY <1>2, <2>1, <2>3
      <3>4. r + x = last_event - first_event + 1
        BY <3>2
      <3>5. (r + 1) + (x + (n - 1)) = e - first_event + 1
        <4>1. (r + 1) + (x + (n - 1)) = (r + x) + n
          <5>1. \A a, b, c \in Int : (a + 1) + (b + (c - 1)) = (a + b) + c
            OBVIOUS
          <5>2. r \in Int /\ x \in Int /\ n \in Int
            BY <3>1, <3>3
          <5>3. QED  BY <5>1, <5>2
        <4>2. (r + x) + n = (last_event - first_event + 1) + n
          BY <3>4
        <4>3. (last_event - first_event + 1) + n = e - first_event + 1
          BY <3>3
        <4>4. QED  BY <4>1, <4>2, <4>3
      <3>6. QED  BY <3>2, <3>5
    <2>15. last_unwrapped' = last_raw' + wrap_offset' /\ wrap_offset' \in Nat
      BY <1>3, <2>2, <2>7, <2>10
    <2>16. QED  BY <1>2, <1>3, <1>4, <2>1, <2>10, <2>11, <2>12, <2>13, <2>14, <2>15
  <1>11. QED  BY <1>9, <1>10

LEMMA Enqueued ==
    ASSUME DaqTyped, NEW s \in Samples
    PROVE  /\ Enqueue(s) \in Seq(Samples) /\ Len(queue) \in Nat
           /\ Len(Enqueue(s)) = Len(queue) + 1 - (IF Len(queue) = Capacity THEN 1 ELSE 0)
           /\ \A i \in 1..Len(Enqueue(s)) :
                  Enqueue(s)[i] = s \/ \E j \in 1..Len(queue) : Enqueue(s)[i] = queue[j]
  <1>1. queue \in Seq(Samples) /\ Len(queue) \in Nat
    BY LenProperties DEF DaqTyped
  <1>2. PICK left : left = IF Len(queue) = Capacity THEN Tail(queue) ELSE queue
    OBVIOUS
  <1>3. /\ left \in Seq(Samples) /\ Len(left) = Len(queue) - (IF Len(queue) = Capacity THEN 1 ELSE 0)
        /\ \A i \in 1..Len(left) : \E j \in 1..Len(queue) : left[i] = queue[j]
    <2>1. CASE Len(queue) = Capacity
      <3>1. queue # <<>>
        <4>1. Len(queue) > 0
          BY <2>1, Typed
        <4>2. Len(<<>>) = 0
          OBVIOUS
        <4>3. QED  BY <4>1, <4>2
      <3>2. /\ Tail(queue) \in Seq(Samples) /\ Len(Tail(queue)) = Len(queue) - 1
            /\ \A i \in 1..Len(Tail(queue)) : Tail(queue)[i] = queue[i + 1]
        BY <1>1, <3>1, HeadTailProperties
      <3>3. \A i \in 1..Len(Tail(queue)) : i + 1 \in 1..Len(queue)
        BY <1>1, <3>2
      <3>4. QED  BY <1>2, <2>1, <3>2, <3>3
    <2>2. CASE Len(queue) # Capacity
      BY <1>1, <1>2, <2>2
    <2>3. QED  BY <2>1, <2>2
  <1>4. Enqueue(s) = Append(left, s)
    BY <1>2 DEF Enqueue
  <1>5. /\ Append(left, s) \in Seq(Samples) /\ Len(Append(left, s)) = Len(left) + 1
        /\ \A i \in 1..Len(left) : Append(left, s)[i] = left[i]
        /\ Append(left, s)[Len(left) + 1] = s
    BY <1>3, AppendProperties
  <1>6. Len(left) \in Nat
    BY <1>3, LenProperties
  <1>7. \A i \in 1..(Len(left) + 1) : i \in 1..Len(left) \/ i = Len(left) + 1
    BY <1>6
  <1>8. ASSUME NEW i \in 1..Len(Enqueue(s))
        PROVE  Enqueue(s)[i] = s \/ \E j \in 1..Len(queue) : Enqueue(s)[i] = queue[j]
    <2>1. i \in 1..(Len(left) + 1)
      BY <1>4, <1>5
    <2>2. CASE i \in 1..Len(left)
      BY <1>3, <1>4, <1>5, <2>2
    <2>3. CASE i = Len(left) + 1
      BY <1>4, <1>5, <2>3
    <2>4. QED  BY <1>7, <2>1, <2>2, <2>3
  <1>9. Len(Enqueue(s)) = Len(queue) + 1 - (IF Len(queue) = Capacity THEN 1 ELSE 0)
    BY <1>1, <1>3, <1>4, <1>5
  <1>10. QED  BY <1>1, <1>4, <1>5, <1>8, <1>9

LEMMA FinalOdtFrameKeeps ==
    ASSUME DaqInv, NEW k \in 1..Len(wire), FinalOdtFrame(k)  PROVE DaqInv'
  <1>1. /\ DaqFrame(k) /\ Accept(k) /\ IsDaq(k) /\ UNCHANGED <<targetVars, phase, drained>>
        /\ (wire[k].odt = next_odt \/ wire[k].odt = 0) /\ wire[k].odt + 1 = OdtCount
        /\ decoder' = <<>> /\ torn' = FALSE /\ next_odt' = 0
    BY DEF FinalOdtFrame, DaqFrame, IsDaq
  <1>2. UNCHANGED <<event, odt, wire, phase, drained>>
    BY <1>1 DEF targetVars
  <1>3. PICK e, parts : e = parts[1] /\ parts = Collected(wire[k])
    OBVIOUS
  <1>4. /\ e \in Nat /\ wrap_offset' \in Nat
        /\ last_raw' = Raw(e) /\ last_unwrapped' = last_raw' + wrap_offset' /\ origin' \in Nat
        /\ last_event' = e /\ first_event' \in Nat
        /\ first_event # None => first_event' = first_event
        /\ last_unwrapped' - origin' = (e - first_event') * Period
        /\ queue' = Enqueue([time |-> (e - first_event') * Period, parts |-> parts, torn |-> Torn(k)])
        /\ counts'.gaps = counts.gaps + GapBefore(k)
        /\ counts'.received = counts.received + 1
        /\ counts'.dropped = counts.dropped + (IF Len(queue) = Capacity THEN 1 ELSE 0)
        /\ counts'.late = counts.late
        /\ counts'.received + counts'.event_gaps = e - first_event' + 1
        /\ counts' \in Counts
    BY <1>3, SampleTaken
  <1>5. /\ parts \in Seq(Nat) /\ Len(parts) = OdtCount /\ Torn(k) \in BOOLEAN
        /\ Torn(k) \/ \A j \in 1..OdtCount : parts[j] = parts[1]
        /\ wire[k].event \in Nat /\ e <= wire[k].event
    <2>1. /\ Collected(wire[k]) \in Seq(Nat) /\ Len(Collected(wire[k])) = wire[k].odt + 1
          /\ Torn(k) \/ \A j \in 1..(wire[k].odt + 1) : Collected(wire[k])[j] = wire[k].event
          /\ Collected(wire[k])[1] <= wire[k].event
          /\ wire[k].event \in Nat /\ Torn(k) \in BOOLEAN
      BY <1>1, CollectedWhole
    <2>2. 1 \in 1..OdtCount
      BY Typed
    <2>3. Torn(k) \/ \A j \in 1..OdtCount : parts[j] = parts[1]
      BY <1>1, <1>3, <2>1, <2>2
    <2>4. QED  BY <1>1, <1>3, <2>1, <2>3
  <1>6. PICK s : s = [time |-> (e - first_event') * Period, parts |-> parts, torn |-> Torn(k)]
    OBVIOUS
  <1>7. s \in Samples /\ s.time = (e - first_event') * Period /\ s.parts = parts /\ s.torn = Torn(k)
    <2>1. (e - first_event') * Period \in Int
      BY <1>4, Typed, SMT
    <2>2. QED  BY <1>5, <1>6, <2>1 DEF Samples
  <1>8. queue' = Enqueue(s)
    BY <1>4, <1>6
  <1>9. /\ Enqueue(s) \in Seq(Samples) /\ Len(queue) \in Nat
        /\ Len(Enqueue(s)) = Len(queue) + 1 - (IF Len(queue) = Capacity THEN 1 ELSE 0)
        /\ \A i \in 1..Len(Enqueue(s)) :
               Enqueue(s)[i] = s \/ \E j \in 1..Len(queue) : Enqueue(s)[i] = queue[j]
    BY <1>7, Enqueued DEF DaqInv
  <1>10. /\ k > newest_daq /\ k \in Nat /\ newest_daq' = k
    BY <1>1, AcceptFacts
  <1>11. /\ LinkInv' /\ newest' \in 0..Len(wire) /\ newest_daq' \in 0..newest'
         /\ first_frame' \in Nat /\ accepted' \in Nat
    BY <1>1, <1>2, <1>4, LinkKeeps
  <1>12. WireInv'
    BY <1>2, WireKept DEF DaqInv
  <1>13. DaqTyped'
    <2>1. next_odt' \in 0..(OdtCount - 1) /\ decoder' \in Seq(Nat)
      BY <1>1, Typed, EmptySeq
    <2>2. torn' \in BOOLEAN
      BY <1>1
    <2>3. queue' \in Seq(Samples)'
      BY <1>8, <1>9 DEF Samples
    <2>4. QED  BY <1>2, <1>4, <1>11, <2>1, <2>2, <2>3 DEF DaqInv, DaqTyped, Frames, Counts
  <1>14. DecoderInv'
    BY <1>1 DEF DecoderInv
  <1>15. ClockInv'
    <2>1. first_event' # None
      BY <1>4 DEF None
    <2>2. last_raw' = Raw(last_event') /\ Raw(last_event)' = Raw(last_event')
      BY <1>4 DEF Raw
    <2>3. k \in 1..newest_daq'
      BY <1>10
    <2>4. IsDaq(k)' /\ wire'[k].event >= last_event' /\ wire'[k].odt = OdtCount - 1
      <3>1. wire[k].odt \in 0..(OdtCount - 1)
        BY <1>1, FrameFacts DEF DaqInv
      <3>2. wire[k].odt = OdtCount - 1
        BY <1>1, <3>1, Typed
      <3>3. QED  BY <1>1, <1>2, <1>4, <1>5, <3>2 DEF IsDaq
    <2>5. last_unwrapped' - origin' = (last_event' - first_event') * Period
      BY <1>4
    <2>6. counts'.received + counts'.event_gaps = last_event' - first_event' + 1
      BY <1>4
    <2>7. last_event' \in Nat
      BY <1>4
    <2>8. QED  BY <1>4, <2>1, <2>2, <2>3, <2>4, <2>5, <2>6, <2>7 DEF ClockInv
  <1>16. SampleInv'
    <2>1. ASSUME NEW i \in 1..Len(queue')  PROVE Whole(queue[i])'
      <3>1. CASE queue'[i] = s
        <4>1. s.torn \/ \A j \in 1..OdtCount : s.parts[j] = s.parts[1]
          BY <1>5, <1>7
        <4>2. s.time = (s.parts[1] - first_event') * Period
          BY <1>3, <1>7
        <4>3. QED  BY <3>1, <4>1, <4>2 DEF Whole
      <3>2. ASSUME NEW j \in 1..Len(queue), queue'[i] = queue[j]  PROVE Whole(queue[i])'
        <4>1. first_event # None
          <5>1. SUFFICES ASSUME first_event = None PROVE FALSE
            OBVIOUS
          <5>2. queue = <<>>
            BY <5>1 DEF DaqInv, ClockInv
          <5>3. Len(queue) = 0
            BY <5>2
          <5>4. QED  BY <5>3
        <4>2. first_event' = first_event
          BY <1>4, <4>1
        <4>3. Whole(queue[j])
          BY DEF DaqInv, SampleInv
        <4>4. QED  BY <3>2, <4>2, <4>3 DEF Whole
      <3>3. QED  BY <1>8, <1>9, <3>1, <3>2
    <2>2. counts'.late = 0
      BY <1>4 DEF DaqInv, SampleInv
    <2>3. counts'.received = Len(queue') + drained' + counts'.dropped
      <3>1. PICK q \in Nat, full \in Int : q = Len(queue) /\ full = IF Len(queue) = Capacity THEN 1 ELSE 0
        BY <1>9
      <3>2. Len(queue') = q + 1 - full /\ counts'.dropped = counts.dropped + full
        BY <1>4, <1>8, <1>9, <3>1
      <3>3. counts.received = q + drained + counts.dropped
        BY <3>1 DEF DaqInv, SampleInv
      <3>4. drained \in Nat /\ counts.dropped \in Int /\ counts.received \in Int
        BY DEF DaqInv, DaqTyped, Counts
      <3>5. PICK x \in Int, r \in Int : x = counts.dropped /\ r = counts.received
        BY <3>4
      <3>6. r + 1 = (q + 1 - full) + drained + (x + full)
        BY <3>3, <3>4, <3>5
      <3>7. QED  BY <1>2, <1>4, <3>2, <3>5, <3>6
    <2>4. QED  BY <2>1, <2>2, <2>3 DEF SampleInv
  <1>17. QED  BY <1>11, <1>12, <1>13, <1>14, <1>15, <1>16 DEF DaqInv

-----------------------------------------------------------------------------
(* The user interface.                                                     *)

LEMMA DrainKeeps ==
    ASSUME DaqInv, NEW n \in 1..Capacity, Drain(n)  PROVE DaqInv'
  <1>1. /\ n <= Len(queue) /\ queue' = SubSeq(queue, n + 1, Len(queue)) /\ drained' = drained + n
        /\ UNCHANGED <<event, odt, wire, newest, newest_daq, first_frame, accepted, phase, counter,
                       next_odt, reset_decoder, decoder, torn, last_raw, last_unwrapped, origin,
                       wrap_offset, first_event, last_event, counts>>
    BY DEF Drain, targetVars, linkVars, clockVars, assembly
  <1>2. queue \in Seq(Samples) /\ Len(queue) \in Nat /\ n \in Nat /\ n >= 1
    BY LenProperties, Typed DEF DaqInv, DaqTyped
  <1>3. /\ queue' \in Seq(Samples) /\ Len(queue') = Len(queue) - n
        /\ \A i \in 1..Len(queue') : queue'[i] = queue[n + i]
    <2>1. n + 1 \in 1..(Len(queue) + 1)
      BY <1>1, <1>2
    <2>2. \A i \in (n + 1)..Len(queue) : queue[i] \in Samples
      BY <1>2, ElementOfSeq
    <2>3. /\ SubSeq(queue, n + 1, Len(queue)) \in Seq(Samples)
          /\ Len(SubSeq(queue, n + 1, Len(queue))) =
                 IF n + 1 <= Len(queue) THEN Len(queue) - (n + 1) + 1 ELSE 0
          /\ \A i \in 1..(Len(queue) - (n + 1) + 1) :
                 SubSeq(queue, n + 1, Len(queue))[i] = queue[(n + 1) + i - 1]
      BY <1>2, <2>1, <2>2, SubSeqProperties
    <2>4. Len(queue') = Len(queue) - n
      BY <1>1, <1>2, <2>3
    <2>5. \A i \in 1..Len(queue') : i \in 1..(Len(queue) - (n + 1) + 1) /\ (n + 1) + i - 1 = n + i
      BY <1>2, <2>4
    <2>6. QED  BY <1>1, <2>3, <2>4, <2>5
  <1>4. DaqTyped'
    BY <1>1, <1>2, <1>3 DEF DaqInv, DaqTyped, Frames, Samples, Counts
  <1>5. WireInv'
    BY <1>1, WireKept DEF DaqInv
  <1>6. LinkInv' /\ DecoderInv'
    BY <1>1 DEF DaqInv, LinkInv, DecoderInv, IsDaq
  <1>7. ClockInv'
    <2>1. first_event # None
      <3>1. SUFFICES ASSUME first_event = None PROVE FALSE
        OBVIOUS
      <3>2. queue = <<>>
        BY <3>1 DEF DaqInv, ClockInv
      <3>3. Len(queue) = 0
        BY <3>2
      <3>4. QED  BY <1>1, <1>2, <3>3
    <2>2. QED  BY <1>1, <2>1 DEF DaqInv, ClockInv, IsDaq, Raw
  <1>8. SampleInv'
    <2>1. ASSUME NEW i \in 1..Len(queue')  PROVE Whole(queue[i])'
      <3>1. n + i \in 1..Len(queue) /\ queue'[i] = queue[n + i]
        BY <1>2, <1>3
      <3>2. Whole(queue[n + i])
        BY <3>1 DEF DaqInv, SampleInv
      <3>3. QED  BY <1>1, <3>1, <3>2 DEF Whole
    <2>2. counts'.late = 0
      BY <1>1 DEF DaqInv, SampleInv
    <2>3. counts'.received = Len(queue') + drained' + counts'.dropped
      <3>1. counts.received = Len(queue) + drained + counts.dropped
        BY DEF DaqInv, SampleInv
      <3>2. drained \in Nat /\ counts.dropped \in Int
        BY DEF DaqInv, DaqTyped, Counts
      <3>3. PICK x, r : x \in Int /\ x = counts.dropped /\ r = counts.received
        BY <3>2
      <3>4. r = (Len(queue) - n) + (drained + n) + x
        BY <1>2, <3>1, <3>2, <3>3
      <3>5. QED  BY <1>1, <1>3, <3>3, <3>4
    <2>4. QED  BY <2>1, <2>2, <2>3 DEF SampleInv
  <1>9. QED  BY <1>4, <1>5, <1>6, <1>7, <1>8 DEF DaqInv

-----------------------------------------------------------------------------
(* The theorems.                                                           *)

LEMMA InitDaq ==
    ASSUME Init  PROVE DaqInv
  <1>1. wire = <<>> /\ decoder = <<>> /\ queue = <<>> /\ Len(<<>>) = 0
    BY DEF Init
  <1>2. <<>> \in Seq(Frames) /\ <<>> \in Seq(Nat) /\ <<>> \in Seq(Samples)
    BY EmptySeq
  <1>3. counts = [gaps |-> 0, event_gaps |-> 0, received |-> 0, dropped |-> 0, late |-> 0]
    BY DEF Init
  <1>4. counts \in Counts
    BY <1>3 DEF Counts
  <1>5. DaqTyped
    <2>1. torn \in BOOLEAN
      BY DEF Init
    <2>2. 0 \in 0..(OdtCount - 1) /\ 0 \in 0..0
      BY Typed
    <2>3. QED  BY <1>1, <1>2, <1>4, <2>1, <2>2 DEF Init, DaqTyped
  <1>6. WireInv
    BY <1>1 DEF WireInv
  <1>7. LinkInv /\ DecoderInv
    BY <1>1, <1>3 DEF Init, LinkInv, DecoderInv
  <1>8. ClockInv
    BY <1>1, <1>3 DEF Init, ClockInv
  <1>9. SampleInv
    BY <1>1, <1>3 DEF Init, SampleInv
  <1>10. QED  BY <1>5, <1>6, <1>7, <1>8, <1>9 DEF DaqInv

LEMMA StutterKeeps ==
    ASSUME DaqInv, UNCHANGED vars  PROVE DaqInv'
  <1>1. UNCHANGED <<event, odt, wire, newest, newest_daq, first_frame, accepted, phase, counter,
                    next_odt, reset_decoder, decoder, torn, last_raw, last_unwrapped, origin,
                    wrap_offset, queue, first_event, last_event, counts, drained>>
    BY DEF vars, targetVars, linkVars, clockVars, sampleVars, assembly
  <1>2. DaqTyped'
    BY <1>1 DEF DaqInv, DaqTyped, Frames, Samples, Counts
  <1>3. WireInv'
    BY <1>1, WireKept DEF DaqInv
  <1>4. LinkInv' /\ DecoderInv' /\ ClockInv' /\ SampleInv'
    BY <1>1 DEF DaqInv, LinkInv, DecoderInv, ClockInv, SampleInv, IsDaq, Raw, Whole
  <1>5. QED  BY <1>2, <1>3, <1>4 DEF DaqInv

\* What the target has sent, what the policy has seen of it, and what it holds
\* and has counted, agree in every state.
THEOREM DaqInvariant == Spec => []DaqInv
  <1>1. Init => DaqInv
    BY InitDaq
  <1>2. DaqInv /\ [Next]_vars => DaqInv'
    <2> SUFFICES ASSUME DaqInv, [Next]_vars PROVE DaqInv'
      OBVIOUS
    <2>1. CASE SendOdt
      BY <2>1, SendOdtKeeps
    <2>2. CASE Overload
      BY <2>2, OverloadKeeps
    <2>3. CASE SendCto
      BY <2>3, SendCtoKeeps
    <2>4. CASE Activate \/ Finalize
      BY <2>4, PhaseKeeps
    <2>5. ASSUME NEW k \in 1..Len(wire), ReorderedFrame(k)  PROVE DaqInv'
      BY <2>5, StutterKeeps DEF ReorderedFrame
    <2>6. ASSUME NEW k \in 1..Len(wire), OtherFrame(k)  PROVE DaqInv'
      BY <2>6, OtherFrameKeeps
    <2>7. ASSUME NEW k \in 1..Len(wire), InvalidFrame(k) \/ OutOfOrderOdt(k)  PROVE DaqInv'
      BY <2>7, SkippedFrameKeeps
    <2>8. ASSUME NEW k \in 1..Len(wire), OdtFrame(k)  PROVE DaqInv'
      BY <2>8, OdtFrameKeeps
    <2>9. ASSUME NEW k \in 1..Len(wire), FinalOdtFrame(k)  PROVE DaqInv'
      BY <2>9, FinalOdtFrameKeeps
    <2>10. ASSUME NEW n \in 1..Capacity, Drain(n)  PROVE DaqInv'
      BY <2>10, DrainKeeps
    <2>11. CASE UNCHANGED vars
      BY <2>11, StutterKeeps
    <2>12. QED  BY <2>1, <2>2, <2>3, <2>4, <2>5, <2>6, <2>7, <2>8, <2>9, <2>10, <2>11 DEF Next
  <1>3. QED  BY <1>1, <1>2, PTL DEF Spec

\* A sample mixes values of two model events only where as many DAQ frames in a
\* row as an event has were lost between its own, for every number of frames per
\* event and whatever else is lost, damaged, repeated or late (feed's check of
\* _next_odt).
THEOREM EventsNeverMixed == Spec => []EventsNotMixed
  <1>1. DaqInv => EventsNotMixed
    BY DEF DaqInv, SampleInv, Whole, EventsNotMixed
  <1>2. QED  BY <1>1, DaqInvariant, PTL

\* A sample's time is the time that passed on the target since the first sample,
\* for every period and timestamp range, however often the timestamp wraps and
\* whatever is lost; no finished event is taken for a late one (on_daq_list).
THEOREM TimesAlwaysTrue == Spec => []TimesTrue
  <1>1. DaqInv => TimesTrue
    <2> SUFFICES ASSUME DaqInv PROVE TimesTrue
      OBVIOUS
    <2>1. counts.late = 0 /\ \A i \in 1..Len(queue) : Whole(queue[i])
      BY DEF DaqInv, SampleInv
    <2>2. \A i \in 1..Len(queue) : queue[i].time = (queue[i].parts[1] - first_event) * Period
      BY <2>1 DEF Whole
    <2>3. QED  BY <2>1, <2>2 DEF TimesTrue
  <1>2. QED  BY <1>1, DaqInvariant, PTL

\* The gap counters account for every frame between the first and the newest
\* accepted one and for every event between the first and the newest sample, and
\* every received sample is queued, drained or evicted (feed, on_daq_list, drain).
THEOREM LossesAlwaysAccounted == Spec => []LossesAccounted
  <1>1. DaqInv => LossesAccounted
    BY DEF DaqInv, LinkInv, ClockInv, SampleInv, LossesAccounted
  <1>2. QED  BY <1>1, DaqInvariant, PTL

-----------------------------------------------------------------------------
(* The observation page: at every moment, also while a redraw is due, the  *)
(* picture differs from what it should be in its limits only.              *)

ChartStyles == [visible: BOOLEAN, subplot: Nat]

ChartTyped ==
    /\ layout \in Nat \ {0} /\ signals \in [DOMAIN signals -> ChartStyles]
    /\ follow \in BOOLEAN /\ mode \in {"none", "pan", "zoom"} /\ cursors \in 0..2
    /\ drag \in BOOLEAN /\ dirty \in BOOLEAN /\ timer \in BOOLEAN

\* The signals that may have a line, and whether they show it.
ChartShown(n) == signals[n].visible /\ n \in selected /\ n \in has

ChartDrawn ==
    /\ chosen = selected /\ drawn.version = version
    /\ lines = [n \in DOMAIN signals |->
                    [subplot |-> signals[n].subplot, shown |-> ChartShown(n)]]
    /\ \A n \in DOMAIN signals : signals[n].subplot < layout
    /\ IF dirty THEN timer ELSE drawn.range \in {"all", view}

ChartInv == ChartTyped /\ ChartDrawn /\ Chart!OneToolAtATime

LEMMA ChartConstants == /\ 1 \in Layouts /\ \A k \in Layouts : k \in Nat \ {0}
                        /\ Ranges \intersect {"start", "fit", "all"} = {}
  BY WorkbenchAssumption DEF WorkbenchAssumption, Chart!ChartAssumption

\* The rows of the cursor table are those of the lines.
LEMMA ChartRows ==
    ASSUME lines' = [n \in DOMAIN signals' |->
                        [subplot |-> signals'[n].subplot, shown |-> ChartShown(n)']]
    PROVE  Chart!Rows' = IF cursors' = 0 THEN {}
                         ELSE {n \in selected' \intersect DOMAIN signals' :
                                  signals'[n].visible /\ n \in has'}
  <1>1. DOMAIN lines' = DOMAIN signals'
    OBVIOUS
  <1>2. \A n \in DOMAIN signals' : lines'[n].shown = ChartShown(n)'
    OBVIOUS
  <1>3. \A n \in selected' \intersect DOMAIN signals' :
            lines'[n].shown <=> signals'[n].visible /\ n \in has'
    BY <1>2, Zenon DEF ChartShown
  <1>4. {n \in selected' \intersect DOMAIN lines' : lines'[n].shown}
            = {n \in selected' \intersect DOMAIN signals' : signals'[n].visible /\ n \in has'}
    BY <1>1, <1>3, Zenon
  <1>5. QED  BY <1>4 DEF Chart!Rows

\* The tools after a step: what OneToolAtATime says but for the table.
ChartTools ==
    /\ follow \in BOOLEAN /\ mode \in {"none", "pan", "zoom"} /\ cursors \in 0..2
    /\ drag \in BOOLEAN
    /\ mode # "none" => ~follow /\ cursors = 0
    /\ drag => cursors > 0

\* The signals after a step.
ChartSignals ==
    /\ layout \in Nat \ {0} /\ signals \in [DOMAIN signals -> ChartStyles]
    /\ \A n \in DOMAIN signals : signals[n].subplot < layout
    /\ chosen = selected

LEMMA ChartParts ==
    ASSUME ChartInv
    PROVE  ChartTools /\ ChartSignals /\ dirty \in BOOLEAN /\ timer \in BOOLEAN
  BY DEF ChartInv, ChartTyped, ChartDrawn, Chart!OneToolAtATime, ChartTools, ChartSignals

\* A step that draws leaves the picture as it should be.
LEMMA ChartDraws ==
    ASSUME NEW limits, Chart!Draw(limits), ChartTools', ChartSignals'
    PROVE  ChartInv'
  <1>1. lines' = [n \in DOMAIN signals' |->
                     [subplot |-> signals'[n].subplot, shown |-> ChartShown(n)']]
    BY DEF Chart!Draw, ChartSignals, ChartShown
  <1>2. table' = Chart!Rows'
    BY DEF Chart!Draw
  <1>3. Chart!OneToolAtATime'
    <2>1. Chart!Rows' = IF cursors' = 0 THEN {}
                        ELSE {n \in selected' \intersect DOMAIN signals' :
                                 signals'[n].visible /\ n \in has'}
      BY <1>1, ChartRows
    <2>2. QED  BY <1>2, <2>1 DEF Chart!OneToolAtATime, ChartTools
  <1>4. /\ drawn'.version = version' /\ drawn'.range \in {"all", view'}
        /\ dirty' = FALSE /\ timer' = TRUE
    BY DEF Chart!Draw, ChartTools
  <1>5. ChartTyped'
    BY <1>4 DEF ChartTyped, ChartTools, ChartSignals
  <1>6. ChartDrawn'
    BY <1>1, <1>4 DEF ChartDrawn, ChartSignals
  <1>7. QED  BY <1>3, <1>5, <1>6 DEF ChartInv

\* A step that leaves the lines as they are, and makes a redraw due for other
\* limits.
LEMMA ChartKeeps ==
    ASSUME ChartInv, UNCHANGED <<selected, chosen, has, version, signals, layout, lines, drawn>>,
           ChartTools',
           table' = Chart!Rows' \/ UNCHANGED <<table, cursors>>,
           \/ UNCHANGED <<dirty, view>> /\ timer' \in {TRUE, timer}
           \/ dirty' = TRUE /\ timer' = TRUE
    PROVE  ChartInv'
  <1>1. lines' = [n \in DOMAIN signals' |->
                     [subplot |-> signals'[n].subplot, shown |-> ChartShown(n)']]
    BY DEF ChartInv, ChartDrawn, ChartShown
  <1>2. Chart!OneToolAtATime'
    <2>1. Chart!Rows' = IF cursors' = 0 THEN {}
                        ELSE {n \in selected' \intersect DOMAIN signals' :
                                 signals'[n].visible /\ n \in has'}
      BY <1>1, ChartRows
    <2>2. table' = IF cursors' = 0 THEN {}
                   ELSE {n \in selected' \intersect DOMAIN signals' :
                            signals'[n].visible /\ n \in has'}
      BY <2>1 DEF ChartInv, Chart!OneToolAtATime
    <2>3. QED  BY <2>2 DEF Chart!OneToolAtATime, ChartTools
  <1>3. dirty' \in BOOLEAN /\ timer' \in BOOLEAN
        /\ IF dirty' THEN timer' ELSE drawn'.range \in {"all", view'}
    <2>1. /\ dirty \in BOOLEAN /\ timer \in BOOLEAN /\ drawn' = drawn
          /\ dirty => timer
          /\ ~dirty => drawn.range \in {"all", view}
      BY DEF ChartInv, ChartTyped, ChartDrawn
    <2>2. CASE UNCHANGED <<dirty, view>> /\ timer' \in {TRUE, timer}
      <3>1. timer' = TRUE \/ timer' = timer
        BY <2>2, Zenon
      <3>2. dirty' = dirty /\ view' = view
        BY <2>2
      <3>3. timer' \in BOOLEAN /\ (timer => timer')
        BY <2>1, <3>1, Zenon
      <3>4. QED  BY <2>1, <3>2, <3>3, Zenon
    <2>3. CASE dirty' = TRUE /\ timer' = TRUE
      BY <2>3, Zenon
    <2>4. QED  BY <2>2, <2>3
  <1>4. ChartTyped'
    BY <1>3 DEF ChartInv, ChartTyped, ChartTools
  <1>5. ChartDrawn'
    BY <1>1, <1>3 DEF ChartInv, ChartDrawn
  <1>6. QED  BY <1>2, <1>4, <1>5 DEF ChartInv

LEMMA ChartToolsStay ==
    ASSUME ChartTools, UNCHANGED <<follow, mode, cursors, drag>>
    PROVE  ChartTools'
  BY DEF ChartTools

LEMMA ChartSignalsStay ==
    ASSUME ChartSignals, UNCHANGED <<layout, signals>>, chosen' = selected'
    PROVE  ChartSignals'
  BY DEF ChartSignals

\* What other parts of the application do to the page.
LEMMA ChartLoads ==
    ASSUME ChartInv, Chart!SetMeasurements
    PROVE  ChartInv'
  <1>1. PICK names \in SUBSET Names \ {{}} : signals' = [n \in names |-> Chart!NewStyle]
    BY DEF Chart!SetMeasurements
  <1>2. /\ Chart!Draw("start") /\ chosen' = selected'
        /\ UNCHANGED <<layout, follow, mode, cursors, drag>>
    BY DEF Chart!SetMeasurements, Chart!tools
  <1>3. ChartTools'
    BY <1>2, ChartParts, ChartToolsStay
  <1>4. layout \in Nat \ {0}
    BY ChartParts DEF ChartSignals
  <1>5. ChartSignals'
    BY <1>1, <1>2, <1>4 DEF ChartSignals, Chart!NewStyle, ChartStyles
  <1>6. QED  BY <1>2, <1>3, <1>5, ChartDraws

LEMMA ChartSamples ==
    ASSUME ChartInv, Chart!AppendSamples \/ Chart!Clear
    PROVE  ChartInv'
  <1>1. /\ UNCHANGED <<selected, chosen, signals, layout, follow, mode, cursors, drag>>
        /\ Chart!Draw(view)
    BY DEF Chart!AppendSamples, Chart!Clear, Chart!tools, Chart!style
  <1>2. ChartTools' /\ ChartSignals'
    BY <1>1, ChartParts, ChartToolsStay, ChartSignalsStay DEF ChartSignals
  <1>3. QED  BY <1>1, <1>2, ChartDraws

LEMMA ChartPolicy ==
    ASSUME ChartInv, Chart!SetPolicy
    PROVE  ChartInv'
  <1>1. UNCHANGED <<selected, has, version, chosen, signals, layout, follow, mode, cursors, drag,
                    view, lines, drawn, dirty, timer, table>>
    BY DEF Chart!SetPolicy, Chart!tools, Chart!style, Chart!picture
  <1>2. ChartTools'
    BY <1>1, ChartParts, ChartToolsStay
  <1>3. QED  BY <1>1, <1>2, ChartKeeps

\* The page and its menus.
LEMMA ChartTicks ==
    ASSUME ChartInv, NEW names, NEW checked, Chart!SetSelected(names, checked)
    PROVE  ChartInv'
  <1>1. /\ UNCHANGED <<signals, layout, follow, mode, cursors, drag>> /\ chosen' = selected'
        /\ Chart!Draw(view)
    BY DEF Chart!SetSelected, Chart!tools
  <1>2. ChartTools' /\ ChartSignals'
    BY <1>1, ChartParts, ChartToolsStay, ChartSignalsStay
  <1>3. QED  BY <1>1, <1>2, ChartDraws

LEMMA ChartDisplays ==
    ASSUME ChartInv, NEW names, Chart!Display(names)
    PROVE  ChartInv'
  <1> DEFINE known == Chart!Ensured(names)
  <1>1. /\ UNCHANGED <<selected, chosen, layout, follow, mode, cursors, drag>> /\ Chart!Draw(view)
    BY DEF Chart!Display, Chart!page, Chart!tools
  <1>2. ChartSignals /\ layout \in Nat \ {0}
    BY ChartParts DEF ChartSignals
  <1>3. \A n \in DOMAIN known : known[n] \in ChartStyles /\ known[n].subplot < layout
    BY <1>2 DEF ChartSignals, Chart!Ensured, Chart!NewStyle, ChartStyles
  <1>4. \/ \E visible \in BOOLEAN :
             signals' = [n \in DOMAIN known |->
                 IF n \in names THEN [known[n] EXCEPT !.visible = visible] ELSE known[n]]
        \/ \E subplot \in 0..layout - 1 :
             signals' = [n \in DOMAIN known |->
                 IF n \in names THEN [known[n] EXCEPT !.subplot = subplot] ELSE known[n]]
    BY DEF Chart!Display
  <1> HIDE DEF known
  <1>5. /\ signals' = [n \in DOMAIN signals' |-> signals'[n]]
        /\ \A n \in DOMAIN signals' : signals'[n] \in ChartStyles /\ signals'[n].subplot < layout
    <2>1. CASE \E visible \in BOOLEAN :
                 signals' = [n \in DOMAIN known |->
                     IF n \in names THEN [known[n] EXCEPT !.visible = visible] ELSE known[n]]
      <3>1. PICK visible \in BOOLEAN :
                 signals' = [n \in DOMAIN known |->
                     IF n \in names THEN [known[n] EXCEPT !.visible = visible] ELSE known[n]]
        BY <2>1
      <3>2. \A s \in ChartStyles : /\ [s EXCEPT !.visible = visible] \in ChartStyles
                                   /\ [s EXCEPT !.visible = visible].subplot = s.subplot
        BY DEF ChartStyles
      <3>3. QED  BY <1>3, <3>1, <3>2
    <2>2. CASE \E subplot \in 0..layout - 1 :
                 signals' = [n \in DOMAIN known |->
                     IF n \in names THEN [known[n] EXCEPT !.subplot = subplot] ELSE known[n]]
      <3>1. PICK subplot \in 0..layout - 1 :
                 signals' = [n \in DOMAIN known |->
                     IF n \in names THEN [known[n] EXCEPT !.subplot = subplot] ELSE known[n]]
        BY <2>2
      <3>2. subplot \in Nat /\ subplot < layout
        BY <1>2, <3>1
      <3>3. \A s \in ChartStyles : /\ [s EXCEPT !.subplot = subplot] \in ChartStyles
                                   /\ [s EXCEPT !.subplot = subplot].subplot = subplot
        BY <3>2 DEF ChartStyles
      <3>4. QED  BY <1>3, <3>1, <3>2, <3>3
    <2>3. QED  BY <1>4, <2>1, <2>2
  <1>6. ChartSignals'
    BY <1>1, <1>2, <1>5 DEF ChartSignals
  <1>7. ChartTools'
    BY <1>1, ChartParts, ChartToolsStay
  <1>8. QED  BY <1>1, <1>6, <1>7, ChartDraws

\* Neither the page nor the chart changes but for the menu.
LEMMA ChartMenus ==
    ASSUME ChartInv,
           UNCHANGED <<catalog, selected, enabled, has, version, signals, layout, chosen,
                       follow, mode, cursors, drag, view, lines, drawn, dirty, timer, table>>
    PROVE  ChartInv'
  <1>1. ChartTools'
    BY ChartParts, ChartToolsStay
  <1>2. QED  BY <1>1, ChartKeeps

LEMMA ChartPageSteps ==
    ASSUME ChartInv,
           Chart!Tick \/ Chart!Edit \/ Chart!OpenMenu \/ Chart!CloseMenu \/ Chart!OpenChartMenu
             \/ Chart!CloseChartMenu
    PROVE  ChartInv'
  <1>1. \/ \E names, checked : Chart!SetSelected(names, checked)
        \/ \E names : Chart!Display(names)
        \/ UNCHANGED <<Chart!page, Chart!style, Chart!tools, Chart!picture>>
    BY DEF Chart!Tick, Chart!Edit, Chart!OpenMenu, Chart!CloseMenu, Chart!OpenChartMenu,
           Chart!CloseChartMenu
  <1>2. CASE \E names, checked : Chart!SetSelected(names, checked)
    BY <1>2, ChartTicks
  <1>3. CASE \E names : Chart!Display(names)
    BY <1>3, ChartDisplays
  <1>4. CASE UNCHANGED <<Chart!page, Chart!style, Chart!tools, Chart!picture>>
    BY <1>4, ChartMenus DEF Chart!page, Chart!style, Chart!tools, Chart!picture
  <1>5. QED  BY <1>1, <1>2, <1>3, <1>4

\* A flag that is reset or left alone.
LEMMA ChartFlag ==
    ASSUME NEW a \in BOOLEAN, NEW b, b = FALSE \/ b = a
    PROVE  b \in BOOLEAN /\ (b => a)
  <1>1. CASE b = FALSE  BY <1>1, Zenon
  <1>2. CASE b = a  BY <1>2, Zenon
  <1>3. QED  BY <1>1, <1>2

\* Other limits, and tools that do not draw.
LEMMA ChartMoves ==
    ASSUME ChartInv, Chart!MoveView \/ Chart!Resize
    PROVE  ChartInv'
  <1>1. /\ UNCHANGED <<selected, chosen, has, version, signals, layout, mode, cursors, drag,
                       lines, drawn, table>>
        /\ follow' \in {FALSE, follow} /\ Chart!ViewLimitsChanged
    BY DEF Chart!MoveView, Chart!Resize, Chart!page, Chart!style
  <1>2. ChartTools
    BY ChartParts
  <1>3. follow' \in BOOLEAN /\ (follow' => follow)
    <2>1. follow \in BOOLEAN
      BY <1>2 DEF ChartTools
    <2>2. follow' = FALSE \/ follow' = follow
      BY <1>1
    <2>3. QED  BY <2>1, <2>2, ChartFlag
  <1>4. ChartTools'
    BY <1>1, <1>2, <1>3 DEF ChartTools
  <1>5. CASE follow'
    <2>1. UNCHANGED <<dirty, timer>>
      BY <1>1, <1>5 DEF Chart!ViewLimitsChanged
    <2>2. UNCHANGED view
      BY <1>5 DEF Chart!MoveView, Chart!Resize
    <2>3. QED  BY <1>1, <1>4, <2>1, <2>2, ChartKeeps
  <1>6. CASE ~follow'
    <2>1. dirty' = TRUE /\ timer' = TRUE
      BY <1>1, <1>6 DEF Chart!ViewLimitsChanged
    <2>2. QED  BY <1>1, <1>4, <2>1, ChartKeeps
  <1>7. QED  BY <1>5, <1>6

LEMMA ChartNavigates ==
    ASSUME ChartInv, NEW m \in {"pan", "zoom"}, Chart!Navigate(m)
    PROVE  ChartInv'
  <1>1. /\ UNCHANGED <<selected, chosen, has, version, signals, layout, view, lines, drawn, dirty>>
        /\ follow' = FALSE /\ cursors' = 0 /\ mode' = Chart!Toggled(m) /\ Chart!DragEnds
        /\ timer' = TRUE /\ table' = Chart!Rows'
    BY DEF Chart!Navigate, Chart!page, Chart!style
  <1>2. drag' = FALSE
    BY <1>1 DEF Chart!DragEnds
  <1>3. mode' \in {"none", "pan", "zoom"}
    BY <1>1 DEF Chart!Toggled
  <1>4. ChartTools'
    <2>1. follow' \in BOOLEAN /\ drag' \in BOOLEAN /\ ~follow' /\ ~drag'
      BY <1>1, <1>2, Zenon
    <2>2. cursors' \in 0..2 /\ cursors' = 0
      BY <1>1
    <2>3. QED  BY <1>3, <2>1, <2>2 DEF ChartTools
  <1>5. QED  BY <1>1, <1>4, ChartKeeps

LEMMA ChartCursors ==
    ASSUME ChartInv, Chart!SetCursorMode \/ Chart!MouseDown
    PROVE  ChartInv'
  <1>1. /\ UNCHANGED <<selected, chosen, has, version, signals, layout, view, lines, drawn, dirty>>
        /\ timer' = TRUE /\ table' = Chart!Rows'
    BY DEF Chart!SetCursorMode, Chart!MouseDown, Chart!page, Chart!style
  <1>2. ChartTools
    BY ChartParts
  <1>3. ChartTools'
    <2>1. CASE Chart!SetCursorMode
      <3>1. /\ cursors' \in 0..2 /\ drag' = (drag /\ cursors' # 0)
            /\ IF cursors' = 0 THEN UNCHANGED <<follow, mode>>
               ELSE follow' = FALSE /\ mode' = "none"
        BY <2>1 DEF Chart!SetCursorMode, Chart!DragEnds
      <3>2. drag' \in BOOLEAN /\ (drag' => cursors' # 0)
        BY <3>1, Zenon
      <3>3. follow' \in BOOLEAN /\ mode' \in {"none", "pan", "zoom"}
        BY <1>2, <3>1 DEF ChartTools
      <3>4. mode' # "none" => ~follow' /\ cursors' = 0
        BY <1>2, <3>1 DEF ChartTools
      <3>5. QED  BY <3>1, <3>2, <3>3, <3>4 DEF ChartTools
    <2>2. CASE Chart!MouseDown
      BY <1>2, <2>2 DEF Chart!MouseDown, ChartTools
    <2>3. QED  BY <2>1, <2>2
  <1>4. QED  BY <1>1, <1>3, ChartKeeps

LEMMA ChartLeaves ==
    ASSUME ChartInv, Chart!MouseUp \/ Chart!Unfollow
    PROVE  ChartInv'
  <1>1. UNCHANGED <<selected, chosen, has, version, signals, layout, mode, cursors, view, lines,
                    drawn, dirty, timer, table>>
    BY DEF Chart!MouseUp, Chart!Unfollow, Chart!page, Chart!style, Chart!picture
  <1>2. follow' \in {FALSE, follow} /\ drag' \in {FALSE, drag}
    BY DEF Chart!MouseUp, Chart!Unfollow
  <1>3. /\ follow' \in BOOLEAN /\ (follow' => follow)
        /\ drag' \in BOOLEAN /\ (drag' => drag)
    <2>1. follow \in BOOLEAN /\ drag \in BOOLEAN
      BY ChartParts DEF ChartTools
    <2>2. (follow' = FALSE \/ follow' = follow) /\ (drag' = FALSE \/ drag' = drag)
      BY <1>2
    <2>3. QED  BY <2>1, <2>2, ChartFlag
  <1>4. ChartTools'
    BY <1>1, <1>3, ChartParts DEF ChartTools
  <1>5. QED  BY <1>1, <1>4, ChartKeeps

\* Tools that draw.
LEMMA ChartFits ==
    ASSUME ChartInv, Chart!FitView \/ Chart!Follow
    PROVE  ChartInv'
  <1>1. /\ UNCHANGED <<selected, chosen, has, version, signals, layout>> /\ Chart!Draw("fit")
    BY DEF Chart!FitView, Chart!Follow, Chart!page, Chart!style
  <1>2. ChartSignals' /\ ChartTools
    BY <1>1, ChartParts, ChartSignalsStay DEF ChartSignals
  <1>3. ChartTools'
    <2>1. CASE Chart!FitView
      BY <1>2, <2>1, ChartToolsStay DEF Chart!FitView, Chart!tools
    <2>2. CASE Chart!Follow
      <3>1. /\ follow' = TRUE /\ mode' = "none" /\ drag' = (drag /\ cursors' # 0)
            /\ cursors' = IF mode = "none" THEN cursors ELSE 0
        BY <2>2 DEF Chart!Follow, Chart!DragEnds
      <3>2. drag' \in BOOLEAN /\ (drag' => cursors' # 0)
        BY <3>1, Zenon
      <3>3. cursors' \in 0..2
        BY <1>2, <3>1 DEF ChartTools
      <3>4. QED  BY <3>1, <3>2, <3>3 DEF ChartTools
    <2>3. QED  BY <2>1, <2>2
  <1>4. QED  BY <1>1, <1>2, <1>3, ChartDraws

LEMMA ChartLayout ==
    ASSUME ChartInv, Chart!SetLayout
    PROVE  ChartInv'
  <1>1. /\ layout' \in Layouts /\ UNCHANGED <<selected, chosen, has, version>> /\ mode' = "none"
        /\ signals' = [n \in DOMAIN signals |->
                          IF signals[n].subplot < layout' THEN signals[n]
                          ELSE [signals[n] EXCEPT !.subplot = 0]]
        /\ IF mode = "none" THEN UNCHANGED <<follow, cursors>> ELSE follow' = FALSE /\ cursors' = 0
        /\ drag' = (drag /\ cursors' # 0) /\ Chart!Draw("fit")
    BY DEF Chart!SetLayout, Chart!DragEnds, Chart!page
  <1>2. ChartTools /\ ChartSignals
    BY ChartParts
  <1>3. layout' \in Nat \ {0}
    BY <1>1, ChartConstants
  <1>4. /\ signals' = [n \in DOMAIN signals' |-> signals'[n]]
        /\ \A n \in DOMAIN signals' : signals'[n] \in ChartStyles /\ signals'[n].subplot < layout'
    <2>1. \A s \in ChartStyles : /\ [s EXCEPT !.subplot = 0] \in ChartStyles
                                 /\ [s EXCEPT !.subplot = 0].subplot = 0
      BY DEF ChartStyles
    <2>2. \A n \in DOMAIN signals : signals[n] \in ChartStyles
      BY <1>2 DEF ChartSignals
    <2>3. QED  BY <1>1, <1>3, <2>1, <2>2
  <1>5. ChartSignals'
    BY <1>1, <1>2, <1>3, <1>4 DEF ChartSignals
  <1>6. ChartTools'
    <2>1. drag' \in BOOLEAN /\ (drag' => cursors' # 0)
      BY <1>1, Zenon
    <2>2. cursors' \in 0..2 /\ follow' \in BOOLEAN
      BY <1>1, <1>2 DEF ChartTools
    <2>3. QED  BY <1>1, <2>1, <2>2 DEF ChartTools
  <1>7. QED  BY <1>1, <1>5, <1>6, ChartDraws

\* The timer runs out: what was due is drawn, for the limits as they now are.
LEMMA ChartFlushes ==
    ASSUME ChartInv, Chart!FlushDraw
    PROVE  ChartInv'
  <1>1. /\ UNCHANGED <<selected, chosen, has, version, signals, layout, follow, mode, cursors, drag>>
        /\ dirty' = FALSE /\ timer' = FALSE
    BY DEF Chart!FlushDraw, Chart!page, Chart!style, Chart!tools
  <1>2. ChartTools' /\ ChartSignals'
    BY <1>1, ChartParts, ChartToolsStay, ChartSignalsStay DEF ChartSignals
  <1>3. /\ lines' = [n \in DOMAIN signals' |->
                       [subplot |-> signals'[n].subplot, shown |-> ChartShown(n)']]
        /\ drawn'.version = version' /\ drawn'.range \in {"all", view'}
        /\ table' = Chart!Rows' \/ UNCHANGED table
    <2>1. chosen = selected
      BY DEF ChartInv, ChartDrawn
    <2>2. CASE dirty
      BY <1>1, <2>1, <2>2 DEF Chart!FlushDraw, ChartShown
    <2>3. CASE ~dirty
      <3>1. UNCHANGED <<lines, drawn, view, table>> /\ drawn.range \in {"all", view}
        BY <2>3 DEF Chart!FlushDraw, ChartInv, ChartDrawn
      <3>2. QED  BY <1>1, <3>1 DEF ChartInv, ChartDrawn, ChartShown
    <2>4. QED  BY <2>2, <2>3
  <1>4. Chart!OneToolAtATime'
    <2>1. Chart!Rows' = IF cursors' = 0 THEN {}
                        ELSE {n \in selected' \intersect DOMAIN signals' :
                                 signals'[n].visible /\ n \in has'}
      BY <1>3, ChartRows
    <2>2. table' = IF cursors' = 0 THEN {}
                   ELSE {n \in selected' \intersect DOMAIN signals' :
                            signals'[n].visible /\ n \in has'}
      BY <1>1, <1>3, <2>1 DEF ChartInv, Chart!OneToolAtATime
    <2>3. QED  BY <1>2, <2>2 DEF Chart!OneToolAtATime, ChartTools
  <1>5. ChartTyped'
    BY <1>1, <1>2 DEF ChartTyped, ChartTools, ChartSignals
  <1>6. ChartDrawn'
    BY <1>1, <1>2, <1>3 DEF ChartDrawn, ChartSignals
  <1>7. QED  BY <1>4, <1>5, <1>6 DEF ChartInv

LEMMA ChartBegins == ASSUME Chart!Init PROVE ChartInv
  <1>1. /\ signals = [n \in {} |-> Chart!NewStyle] /\ lines = [n \in {} |-> Chart!NewStyle]
        /\ selected = {} /\ chosen = {} /\ layout = 1 /\ follow = TRUE /\ mode = "none"
        /\ cursors = 0 /\ drag = FALSE /\ dirty = FALSE /\ timer = TRUE /\ table = {}
        /\ version = 0 /\ drawn = [range |-> "all", version |-> 0]
    BY DEF Chart!Init
  <1>2. ChartTyped
    <2>1. signals = [n \in DOMAIN signals |-> signals[n]] /\ DOMAIN signals = {}
      BY <1>1
    <2>2. signals \in [DOMAIN signals -> ChartStyles]
      BY <2>1
    <2>3. layout \in Nat \ {0} /\ cursors \in 0..2 /\ mode \in {"none", "pan", "zoom"}
      BY <1>1
    <2>4. follow \in BOOLEAN /\ drag \in BOOLEAN /\ dirty \in BOOLEAN /\ timer \in BOOLEAN
      BY <1>1, Zenon
    <2>5. QED  BY <2>2, <2>3, <2>4 DEF ChartTyped
  <1>3. lines = [n \in DOMAIN signals |->
                    [subplot |-> signals[n].subplot, shown |-> ChartShown(n)]]
    BY <1>1
  <1>4. ChartDrawn
    BY <1>1, <1>3 DEF ChartDrawn
  <1>5. Chart!OneToolAtATime
    BY <1>1 DEF Chart!OneToolAtATime
  <1>6. QED  BY <1>2, <1>4, <1>5 DEF ChartInv

LEMMA ChartNext == ASSUME ChartInv, Chart!Next PROVE ChartInv'
  <1>1. CASE Chart!SetMeasurements \/ Chart!AppendSamples \/ Chart!Clear \/ Chart!SetPolicy
    BY <1>1, ChartLoads, ChartSamples, ChartPolicy
  <1>2. CASE \/ Chart!Tick \/ Chart!Edit \/ Chart!OpenMenu \/ Chart!CloseMenu
             \/ Chart!OpenChartMenu \/ Chart!CloseChartMenu
    BY <1>2, ChartPageSteps
  <1>3. CASE \/ Chart!MoveView \/ Chart!Resize \/ Chart!SetCursorMode \/ Chart!MouseDown
             \/ Chart!MouseUp \/ Chart!Unfollow
    BY <1>3, ChartMoves, ChartCursors, ChartLeaves
  <1>4. CASE \E m \in {"pan", "zoom"} : Chart!Navigate(m)
    BY <1>4, ChartNavigates
  <1>5. CASE Chart!FitView \/ Chart!Follow \/ Chart!SetLayout \/ Chart!FlushDraw
    BY <1>5, ChartFits, ChartLayout, ChartFlushes
  <1>6. QED  BY <1>1, <1>2, <1>3, <1>4, <1>5 DEF Chart!Next

LEMMA ChartSafe == ASSUME ChartInv PROVE Chart!ShowsWhatItShould /\ Chart!OneToolAtATime
  <1>1. ASSUME ~timer
        PROVE  /\ drawn.version = version /\ drawn.range \in {"all", view}
               /\ lines = [n \in DOMAIN signals |->
                              [subplot |-> signals[n].subplot,
                               shown |-> signals[n].visible /\ n \in selected /\ n \in has]]
               /\ \A n \in DOMAIN lines : lines[n].subplot < layout
    <2>1. ~dirty
      BY <1>1 DEF ChartInv, ChartDrawn
    <2>2. QED  BY <2>1 DEF ChartInv, ChartDrawn, ChartShown
  <1>2. QED  BY <1>1 DEF ChartInv, Chart!ShowsWhatItShould

-----------------------------------------------------------------------------
(* The calibration page: one operation at a time is between the question   *)
(* and its answer, nothing is entered meanwhile, and what it has done to   *)
(* the target is known from its answer.                                    *)

PageNumbers == Values \union {Unset}
PageFields == [Names -> PageNumbers]

\* Values for some characteristics.
PageBatches == UNION {[names -> PageNumbers] : names \in SUBSET Names}
PageJobs == [is: Cal!Calibrating \union {"connect", "disconnect"}, changes: PageBatches]
PageAnswers == [is: Cal!Calibrating \union {"connect", "disconnect"}, ok: BOOLEAN,
                shown: PageBatches]

\* What is open below a message.
PageBelow == IF modal.is = "message" THEN modal.below ELSE modal
PageEnding == modal.is = "message" /\ modal.ends

PageTyped ==
    /\ items \subseteq Names /\ doubt \subseteq Names
    /\ new \in PageFields /\ current \in PageFields
    /\ target \in PageFields /\ saved \in PageFields
    /\ pending \in BOOLEAN /\ online \in BOOLEAN
    /\ jobs \in Seq(PageJobs) /\ answers \in Seq(PageAnswers)
    /\ PageBelow.is \in {"none", "edit", "menu", "confirm"}
    /\ PageBelow.is = "confirm" =>
           PageBelow.job \in PageJobs /\ PageBelow.job.is \in Cal!Calibrating

\* An operation that is pending is a job, an answer or a message, and only one
\* of them.
PageSingle ==
    /\ \A i \in 1..Len(jobs) : jobs[i].is \in Cal!Calibrating =>
           /\ pending /\ ~PageEnding
           /\ \A j \in 1..Len(jobs) : jobs[j].is \in Cal!Calibrating => j = i
           /\ \A j \in 1..Len(answers) : answers[j].is \notin Cal!Calibrating
    /\ \A i \in 1..Len(answers) : answers[i].is \in Cal!Calibrating =>
           /\ pending /\ ~PageEnding
           /\ \A j \in 1..Len(answers) : answers[j].is \in Cal!Calibrating => j = i
    /\ PageEnding => pending

\* What a batch has or would have the target take for the new values entered.
PageEntered(f) == DOMAIN f # {} /\ \A n \in DOMAIN f : f[n] = new[n] /\ f[n] # Unset

\* While an operation is pending no dialog is open that would enter or withdraw
\* a value, and a batch is what was entered.
PageLocked ==
    /\ pending => \/ PageBelow.is = "none"
                  \/ PageBelow.is = "menu" /\ ~PageBelow.offers /\ ~PageBelow.undoes
    /\ PageBelow.is = "confirm" /\ PageBelow.job.is = "write" => PageEntered(PageBelow.job.changes)
    /\ \A i \in 1..Len(jobs) : jobs[i].is = "write" => PageEntered(jobs[i].changes)
    /\ \A i \in 1..Len(answers) :
           answers[i].is = "write" /\ answers[i].ok => PageEntered(answers[i].shown)

\* An answer not yet handled tells the truth, and so does what is shown as
\* current but for such an answer.
PageTold(n) ==
    \E i \in 1..Len(answers) :
        answers[i].ok /\ answers[i].is \in Cal!Calibrating /\ n \in DOMAIN answers[i].shown

PageCurrent ==
    /\ \A n \in Names \ items : current[n] = Unset
    /\ \A n \in items \ doubt : current[n] # Unset /\ ~PageTold(n) => current[n] = target[n]
    /\ \A i \in 1..Len(answers) : answers[i].ok /\ answers[i].is \in Cal!Calibrating =>
           \A n \in (DOMAIN answers[i].shown \intersect items) \ doubt :
               answers[i].shown[n] = target[n]

PageInv == PageTyped /\ PageSingle /\ PageLocked /\ PageCurrent

LEMMA PageConstants == 0 \in Values /\ Unset \notin Values /\ Unset \in PageNumbers /\ 0 \in PageNumbers
  BY WorkbenchAssumption DEF WorkbenchAssumption, Cal!CalibrationAssumption, PageNumbers

LEMMA PageBatchIs ==
    ASSUME NEW f \in PageBatches
    PROVE  DOMAIN f \subseteq Names /\ \A n \in DOMAIN f : f[n] \in PageNumbers
  BY DEF PageBatches

LEMMA PageBatchMade ==
    ASSUME NEW names \in SUBSET Names, NEW f \in [names -> PageNumbers]
    PROVE  f \in PageBatches
  BY DEF PageBatches

LEMMA PageBlank == Cal!Blank \in PageBatches /\ Cal!Blank \in PageFields
  <1>1. Cal!Blank \in [Names -> PageNumbers]
    BY PageConstants DEF Cal!Blank
  <1>2. QED  BY <1>1, PageBatchMade DEF PageFields

\* What a queue holds after something is put into it, or taken from it.
LEMMA PagePut ==
    ASSUME NEW S, NEW s \in Seq(S), NEW e \in S, NEW t, t = Append(s, e)
    PROVE  /\ t \in Seq(S) /\ Len(t) = Len(s) + 1 /\ Len(t) \in 1..Len(t) /\ t[Len(t)] = e
           /\ \A i \in 1..Len(s) : i \in 1..Len(t) /\ t[i] = s[i]
           /\ \A i \in 1..Len(t) : i = Len(t) \/ (i \in 1..Len(s) /\ t[i] = s[i])
  OBVIOUS

LEMMA PageTake ==
    ASSUME NEW S, NEW s \in Seq(S), s # <<>>, NEW t, t = Tail(s)
    PROVE  /\ t \in Seq(S) /\ Len(t) = Len(s) - 1 /\ 1 \in 1..Len(s) /\ Head(s) = s[1]
           /\ s[1] \in S
           /\ \A i \in 1..Len(t) : i + 1 \in 1..Len(s) /\ i + 1 # 1 /\ t[i] = s[i + 1]
           /\ \A i \in 1..Len(s) : i = 1 \/ (i - 1 \in 1..Len(t) /\ t[i - 1] = s[i])
  OBVIOUS

\* Nothing of an operation is on its way.
PageQuiet ==
    /\ ~PageEnding
    /\ \A i \in 1..Len(jobs) : jobs[i].is \notin Cal!Calibrating
    /\ \A i \in 1..Len(answers) : answers[i].is \notin Cal!Calibrating

LEMMA PageIdle == ASSUME PageInv, ~pending PROVE PageQuiet
  BY DEF PageInv, PageSingle, PageQuiet

\* What is open without a message.
LEMMA PageOpen ==
    ASSUME modal'.is # "message"
    PROVE  PageBelow' = modal' /\ ~PageEnding'
  BY DEF PageBelow, PageEnding

LEMMA PageClosed ==
    ASSUME modal' = Cal!Closed
    PROVE  PageBelow'.is = "none" /\ ~PageEnding'
  BY DEF PageBelow, PageEnding, Cal!Closed

LEMMA PageFree ==
    ASSUME Cal!Free
    PROVE  PageBelow.is = "none" /\ ~PageEnding
  BY DEF PageBelow, PageEnding, Cal!Closed, Cal!Free

\* A step that opens or closes a dialog.
LEMMA PageDialogs ==
    ASSUME PageInv, ~PageEnding, ~PageEnding',
           UNCHANGED <<items, new, current, pending, jobs, answers, target, saved, online, doubt>>,
           PageBelow'.is \in {"none", "edit", "menu", "confirm"},
           PageBelow'.is = "confirm" =>
               /\ PageBelow'.job \in PageJobs /\ PageBelow'.job.is \in Cal!Calibrating
               /\ PageBelow'.job.is = "write" => PageEntered(PageBelow'.job.changes),
           pending => \/ PageBelow'.is = "none"
                      \/ PageBelow'.is = "menu" /\ ~PageBelow'.offers /\ ~PageBelow'.undoes
    PROVE  PageInv'
  <1>1. PageTyped'
    BY DEF PageInv, PageTyped
  <1>2. PageSingle'
    BY DEF PageInv, PageSingle
  <1>3. PageLocked'
    BY DEF PageInv, PageLocked, PageEntered
  <1>4. PageCurrent'
    BY DEF PageInv, PageCurrent, PageTold
  <1>5. QED  BY <1>1, <1>2, <1>3, <1>4 DEF PageInv

\* A step that changes what was entered, or loads other characteristics.
LEMMA PageEdits ==
    ASSUME PageInv, PageQuiet, modal' = Cal!Closed,
           UNCHANGED <<pending, jobs, answers, target, saved, online, doubt>>,
           items' \subseteq Names, new' \in PageFields, current' \in PageFields,
           \A n \in Names \ items' : current'[n] = Unset,
           \A n \in items' : current'[n] # Unset => n \in items /\ current'[n] = current[n]
    PROVE  PageInv'
  <1>1. PageBelow'.is = "none" /\ ~PageEnding'
    BY PageClosed
  <1>2. PageTyped'
    BY <1>1 DEF PageInv, PageTyped
  <1>3. PageSingle'
    BY <1>1 DEF PageInv, PageSingle, PageQuiet
  <1>4. PageLocked'
    BY <1>1 DEF PageLocked, PageQuiet, Cal!Calibrating
  <1>5. PageCurrent'
    BY DEF PageInv, PageCurrent, PageTold, PageQuiet
  <1>6. QED  BY <1>2, <1>3, <1>4, <1>5 DEF PageInv

\* A step that submits a connect or disconnect.
LEMMA PageSubmits ==
    ASSUME PageInv, NEW job \in PageJobs, job.is \notin Cal!Calibrating, jobs' = Append(jobs, job),
           UNCHANGED <<items, new, current, pending, modal, answers, target, saved, online, doubt>>
    PROVE  PageInv'
  <1>1. jobs \in Seq(PageJobs)
    BY DEF PageInv, PageTyped
  <1>2. /\ jobs' \in Seq(PageJobs) /\ \A i \in 1..Len(jobs') :
                jobs'[i].is \in Cal!Calibrating \/ jobs'[i].is = "write" =>
                    i \in 1..Len(jobs) /\ jobs'[i] = jobs[i]
    BY <1>1, PagePut DEF Cal!Calibrating
  <1>3. PageBelow' = PageBelow /\ (PageEnding' <=> PageEnding)
    BY DEF PageBelow, PageEnding
  <1>4. PageTyped'
    BY <1>2, <1>3 DEF PageInv, PageTyped
  <1>5. PageSingle'
    BY <1>2, <1>3 DEF PageInv, PageSingle
  <1>6. PageLocked'
    BY <1>2, <1>3 DEF PageInv, PageLocked, PageEntered
  <1>7. PageCurrent'
    BY DEF PageInv, PageCurrent, PageTold
  <1>8. QED  BY <1>4, <1>5, <1>6, <1>7 DEF PageInv

\* A step that submits an operation on the values.
LEMMA PageStarts ==
    ASSUME PageInv, NEW job \in PageJobs, job.is \in Cal!Calibrating, jobs' = Append(jobs, job),
           job.is = "write" => PageEntered(job.changes),
           ~pending, pending' = TRUE, modal' = Cal!Closed,
           UNCHANGED <<items, new, current, answers, target, saved, online, doubt>>
    PROVE  PageInv'
  <1>1. jobs \in Seq(PageJobs) /\ PageQuiet
    BY PageIdle DEF PageInv, PageTyped
  <1>2. /\ jobs' \in Seq(PageJobs) /\ \A i \in 1..Len(jobs') :
                jobs'[i].is \in Cal!Calibrating => i = Len(jobs') /\ jobs'[i] = job
    BY <1>1, PagePut DEF PageQuiet
  <1>3. PageBelow'.is = "none" /\ ~PageEnding'
    BY PageClosed
  <1>4. PageTyped'
    BY <1>2, <1>3 DEF PageInv, PageTyped
  <1>5. PageSingle'
    BY <1>1, <1>2, <1>3 DEF PageSingle, PageQuiet
  <1>6. PageLocked'
    <2>1. \A i \in 1..Len(jobs') : jobs'[i].is = "write" =>
              /\ DOMAIN jobs'[i].changes # {}
              /\ \A n \in DOMAIN jobs'[i].changes :
                     jobs'[i].changes[n] = new[n] /\ jobs'[i].changes[n] # Unset
      BY <1>2 DEF PageEntered, Cal!Calibrating
    <2>2. \A i \in 1..Len(answers') : answers'[i].is # "write"
      BY <1>1 DEF PageQuiet, Cal!Calibrating
    <2>3. QED  BY <1>3, <2>1, <2>2 DEF PageLocked, PageEntered
  <1>7. PageCurrent'
    BY DEF PageInv, PageCurrent, PageTold
  <1>8. QED  BY <1>4, <1>5, <1>6, <1>7 DEF PageInv

\* The worker ends a job: what changed on the target is left in doubt, or told
\* by a good answer.
LEMMA PageWorks ==
    ASSUME PageInv, jobs # <<>>, NEW ok \in BOOLEAN, NEW shown \in PageBatches,
           Cal!Return(ok, shown), target' \in PageFields, saved' \in PageFields,
           doubt' \subseteq Names, online' \in BOOLEAN,
           ok /\ Cal!Job.is = "write" => shown = Cal!Job.changes,
           \A n \in items \ doubt' : \/ n \notin doubt /\ target'[n] = target[n]
                                     \/ ok /\ Cal!Job.is \in Cal!Calibrating /\ n \in DOMAIN shown,
           ok /\ Cal!Job.is \in Cal!Calibrating =>
               \A n \in (DOMAIN shown \intersect items) \ doubt' : shown[n] = target'[n]
    PROVE  PageInv'
  <1> DEFINE job == jobs[1]
             answer == [is |-> job.is, ok |-> ok, shown |-> shown]
  <1>1. /\ jobs \in Seq(PageJobs) /\ answers \in Seq(PageAnswers)
        /\ jobs' = Tail(jobs)
        /\ UNCHANGED <<items, new, current, pending, modal>>
    BY DEF PageInv, PageTyped, Cal!Return, Cal!tab
  <1>2. /\ Cal!Job = job /\ job \in PageJobs /\ 1 \in 1..Len(jobs)
        /\ jobs' \in Seq(PageJobs)
        /\ \A i \in 1..Len(jobs') : i + 1 \in 1..Len(jobs) /\ i + 1 # 1 /\ jobs'[i] = jobs[i + 1]
    BY <1>1, PageTake DEF Cal!Job
  <1>3. answer \in PageAnswers
    BY <1>2 DEF PageAnswers, PageJobs
  <1>4. answers' = Append(answers, answer)
    BY <1>2 DEF Cal!Return
  <1>5. answer.is = job.is /\ answer.ok = ok /\ answer.shown = shown
    OBVIOUS
  <1> HIDE DEF answer, job
  <1>6. /\ answers' \in Seq(PageAnswers) /\ Len(answers') \in 1..Len(answers')
        /\ answers'[Len(answers')] = answer
        /\ \A i \in 1..Len(answers) : i \in 1..Len(answers') /\ answers'[i] = answers[i]
        /\ \A i \in 1..Len(answers') :
               i = Len(answers') \/ (i \in 1..Len(answers) /\ answers'[i] = answers[i])
    BY <1>1, <1>3, <1>4, PagePut
  <1>7. PageBelow' = PageBelow /\ (PageEnding' <=> PageEnding)
    BY <1>1 DEF PageBelow, PageEnding
  <1>8. PageTyped'
    BY <1>1, <1>2, <1>6, <1>7 DEF PageInv, PageTyped
  <1>9. job.is \in Cal!Calibrating =>
            /\ pending /\ ~PageEnding
            /\ \A j \in 1..Len(jobs') : jobs'[j].is \notin Cal!Calibrating
            /\ \A j \in 1..Len(answers) : answers[j].is \notin Cal!Calibrating
    BY <1>2 DEF PageInv, PageSingle, job
  <1>10. PageSingle'
    <2>1. ASSUME NEW i \in 1..Len(jobs'), jobs'[i].is \in Cal!Calibrating
          PROVE  /\ pending' /\ ~PageEnding'
                 /\ \A j \in 1..Len(jobs') : jobs'[j].is \in Cal!Calibrating => j = i
                 /\ \A j \in 1..Len(answers') : answers'[j].is \notin Cal!Calibrating
      <3>1. job.is \notin Cal!Calibrating
        BY <1>9, <2>1
      <3>2. /\ pending /\ ~PageEnding
            /\ \A j \in 1..Len(jobs) : jobs[j].is \in Cal!Calibrating => j = i + 1
            /\ \A j \in 1..Len(answers) : answers[j].is \notin Cal!Calibrating
        BY <1>2, <2>1 DEF PageInv, PageSingle
      <3>3. \A j \in 1..Len(jobs') : jobs'[j].is \in Cal!Calibrating => j = i
        <4> SUFFICES ASSUME NEW j \in 1..Len(jobs'), jobs'[j].is \in Cal!Calibrating
                     PROVE  j = i
          OBVIOUS
        <4>1. j + 1 = i + 1
          BY <1>2, <3>2
        <4>2. QED  BY <1>2, <4>1
      <3>4. \A j \in 1..Len(answers') : answers'[j].is \notin Cal!Calibrating
        BY <1>5, <1>6, <3>1, <3>2
      <3>5. QED  BY <1>1, <1>7, <3>2, <3>3, <3>4
    <2>2. ASSUME NEW i \in 1..Len(answers'), answers'[i].is \in Cal!Calibrating
          PROVE  /\ pending' /\ ~PageEnding'
                 /\ \A j \in 1..Len(answers') : answers'[j].is \in Cal!Calibrating => j = i
      <3>1. CASE i = Len(answers')
        <4>1. job.is \in Cal!Calibrating
          BY <1>5, <1>6, <2>2, <3>1
        <4>2. QED  BY <1>1, <1>6, <1>7, <1>9, <3>1, <4>1
      <3>2. CASE i \in 1..Len(answers) /\ answers'[i] = answers[i]
        <4>1. job.is \notin Cal!Calibrating
          BY <1>9, <2>2, <3>2
        <4>2. /\ pending /\ ~PageEnding
              /\ \A j \in 1..Len(answers) : answers[j].is \in Cal!Calibrating => j = i
          BY <2>2, <3>2 DEF PageInv, PageSingle
        <4>3. QED  BY <1>1, <1>5, <1>6, <1>7, <4>1, <4>2
      <3>3. QED  BY <1>6, <3>1, <3>2
    <2>3. PageEnding' => pending'
      BY <1>1, <1>7 DEF PageInv, PageSingle
    <2>4. QED  BY <2>1, <2>2, <2>3 DEF PageSingle
  <1>11. PageLocked'
    <2>1. \A i \in 1..Len(jobs') : jobs'[i].is = "write" =>
              /\ DOMAIN jobs'[i].changes # {}
              /\ \A n \in DOMAIN jobs'[i].changes :
                     jobs'[i].changes[n] = new[n] /\ jobs'[i].changes[n] # Unset
      BY <1>2 DEF PageInv, PageLocked, PageEntered
    <2>2. job.is = "write" /\ ok =>
              /\ DOMAIN shown # {}
              /\ \A n \in DOMAIN shown : shown[n] = new[n] /\ shown[n] # Unset
      BY <1>2 DEF PageInv, PageLocked, PageEntered, job
    <2>3. \A i \in 1..Len(answers') : answers'[i].is = "write" /\ answers'[i].ok =>
              /\ DOMAIN answers'[i].shown # {}
              /\ \A n \in DOMAIN answers'[i].shown :
                     answers'[i].shown[n] = new[n] /\ answers'[i].shown[n] # Unset
      BY <1>5, <1>6, <2>2 DEF PageInv, PageLocked, PageEntered
    <2>4. /\ pending => \/ PageBelow.is = "none"
                        \/ PageBelow.is = "menu" /\ ~PageBelow.offers /\ ~PageBelow.undoes
          /\ PageBelow.is = "confirm" /\ PageBelow.job.is = "write" =>
                 PageEntered(PageBelow.job.changes)
      BY DEF PageInv, PageLocked
    <2>5. QED  BY <1>1, <1>7, <2>1, <2>3, <2>4 DEF PageLocked, PageEntered
  <1>12. PageCurrent'
    <2>1. \A n \in Names \ items' : current'[n] = Unset
      BY <1>1 DEF PageInv, PageCurrent
    <2>2. ASSUME NEW n \in items \ doubt', current[n] # Unset, ~PageTold(n)'
          PROVE  current[n] = target'[n]
      <3>1. ~(ok /\ job.is \in Cal!Calibrating /\ n \in DOMAIN shown)
        BY <1>5, <1>6, <2>2 DEF PageTold
      <3>2. ~PageTold(n)
        BY <1>6, <2>2 DEF PageTold
      <3>3. n \notin doubt /\ target'[n] = target[n]
        BY <1>2, <3>1
      <3>4. QED  BY <2>2, <3>2, <3>3 DEF PageInv, PageCurrent
    <2>3. ASSUME NEW i \in 1..Len(answers'), answers'[i].ok, answers'[i].is \in Cal!Calibrating,
                 NEW n \in (DOMAIN answers'[i].shown \intersect items) \ doubt'
          PROVE  answers'[i].shown[n] = target'[n]
      <3>1. CASE i = Len(answers')
        BY <1>2, <1>5, <1>6, <2>3, <3>1
      <3>2. CASE i \in 1..Len(answers) /\ answers'[i] = answers[i]
        <4>1. job.is \notin Cal!Calibrating
          BY <1>9, <2>3, <3>2
        <4>2. n \notin doubt /\ target'[n] = target[n]
          BY <1>2, <4>1
        <4>3. QED  BY <2>3, <3>2, <4>2 DEF PageInv, PageCurrent
      <3>3. QED  BY <1>6, <3>1, <3>2
    <2>4. QED  BY <1>1, <2>1, <2>2, <2>3 DEF PageCurrent
  <1>13. QED  BY <1>8, <1>10, <1>11, <1>12 DEF PageInv

\* The first answer is taken from the queue.
LEMMA PageTaken ==
    ASSUME PageInv, Cal!Taken
    PROVE  /\ Cal!Next1 = answers[1] /\ answers[1] \in PageAnswers /\ 1 \in 1..Len(answers)
           /\ answers' \in Seq(PageAnswers)
           /\ \A i \in 1..Len(answers') :
                  i + 1 \in 1..Len(answers) /\ i + 1 # 1 /\ answers'[i] = answers[i + 1]
           /\ \A i \in 1..Len(answers) :
                  i = 1 \/ (i - 1 \in 1..Len(answers') /\ answers'[i - 1] = answers[i])
           /\ PageBelow = modal /\ ~PageEnding
  <1>1. answers \in Seq(PageAnswers) /\ answers # <<>> /\ answers' = Tail(answers)
        /\ modal.is # "message"
    BY DEF PageInv, PageTyped, Cal!Taken
  <1>2. PageBelow = modal /\ ~PageEnding
    BY <1>1 DEF PageBelow, PageEnding
  <1>3. QED  BY <1>1, <1>2, PageTake DEF Cal!Next1

\* When it is of an operation on the values, nothing else is.
LEMMA PageOnly ==
    ASSUME PageInv, Cal!Taken, answers[1].is \in Cal!Calibrating
    PROVE  /\ pending /\ ~PageEnding
           /\ \A i \in 1..Len(jobs) : jobs[i].is \notin Cal!Calibrating
           /\ \A i \in 1..Len(answers') : answers'[i].is \notin Cal!Calibrating
           /\ \A i \in 1..Len(answers) : answers[i].is \in Cal!Calibrating => i = 1
  <1>1. /\ pending /\ ~PageEnding
        /\ \A i \in 1..Len(answers) : answers[i].is \in Cal!Calibrating => i = 1
        /\ \A i \in 1..Len(jobs) : jobs[i].is \notin Cal!Calibrating
    BY PageTaken DEF PageInv, PageSingle
  <1>2. \A i \in 1..Len(answers') : answers'[i].is \notin Cal!Calibrating
    BY <1>1, PageTaken
  <1>3. QED  BY <1>1, <1>2

\* What clear_pending leaves.
LEMMA PageCleared ==
    ASSUME PageInv, NEW names, Cal!ClearPending(names)
    PROVE  new' \in PageFields
  <1> DEFINE gone == IF names = {} THEN {n \in Names : new[n] # Unset} ELSE names
  <1>1. new' = [n \in Names |-> IF n \in gone THEN Unset ELSE new[n]]
    BY DEF Cal!ClearPending, Cal!Cleared
  <1> HIDE DEF gone
  <1>2. \A n \in Names : new[n] \in PageNumbers
    BY DEF PageInv, PageTyped, PageFields
  <1>3. QED  BY <1>1, <1>2, PageConstants DEF PageFields

LEMMA PageShows ==
    ASSUME PageInv, Cal!Calibrated
    PROVE  PageInv'
  <1> DEFINE a == answers[1]
  <1>1. /\ Cal!Taken /\ a.ok /\ a.is \in Cal!Calibrating /\ current' = Cal!CurrentAfter(a)
        /\ pending' = FALSE
        /\ UNCHANGED <<items, modal, jobs, target, saved, online, doubt>>
        /\ new' = new \/ Cal!ClearPending(DOMAIN a.shown)
    BY PageTaken DEF Cal!Calibrated, Cal!session
  <1>2. /\ a \in PageAnswers /\ 1 \in 1..Len(answers) /\ answers' \in Seq(PageAnswers)
        /\ PageBelow = modal /\ ~PageEnding
    BY <1>1, PageTaken
  <1>3. /\ pending
        /\ \A i \in 1..Len(jobs) : jobs[i].is \notin Cal!Calibrating
        /\ \A i \in 1..Len(answers') : answers'[i].is \notin Cal!Calibrating
        /\ \A i \in 1..Len(answers) : answers[i].is \in Cal!Calibrating => i = 1
    BY <1>1, PageOnly
  <1>4. PageBelow' = PageBelow /\ ~PageEnding'
    BY <1>1, <1>2 DEF PageBelow, PageEnding
  <1>5. PageBelow.is # "confirm"
    BY <1>3 DEF PageInv, PageLocked
  <1>6. a.shown \in PageBatches /\ DOMAIN a.shown \subseteq Names
        /\ \A n \in DOMAIN a.shown : a.shown[n] \in PageNumbers
    BY <1>2, PageBatchIs DEF PageAnswers
  <1> HIDE DEF a
  <1>7. /\ current' = [n \in Names |-> IF n \in DOMAIN a.shown \intersect items THEN a.shown[n]
                                       ELSE current[n]]
    BY <1>1 DEF Cal!CurrentAfter, Cal!Merge
  <1>8. current' \in PageFields
    BY <1>6, <1>7 DEF PageInv, PageTyped, PageFields
  <1>9. new' \in PageFields
    BY <1>1, PageCleared DEF PageInv, PageTyped
  <1>10. PageTyped'
    BY <1>1, <1>2, <1>4, <1>5, <1>8, <1>9 DEF PageInv, PageTyped
  <1>11. PageSingle'
    BY <1>1, <1>3, <1>4 DEF PageSingle
  <1>12. PageLocked'
    BY <1>1, <1>3, <1>4, <1>5 DEF PageLocked, Cal!Calibrating
  <1>13. PageCurrent'
    <2>1. \A n \in Names \ items' : current'[n] = Unset
      BY <1>1, <1>7 DEF PageInv, PageCurrent
    <2>2. ASSUME NEW n \in items \ doubt, current'[n] # Unset
          PROVE  current'[n] = target[n]
      <3>1. n \in Names
        BY DEF PageInv, PageTyped
      <3>2. CASE n \in DOMAIN a.shown
        BY <1>1, <1>2, <1>7, <3>1, <3>2 DEF PageInv, PageCurrent, a
      <3>3. CASE n \notin DOMAIN a.shown
        <4>1. current'[n] = current[n]
          BY <1>7, <3>1, <3>3
        <4>2. ~PageTold(n)
          BY <1>3, <3>3 DEF PageTold, a
        <4>3. QED  BY <2>2, <4>1, <4>2 DEF PageInv, PageCurrent
      <3>4. QED  BY <3>2, <3>3
    <2>3. QED  BY <1>1, <1>3, <2>1, <2>2 DEF PageCurrent
  <1>14. QED  BY <1>10, <1>11, <1>12, <1>13 DEF PageInv

\* An answer that shows nothing leaves the queue: of a connect or disconnect, or
\* of what has failed.
LEMMA PageForgets ==
    ASSUME PageInv, Cal!Taken, ~(answers[1].ok /\ answers[1].is \in Cal!Calibrating),
           UNCHANGED <<items, new, current, pending, jobs, target, saved, online, doubt>>,
           PageBelow' = PageBelow, PageEnding' => answers[1].is \in Cal!Calibrating,
           answers[1].is \in Cal!Calibrating => PageEnding'
    PROVE  PageInv'
  <1>1. /\ answers[1] \in PageAnswers /\ 1 \in 1..Len(answers) /\ answers' \in Seq(PageAnswers)
        /\ ~PageEnding
    BY PageTaken
  <1>2. \A i \in 1..Len(answers') : i + 1 \in 1..Len(answers) /\ answers'[i] = answers[i + 1]
    BY PageTaken
  <1>3. PageTyped'
    BY <1>1 DEF PageInv, PageTyped
  <1>4. PageSingle'
    <2>1. CASE answers[1].is \in Cal!Calibrating
      BY <2>1, PageOnly DEF PageSingle
    <2>2. CASE answers[1].is \notin Cal!Calibrating
      <3>1. ~PageEnding'
        BY <2>2
      <3>2. ASSUME NEW i \in 1..Len(jobs), jobs[i].is \in Cal!Calibrating
            PROVE  /\ pending
                   /\ \A j \in 1..Len(jobs) : jobs[j].is \in Cal!Calibrating => j = i
                   /\ \A j \in 1..Len(answers') : answers'[j].is \notin Cal!Calibrating
        BY <1>2, <3>2 DEF PageInv, PageSingle
      <3>3. ASSUME NEW i \in 1..Len(answers'), answers'[i].is \in Cal!Calibrating
            PROVE  /\ pending
                   /\ \A j \in 1..Len(answers') : answers'[j].is \in Cal!Calibrating => j = i
        <4>1. /\ pending
              /\ \A j \in 1..Len(answers) : answers[j].is \in Cal!Calibrating => j = i + 1
          BY <1>2, <3>3 DEF PageInv, PageSingle
        <4>2. ASSUME NEW j \in 1..Len(answers'), answers'[j].is \in Cal!Calibrating PROVE j = i
          <5>1. j + 1 = i + 1
            BY <1>2, <4>1, <4>2
          <5>2. QED  BY <1>1, <5>1
        <4>3. QED  BY <4>1, <4>2
      <3>4. QED  BY <3>1, <3>2, <3>3 DEF PageSingle
    <2>3. QED  BY <2>1, <2>2
  <1>5. PageLocked'
    <2>1. ASSUME NEW i \in 1..Len(answers'), answers'[i].is = "write", answers'[i].ok
          PROVE  PageEntered(answers'[i].shown)
      BY <1>2, <2>1 DEF PageInv, PageLocked
    <2>2. \A f : PageEntered(f)' <=> PageEntered(f)
      BY DEF PageEntered
    <2>3. \A i \in 1..Len(jobs') : jobs'[i].is = "write" => PageEntered(jobs'[i].changes)
      BY DEF PageInv, PageLocked
    <2>4. /\ pending => \/ PageBelow.is = "none"
                        \/ PageBelow.is = "menu" /\ ~PageBelow.offers /\ ~PageBelow.undoes
          /\ PageBelow.is = "confirm" /\ PageBelow.job.is = "write" =>
                 PageEntered(PageBelow.job.changes)
      BY DEF PageInv, PageLocked
    <2>5. QED  BY <2>1, <2>2, <2>3, <2>4 DEF PageLocked, PageEntered
  <1>6. PageCurrent'
    <2>1. \A n \in Names : PageTold(n)' <=> PageTold(n)
      <3>1. ASSUME NEW n \in Names, PageTold(n)' PROVE PageTold(n)
        BY <1>2, <3>1 DEF PageTold
      <3>2. ASSUME NEW n \in Names, PageTold(n) PROVE PageTold(n)'
        <4>1. PICK i \in 1..Len(answers) : answers[i].ok /\ answers[i].is \in Cal!Calibrating
                                           /\ n \in DOMAIN answers[i].shown
          BY <3>2 DEF PageTold
        <4>2. i - 1 \in 1..Len(answers') /\ answers'[i - 1] = answers[i]
          BY <4>1, PageTaken
        <4>3. QED  BY <4>1, <4>2 DEF PageTold
      <3>3. QED  BY <3>1, <3>2
    <2>2. items \subseteq Names
      BY DEF PageInv, PageTyped
    <2>3. \A n \in items \ doubt : current[n] # Unset /\ ~PageTold(n)' => current[n] = target[n]
      BY <2>1, <2>2 DEF PageInv, PageCurrent
    <2>4. \A i \in 1..Len(answers') : answers'[i].ok /\ answers'[i].is \in Cal!Calibrating =>
              \A n \in (DOMAIN answers'[i].shown \intersect items) \ doubt :
                  answers'[i].shown[n] = target[n]
      BY <1>2 DEF PageInv, PageCurrent
    <2>5. \A n \in Names \ items : current[n] = Unset
      BY DEF PageInv, PageCurrent
    <2>6. QED  BY <2>3, <2>4, <2>5 DEF PageCurrent
  <1>7. QED  BY <1>3, <1>4, <1>5, <1>6 DEF PageInv

\* The page.
LEMMA PageLoads ==
    ASSUME PageInv, Cal!Load
    PROVE  PageInv'
  <1>1. PICK loaded \in SUBSET Names :
            /\ items' = loaded
            /\ new' = [n \in Names |-> IF n \in loaded THEN new[n] ELSE Unset]
            /\ current' = [n \in Names |-> IF n \in loaded THEN current[n] ELSE Unset]
    BY DEF Cal!Load
  <1>2. /\ Cal!Free /\ jobs = <<>> /\ answers = <<>>
        /\ UNCHANGED <<pending, modal, jobs, answers, target, saved, online, doubt>>
    BY DEF Cal!Load, Cal!session
  <1>3. PageQuiet /\ modal' = Cal!Closed
    BY <1>2, PageFree DEF PageQuiet, Cal!Free
  <1>4. new' \in PageFields /\ current' \in PageFields
    BY <1>1, PageConstants DEF PageInv, PageTyped, PageFields
  <1>5. \A n \in items' : current'[n] # Unset => n \in items /\ current'[n] = current[n]
    BY <1>1 DEF PageInv, PageCurrent
  <1>6. \A n \in Names \ items' : current'[n] = Unset
    BY <1>1
  <1>7. QED  BY <1>1, <1>2, <1>3, <1>4, <1>5, <1>6, PageEdits

LEMMA PageAnswersEdit ==
    ASSUME PageInv, Cal!AnswerEdit
    PROVE  PageInv'
  <1>1. /\ modal.is = "edit" /\ modal' = Cal!Closed
        /\ UNCHANGED <<items, current, pending, jobs, answers, target, saved, online, doubt>>
        /\ new' = new \/ \E n \in modal.names, v \in Values : new' = [new EXCEPT ![n] = v]
    BY DEF Cal!AnswerEdit, Cal!session
  <1>2. PageBelow = modal
    BY <1>1 DEF PageBelow
  <1>3. ~pending
    BY <1>1, <1>2 DEF PageInv, PageLocked
  <1>4. new' \in PageFields
    BY <1>1 DEF PageInv, PageTyped, PageFields, PageNumbers
  <1>5. /\ items \subseteq Names /\ current \in PageFields
        /\ \A n \in Names \ items : current[n] = Unset
    BY DEF PageInv, PageTyped, PageCurrent
  <1>6. QED  BY <1>1, <1>3, <1>4, <1>5, PageIdle, PageEdits

LEMMA PageUndoes ==
    ASSUME PageInv, Cal!Undo
    PROVE  PageInv'
  <1>1. /\ modal.is = "menu" /\ modal.undoes /\ modal' = Cal!Closed
        /\ UNCHANGED <<items, current, pending, jobs, answers, target, saved, online, doubt>>
        /\ Cal!ClearPending(modal.names)
    BY DEF Cal!Undo, Cal!session
  <1>2. PageBelow = modal
    BY <1>1 DEF PageBelow
  <1>3. ~pending
    BY <1>1, <1>2 DEF PageInv, PageLocked
  <1>4. new' \in PageFields
    BY <1>1, PageCleared
  <1>5. /\ items \subseteq Names /\ current \in PageFields
        /\ \A n \in Names \ items : current[n] = Unset
    BY DEF PageInv, PageTyped, PageCurrent
  <1>6. QED  BY <1>1, <1>3, <1>4, <1>5, PageIdle, PageEdits

\* Dialogs and menus that open, close or tick.
LEMMA PageCloses ==
    ASSUME PageInv, Cal!CloseMenu \/ Cal!MenuTick \/ Cal!Decline
    PROVE  PageInv'
  <1>1. /\ modal.is # "message" /\ modal' = Cal!Closed
        /\ UNCHANGED <<items, new, current, pending, jobs, answers, target, saved, online, doubt>>
    BY DEF Cal!CloseMenu, Cal!MenuTick, Cal!Decline, Cal!tab, Cal!session
  <1>2. ~PageEnding
    BY <1>1 DEF PageEnding
  <1>3. QED  BY <1>1, <1>2, PageClosed, PageDialogs

LEMMA PageTicks ==
    ASSUME PageInv, Cal!Tick
    PROVE  PageInv'
  <1>1. /\ Cal!Free /\ modal' = Cal!Closed
        /\ UNCHANGED <<items, new, current, pending, jobs, answers, target, saved, online, doubt>>
    BY DEF Cal!Tick, Cal!session, Cal!Free
  <1>2. QED  BY <1>1, PageFree, PageClosed, PageDialogs

LEMMA PageOpensEdit ==
    ASSUME PageInv, Cal!OpenEdit
    PROVE  PageInv'
  <1>1. /\ Cal!Free /\ ~pending /\ modal'.is = "edit"
        /\ UNCHANGED <<items, new, current, pending, jobs, answers, target, saved, online, doubt>>
    BY DEF Cal!OpenEdit, Cal!Enabled, Cal!session, Cal!tab
  <1>2. PageBelow' = modal' /\ ~PageEnding'
    BY <1>1, PageOpen
  <1>3. QED  BY <1>1, <1>2, PageFree, PageDialogs

LEMMA PageOpensMenu ==
    ASSUME PageInv, Cal!OpenMenu
    PROVE  PageInv'
  <1>1. /\ Cal!Free
        /\ UNCHANGED <<items, new, current, pending, jobs, answers, target, saved, online, doubt>>
    BY DEF Cal!OpenMenu, Cal!session, Cal!tab
  <1>2. PICK names \in SUBSET items :
            modal' = [is |-> "menu", names |-> names, offers |-> Cal!Enabled,
                      undoes |-> Cal!Enabled /\ \E n \in names : new[n] # Unset]
    BY DEF Cal!OpenMenu
  <1>3. modal'.is = "menu" /\ (modal'.offers => ~pending) /\ (modal'.undoes => ~pending)
    BY <1>2 DEF Cal!Enabled
  <1>4. PageBelow' = modal' /\ ~PageEnding'
    BY <1>3, PageOpen
  <1>5. QED  BY <1>1, <1>3, <1>4, PageFree, PageDialogs

LEMMA PagePendingChanges ==
    ASSUME PageInv
    PROVE  /\ Cal!PendingChanges \in PageBatches
           /\ \A n \in DOMAIN Cal!PendingChanges :
                  Cal!PendingChanges[n] = new[n] /\ Cal!PendingChanges[n] # Unset
  <1> DEFINE names == {n \in items \intersect selected : new[n] # Unset}
  <1>1. Cal!PendingChanges = [n \in names |-> new[n]]
    BY DEF Cal!PendingChanges
  <1>2. names \in SUBSET Names
    BY DEF PageInv, PageTyped
  <1>3. \A n \in names : new[n] # Unset
    OBVIOUS
  <1> HIDE DEF names
  <1>4. Cal!PendingChanges \in [names -> PageNumbers]
    BY <1>1, <1>2 DEF PageInv, PageTyped, PageFields
  <1>5. QED  BY <1>1, <1>2, <1>3, <1>4, PageBatchMade

LEMMA PageAsks ==
    ASSUME PageInv, Cal!AskWrite \/ Cal!AskRestore
    PROVE  PageInv'
  <1>1. /\ Cal!Free /\ ~pending
        /\ UNCHANGED <<items, new, current, pending, jobs, answers, target, saved, online, doubt>>
    BY DEF Cal!AskWrite, Cal!AskRestore, Cal!Enabled, Cal!session, Cal!tab
  <1>2. PICK job : /\ modal' = [is |-> "confirm", job |-> job]
                   /\ job \in PageJobs /\ job.is \in Cal!Calibrating
                   /\ job.is = "write" => PageEntered(job.changes)
    <2>1. CASE Cal!AskWrite
      <3> DEFINE job == [is |-> "write", changes |-> Cal!PendingChanges]
      <3>1. modal' = [is |-> "confirm", job |-> job] /\ DOMAIN Cal!PendingChanges # {}
        BY <2>1 DEF Cal!AskWrite
      <3>2. job \in PageJobs /\ job.is \in Cal!Calibrating
        BY PagePendingChanges DEF PageJobs, Cal!Calibrating
      <3>3. PageEntered(job.changes)
        BY <3>1, PagePendingChanges DEF PageEntered
      <3>4. QED  BY <3>1, <3>2, <3>3
    <2>2. CASE Cal!AskRestore
      <3> DEFINE job == [is |-> "restore", changes |-> Cal!Blank]
      <3>1. modal' = [is |-> "confirm", job |-> job]
        BY <2>2 DEF Cal!AskRestore
      <3>2. job \in PageJobs /\ job.is \in Cal!Calibrating /\ job.is # "write"
        BY PageBlank DEF PageJobs, Cal!Calibrating
      <3>3. QED  BY <3>1, <3>2
    <2>3. QED  BY <2>1, <2>2
  <1>3. modal'.is = "confirm" /\ modal'.job = job
    BY <1>2
  <1>4. PageBelow' = modal' /\ ~PageEnding'
    BY <1>3, PageOpen
  <1>5. PageEntered(job.changes) => PageEntered(modal'.job.changes)
    BY <1>3
  <1>6. QED  BY <1>1, <1>2, <1>3, <1>4, <1>5, PageFree, PageDialogs

\* Operations are submitted.
LEMMA PageRefreshes ==
    ASSUME PageInv, Cal!RefreshCalibrations
    PROVE  PageInv'
  <1> DEFINE job == [is |-> "read", changes |-> Cal!Blank]
  <1>1. /\ Cal!Free /\ ~pending /\ modal' = Cal!Closed /\ Cal!RunWithPollPaused(job)
        /\ UNCHANGED <<items, new, current, answers, target, saved, online, doubt>>
    BY DEF Cal!RefreshCalibrations, Cal!Enabled, Cal!session, Cal!tab, Cal!Free
  <1>2. job \in PageJobs /\ job.is = "read" /\ job.is \in Cal!Calibrating
    BY PageBlank DEF PageJobs, Cal!Calibrating
  <1> HIDE DEF job
  <1>3. CASE jobs' = Append(jobs, job) /\ pending' = TRUE
    BY <1>1, <1>2, <1>3, PageStarts
  <1>4. CASE UNCHANGED <<jobs, pending>>
    BY <1>1, <1>4, PageFree, PageClosed, PageDialogs
  <1>5. QED  BY <1>1, <1>3, <1>4 DEF Cal!RunWithPollPaused, Cal!Submit

LEMMA PageConfirms ==
    ASSUME PageInv, Cal!Confirm
    PROVE  PageInv'
  <1> DEFINE job == modal.job
  <1>1. /\ modal.is = "confirm" /\ modal' = Cal!Closed /\ Cal!RunWithPollPaused(job)
        /\ UNCHANGED <<items, new, current, answers, target, saved, online, doubt>>
    BY DEF Cal!Confirm, Cal!session, Cal!tab
  <1>2. PageBelow = modal /\ ~PageEnding
    BY <1>1 DEF PageBelow, PageEnding
  <1>3. ~pending /\ job \in PageJobs /\ job.is \in Cal!Calibrating /\ (job.is = "write" => PageEntered(job.changes))
    BY <1>1, <1>2 DEF PageInv, PageLocked, PageTyped
  <1> HIDE DEF job
  <1>4. CASE UNCHANGED <<jobs, pending>>
    BY <1>1, <1>2, <1>4, PageClosed, PageDialogs
  <1>5. CASE jobs' = Append(jobs, job) /\ pending' = TRUE
    BY <1>1, <1>3, <1>5, PageStarts
  <1>6. QED  BY <1>1, <1>4, <1>5 DEF Cal!RunWithPollPaused, Cal!Submit

LEMMA PageConnects ==
    ASSUME PageInv, Cal!Connect \/ Cal!Disconnect
    PROVE  PageInv'
  <1>1. PICK what \in {"connect", "disconnect"} :
            jobs' = Append(jobs, [is |-> what, changes |-> Cal!Blank])
    BY DEF Cal!Connect, Cal!Disconnect, Cal!Submit
  <1>2. UNCHANGED <<items, new, current, pending, modal, answers, target, saved, online, doubt>>
    BY DEF Cal!Connect, Cal!Disconnect, Cal!tab, Cal!session
  <1> DEFINE job == [is |-> what, changes |-> Cal!Blank]
  <1>3. job \in PageJobs /\ job.is \notin Cal!Calibrating
    BY <1>1, PageBlank DEF PageJobs, Cal!Calibrating
  <1> HIDE DEF job
  <1>4. jobs' = Append(jobs, job)
    BY <1>1 DEF job
  <1>5. QED  BY <1>2, <1>3, <1>4, PageSubmits

\* The worker.
LEMMA PageJobIs ==
    ASSUME PageInv, jobs # <<>>
    PROVE  /\ Cal!Job \in PageJobs /\ Cal!Job.changes \in PageBatches
           /\ DOMAIN Cal!Job.changes \subseteq Names
           /\ \A n \in DOMAIN Cal!Job.changes : Cal!Job.changes[n] \in PageNumbers
  <1>1. Cal!Job \in PageJobs
    BY PageTake DEF Cal!Job, PageInv, PageTyped
  <1>2. Cal!Job.changes \in PageBatches
    BY <1>1 DEF PageJobs
  <1>3. QED  BY <1>1, <1>2, PageBatchIs

LEMMA PageWrites ==
    ASSUME PageInv, Cal!WriteSucceeds
    PROVE  PageInv'
  <1> DEFINE batch == Cal!Job.changes
  <1>1. /\ jobs # <<>> /\ Cal!Job.is = "write" /\ Cal!Return(TRUE, batch) /\ UNCHANGED online
        /\ target' = [n \in Names |-> IF n \in DOMAIN batch THEN batch[n] ELSE target[n]]
        /\ saved' = [n \in Names |-> IF n \in DOMAIN batch /\ saved[n] = Unset THEN target[n]
                                     ELSE saved[n]]
        /\ doubt' = doubt \ DOMAIN batch
    BY DEF Cal!WriteSucceeds, Cal!Merge
  <1>2. /\ batch \in PageBatches /\ DOMAIN batch \subseteq Names
        /\ \A n \in DOMAIN batch : batch[n] \in PageNumbers
    BY <1>1, PageJobIs
  <1>3. /\ items \subseteq Names /\ doubt \subseteq Names /\ online \in BOOLEAN
        /\ \A n \in Names : target[n] \in PageNumbers /\ saved[n] \in PageNumbers
    BY DEF PageInv, PageTyped, PageFields
  <1> HIDE DEF batch
  <1>4. target' \in PageFields /\ saved' \in PageFields
    BY <1>1, <1>2, <1>3 DEF PageFields
  <1>5. doubt' \subseteq Names /\ online' \in BOOLEAN
    BY <1>1, <1>3
  <1>6. \A n \in items \ doubt' : \/ n \notin doubt /\ target'[n] = target[n]
                                  \/ n \in DOMAIN batch
    BY <1>1, <1>3
  <1>7. \A n \in (DOMAIN batch \intersect items) \ doubt' : batch[n] = target'[n]
    BY <1>1, <1>3
  <1>8. Cal!Job.is \in Cal!Calibrating /\ Cal!Job.changes = batch
    BY <1>1 DEF Cal!Calibrating, batch
  <1>9. QED  BY <1>1, <1>2, <1>4, <1>5, <1>6, <1>7, <1>8, PageWorks

LEMMA PageFails ==
    ASSUME PageInv, Cal!WriteFails
    PROVE  PageInv'
  <1> DEFINE batch == Cal!Job.changes
  <1>1. jobs # <<>> /\ Cal!Return(FALSE, Cal!Blank) /\ UNCHANGED online
    BY DEF Cal!WriteFails
  <1>2. DOMAIN batch \subseteq Names /\ \A n \in DOMAIN batch : batch[n] \in PageNumbers
    BY <1>1, PageJobIs
  <1>3. /\ items \subseteq Names /\ doubt \subseteq Names /\ online \in BOOLEAN
        /\ target \in PageFields /\ saved \in PageFields
        /\ \A n \in Names : target[n] \in PageNumbers /\ saved[n] \in PageNumbers
    BY DEF PageInv, PageTyped, PageFields
  <1>4. /\ target' \in PageFields /\ saved' \in PageFields /\ doubt' \subseteq Names
        /\ \A n \in items \ doubt' : n \notin doubt /\ target'[n] = target[n]
    <2>1. CASE ~online
      BY <1>3, <2>1 DEF Cal!WriteFails
    <2>2. CASE online
      <3>1. PICK tried \in SUBSET DOMAIN batch :
                /\ doubt' = doubt \union tried
                /\ \/ /\ target' = [n \in Names |-> IF n \in tried /\ saved[n] # Unset
                                                    THEN saved[n] ELSE target[n]]
                      /\ saved' = [n \in Names |-> IF n \in tried THEN Unset ELSE saved[n]]
                   \/ /\ saved' = [n \in Names |-> IF n \in tried /\ saved[n] = Unset
                                                   THEN target[n] ELSE saved[n]]
                      /\ target' = [n \in Names |-> IF n \in tried THEN batch[n] ELSE target[n]]
        BY <2>2 DEF Cal!WriteFails
      <3> HIDE DEF batch
      <3>2. doubt' \subseteq Names /\ \A n \in Names \ doubt' : n \notin doubt /\ n \notin tried
        BY <1>2, <1>3, <3>1
      <3>3. CASE /\ target' = [n \in Names |-> IF n \in tried /\ saved[n] # Unset
                                               THEN saved[n] ELSE target[n]]
                 /\ saved' = [n \in Names |-> IF n \in tried THEN Unset ELSE saved[n]]
        <4>1. target' \in PageFields /\ saved' \in PageFields
          BY <1>3, <3>3, PageConstants DEF PageFields
        <4>2. QED  BY <1>3, <3>2, <3>3, <4>1
      <3>4. CASE /\ saved' = [n \in Names |-> IF n \in tried /\ saved[n] = Unset
                                              THEN target[n] ELSE saved[n]]
                 /\ target' = [n \in Names |-> IF n \in tried THEN batch[n] ELSE target[n]]
        <4>1. target' \in PageFields /\ saved' \in PageFields
          BY <1>2, <1>3, <3>4 DEF PageFields
        <4>2. QED  BY <1>3, <3>2, <3>4, <4>1
      <3>5. QED  BY <3>1, <3>3, <3>4
    <2>3. QED  BY <2>1, <2>2
  <1>5. QED  BY <1>1, <1>3, <1>4, PageBlank, PageWorks

\* Whatever is restored, what it may have changed was recorded.
LEMMA PageRestored ==
    ASSUME PageInv, NEW restored \in SUBSET Cal!Changed, Cal!Restore(restored)
    PROVE  /\ target' \in PageFields /\ saved' \in PageFields /\ Cal!Changed \subseteq Names
           /\ \A n \in Names \ restored : target'[n] = target[n]
           /\ \A n \in restored : target'[n] = saved[n]
           /\ [n \in restored |-> saved[n]] \in PageBatches
  <1>1. restored \subseteq Names /\ Cal!Changed \subseteq Names
    BY DEF Cal!Changed
  <1>2. \A n \in Names : target[n] \in PageNumbers /\ saved[n] \in PageNumbers
    BY DEF PageInv, PageTyped, PageFields
  <1>3. /\ target' = [n \in Names |-> IF n \in restored THEN saved[n] ELSE target[n]]
        /\ saved' = [n \in Names |-> IF n \in restored THEN Unset ELSE saved[n]]
    BY DEF Cal!Restore
  <1>4. target' \in PageFields /\ saved' \in PageFields
    BY <1>2, <1>3, PageConstants DEF PageFields
  <1>5. [n \in restored |-> saved[n]] \in PageBatches
    BY <1>1, <1>2, PageBatchMade
  <1>6. QED  BY <1>1, <1>3, <1>4, <1>5

LEMMA PageRestores ==
    ASSUME PageInv, Cal!RestoreRuns
    PROVE  PageInv'
  <1>1. jobs # <<>> /\ Cal!Job.is = "restore" /\ UNCHANGED online
    BY DEF Cal!RestoreRuns
  <1>2. /\ items \subseteq Names /\ doubt \subseteq Names /\ online' \in BOOLEAN
        /\ target \in PageFields /\ saved \in PageFields
    BY <1>1 DEF PageInv, PageTyped
  <1>3. CASE ~online
    <2>1. Cal!Return(FALSE, Cal!Blank) /\ UNCHANGED <<target, saved, doubt>>
      BY <1>3 DEF Cal!RestoreRuns
    <2>2. QED  BY <1>1, <1>2, <2>1, PageBlank, PageWorks
  <1>4. CASE online
    <2>1. PICK restored \in SUBSET Cal!Changed :
              /\ Cal!Restore(restored)
              /\ doubt' = IF restored = Cal!Changed THEN doubt \ Cal!Changed
                          ELSE doubt \union Cal!Changed
              /\ Cal!Return(restored = Cal!Changed, [n \in restored |-> saved[n]])
      BY <1>4 DEF Cal!RestoreRuns
    <2> DEFINE ok == restored = Cal!Changed
               shown == [n \in restored |-> saved[n]]
    <2>2. Cal!Return(ok, shown) /\ ok \in BOOLEAN
      BY <2>1
    <2>3. /\ target' \in PageFields /\ saved' \in PageFields /\ Cal!Changed \subseteq Names
          /\ shown \in PageBatches
          /\ \A n \in Names \ restored : target'[n] = target[n]
          /\ \A n \in restored : target'[n] = saved[n]
      BY <2>1, PageRestored
    <2>4. DOMAIN shown = restored /\ \A n \in restored : shown[n] = saved[n]
      OBVIOUS
    <2>5. /\ ok => restored = Cal!Changed /\ doubt' = doubt \ Cal!Changed
          /\ ~ok => doubt' = doubt \union Cal!Changed
      BY <2>1
    <2> HIDE DEF ok, shown
    <2>6. doubt' \subseteq Names
      BY <1>2, <2>3, <2>5
    <2>7. Cal!Job.is \in Cal!Calibrating /\ Cal!Job.is # "write"
      BY <1>1 DEF Cal!Calibrating
    <2>8. \A n \in items \ doubt' : \/ n \notin doubt /\ target'[n] = target[n]
                                    \/ ok /\ n \in DOMAIN shown
      BY <1>2, <2>3, <2>4, <2>5
    <2>9. \A n \in DOMAIN shown : shown[n] = target'[n]
      BY <2>3, <2>4
    <2>10. QED  BY <1>1, <1>2, <2>2, <2>3, <2>6, <2>7, <2>8, <2>9, PageWorks
  <1>5. QED  BY <1>3, <1>4

LEMMA PageReads ==
    ASSUME PageInv, Cal!Read
    PROVE  PageInv'
  <1>1. jobs # <<>> /\ Cal!Job.is = "read" /\ UNCHANGED <<target, saved, online>>
    BY DEF Cal!Read
  <1>2. /\ items \subseteq Names /\ doubt \subseteq Names /\ online \in BOOLEAN
        /\ target \in PageFields /\ saved \in PageFields
        /\ \A n \in Names : target[n] \in PageNumbers
    BY DEF PageInv, PageTyped, PageFields
  <1>3. CASE Cal!Return(FALSE, Cal!Blank) /\ UNCHANGED doubt
    BY <1>1, <1>2, <1>3, PageBlank, PageWorks
  <1>4. CASE doubt' = doubt \ items /\ Cal!Return(TRUE, [n \in items |-> target[n]])
    <2> DEFINE shown == [n \in items |-> target[n]]
    <2>1. shown \in PageBatches
      BY <1>2, PageBatchMade
    <2>2. DOMAIN shown = items /\ \A n \in items : shown[n] = target[n]
      OBVIOUS
    <2>3. Cal!Return(TRUE, shown)
      BY <1>4
    <2> HIDE DEF shown
    <2>4. Cal!Job.is \in Cal!Calibrating /\ Cal!Job.is # "write"
      BY <1>1 DEF Cal!Calibrating
    <2>5. QED  BY <1>1, <1>2, <1>4, <2>1, <2>2, <2>3, <2>4, PageWorks
  <1>5. QED  BY <1>3, <1>4 DEF Cal!Read

LEMMA PageSessions ==
    ASSUME PageInv, Cal!ConnectRuns \/ Cal!DisconnectRuns
    PROVE  PageInv'
  <1>1. /\ items \subseteq Names /\ doubt \subseteq Names /\ online \in BOOLEAN
        /\ target \in PageFields /\ saved \in PageFields
    BY DEF PageInv, PageTyped
  <1>2. CASE Cal!ConnectRuns
    <2>1. PICK ok \in BOOLEAN : online' = (online \/ ok) /\ Cal!Return(ok, Cal!Blank)
      BY <1>2 DEF Cal!ConnectRuns
    <2>2. /\ jobs # <<>> /\ Cal!Job.is \notin Cal!Calibrating /\ Cal!Job.is # "write"
          /\ UNCHANGED <<target, saved, doubt>>
      BY <1>2 DEF Cal!ConnectRuns, Cal!Calibrating
    <2>3. online' \in BOOLEAN
      BY <2>1, Zenon
    <2>4. QED  BY <1>1, <2>1, <2>2, <2>3, PageBlank, PageWorks
  <1>3. CASE Cal!DisconnectRuns
    <2>1. PICK restored \in SUBSET Cal!Changed :
              /\ Cal!Restore(restored)
              /\ doubt' = IF restored = Cal!Changed THEN Names ELSE doubt \union Cal!Changed
              /\ online' = (online /\ restored # Cal!Changed)
              /\ Cal!Return(restored = Cal!Changed, Cal!Blank)
      BY <1>3 DEF Cal!DisconnectRuns
    <2> DEFINE ok == restored = Cal!Changed
    <2>2. Cal!Return(ok, Cal!Blank) /\ ok \in BOOLEAN
      BY <2>1
    <2>3. /\ jobs # <<>> /\ Cal!Job.is \notin Cal!Calibrating /\ Cal!Job.is # "write"
      BY <1>3 DEF Cal!DisconnectRuns, Cal!Calibrating
    <2>4. /\ target' \in PageFields /\ saved' \in PageFields /\ Cal!Changed \subseteq Names
          /\ \A n \in Names \ restored : target'[n] = target[n]
      BY <2>1, PageRestored
    <2>5. /\ doubt' \subseteq Names
          /\ \A n \in items \ doubt' : n \notin doubt /\ target'[n] = target[n]
      BY <1>1, <2>1, <2>4
    <2>6. online' \in BOOLEAN
      BY <2>1, Zenon
    <2> HIDE DEF ok
    <2>7. QED  BY <2>2, <2>3, <2>4, <2>5, <2>6, PageBlank, PageWorks
  <1>4. QED  BY <1>2, <1>3

\* Answers.
LEMMA PageConnected ==
    ASSUME PageInv, Cal!Connected
    PROVE  PageInv'
  <1>1. /\ Cal!Taken /\ answers[1].is \notin Cal!Calibrating
        /\ UNCHANGED <<items, new, current, pending, modal, jobs, target, saved, online, doubt>>
    BY PageTaken DEF Cal!Connected, Cal!Calibrating, Cal!tab, Cal!session
  <1>2. PageBelow' = PageBelow /\ ~PageEnding'
    <2>1. modal.is # "message"
      BY <1>1 DEF Cal!Taken
    <2>2. QED  BY <1>1, <2>1 DEF PageBelow, PageEnding
  <1>3. QED  BY <1>1, <1>2, PageForgets

LEMMA PageReports ==
    ASSUME PageInv, Cal!OperationFailed
    PROVE  PageInv'
  <1>1. /\ Cal!Taken /\ ~answers[1].ok
        /\ UNCHANGED <<items, new, current, pending, jobs, target, saved, online, doubt>>
        /\ modal' = [is |-> "message", ends |-> answers[1].is \in Cal!Calibrating, below |-> modal]
    BY PageTaken DEF Cal!OperationFailed, Cal!tab, Cal!session
  <1>2. PageBelow' = modal /\ PageBelow = modal
    BY <1>1, PageTaken DEF PageBelow
  <1>3. PageEnding' <=> answers[1].is \in Cal!Calibrating
    BY <1>1 DEF PageEnding
  <1>4. QED  BY <1>1, <1>2, <1>3, PageForgets

LEMMA PageDismisses ==
    ASSUME PageInv, Cal!Dismiss
    PROVE  PageInv'
  <1>1. /\ modal.is = "message" /\ modal' = PageBelow /\ PageBelow.is # "message"
        /\ pending' = (pending /\ ~PageEnding)
        /\ UNCHANGED <<items, new, current, jobs, answers, target, saved, online, doubt>>
    <2>1. modal.is = "message" /\ modal' = modal.below /\ pending' = (pending /\ ~modal.ends)
      BY DEF Cal!Dismiss
    <2>2. PageBelow = modal.below /\ (PageEnding <=> modal.ends)
      BY <2>1 DEF PageBelow, PageEnding
    <2>3. pending' = (pending /\ ~PageEnding)
      BY <2>1, <2>2, Zenon
    <2>4. PageBelow.is # "message"
      BY DEF PageInv, PageTyped
    <2>5. UNCHANGED <<items, new, current, jobs, answers, target, saved, online, doubt>>
      BY DEF Cal!Dismiss, Cal!tab, Cal!session
    <2>6. QED  BY <2>1, <2>2, <2>3, <2>4, <2>5
  <1>2. PageBelow' = PageBelow /\ ~PageEnding'
    BY <1>1, PageOpen
  <1>3. pending' \in BOOLEAN /\ (pending' => pending) /\ (pending /\ ~PageEnding => pending')
    BY <1>1, Zenon
  <1>4. PageTyped'
    BY <1>1, <1>2, <1>3 DEF PageInv, PageTyped
  <1>5. PageSingle'
    BY <1>1, <1>2, <1>3 DEF PageInv, PageSingle
  <1>6. PageLocked'
    BY <1>1, <1>2, <1>3 DEF PageInv, PageLocked, PageEntered
  <1>7. PageCurrent'
    BY <1>1 DEF PageInv, PageCurrent, PageTold
  <1>8. QED  BY <1>4, <1>5, <1>6, <1>7 DEF PageInv

LEMMA PageBegins == ASSUME Cal!Init PROVE PageInv
  <1>1. /\ items = {} /\ new = Cal!Blank /\ current = Cal!Blank /\ pending = FALSE
        /\ modal = Cal!Closed /\ jobs = <<>> /\ answers = <<>>
        /\ target = [n \in Names |-> 0] /\ saved = Cal!Blank /\ online = FALSE /\ doubt = {}
    BY DEF Cal!Init
  <1>2. PageBelow.is = "none" /\ ~PageEnding
    BY <1>1 DEF PageBelow, PageEnding, Cal!Closed
  <1>3. PageTyped
    <2>1. target \in PageFields
      BY <1>1, PageConstants DEF PageFields
    <2>2. pending \in BOOLEAN /\ online \in BOOLEAN
      BY <1>1, Zenon
    <2>3. QED  BY <1>1, <1>2, <2>1, <2>2, PageBlank DEF PageTyped
  <1>4. PageSingle
    BY <1>1, <1>2 DEF PageSingle
  <1>5. PageLocked
    BY <1>1, <1>2 DEF PageLocked
  <1>6. PageCurrent
    BY <1>1 DEF PageCurrent, Cal!Blank
  <1>7. QED  BY <1>3, <1>4, <1>5, <1>6 DEF PageInv

LEMMA PageNext == ASSUME PageInv, Cal!Next PROVE PageInv'
  <1>1. CASE \/ Cal!Load \/ Cal!OpenEdit \/ Cal!AnswerEdit \/ Cal!Tick \/ Cal!OpenMenu
             \/ Cal!CloseMenu \/ Cal!MenuTick \/ Cal!Undo
    BY <1>1, PageLoads, PageOpensEdit, PageAnswersEdit, PageTicks, PageOpensMenu, PageCloses,
       PageUndoes
  <1>2. CASE \/ Cal!RefreshCalibrations \/ Cal!AskWrite \/ Cal!AskRestore \/ Cal!Confirm
             \/ Cal!Decline \/ Cal!Connect \/ Cal!Disconnect
    BY <1>2, PageRefreshes, PageAsks, PageConfirms, PageCloses, PageConnects
  <1>3. CASE \/ Cal!WriteSucceeds \/ Cal!WriteFails \/ Cal!RestoreRuns \/ Cal!Read
             \/ Cal!ConnectRuns \/ Cal!DisconnectRuns
    BY <1>3, PageWrites, PageFails, PageRestores, PageReads, PageSessions
  <1>4. CASE Cal!Calibrated \/ Cal!Connected \/ Cal!OperationFailed \/ Cal!Dismiss
    BY <1>4, PageShows, PageConnected, PageReports, PageDismisses
  <1>5. QED  BY <1>1, <1>2, <1>3, <1>4 DEF Cal!Next

LEMMA PageSafe == ASSUME PageInv PROVE Cal!ShownIsCurrent
  <1>1. ASSUME ~pending PROVE \A n \in Names : ~PageTold(n)
    BY <1>1 DEF PageInv, PageSingle, PageTold
  <1>2. items \subseteq Names
    BY DEF PageInv, PageTyped
  <1>3. QED  BY <1>1, <1>2 DEF PageInv, PageCurrent, Cal!ShownIsCurrent

\* What a step does to the values entered.
LEMMA PageKeeps == ASSUME PageInv, Cal!Next PROVE Cal!KeepsEdits
  <1>1. CASE new' = new
    BY <1>1 DEF Cal!KeepsEdits
  <1>2. CASE Cal!Load
    <2>1. PICK loaded \in SUBSET Names :
              /\ items' = loaded
              /\ new' = [n \in Names |-> IF n \in loaded THEN new[n] ELSE Unset]
      BY <1>2 DEF Cal!Load
    <2>2. QED  BY <2>1 DEF Cal!KeepsEdits
  <1>3. CASE Cal!AnswerEdit
    <2>1. CASE \E n \in modal.names, v \in Values : new' = [new EXCEPT ![n] = v]
      <3>1. PICK k \in modal.names, v \in Values : new' = [new EXCEPT ![k] = v]
        BY <2>1
      <3>2. \A n \in Names : new'[n] = Unset => new'[n] = new[n]
        BY <3>1, PageConstants DEF PageInv, PageTyped, PageFields
      <3>3. QED  BY <3>2 DEF Cal!KeepsEdits
    <2>2. QED  BY <1>1, <1>3, <2>1 DEF Cal!AnswerEdit
  <1>4. CASE Cal!Undo
    BY <1>4 DEF Cal!Undo, Cal!KeepsEdits
  <1>5. CASE Cal!Calibrated
    <2> DEFINE a == answers[1]
    <2>1. /\ Cal!Taken /\ a.ok /\ Cal!Next1 = a /\ 1 \in 1..Len(answers) /\ answers # <<>>
          /\ a.is \in Cal!Calibrating
          /\ \/ new' = new
             \/ /\ a.is \in {"write", "restore"}
                /\ Cal!ClearPending(DOMAIN a.shown)
      BY <1>5, PageTaken DEF Cal!Calibrated, Cal!Calibrating, Cal!Taken
    <2>2. CASE a.is \in {"write", "restore"} /\ Cal!ClearPending(DOMAIN a.shown)
      <3>1. a.is = "write" => DOMAIN a.shown # {} /\ \A n \in DOMAIN a.shown : a.shown[n] = new[n]
        BY <2>1 DEF PageInv, PageLocked, PageEntered
      <3>2. \A n \in Names : new[n] # Unset /\ new'[n] = Unset =>
                DOMAIN a.shown = {} \/ n \in DOMAIN a.shown
        BY <2>2 DEF Cal!ClearPending, Cal!Cleared
      <3>3. \A n \in Names : new[n] # Unset /\ new'[n] = Unset =>
                \/ a.is = "write" /\ n \in DOMAIN a.shown /\ a.shown[n] = new[n]
                \/ a.is = "restore" /\ (DOMAIN a.shown = {} \/ n \in DOMAIN a.shown)
        BY <2>2, <3>1, <3>2
      <3> HIDE DEF a
      <3>4. QED  BY <2>1, <3>3 DEF Cal!KeepsEdits
    <2>3. QED  BY <1>1, <2>1, <2>2
  <1>6. CASE \/ Cal!OpenEdit \/ Cal!Tick \/ Cal!OpenMenu \/ Cal!CloseMenu \/ Cal!MenuTick
             \/ Cal!RefreshCalibrations \/ Cal!AskWrite \/ Cal!AskRestore \/ Cal!Confirm
             \/ Cal!Decline \/ Cal!Connect \/ Cal!Disconnect
    BY <1>1, <1>6 DEF Cal!OpenEdit, Cal!Tick, Cal!OpenMenu, Cal!CloseMenu, Cal!MenuTick,
       Cal!RefreshCalibrations, Cal!AskWrite, Cal!AskRestore, Cal!Confirm, Cal!Decline,
       Cal!Connect, Cal!Disconnect, Cal!tab
  <1>7. CASE \/ Cal!WriteSucceeds \/ Cal!WriteFails \/ Cal!RestoreRuns \/ Cal!Read
             \/ Cal!ConnectRuns \/ Cal!DisconnectRuns
    <2>1. UNCHANGED Cal!tab
      BY <1>7 DEF Cal!WriteSucceeds, Cal!WriteFails, Cal!RestoreRuns, Cal!Read, Cal!ConnectRuns,
         Cal!DisconnectRuns, Cal!Return
    <2>2. QED  BY <1>1, <2>1 DEF Cal!tab
  <1>8. CASE Cal!Connected \/ Cal!OperationFailed \/ Cal!Dismiss
    BY <1>1, <1>8 DEF Cal!Connected, Cal!OperationFailed, Cal!Dismiss, Cal!tab
  <1>9. QED  BY <1>2, <1>3, <1>4, <1>5, <1>6, <1>7, <1>8 DEF Cal!Next

-----------------------------------------------------------------------------
(* What the worker does to the target is a transaction.                    *)

\* The target has values, and without a session nothing is left to restore.
PageTarget ==
    /\ target \in [Names -> Values]
    /\ ~online => \A n \in Names : saved[n] = Unset

\* A batch to write has values.
LEMMA PageBatchValues ==
    ASSUME PageInv, jobs # <<>>, Cal!Job.is = "write"
    PROVE  /\ DOMAIN Cal!Job.changes \subseteq Names
           /\ \A n \in DOMAIN Cal!Job.changes : Cal!Job.changes[n] \in Values
  <1>1. Cal!Job = jobs[1] /\ 1 \in 1..Len(jobs)
    BY PageTake DEF Cal!Job, PageInv, PageTyped
  <1>2. PageEntered(Cal!Job.changes)
    BY <1>1 DEF PageInv, PageLocked
  <1>3. /\ DOMAIN Cal!Job.changes \subseteq Names
        /\ \A n \in DOMAIN Cal!Job.changes : Cal!Job.changes[n] \in PageNumbers
    BY PageJobIs
  <1>4. QED  BY <1>2, <1>3 DEF PageEntered, PageNumbers

\* Values that are written are recorded first, and the records say what the
\* session has found.
LEMMA PageRecords ==
    ASSUME PageInv, PageTarget, NEW names \in SUBSET Names, NEW f,
           \A n \in names : f[n] \in Values,
           target' = [n \in Names |-> IF n \in names THEN f[n] ELSE target[n]],
           saved' = [n \in Names |-> IF n \in names /\ saved[n] = Unset THEN target[n] ELSE saved[n]]
    PROVE  /\ Cal!Changed \subseteq Cal!Changed' /\ Cal!Changed' \subseteq Names
           /\ target' \in [Names -> Values] /\ Found' = Found
           /\ \A n \in Names \ Cal!Changed' : target'[n] = target[n]
  <1>1. \A n \in Names : target[n] \in Values /\ target[n] # Unset
    BY PageConstants DEF PageTarget
  <1>2. Cal!Changed' = Cal!Changed \union names
    BY <1>1 DEF Cal!Changed
  <1>3. target' \in [Names -> Values]
    BY <1>1
  <1>4. \A n \in Names : (IF n \in Cal!Changed' THEN saved'[n] ELSE target'[n])
                         = (IF n \in Cal!Changed THEN saved[n] ELSE target[n])
    BY <1>2 DEF Cal!Changed
  <1>5. Found' = Found
    BY <1>4 DEF Found
  <1>6. Cal!Changed \subseteq Names
    BY DEF Cal!Changed
  <1>7. QED  BY <1>2, <1>3, <1>5, <1>6

\* A record goes when its value is back.
LEMMA PageReturns ==
    ASSUME PageInv, PageTarget, NEW restored \in SUBSET Cal!Changed, Cal!Restore(restored)
    PROVE  /\ Cal!Changed' = Cal!Changed \ restored /\ Cal!Changed \subseteq Names
           /\ target' \in [Names -> Values] /\ Found' = Found
           /\ \A n \in Names \ Cal!Changed : target'[n] = target[n]
           /\ \A n \in restored : target'[n] = Found[n]
  <1>1. /\ target' = [n \in Names |-> IF n \in restored THEN saved[n] ELSE target[n]]
        /\ saved' = [n \in Names |-> IF n \in restored THEN Unset ELSE saved[n]]
    BY DEF Cal!Restore
  <1>2. Cal!Changed' = Cal!Changed \ restored /\ Cal!Changed \subseteq Names
    BY <1>1 DEF Cal!Changed
  <1>3. \A n \in Cal!Changed : saved[n] \in Values
    BY DEF PageInv, PageTyped, PageFields, PageNumbers, Cal!Changed
  <1>4. target' \in [Names -> Values]
    BY <1>1, <1>3 DEF PageTarget
  <1>5. \A n \in Names : (IF n \in Cal!Changed' THEN saved'[n] ELSE target'[n])
                         = (IF n \in Cal!Changed THEN saved[n] ELSE target[n])
    BY <1>1, <1>2
  <1>6. Found' = Found
    BY <1>5 DEF Found
  <1>7. \A n \in restored : target'[n] = Found[n]
    BY <1>1, <1>2 DEF Found
  <1>8. QED  BY <1>1, <1>2, <1>4, <1>6, <1>7

\* The transaction's steps on the page.
LEMMA PageModifies ==
    ASSUME part = "page", part' = "page", online, online' = online,
           Cal!Changed \subseteq Cal!Changed', Cal!Changed' \subseteq Names,
           target' \in [Names -> Values], Found' = Found,
           \A n \in Names \ Cal!Changed' : target'[n] = target[n]
    PROVE  Transaction!Modify
  BY DEF Transaction!Modify

LEMMA PageReverts ==
    ASSUME part = "page", part' = "page", online, online' = online,
           PageInv, PageTarget, NEW restored \in SUBSET Cal!Changed, Cal!Restore(restored)
    PROVE  Transaction!Undo /\ PageTarget'
  <1>1. /\ Cal!Changed' = Cal!Changed \ restored
        /\ target' \in [Names -> Values] /\ Found' = Found
        /\ \A n \in Names \ Cal!Changed : target'[n] = target[n]
        /\ \A n \in restored : target'[n] = Found[n]
    BY PageReturns
  <1>2. Cal!Changed' \subseteq Cal!Changed /\ Cal!Changed \ Cal!Changed' = restored
    BY <1>1
  <1>3. Transaction!Undo
    BY <1>1, <1>2 DEF Transaction!Undo
  <1>4. QED  BY <1>1, <1>3 DEF PageTarget

LEMMA PageStays ==
    ASSUME part = "page", part' = "page", PageTarget, UNCHANGED <<target, saved, online>>
    PROVE  Transaction!Ask /\ PageTarget'
  <1>1. Cal!Changed' = Cal!Changed
    BY DEF Cal!Changed
  <1>2. Found' = Found
    BY <1>1 DEF Found
  <1>3. QED  BY <1>1, <1>2 DEF Transaction!Ask, PageTarget

LEMMA PageWriteSteps ==
    ASSUME part = "page", part' = "page", PageInv, PageTarget,
           Cal!WriteSucceeds \/ Cal!WriteFails
    PROVE  Transaction!Next /\ PageTarget'
  <1> DEFINE batch == Cal!Job.changes
  <1>1. jobs # <<>> /\ Cal!Job.is = "write" /\ UNCHANGED online
    BY DEF Cal!WriteSucceeds, Cal!WriteFails
  <1>2. DOMAIN batch \subseteq Names /\ \A n \in DOMAIN batch : batch[n] \in Values
    BY <1>1, PageBatchValues
  <1>3. ASSUME online, NEW names \in SUBSET DOMAIN batch,
               target' = [n \in Names |-> IF n \in names THEN batch[n] ELSE target[n]],
               saved' = [n \in Names |-> IF n \in names /\ saved[n] = Unset THEN target[n]
                                         ELSE saved[n]]
        PROVE  Transaction!Modify /\ PageTarget'
    <2>1. names \in SUBSET Names /\ \A n \in names : batch[n] \in Values
      BY <1>2
    <2> HIDE DEF batch
    <2>2. /\ Cal!Changed \subseteq Cal!Changed' /\ Cal!Changed' \subseteq Names
          /\ target' \in [Names -> Values] /\ Found' = Found
          /\ \A n \in Names \ Cal!Changed' : target'[n] = target[n]
      BY <1>3, <2>1, PageRecords
    <2>3. QED  BY <1>1, <1>3, <2>2, PageModifies DEF PageTarget
  <1>4. CASE Cal!WriteSucceeds
    <2>1. /\ online
          /\ target' = [n \in Names |-> IF n \in DOMAIN batch THEN batch[n] ELSE target[n]]
          /\ saved' = [n \in Names |-> IF n \in DOMAIN batch /\ saved[n] = Unset THEN target[n]
                                       ELSE saved[n]]
      BY <1>4 DEF Cal!WriteSucceeds, Cal!Merge
    <2> HIDE DEF batch
    <2>2. QED  BY <1>3, <2>1 DEF Transaction!Next
  <1>5. CASE Cal!WriteFails /\ ~online
    <2>1. UNCHANGED <<target, saved>>
      BY <1>5 DEF Cal!WriteFails
    <2>2. QED  BY <1>1, <2>1, PageStays DEF Transaction!Next
  <1>6. CASE Cal!WriteFails /\ online
    <2>1. PICK tried \in SUBSET DOMAIN batch :
              \/ /\ target' = [n \in Names |-> IF n \in tried /\ saved[n] # Unset
                                               THEN saved[n] ELSE target[n]]
                 /\ saved' = [n \in Names |-> IF n \in tried THEN Unset ELSE saved[n]]
              \/ /\ saved' = [n \in Names |-> IF n \in tried /\ saved[n] = Unset
                                              THEN target[n] ELSE saved[n]]
                 /\ target' = [n \in Names |-> IF n \in tried THEN batch[n] ELSE target[n]]
      BY <1>6 DEF Cal!WriteFails
    <2> HIDE DEF batch
    <2>2. CASE /\ target' = [n \in Names |-> IF n \in tried /\ saved[n] # Unset
                                             THEN saved[n] ELSE target[n]]
               /\ saved' = [n \in Names |-> IF n \in tried THEN Unset ELSE saved[n]]
      <3> DEFINE restored == tried \intersect Cal!Changed
      <3>1. restored \in SUBSET Cal!Changed
        OBVIOUS
      <3>2. \A n \in Names : n \in restored <=> n \in tried /\ saved[n] # Unset
        BY DEF Cal!Changed
      <3> HIDE DEF restored
      <3>3. target' = [n \in Names |-> IF n \in restored THEN saved[n] ELSE target[n]]
        BY <2>2, <3>2
      <3>4. \A n \in Names : (IF n \in tried THEN Unset ELSE saved[n])
                             = (IF n \in restored THEN Unset ELSE saved[n])
        BY <3>2
      <3>5. saved' = [n \in Names |-> IF n \in restored THEN Unset ELSE saved[n]]
        BY <2>2, <3>4
      <3>6. Cal!Restore(restored)
        BY <3>3, <3>5 DEF Cal!Restore
      <3>7. QED  BY <1>1, <1>6, <3>1, <3>6, PageReverts DEF Transaction!Next
    <2>3. CASE /\ saved' = [n \in Names |-> IF n \in tried /\ saved[n] = Unset
                                            THEN target[n] ELSE saved[n]]
               /\ target' = [n \in Names |-> IF n \in tried THEN batch[n] ELSE target[n]]
      BY <1>3, <1>6, <2>3 DEF Transaction!Next
    <2>4. QED  BY <2>1, <2>2, <2>3
  <1>7. QED  BY <1>4, <1>5, <1>6

LEMMA PageSessionSteps ==
    ASSUME part = "page", part' = "page", PageInv, PageTarget,
           Cal!RestoreRuns \/ Cal!ConnectRuns \/ Cal!DisconnectRuns
    PROVE  Transaction!Next /\ PageTarget'
  <1>1. CASE Cal!RestoreRuns
    <2>1. CASE online
      <3>1. PICK restored \in SUBSET Cal!Changed : Cal!Restore(restored)
        BY <1>1, <2>1 DEF Cal!RestoreRuns
      <3>2. QED  BY <1>1, <2>1, <3>1, PageReverts DEF Cal!RestoreRuns, Transaction!Next
    <2>2. CASE ~online
      BY <1>1, <2>2, PageStays DEF Cal!RestoreRuns, Transaction!Next
    <2>3. QED  BY <2>1, <2>2
  <1>2. CASE Cal!ConnectRuns
    <2>1. PICK ok \in BOOLEAN : online' = (online \/ ok) /\ UNCHANGED <<target, saved>>
      BY <1>2 DEF Cal!ConnectRuns
    <2>2. CASE ok /\ ~online
      <3>1. Cal!Changed = {} /\ Cal!Changed' = {}
        BY <2>1, <2>2 DEF PageTarget, Cal!Changed
      <3>2. Found' = [n \in Names |-> target[n]]
        BY <2>1, <3>1 DEF Found
      <3>3. Found' = target
        BY <3>2 DEF PageTarget
      <3>4. online' = TRUE
        BY <2>1, <2>2
      <3>5. QED  BY <2>1, <2>2, <3>1, <3>3, <3>4 DEF Transaction!Begin, Transaction!Next, PageTarget
    <2>3. CASE ~ok \/ online
      <3>1. UNCHANGED <<target, saved, online>>
        BY <2>1, <2>3 DEF PageInv, PageTyped
      <3>2. QED  BY <3>1, PageStays DEF Transaction!Next
    <2>4. QED  BY <2>2, <2>3
  <1>3. CASE Cal!DisconnectRuns
    <2>1. PICK restored \in SUBSET Cal!Changed :
              Cal!Restore(restored) /\ online' = (online /\ restored # Cal!Changed)
      BY <1>3 DEF Cal!DisconnectRuns
    <2>2. CASE online /\ restored # Cal!Changed
      BY <2>1, <2>2, PageReverts DEF Transaction!Next, PageInv, PageTyped
    <2>3. CASE online /\ restored = Cal!Changed
      <3>1. /\ Cal!Changed' = {} /\ target' \in [Names -> Values] /\ Found' = Found
            /\ \A n \in Names : target'[n] = Found[n]
        BY <2>1, <2>3, PageReturns DEF Found
      <3>2. target' = Found
        BY <3>1 DEF Found
      <3>3. online' = FALSE
        BY <2>1, <2>3
      <3>4. \A n \in Names : saved'[n] = Unset
        BY <3>1 DEF Cal!Changed
      <3>5. QED  BY <2>3, <3>1, <3>2, <3>3, <3>4 DEF Transaction!End, Transaction!Next, PageTarget
    <2>4. CASE ~online
      <3>1. Cal!Changed = {} /\ restored = {}
        BY <2>1, <2>4 DEF PageTarget, Cal!Changed
      <3>2. target' = [n \in Names |-> target[n]] /\ saved' = [n \in Names |-> saved[n]]
        BY <2>1, <3>1 DEF Cal!Restore
      <3>3. target' = target /\ saved' = saved
        BY <3>2 DEF PageInv, PageTyped, PageFields
      <3>4. online' = online
        BY <2>1, <2>4 DEF PageInv, PageTyped
      <3>5. QED  BY <3>3, <3>4, PageStays DEF Transaction!Next
    <2>5. QED  BY <2>2, <2>3, <2>4
  <1>4. QED  BY <1>1, <1>2, <1>3

\* All other steps leave the target and its records alone.
LEMMA PageSteps ==
    ASSUME part = "page", part' = "page", PageInv, PageTarget, Cal!Next
    PROVE  Transaction!Next /\ PageTarget'
  <1>1. CASE Cal!WriteSucceeds \/ Cal!WriteFails
    BY <1>1, PageWriteSteps
  <1>2. CASE Cal!RestoreRuns \/ Cal!ConnectRuns \/ Cal!DisconnectRuns
    BY <1>2, PageSessionSteps
  <1>3. CASE UNCHANGED <<target, saved, online>>
    BY <1>3, PageStays DEF Transaction!Next
  <1>4. CASE \/ Cal!Load \/ Cal!OpenEdit \/ Cal!AnswerEdit \/ Cal!Tick \/ Cal!OpenMenu
             \/ Cal!CloseMenu \/ Cal!MenuTick \/ Cal!Undo
    BY <1>3, <1>4 DEF Cal!Load, Cal!OpenEdit, Cal!AnswerEdit, Cal!Tick, Cal!OpenMenu,
       Cal!CloseMenu, Cal!MenuTick, Cal!Undo, Cal!session
  <1>5. CASE \/ Cal!RefreshCalibrations \/ Cal!AskWrite \/ Cal!AskRestore \/ Cal!Confirm
             \/ Cal!Decline \/ Cal!Connect \/ Cal!Disconnect
    BY <1>3, <1>5 DEF Cal!RefreshCalibrations, Cal!AskWrite, Cal!AskRestore, Cal!Confirm,
       Cal!Decline, Cal!Connect, Cal!Disconnect, Cal!session
  <1>6. CASE Cal!Read \/ Cal!Calibrated \/ Cal!Connected \/ Cal!OperationFailed \/ Cal!Dismiss
    BY <1>3, <1>6 DEF Cal!Read, Cal!Calibrated, Cal!Connected, Cal!OperationFailed, Cal!Dismiss,
       Cal!session
  <1>7. QED  BY <1>1, <1>2, <1>4, <1>5, <1>6 DEF Cal!Next

LEMMA PageTargetBegins == ASSUME Cal!Init PROVE PageTarget
  BY PageConstants DEF Cal!Init, Cal!Blank, PageTarget

-----------------------------------------------------------------------------
(* Both pages.                                                             *)

WorkbenchInv ==
    /\ part = "chart" => ChartInv
    /\ part = "page" => PageInv /\ PageTarget

LEMMA WorkbenchInitInv == WorkbenchInit => WorkbenchInv
  BY ChartBegins, PageBegins, PageTargetBegins DEF WorkbenchInit, WorkbenchInv

LEMMA WorkbenchNextInv == WorkbenchInv /\ [WorkbenchNext]_workbenchVars => WorkbenchInv'
  <1> SUFFICES ASSUME WorkbenchInv, [WorkbenchNext]_workbenchVars PROVE WorkbenchInv'
    OBVIOUS
  <1>1. CASE part = "chart" /\ Chart!Next /\ UNCHANGED part
    BY <1>1, ChartNext DEF WorkbenchInv
  <1>2. CASE part = "page" /\ Cal!Next /\ UNCHANGED part
    BY <1>2, PageNext, PageSteps DEF WorkbenchInv
  <1>3. CASE UNCHANGED workbenchVars
    <2>1. /\ UNCHANGED <<part, selected, chosen, signals, layout, follow, mode, cursors, drag, view,
                         has, version, lines, drawn, dirty, timer, table>>
          /\ UNCHANGED <<items, new, current, pending, modal, jobs, answers, target, saved, online,
                         doubt>>
      BY <1>3 DEF workbenchVars, chartOnly, pageOnly
    <2>2. ASSUME ChartInv PROVE ChartInv'
      <3>1. ChartTools'
        BY <2>1, <2>2, ChartParts, ChartToolsStay
      <3>2. QED  BY <2>1, <2>2, <3>1, ChartKeeps
    <2>3. ASSUME PageInv PROVE PageInv'
      <3>1. PageTyped'
        BY <2>1, <2>3 DEF PageInv, PageTyped, PageBelow
      <3>2. PageSingle'
        BY <2>1, <2>3 DEF PageInv, PageSingle, PageEnding
      <3>3. PageLocked'
        BY <2>1, <2>3 DEF PageInv, PageLocked, PageEntered, PageBelow
      <3>4. PageCurrent'
        BY <2>1, <2>3 DEF PageInv, PageCurrent, PageTold
      <3>5. QED  BY <3>1, <3>2, <3>3, <3>4 DEF PageInv
    <2>4. ASSUME PageTarget PROVE PageTarget'
      BY <2>1, <2>4 DEF PageTarget
    <2>5. QED  BY <2>1, <2>2, <2>3, <2>4 DEF WorkbenchInv
  <1>4. QED  BY <1>1, <1>2, <1>3 DEF WorkbenchNext

LEMMA WorkbenchInvariant == WorkbenchSpec => []WorkbenchInv
  BY WorkbenchInitInv, WorkbenchNextInv, PTL DEF WorkbenchSpec

\* When no redraw is due, the picture has exactly the ticked and visible signals
\* over the samples and limits that are there now, and the mouse serves one tool:
\* for every number of signals, layouts and ranges (chart.py, observation.py).
THEOREM ChartsAreTrue == WorkbenchSpec => []ChartTrue
  <1>1. WorkbenchInv => ChartTrue
    BY ChartSafe DEF WorkbenchInv, ChartTrue
  <1>2. QED  BY <1>1, WorkbenchInvariant, PTL

\* A value shown as current is on the target unless an operation is under way or
\* has failed since it was read, for every set of characteristics and values and
\* any number of operations queued (calibration.py and controller.py).
THEOREM ShownAreCurrent == WorkbenchSpec => []ShownIsCurrent
  <1>1. WorkbenchInv => ShownIsCurrent
    BY PageSafe DEF WorkbenchInv, ShownIsCurrent
  <1>2. QED  BY <1>1, WorkbenchInvariant, PTL

\* An entered value disappears only when it was written and read back as it is,
\* restored or withdrawn, or when a restore has found nothing to restore, which
\* drops every one of them: however late an answer comes and whatever dialogs
\* are open between (clear_pending and its callers).
THEOREM EditsAreKept == WorkbenchSpec => EditsKept
  <1>1. WorkbenchInv /\ [WorkbenchNext]_workbenchVars
            => [part = "page" => Cal!KeepsEdits]_workbenchVars
    BY PageKeeps DEF WorkbenchInv, WorkbenchNext
  <1>2. QED  BY <1>1, WorkbenchInvariant, PTL DEF WorkbenchSpec, EditsKept

LEMMA WorkbenchTransactionBegins == WorkbenchInit => Transaction!Init
  <1>1. ASSUME part = "chart" PROVE Transaction!Init
    BY <1>1, PageConstants DEF Transaction!Init, Untouched
  <1>2. ASSUME part = "page", Cal!Init PROVE Transaction!Init
    <2>1. target \in [Names -> Values] /\ online = FALSE /\ Cal!Changed = {}
      BY <1>2, PageConstants DEF Cal!Init, Cal!Blank, Cal!Changed
    <2>2. Found = [n \in Names |-> target[n]]
      BY <2>1 DEF Found
    <2>3. QED  BY <1>2, <2>1, <2>2 DEF Transaction!Init
  <1>3. QED  BY <1>1, <1>2 DEF WorkbenchInit

LEMMA WorkbenchTransactionSteps ==
    WorkbenchInv /\ [WorkbenchNext]_workbenchVars
        => [Transaction!Next]_(Transaction!transactionVars)
  <1> SUFFICES ASSUME WorkbenchInv, [WorkbenchNext]_workbenchVars
               PROVE  Transaction!Next \/ Transaction!Ask
    BY DEF Transaction!Next
  <1>1. CASE part = "chart" /\ part' = "chart"
    BY <1>1 DEF Transaction!Ask
  <1>2. CASE part = "page" /\ Cal!Next /\ UNCHANGED part
    BY <1>2, PageSteps DEF WorkbenchInv
  <1>3. CASE UNCHANGED workbenchVars
    <2>1. UNCHANGED <<part, target, saved, online>>
      BY <1>3 DEF workbenchVars, pageOnly
    <2>2. Cal!Changed' = Cal!Changed
      BY <2>1 DEF Cal!Changed
    <2>3. Found' = Found
      BY <2>1, <2>2 DEF Found
    <2>4. QED  BY <2>1, <2>2, <2>3 DEF Transaction!Ask
  <1>4. QED  BY <1>1, <1>2, <1>3 DEF WorkbenchNext

\* The operations behind the calibration page (controller.py, with the session
\* below them) implement the transaction that XcpSession implements, for every
\* set of characteristics and values and whichever of them fail.
THEOREM PageRefinesTransaction == WorkbenchSpec => PageImplementsTransaction
  <1>1. WorkbenchSpec => [][Transaction!Next]_(Transaction!transactionVars)
    BY WorkbenchTransactionSteps, WorkbenchInvariant, PTL DEF WorkbenchSpec
  <1>2. QED  BY <1>1, WorkbenchTransactionBegins, PTL
             DEF WorkbenchSpec, PageImplementsTransaction, Transaction!Spec
=============================================================================
