----------------------------- MODULE SampleStore -----------------------------
(***************************************************************************)
(* The native sample store, xcp_core.cpp: a ring of samples for each       *)
(* signal with its running minimum and maximum, batches that are taken as  *)
(* a whole or not at all, and the reduction of a ring to the points of a   *)
(* plot.  Every call holds the mutex of its core, so a call is one step;   *)
(* a refused one changes nothing.                                          *)
(*                                                                         *)
(* Times and values are small integers, indices count from 0 as in the     *)
(* source.                                                                 *)
(***************************************************************************)
EXTENDS Integers, Sequences, FiniteSets, SequencesExt

CONSTANTS
    Sizes,        \* bounds: capacity of the core, signals, samples in all
    Times,        \* elapsed seconds, naturals
    Values,       \* sample values, integers
    BatchSize     \* bound: values of a batch

StoreAssumption ==
    /\ Times \subseteq Nat /\ Values \subseteq Int /\ BatchSize \in Nat
    /\ \A z \in Sizes : z.capacity \in Nat \ {0} /\ z.signals \in Nat /\ z.samples \in Nat

VARIABLES
    size,         \* capacity of the core, and the bounds for it
    rings,        \* the ring of each signal, by id
    history       \* ghost: all samples of each signal since it was cleared

vars == <<size, rings, history>>

EmptyRing == [sequence |-> 0, points |-> <<>>, minima |-> <<>>, maxima |-> <<>>]

Init == size \in Sizes /\ rings = <<>> /\ history = <<>>

Count(ring) == Len(ring.points)

\* Ring::at
At(ring, index) ==
    LET start == IF ring.sequence >= size.capacity THEN ring.sequence % size.capacity ELSE 0
    IN ring.points[((start + index) % size.capacity) + 1]

LargestOf(S) == CHOOSE x \in S : \A y \in S : y <= x
SmallestOf(S) == CHOOSE x \in S : \A y \in S : x <= y

\* What is left of a deque after popping at the back up to an entry with a kept
\* value, and at the front up to the first position still in the ring.
PopBack(deque, kept) ==
    SubSeq(deque, 1, LargestOf({0} \union {i \in DOMAIN deque : deque[i].value \in kept}))
PopFront(deque, first) ==
    SubSeq(deque, SmallestOf({i \in DOMAIN deque : deque[i].at >= first}), Len(deque))

\* Ring::append, with the oldest position kept as a parameter.
AppendFrom(ring, sample, first) ==
    LET entry == [at |-> ring.sequence, value |-> sample.value]
        lower == {v \in Values : v < sample.value}
        higher == {v \in Values : v > sample.value}
    IN [sequence |-> ring.sequence + 1,
        points |-> IF Count(ring) < size.capacity THEN Append(ring.points, sample)
                   ELSE [ring.points EXCEPT ![(ring.sequence % size.capacity) + 1] = sample],
        minima |-> PopFront(Append(PopBack(ring.minima, lower), entry), first),
        maxima |-> PopFront(Append(PopBack(ring.maxima, higher), entry), first)]

\* Mutant: an entry of the deques lives one sample too long.
MutantLateExpiry(ring, sample) ==
    AppendFrom(ring, sample,
        IF ring.sequence > size.capacity THEN ring.sequence - size.capacity ELSE 0)

RingAppend(ring, sample) ==
    AppendFrom(ring, sample,
        IF ring.sequence + 1 > size.capacity THEN ring.sequence + 1 - size.capacity ELSE 0)

-----------------------------------------------------------------------------
(* xcp_core_ensure_signal, xcp_core_append, xcp_core_clear.                *)

EnsureSignal ==
    /\ Len(rings) < size.signals
    /\ rings' = Append(rings, EmptyRing)
    /\ history' = Append(history, <<>>)
    /\ UNCHANGED size

\* The whole batch is looked at before any ring changes: times do not
\* decrease for a signal, also within the batch.
Accepted(batch) ==
    \A i \in DOMAIN batch :
        LET s == batch[i].signal
            earlier == {j \in 1..(i - 1) : batch[j].signal = s}
            last == IF earlier # {} THEN batch[LargestOf(earlier)].time
                    ELSE IF Count(rings[s]) > 0 THEN At(rings[s], Count(rings[s]) - 1).time
                    ELSE 0
        IN batch[i].time >= last

Sample(e) == [time |-> e.time, value |-> e.value]

\* The rings, and the histories, after the first samples of a batch.
RingsAfter(batch) ==
    LET after[n \in 0..Len(batch)] ==
            IF n = 0 THEN rings
            ELSE [after[n - 1] EXCEPT ![batch[n].signal] = RingAppend(@, Sample(batch[n]))]
    IN after
HistoriesAfter(batch) ==
    LET after[n \in 0..Len(batch)] ==
            IF n = 0 THEN history
            ELSE [after[n - 1] EXCEPT ![batch[n].signal] = Append(@, Sample(batch[n]))]
    IN after

Stored == FoldLeft(LAMBDA n, h : n + Len(h), 0, history)

AppendBatch ==
    \E n \in 1..BatchSize :
    \E batch \in [1..n -> [signal : DOMAIN rings, time : Times, value : Values]] :
        /\ Stored + n <= size.samples
        /\ Accepted(batch)
        /\ rings' = RingsAfter(batch)[n]
        /\ history' = HistoriesAfter(batch)[n]
        /\ UNCHANGED size

Clear ==
    /\ rings' = [s \in DOMAIN rings |-> EmptyRing]
    /\ history' = [s \in DOMAIN rings |-> <<>>]
    /\ UNCHANGED size

Next == EnsureSignal \/ AppendBatch \/ Clear

Spec == Init /\ [][Next]_vars

-----------------------------------------------------------------------------
(* Reading a ring: indices of the samples a call returns.                  *)

Indices(first, end) == [i \in 1..(end - first) |-> first + i - 1]

\* The earliest index of the lowest, or of the highest, value in begin..stop-1.
Low(ring, begin, stop) ==
    CHOOSE i \in begin..(stop - 1) : \A j \in begin..(stop - 1) :
        \/ At(ring, i).value < At(ring, j).value
        \/ At(ring, i).value = At(ring, j).value /\ i <= j
High(ring, begin, stop) ==
    CHOOSE i \in begin..(stop - 1) : \A j \in begin..(stop - 1) :
        \/ At(ring, i).value > At(ring, j).value
        \/ At(ring, i).value = At(ring, j).value /\ i <= j

Abs(v) == IF v < 0 THEN -v ELSE v

\* Where a bucket between the first and the last sample begins, and the one
\* before it ends.
Edge(first, end, buckets, b) == first + 1 + (b * (end - first - 2)) \div buckets

\* The extremes of a bucket, in the order of their times.
ExtremesOf(ring, begin, stop) ==
    LET low == Low(ring, begin, stop)
        high == High(ring, begin, stop)
    IN IF low = high THEN <<low>> ELSE IF low < high THEN <<low, high>> ELSE <<high, low>>

BucketExtremes(ring, first, end, buckets) ==
    FlattenSeq([b \in 1..buckets |->
        ExtremesOf(ring, Edge(first, end, buckets, b - 1), Edge(first, end, buckets, b))])

\* The earliest index of the value furthest from zero.
Steepest(ring, begin, stop) ==
    CHOOSE i \in begin..(stop - 1) : \A j \in begin..(stop - 1) :
        \/ Abs(At(ring, i).value) > Abs(At(ring, j).value)
        \/ Abs(At(ring, i).value) = Abs(At(ring, j).value) /\ i <= j

\* plot_ring
PlotRing(ring, first, end, points) ==
    IF end - first <= points THEN Indices(first, end)
    ELSE IF points = 1 THEN <<end - 1>>
    ELSE <<first>>
         \o (IF points = 2 THEN <<>>
             ELSE IF points = 3 THEN <<Steepest(ring, first + 1, end - 1)>>
             ELSE BucketExtremes(ring, first, end, (points - 2) \div 2))
         \o <<end - 1>>

\* One turn of a binary search: the half of the window is left that the sample in
\* its middle leaves over.
Halved(ring, time, upper, window) ==
    LET middle == window.low + (window.high - window.low) \div 2
        stamp == At(ring, middle).time
    IN IF window.low >= window.high THEN window
       ELSE IF stamp < time \/ (upper /\ stamp = time)
         THEN [window EXCEPT !.low = middle + 1]
         ELSE [window EXCEPT !.high = middle]

\* The binary search of xcp_core_plot_range and xcp_core_value_at, the latter
\* with upper.  A turn makes the window smaller, so these turns empty it.
Bound(ring, time, upper) ==
    LET window[n \in 0..Count(ring)] ==
            IF n = 0 THEN [low |-> 0, high |-> Count(ring)]
            ELSE Halved(ring, time, upper, window[n - 1])
    IN window[Count(ring)].low

Outside(ring, first, last) ==
    \/ Count(ring) = 0
    \/ last < At(ring, 0).time \/ first > At(ring, Count(ring) - 1).time

\* xcp_core_plot_range: the samples of the range and one on either side.
RangeOf(ring, first, last) ==
    LET begin == Bound(ring, first, FALSE)
        end == Bound(ring, last, TRUE)
    IN <<IF begin > 0 THEN begin - 1 ELSE 0, SmallestOf({end + 1, Count(ring)})>>

\* xcp_core_value_at: the sample at the cursor, or the two it lies between.
CursorAt(ring, time) ==
    LET low == Bound(ring, time, TRUE) IN
    IF At(ring, low - 1).time = time \/ low = Count(ring) THEN <<low - 1>> ELSE <<low - 1, low>>

-----------------------------------------------------------------------------
(* native.py: the rows of the table and of a CSV file, one for each time and *)
(* occurrence of that time, over all signals.                                *)

\* The order of the heap.
Before(a, b) ==
    \/ a.time < b.time
    \/ a.time = b.time /\ a.occurrence < b.occurrence
    \/ a.time = b.time /\ a.occurrence = b.occurrence /\ a.signal <= b.signal

\* The occurrence of the next sample of a signal.
Following(entry, time) == IF time = entry.time THEN entry.occurrence + 1 ELSE 0

\* The first entry of a signal, and the one that follows an entry.
FirstEntry(s) == [time |-> At(rings[s], 0).time, occurrence |-> 0, signal |-> s, index |-> 0]
Pushed(e) ==
    IF e.index + 1 = Count(rings[e.signal]) THEN {}
    ELSE LET time == At(rings[e.signal], e.index + 1).time IN
         {[time |-> time, occurrence |-> Following(e, time),
           signal |-> e.signal, index |-> e.index + 1]}

\* The rows after an entry was popped: it joins the row of its key.
Entered(rows, e) ==
    LET value == At(rings[e.signal], e.index).value
        joins == /\ rows # <<>>
                 /\ Last(rows).time = e.time /\ Last(rows).occurrence = e.occurrence
        old == IF joins THEN Last(rows).values ELSE <<>>
    IN Append(IF joins THEN Front(rows) ELSE rows,
              [time |-> e.time, occurrence |-> e.occurrence,
               values |-> [s \in DOMAIN old \union {e.signal} |->
                              IF s = e.signal THEN value ELSE old[s]]])

\* One turn of the loop of _merged_rows: the least entry is popped into its row
\* and the next sample of its signal pushed.
Popped(heap) ==
    LET e == CHOOSE x \in heap.pending : \A y \in heap.pending : Before(x, y)
    IN [pending |-> (heap.pending \ {e}) \union Pushed(e), rows |-> Entered(heap.rows, e)]

\* The samples in all rings, by signal and index.
Held == {h \in (DOMAIN rings) \X (0..(size.capacity - 1)) : h[2] < Count(rings[h[1]])}

\* The heap after each turn; every turn pops one of the samples held.
Merged ==
    LET merged[n \in 0..Cardinality(Held)] ==
            IF n = 0
            THEN [pending |-> {FirstEntry(s) : s \in {t \in DOMAIN rings : Count(rings[t]) > 0}},
                  rows |-> <<>>]
            ELSE Popped(merged[n - 1])
    IN merged

MergedRows == Merged[Cardinality(Held)].rows

-----------------------------------------------------------------------------
(* Properties.                                                             *)

Retained(s) ==
    LET n == Len(history[s])
        k == SmallestOf({n, size.capacity})
    IN SubSeq(history[s], n - k + 1, n)

\* A ring holds the last samples in the order they came, however often it
\* wrapped, and the fronts of its deques are the minimum and the maximum of
\* exactly these, also after the extreme sample was overwritten.
StatsOfRetained ==
    \A s \in DOMAIN rings :
        LET r == rings[s]
            kept == Retained(s)
        IN /\ Count(r) = Len(kept)
           /\ \A i \in DOMAIN kept : At(r, i - 1) = kept[i]
           /\ kept # <<>> =>
                /\ \A i \in DOMAIN kept : /\ Head(r.minima).value <= kept[i].value
                                          /\ Head(r.maxima).value >= kept[i].value
                /\ \E i \in DOMAIN kept : Head(r.minima).value = kept[i].value
                /\ \E i \in DOMAIN kept : Head(r.maxima).value = kept[i].value

\* A plot never exceeds its budget, shows samples in order and once, and the
\* newest of them; from four points on it keeps both ends, and no sample it
\* leaves out is lower or higher than all it shows.
PlotKeepsSpikes ==
    \A s \in DOMAIN rings :
        LET r == rings[s]
            n == Count(r)
        IN n > 0 => \A points \in 1..n :
            LET plot == PlotRing(r, 0, n, points)
                shown == {plot[i] : i \in DOMAIN plot}
            IN /\ Len(plot) <= points /\ plot[Len(plot)] = n - 1
               /\ \A i \in 2..Len(plot) : plot[i-1] < plot[i]
               /\ points >= 4 =>
                    /\ plot[1] = 0
                    /\ \A j \in 0..(n - 1) :
                        /\ \E i \in shown : At(r, i).value <= At(r, j).value
                        /\ \E i \in shown : At(r, i).value >= At(r, j).value

\* A range of time shows every sample within it and the neighbours that join
\* the curve to the edges; the cursor is on the last sample at its time, or
\* strictly between the times of two neighbours.
RangeShown ==
    \A s \in DOMAIN rings : \A first, last \in 0..LargestOf(Times) :
        LET r == rings[s]
            range == RangeOf(r, first, last)
            cursor == CursorAt(r, first)
            time(i) == At(r, i).time
        IN first <= last /\ ~Outside(r, first, last) =>
            /\ \A i \in 0..(Count(r) - 1) :
                time(i) \in first..last => i \in range[1]..(range[2] - 1)
            /\ range[1] = 0 \/ time(range[1]) < first
            /\ range[2] = Count(r) \/ time(range[2] - 1) > last
            /\ ~Outside(r, first, first) =>
                IF Len(cursor) = 1
                  THEN /\ time(cursor[1]) = first
                       /\ cursor[1] + 1 < Count(r) => time(cursor[1] + 1) > first
                  ELSE time(cursor[1]) < first /\ first < time(cursor[2])

\* The exported rows run forward in time and hold every sample of every signal
\* once and in its order; of two rows of one time the first holds the signals of
\* the second, so samples taken together stay in one row.
ExportComplete ==
    LET rows == MergedRows
        own(s, n) == {k \in 1..n : s \in DOMAIN rows[k].values}
    IN /\ \A i, j \in DOMAIN rows : i < j =>
            \/ rows[i].time < rows[j].time
            \/ rows[i].time = rows[j].time /\ DOMAIN rows[j].values \subseteq DOMAIN rows[i].values
       /\ \A s \in DOMAIN rings :
            /\ Cardinality(own(s, Len(rows))) = Count(rings[s])
            /\ \A n \in own(s, Len(rows)) :
                LET sample == At(rings[s], Cardinality(own(s, n)) - 1)
                IN rows[n].time = sample.time /\ rows[n].values[s] = sample.value

=============================================================================
