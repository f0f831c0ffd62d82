--------------------------- MODULE MonitoringProofs ---------------------------
(***************************************************************************)
(* For every capacity of the ring, length of an interval and number of     *)
(* ticks: no tick is lost or counted twice, the ring holds the latest      *)
(* samples, and what the roll-up stores of a week, and deletes after it,   *)
(* is right through crashes and lost connections.                          *)
(***************************************************************************)
EXTENDS Monitoring, SequenceTheorems, TLAPS

-----------------------------------------------------------------------------
(* The counts.                                                             *)

Counts ==
  /\ total \in Int /\ lastTotal \in Int
  /\ sample \in [total : Int, added : Int]
  /\ sum \in Int /\ summed \in Int

\* A program that is down has no thread with a sample in hand.
CountInv == Counts /\ (mainPc = "down" => pc = "new") /\ EachTickInOneSummary

\* The steps of the sampler move what was added from the tracker by its hand to the
\* aggregator and from there to the summaries.
LEMMA SamplerCounts ==
  ASSUME CountInv, Sampler
  PROVE  CountInv'
<1> USE DEF CountInv, Counts, EachTickInOneSummary, InHand, counterVars, samplerVars, ringVars,
            aggregatorVars, sadapterVars, rollupVars
<1>1. CASE GetSnapshot
  BY <1>1 DEF Sampler, GetSnapshot, GetAndUpdateStats, Sample
<1>2. CASE Publish
  BY <1>2 DEF Sampler, Publish
<1>3. CASE Record
  BY <1>3 DEF Sampler, Record, Push, AddSnapshot, NoSample, Sample
<1>4. CASE Persist
  BY <1>4 DEF Sampler, Persist, ProduceSummary, Reset
<1>5. CASE SamplerEnds
  BY <1>5 DEF Sampler, SamplerEnds
<1> QED
  BY <1>1, <1>2, <1>3, <1>4, <1>5 DEF Sampler, SamplerStep

\* The roll-up has nothing to do with the counts.
LEMMA RollupKeepsSampler ==
  ASSUME Rollup
  PROVE  UNCHANGED <<clock, counterVars, samplerVars, mainPc>>
BY DEF Rollup, RollupStep, Wake, ListWeek, CreateSummary, DeleteOldSnapshots

\* Main starts with counters at zero, and a crash clears them together.
LEMMA MainCounts ==
  ASSUME CountInv, Main \/ Crash \/ Feed \/ Tick \/ OtherSnapshot \/ Rollup
  PROVE  CountInv'
<1> USE DEF CountInv, Counts, EachTickInOneSummary, InHand, counterVars, samplerVars, ringVars,
            aggregatorVars, sadapterVars, rollupVars
<1>1. CASE Start
  BY <1>1 DEF Start
<1>2. CASE Signal \/ SamplerJoined \/ RollupJoined \/ Stopped
  BY <1>2 DEF Signal, SamplerJoined, RollupJoined, Stopped, Disconnect
<1>3. CASE Crash
  BY <1>3 DEF Crash, NoSample, Sample
<1>4. CASE Feed
  BY <1>4 DEF Feed, OnMessageReceived, OnExchangeConnected
<1>5. CASE Tick \/ OtherSnapshot
  BY <1>5 DEF Tick, OtherSnapshot
<1>6. CASE Rollup
  BY <1>6, RollupKeepsSampler
<1> QED
  BY <1>1, <1>2, <1>3, <1>4, <1>5, <1>6 DEF Main

\* Each tick is in one window of the tracker, and each window in one summary.
THEOREM TicksAreCountedOnce == Spec => []EachTickInOneSummary
<1>1. Init => CountInv
  BY DEF Init, CountInv, Counts, EachTickInOneSummary, InHand, NoSample, Sample
<1>2. ASSUME CountInv, UNCHANGED vars PROVE CountInv'
  BY <1>2 DEF vars, CountInv, Counts, EachTickInOneSummary, InHand, counterVars, samplerVars,
              ringVars, aggregatorVars
<1>3. CountInv /\ [Next]_vars => CountInv'
  BY <1>2, SamplerCounts, MainCounts DEF Next
<1>4. CountInv => EachTickInOneSummary
  BY DEF CountInv
<1> QED
  BY <1>1, <1>3, <1>4, PTL DEF Spec

-----------------------------------------------------------------------------
(* The ring.                                                               *)

Samples == [total : Int, added : Int]

\* The cell of the i-th of n entries when h is the next to be written.
Cell(h, n, i) == (h + Capacity - n + i - 1) % Capacity

\* The cell that is written after cell h.
After(h) == (h + 1) % Capacity

\* Below the capacity, and below twice the capacity, the modulus is a subtraction.
LEMMA ModOnce ==
  ASSUME NEW c \in Nat \ {0}, NEW x \in Nat
  PROVE  /\ x < c => x % c = x
         /\ c <= x /\ x < 2 * c => x % c = x - c
OBVIOUS

\* A cell is one of the ring's, before and after its end.
LEMMA CellPlace ==
  ASSUME NEW h \in 0..(Capacity - 1), NEW n \in 0..Capacity, NEW i \in 1..n
  PROVE  Cell(h, n, i) = IF h + i - 1 < n THEN h + Capacity - n + i - 1 ELSE h - n + i - 1
<1> DEFINE x == h + Capacity - n + i - 1
<1>1. x \in Nat /\ Capacity \in Nat \ {0} /\ x < 2 * Capacity
  BY StateManagerAssumption
<1> HIDE DEF x
<1>2. /\ x < Capacity => x % Capacity = x
      /\ Capacity <= x => x % Capacity = x - Capacity
  BY <1>1, ModOnce
<1> QED
  BY <1>1, <1>2, StateManagerAssumption DEF Cell, x

\* A push puts its entry behind the others, each of which keeps its cell,
Grown(h, n, g) ==
  /\ Cell(g, n + 1, n + 1) = h
  /\ \A i \in 1..n : Cell(g, n + 1, i) = Cell(h, n, i) /\ Cell(h, n, i) # h

\* or, when the ring was full, in the place of their first.
Turned(h, n, g) ==
  /\ Cell(g, n, n) = h
  /\ \A i \in 1..(n - 1) : Cell(g, n, i) = Cell(h, n, i + 1) /\ Cell(h, n, i + 1) # h

\* A ring that is not full keeps its cells and gains one; a full one loses the oldest.
LEMMA PushedCells ==
  ASSUME NEW h \in 0..(Capacity - 1), NEW n \in 0..Capacity, NEW g, g = After(h)
  PROVE  /\ g \in 0..(Capacity - 1)
         /\ n < Capacity => Grown(h, n, g)
         /\ n = Capacity => Turned(h, n, g)
<1>1. Capacity \in Nat \ {0}
  BY StateManagerAssumption
<1>2. g = IF h + 1 = Capacity THEN 0 ELSE h + 1
  <2> DEFINE x == h + 1
  <2>1. x \in Nat /\ x <= Capacity /\ x < 2 * Capacity
    BY <1>1
  <2>2. g = x % Capacity
    BY DEF After
  <2> HIDE DEF x
  <2>3. /\ x < Capacity => x % Capacity = x
        /\ Capacity <= x => x % Capacity = x - Capacity
    BY <1>1, <2>1, ModOnce
  <2>4. g = IF x = Capacity THEN 0 ELSE x
    BY <1>1, <2>1, <2>2, <2>3
  <2> QED
    BY <2>4 DEF x
<1>3. g \in 0..(Capacity - 1)
  BY <1>1, <1>2
<1> DEFINE Place(k, m, i) == IF k + i - 1 < m THEN k + Capacity - m + i - 1 ELSE k - m + i - 1
<1>6. ASSUME NEW k \in 0..(Capacity - 1), NEW m \in 0..Capacity, NEW i \in 1..m
      PROVE  Cell(k, m, i) = Place(k, m, i)
  BY CellPlace
<1>4. ASSUME n < Capacity PROVE Grown(h, n, g)
  <2>1. n + 1 \in 0..Capacity /\ n + 1 \in 1..(n + 1)
    BY <1>1, <1>4
  <2>2. Cell(g, n + 1, n + 1) = h
    <3>1. Cell(g, n + 1, n + 1) = Place(g, n + 1, n + 1)
      BY <1>3, <1>6, <2>1
    <3> QED
      BY <1>1, <1>2, <1>4, <3>1
  <2>3. ASSUME NEW i \in 1..n PROVE Cell(g, n + 1, i) = Cell(h, n, i) /\ Cell(h, n, i) # h
    <3>1. Cell(g, n + 1, i) = Place(g, n + 1, i)
      BY <1>3, <1>6, <2>1
    <3>2. Cell(h, n, i) = Place(h, n, i)
      BY <1>6
    <3> QED
      BY <1>1, <1>2, <1>4, <3>1, <3>2
  <2> QED
    BY <2>2, <2>3 DEF Grown
<1>5. ASSUME n = Capacity PROVE Turned(h, n, g)
  <2>1. n \in 1..n
    BY <1>1, <1>5
  <2>2. Cell(g, n, n) = h
    <3>1. Cell(g, n, n) = Place(g, n, n)
      BY <1>3, <1>6, <2>1
    <3> QED
      BY <1>1, <1>2, <1>5, <3>1
  <2>3. ASSUME NEW i \in 1..(n - 1)
        PROVE  Cell(g, n, i) = Cell(h, n, i + 1) /\ Cell(h, n, i + 1) # h
    <3>1. i \in 1..n /\ i + 1 \in 1..n
      BY <1>1, <1>5
    <3>2. Cell(g, n, i) = Place(g, n, i) /\ Cell(h, n, i + 1) = Place(h, n, i + 1)
      BY <1>3, <1>6, <3>1
    <3> QED
      BY <1>1, <1>2, <1>5, <3>2
  <2> QED
    BY <2>2, <2>3 DEF Turned
<1> QED
  BY <1>3, <1>4, <1>5

\* The ring's entries are the last of what was recorded, in their order.
RingInv ==
  /\ data \in [0..(Capacity - 1) -> Samples]
  /\ head \in 0..(Capacity - 1)
  /\ history \in Seq(Samples)
  /\ size = IF Len(history) < Capacity THEN Len(history) ELSE Capacity
  /\ \A i \in 1..size : data[Cell(head, size, i)] = history[Len(history) - size + i]

\* The live snapshot is the sample in hand, once published, or else the last recorded.
LatestInv ==
  history # <<>> \/ pc = "record" =>
    latest = {IF pc = "record" THEN sample ELSE history[Len(history)]}

\* push() keeps the entries in their order and drops the oldest.
LEMMA PushKeepsRing ==
  ASSUME RingInv, sample \in Samples, Push
  PROVE  RingInv'
<1>1. /\ Capacity \in Nat \ {0}
      /\ size \in 0..Capacity
      /\ Len(history) \in Nat
  BY StateManagerAssumption, LenProperties DEF RingInv
<1>2. /\ history' \in Seq(Samples)
      /\ Len(history') = Len(history) + 1
      /\ history'[Len(history) + 1] = sample
      /\ \A j \in 1..Len(history) : history'[j] = history[j]
  BY AppendProperties DEF RingInv, Push
<1>3. /\ head' \in 0..(Capacity - 1)
      /\ size < Capacity => Grown(head, size, head')
      /\ size = Capacity => Turned(head, size, head')
  <2>1. head \in 0..(Capacity - 1)
    BY DEF RingInv
  <2>2. head' = After(head)
    BY DEF Push, After
  <2> QED
    BY <1>1, <2>1, <2>2, PushedCells
<1>4. \A i \in 1..size : Cell(head, size, i) \in 0..(Capacity - 1)
  <2>1. head \in 0..(Capacity - 1)
    BY DEF RingInv
  <2> TAKE i \in 1..size
  <2>2. Cell(head, size, i) =
          IF head + i - 1 < size THEN head + Capacity - size + i - 1 ELSE head - size + i - 1
    BY <1>1, <2>1, CellPlace
  <2> QED
    BY <1>1, <2>1, <2>2
<1>9. /\ data \in [0..(Capacity - 1) -> Samples]
      /\ head \in 0..(Capacity - 1)
      /\ data' = [data EXCEPT ![head] = sample]
      /\ size' = IF size < Capacity THEN size + 1 ELSE size
  BY DEF RingInv, Push
<1>5. data' \in [0..(Capacity - 1) -> Samples]
  BY <1>9
<1>6. data'[head] = sample /\ \A k \in 0..(Capacity - 1) : k # head => data'[k] = data[k]
  BY <1>9
<1>7. CASE size < Capacity
  <2>1. size = Len(history) /\ size' = size + 1 /\ size' = Len(history')
    BY <1>1, <1>2, <1>7 DEF RingInv, Push
  <2>2. ASSUME NEW i \in 1..size' PROVE data'[Cell(head', size', i)] = history'[i]
    <3>1. CASE i = size'
      BY <1>2, <1>3, <1>6, <1>7, <2>1, <3>1 DEF Grown
    <3>2. CASE i # size'
      <4>1. i \in 1..size
        BY <1>1, <2>1, <3>2
      <4>2. Cell(head', size', i) = Cell(head, size, i) /\ Cell(head, size, i) # head
        BY <1>3, <1>7, <2>1, <4>1 DEF Grown
      <4>3. data'[Cell(head, size, i)] = data[Cell(head, size, i)]
        BY <1>4, <1>6, <4>1, <4>2
      <4>4. data[Cell(head, size, i)] = history[i]
        BY <1>1, <2>1, <4>1 DEF RingInv
      <4> QED
        BY <1>2, <2>1, <4>1, <4>2, <4>3, <4>4
    <3> QED
      BY <3>1, <3>2
  <2>3. /\ size' = IF Len(history') < Capacity THEN Len(history') ELSE Capacity
        /\ \A i \in 1..size' : Len(history') - size' + i = i
    BY <1>1, <1>2, <1>7, <2>1
  <2>4. \A i \in 1..size' :
          data'[Cell(head', size', i)] = history'[Len(history') - size' + i]
    BY <2>2, <2>3
  <2> QED
    BY <1>2, <1>3, <1>5, <2>3, <2>4 DEF RingInv
<1>8. CASE size = Capacity
  <2>1. size' = size /\ size <= Len(history)
    BY <1>1, <1>8 DEF RingInv, Push
  <2>2. ASSUME NEW i \in 1..size
        PROVE  data'[Cell(head', size, i)] = history'[Len(history) + 1 - size + i]
    <3>1. CASE i = size
      BY <1>1, <1>2, <1>3, <1>6, <1>8, <3>1 DEF Turned
    <3>2. CASE i # size
      <4>1. i \in 1..(size - 1) /\ i + 1 \in 1..size
        BY <1>1, <3>2
      <4>2. Cell(head', size, i) = Cell(head, size, i + 1) /\ Cell(head, size, i + 1) # head
        BY <1>3, <1>8, <4>1 DEF Turned
      <4>3. data'[Cell(head, size, i + 1)] = data[Cell(head, size, i + 1)]
        BY <1>4, <1>6, <4>1, <4>2
      <4>4. data[Cell(head, size, i + 1)] = history[Len(history) - size + (i + 1)]
        BY <4>1 DEF RingInv
      <4>5. /\ Len(history) - size + (i + 1) = Len(history) + 1 - size + i
            /\ Len(history) + 1 - size + i \in 1..Len(history)
        BY <1>1, <2>1, <4>1
      <4> QED
        BY <1>2, <4>2, <4>3, <4>4, <4>5
    <3> QED
      BY <3>1, <3>2
  <2>3. /\ size' = IF Len(history') < Capacity THEN Len(history') ELSE Capacity
        /\ \A i \in 1..size : Len(history') - size + i = Len(history) + 1 - size + i
    BY <1>1, <1>2, <1>8, <2>1
  <2>4. \A i \in 1..size' :
          data'[Cell(head', size', i)] = history'[Len(history') - size' + i]
    BY <2>1, <2>2, <2>3
  <2> QED
    BY <1>2, <1>3, <1>5, <2>3, <2>4 DEF RingInv
<1> QED
  BY <1>1, <1>7, <1>8

\* A step that leaves the ring and the history alone keeps what the ring returns.
LEMMA RingKept ==
  ASSUME RingInv, UNCHANGED ringVars
  PROVE  RingInv'
BY DEF RingInv, ringVars

RingIInv == CountInv /\ RingInv /\ LatestInv

\* A sample is published before it is pushed, and is then the last.
LEMMA SamplerRing ==
  ASSUME RingIInv, Sampler
  PROVE  RingInv' /\ LatestInv'
<1> USE DEF RingIInv, samplerVars, Sampler
<1>1. CASE GetSnapshot
  BY <1>1, RingKept DEF GetSnapshot, LatestInv, ringVars
<1>2. CASE Publish
  BY <1>2, RingKept DEF Publish, LatestInv, ringVars
<1>3. CASE Record
  <2>1. RingInv'
    BY <1>3, PushKeepsRing DEF Record, CountInv, Counts, Samples
  <2>2. history' = Append(history, sample) /\ history \in Seq(Samples) /\ sample \in Samples
    BY <1>3 DEF Record, Push, RingInv, CountInv, Counts, Samples
  <2>3. history'[Len(history')] = sample
    BY <2>2
  <2>4. pc = "record" /\ pc' # "record" /\ latest' = latest
    BY <1>3 DEF Record
  <2> QED
    BY <2>1, <2>3, <2>4 DEF LatestInv
<1>4. CASE Persist
  BY <1>4, RingKept DEF Persist, LatestInv, ringVars
<1>5. CASE SamplerEnds
  BY <1>5, RingKept DEF SamplerEnds, LatestInv, ringVars
<1> QED
  BY <1>1, <1>2, <1>3, <1>4, <1>5 DEF SamplerStep

\* The others leave the ring alone, until a crash empties it.
LEMMA MainRing ==
  ASSUME RingIInv, Main \/ Crash \/ Feed \/ Tick \/ OtherSnapshot \/ Rollup
  PROVE  RingInv' /\ LatestInv'
<1> USE DEF RingIInv, samplerVars, ringVars
<1>1. CASE Start
  BY <1>1, RingKept DEF Start, LatestInv, CountInv
<1>2. CASE Signal \/ SamplerJoined \/ RollupJoined \/ Stopped
  BY <1>2, RingKept DEF Signal, SamplerJoined, RollupJoined, Stopped, LatestInv
<1>3. CASE Crash
  <2>1. /\ data' = [i \in 0..(Capacity - 1) |-> NoSample] /\ head' = 0 /\ size' = 0
        /\ history' = <<>> /\ pc' = "new"
    BY <1>3 DEF Crash
  <2>2. NoSample \in Samples /\ Capacity \in Nat \ {0}
    BY StateManagerAssumption DEF NoSample, Sample, Samples
  <2>3. history' \in Seq(Samples) /\ Len(history') = 0
    BY <2>1
  <2> QED
    BY <2>1, <2>2, <2>3 DEF RingInv, LatestInv
<1>4. CASE Feed
  BY <1>4, RingKept DEF Feed, OnMessageReceived, OnExchangeConnected, LatestInv
<1>5. CASE Tick \/ OtherSnapshot
  BY <1>5, RingKept DEF Tick, OtherSnapshot, LatestInv
<1>6. CASE Rollup
  BY <1>6, RollupKeepsSampler, RingKept DEF LatestInv
<1> QED
  BY <1>1, <1>2, <1>3, <1>4, <1>5, <1>6 DEF Main

\* forEach() reads the cells of the invariant.
LEMMA StoredIsTheEnd ==
  ASSUME RingInv
  PROVE  Stored = SubSeq(history, Len(history) - size + 1, Len(history))
<1>1. /\ Capacity \in Nat \ {0} /\ head \in Int
      /\ history \in Seq(Samples) /\ Len(history) \in Nat
      /\ size \in Nat /\ size <= Len(history)
  BY StateManagerAssumption, LenProperties DEF RingInv
<1> DEFINE first == Len(history) - size + 1
           end == SubSeq(history, first, Len(history))
<1>2. first \in 1..(Len(history) + 1)
  BY <1>1
<1>3. /\ end = [i \in 1..size |-> history[Len(history) - size + i]]
  <2>1. /\ Len(history) - first + 1 = size
        /\ \A i \in 1..size : i + first - 1 = Len(history) - size + i
    BY <1>1
  <2> QED
    BY <1>1, <1>2, <2>1 DEF end
<1>4. \A i \in 1..size : (head + Capacity - size + i - 1) % Capacity = Cell(head, size, i)
  BY DEF Cell
<1>5. \A i \in 1..size : data[Cell(head, size, i)] = history[Len(history) - size + i]
  BY DEF RingInv
<1> QED
  BY <1>3, <1>4, <1>5 DEF Stored

\* A ring without entries, and no sample recorded.
LEMMA RingInit == Init => RingIInv
<1> SUFFICES ASSUME Init PROVE RingIInv
  OBVIOUS
<1>1. NoSample \in Samples /\ Capacity \in Nat \ {0}
  BY StateManagerAssumption DEF NoSample, Sample, Samples
<1>2. history \in Seq(Samples) /\ Len(history) = 0
  BY DEF Init
<1>3. RingInv /\ LatestInv
  BY <1>1, <1>2 DEF Init, RingInv, LatestInv
<1> QED
  BY <1>3 DEF Init, RingIInv, CountInv, Counts, EachTickInOneSummary, InHand, NoSample, Sample

\* Every step keeps ring and counts.
LEMMA RingStep == RingIInv /\ [Next]_vars => RingIInv'
<1>1. ASSUME RingIInv, UNCHANGED vars PROVE RingIInv'
  BY <1>1, RingKept DEF vars, RingIInv, LatestInv, CountInv, Counts, EachTickInOneSummary, InHand,
        counterVars, samplerVars, ringVars, aggregatorVars
<1> QED
  BY <1>1, SamplerCounts, MainCounts, SamplerRing, MainRing DEF Next, RingIInv

\* The ring holds the last samples in their order, and the live snapshot is the latest.
THEOREM RingIsLatest == Spec => []RingHoldsLatest
<1>1. RingIInv => RingHoldsLatest
  BY StoredIsTheEnd DEF RingIInv, RingInv, LatestInv, RingHoldsLatest
<1> QED
  BY <1>1, RingInit, RingStep, PTL DEF Spec

-----------------------------------------------------------------------------
(* Deletion.                                                               *)

\* Only snapshots, summaries and the instance are stored, so that of the tables that are
\* cleared by age the snapshots' alone has rows.
Kinds(S) == \A r \in S : r.of \in {Snapshots.name, WeeklySummaries.name, FeedInstances.name}

HasSummary(S) ==
  \E s \in S : s.of = WeeklySummaries.name /\ s.key + Week \in lastWeek

\* The roll-up at work knows the week, and deletes when that week has its summary.
DeleteInv ==
  /\ Kinds(rows)
  /\ lastWeek \subseteq Int /\ clock \in Int
  /\ rollupPc \in {"list", "create"} => lastWeek # {}
  /\ rollupPc = "delete" => HasSummary(rows)

\* A creation adds its row or leaves the rows; with an answer it has added it.
LEMMA CreateAdds ==
  ASSUME NEW table \in {Snapshots, WeeklySummaries}, NEW row, NEW o \in Create(table, row)
  PROVE  o.rows \in {rows, rows \cup {row}} /\ (o.answer # No => o.rows = rows \cup {row})
BY DEF Create, Writes, Refused, Broken, Outcome, No

\* More rows of the three kinds, and the same weeks, keep it.
LEMMA AddedKept ==
  ASSUME DeleteInv, NEW row, row.of \in {Snapshots.name, WeeklySummaries.name},
         rows' \in {rows, rows \cup {row}}, UNCHANGED <<clock, rollupPc, lastWeek>>
  PROVE  DeleteInv' /\ DeletesOldOnly
BY DEF DeleteInv, Kinds, HasSummary, DeletesOldOnly

\* A step of the roll-up.
LEMMA RollupDeletes ==
  ASSUME DeleteInv, Rollup
  PROVE  DeleteInv' /\ DeletesOldOnly
<1>1. Week \in Nat \ {0}
  BY WeeklyRollupAssumption
<1>2. CASE Wake
  <2>1. WeekOf(clock) \in Int
    BY <1>1 DEF WeekOf, DeleteInv
  <2> QED
    BY <1>2, <2>1 DEF Wake, DeleteInv, DeletesOldOnly, HasSummary, sadapterVars
<1>3. CASE ListWeek
  BY <1>3 DEF ListWeek, DeleteInv, DeletesOldOnly, HasSummary
<1>4. CASE CreateSummary
  <2> DEFINE row == Row(WeeklySummaries, WeekEnded, Ref(FeedInstances, Instance),
                        Cardinality(listed))
  <2>1. PICK o \in Create(WeeklySummaries, row) :
          rows' = o.rows /\ rollupPc' = IF o.answer = No THEN "sleep" ELSE "delete"
    BY <1>4 DEF CreateSummary
  <2>2. row.of = WeeklySummaries.name /\ row.key = WeekEnded
    BY DEF Row
  <2> HIDE DEF row
  <2>3. rows' \in {rows, rows \cup {row}} /\ (o.answer # No => rows' = rows \cup {row})
    BY <2>1, CreateAdds
  <2>4. lastWeek' = lastWeek /\ clock' = clock /\ lastWeek # {} /\ lastWeek \subseteq Int
    BY <1>4 DEF CreateSummary, DeleteInv
  <2>5. PICK w \in lastWeek : WeekEnded = w - Week
    BY <2>4 DEF WeekEnded
  <2>6. row.key + Week = w
    BY <1>1, <2>2, <2>4, <2>5
  <2> QED
    BY <2>1, <2>2, <2>3, <2>4, <2>6 DEF DeleteInv, Kinds, HasSummary, DeletesOldOnly
<1>5. CASE DeleteOldSnapshots
  <2> DEFINE old == {r \in rows : TooOld(r)}
             after == {r \in rows : r \in old => \A t \in Aged : r.of # t.name}
  <2>1. rows' \in {rows, after}
    BY <1>5 DEF DeleteOldSnapshots, DeleteOld, Writes, Refused, Broken, Outcome
  <2>2. ASSUME NEW r \in rows \ after PROVE r.of = Snapshots.name /\ TooOld(r)
    <3>1. \A t \in Aged : t.name \notin {WeeklySummaries.name, FeedInstances.name}
      BY DEF Aged, Snapshots, ExchangeEntries, QueueEntries, SystemEntries, NetworkEntries,
             DatabaseEntries, History, Table, WeeklySummaries, FeedInstances
    <3> QED
      BY <2>2, <3>1 DEF DeleteInv, Kinds
  <2> HIDE DEF after
  <2>3. HasSummary(rows)
    BY <1>5 DEF DeleteOldSnapshots, DeleteInv
  <2>4. DeletesOldOnly
    BY <2>1, <2>2, <2>3 DEF DeletesOldOnly, HasSummary
  <2>5. rows' \subseteq rows
    BY <2>1 DEF after
  <2> QED
    BY <1>5, <2>4, <2>5 DEF DeleteOldSnapshots, DeleteInv, Kinds
<1> QED
  BY <1>2, <1>3, <1>4, <1>5 DEF Rollup, RollupStep

\* The others store snapshots, or leave rows and roll-up alone; a crash and a start leave
\* the roll-up idle.
LEMMA OthersDelete ==
  ASSUME DeleteInv, Main \/ Sampler \/ Feed \/ Crash \/ Tick \/ OtherSnapshot
  PROVE  DeleteInv' /\ DeletesOldOnly
<1> USE DEF DeleteInv, DeletesOldOnly, HasSummary, rollupVars, sadapterVars
<1>1. CASE Main
  BY <1>1 DEF Main, Start, Signal, SamplerJoined, RollupJoined, Stopped, Disconnect
<1>2. SnapshotRow.of = Snapshots.name
  BY DEF SnapshotRow, Row
<1>3. CASE Sampler
  <2>1. UNCHANGED <<clock, rollupPc, lastWeek>>
    BY <1>3 DEF Sampler, SamplerStep, GetSnapshot, Publish, Record, Persist, SamplerEnds
  <2>2. CASE Persist
    <3>1. rows' \in {rows, rows \cup {SnapshotRow}}
      BY <2>2, CreateAdds DEF Persist, SummaryCallback, Refused, Outcome
    <3> QED
      BY <1>2, <2>1, <3>1, AddedKept
  <2>3. CASE ~Persist
    BY <1>3, <2>1, <2>3 DEF Sampler, SamplerStep, GetSnapshot, Publish, Record, SamplerEnds
  <2> QED
    BY <2>2, <2>3
<1>4. CASE Feed
  BY <1>4 DEF Feed, OnMessageReceived, OnExchangeConnected, samplerVars
<1>5. CASE Crash
  BY <1>5 DEF Crash
<1>6. CASE Tick
  BY <1>6 DEF Tick
<1>7. CASE OtherSnapshot
  BY <1>2, <1>7, AddedKept DEF OtherSnapshot
<1> QED
  BY <1>1, <1>3, <1>4, <1>5, <1>6, <1>7

\* Through crashes, lost connections and other programs' snapshots: what is deleted is old,
\* and the week that ended has its summary.
THEOREM OnlyOldIsDeleted == Spec => DeletedWhenOld
<1>1. Init => DeleteInv
  BY DEF Init, DeleteInv, Kinds, Row
<1>2. DeleteInv /\ Next => DeleteInv' /\ DeletesOldOnly
  BY RollupDeletes, OthersDelete DEF Next
<1>3. DeleteInv /\ UNCHANGED vars => DeleteInv'
  BY DEF vars, DeleteInv, Kinds, HasSummary, rollupVars, sadapterVars
<1>4. DeleteInv /\ [Next]_vars => DeleteInv' /\ [DeletesOldOnly]_vars
  BY <1>2, <1>3
<1> QED
  BY <1>1, <1>4, PTL DEF Spec, DeletedWhenOld

-----------------------------------------------------------------------------
(* Types.                                                                  *)

\* The times and the counts that the types bound.
Times ==
  /\ clock \in 0..MaxClock /\ intervalStart \in 0..clock
  /\ total \in 0..MaxTotal /\ lastTotal \in 0..total
  /\ sample \in [total : 0..total, added : 0..total]
  /\ count \in Nat /\ sum \in Nat /\ summed \in Nat

\* Where the threads are, and what they hold there.
Places ==
  /\ known \in BOOLEAN /\ running \in BOOLEAN /\ due \in BOOLEAN /\ callback \in BOOLEAN
  /\ pc \in {"new", "loop", "publish", "record", "persist", "stuck", "done"}
  /\ mainPc \in {"down", "serve", "sampler", "rollup", "sources", "stopped"}
  /\ conn \in {"none", "open", "lost"} /\ usable \in {{}, Prepared}

RollupPlaces ==
  /\ rollupPc \in {"none", "sleep", "list", "create", "delete", "done"}
  /\ rollupPc \in {"list", "create", "delete"} => \E w \in lastWeek : w >= Week
  /\ rollupPc = "create" <=> listed # {}
  /\ lastWeek \subseteq Nat
  /\ mainPc = "down" => rollupPc = "none"

MonitoringInv == Times /\ Places /\ RollupPlaces /\ RingIInv

\* A week that begins after another is not the first.
LEMMA WeekFollows ==
  ASSUME NEW c \in Nat, NEW w \in Nat
  PROVE  WeekOf(c) \in Nat /\ (WeekOf(c) > w => WeekOf(c) >= Week)
<1>1. Week \in Nat \ {0}
  BY WeeklyRollupAssumption
<1> DEFINE q == c \div Week
<1>2. q \in Nat /\ c % Week \in Nat /\ c = Week * q + (c % Week)
  BY <1>1
<1>3. WeekOf(c) = Week * q
  BY <1>1, <1>2 DEF WeekOf
<1> HIDE DEF q
<1>4. Week * q \in Nat
  BY <1>1, <1>2
<1>5. q = 0 => Week * q = 0
  BY <1>1
<1>6. q >= 1 => Week * q >= Week
  BY <1>1, <1>2
<1> QED
  BY <1>1, <1>2, <1>3, <1>4, <1>5, <1>6

\* The snapshot cannot be inserted: its statement is not usable.
LEMMA InsertRefused ==
  ASSUME usable \in {{}, Prepared}, NEW row, NEW o \in Create(Snapshots, row)
  PROVE  o = Outcome(conn, rows, No)
<1>1. "insert_snapshot" \notin Prepared
  <2>1. \A i \in DOMAIN Statements :
          "insert_snapshot" = Statements[i] => i \in 1..i /\ Statements[i] \in Malformed
    BY DEF Malformed, Statements, HistoryStatements, AlertStatements, WeeklyStatements, LogStatements
  <2> QED
    BY <2>1 DEF Prepared
<1>2. Snapshots.insert = "insert_snapshot"
  BY DEF Snapshots, Table
<1> QED
  BY <1>1, <1>2 DEF Create, Writes, Runs, Refused

\* The sampler's steps.
LEMMA SamplerTyped ==
  ASSUME MonitoringInv, Sampler
  PROVE  Times' /\ Places' /\ RollupPlaces'
<1> USE DEF MonitoringInv, Times, Places, counterVars, samplerVars, ringVars, aggregatorVars,
            sadapterVars, rollupVars
<1>1. UNCHANGED <<clock, total, rollupPc, lastWeek, listed, usable, mainPc>>
  BY DEF Sampler, SamplerStep, GetSnapshot, GetAndUpdateStats, Publish, Record, Persist, SamplerEnds
<1>2. RollupPlaces'
  BY <1>1 DEF RollupPlaces
<1>3. CASE GetSnapshot
  BY <1>2, <1>3 DEF Sampler, GetSnapshot, GetAndUpdateStats, Sample
<1>4. CASE Publish
  BY <1>2, <1>4 DEF Sampler, Publish
<1>5. CASE Record
  <2>1. Times'
    BY <1>5 DEF Record, AddSnapshot, NoSample, Sample
  <2>2. due' = FALSE /\ pc' \in {"persist", "loop"} /\ UNCHANGED <<known, running, callback, conn, usable>>
    BY <1>5 DEF Record
  <2> QED
    BY <1>1, <1>2, <2>1, <2>2
<1>6. CASE Persist
  <2>1. PICK o \in SummaryCallback :
          conn' = o.conn /\ pc' = IF o.answer = No THEN "loop" ELSE "histories"
    BY <1>6 DEF Persist
  <2>2. o = Outcome(conn, rows, No)
    BY InsertRefused DEF SummaryCallback, Refused
  <2> QED
    BY <1>2, <1>6, <2>1, <2>2 DEF Sampler, Persist, ProduceSummary, Reset, Outcome
<1>7. CASE SamplerEnds
  BY <1>2, <1>7 DEF Sampler, SamplerEnds
<1> QED
  BY <1>3, <1>4, <1>5, <1>6, <1>7 DEF Sampler, SamplerStep

\* The roll-up's steps.
LEMMA RollupTyped ==
  ASSUME MonitoringInv, Rollup
  PROVE  Times' /\ Places' /\ RollupPlaces'
<1>1. Times'
  BY RollupKeepsSampler
     DEF MonitoringInv, Times, counterVars, samplerVars, aggregatorVars
<1>2. CASE Wake
  <2>1. WeekOf(clock) \in Nat
        /\ \A w \in lastWeek : WeekOf(clock) > w => WeekOf(clock) >= Week
    BY WeekFollows DEF MonitoringInv, Times, RollupPlaces
  <2>2. RollupPlaces'
    BY <1>2, <2>1 DEF Rollup, Wake, RollupPlaces, MonitoringInv
  <2> QED
    BY <1>1, <1>2, <2>2
       DEF Rollup, Wake, MonitoringInv, Places, counterVars, samplerVars, sadapterVars
<1>3. CASE ListWeek
  <2>1. conn' \in {conn, "lost"}
    BY <1>3 DEF ListWeek, List, Outcome
  <2>2. RollupPlaces'
    BY <1>3 DEF Rollup, ListWeek, RollupPlaces, MonitoringInv
  <2> QED
    BY <1>1, <1>3, <2>1, <2>2 DEF Rollup, ListWeek, MonitoringInv, Places, counterVars, samplerVars
<1>4. CASE CreateSummary
  <2>1. conn' \in {conn, "lost"}
    BY <1>4 DEF CreateSummary, Create, Writes, Refused, Broken, Outcome
  <2>2. RollupPlaces'
    BY <1>4 DEF Rollup, CreateSummary, RollupPlaces, MonitoringInv
  <2> QED
    BY <1>1, <1>4, <2>1, <2>2 DEF Rollup, CreateSummary, MonitoringInv, Places, counterVars, samplerVars
<1>5. CASE DeleteOldSnapshots
  <2>1. conn' \in {conn, "lost"}
    BY <1>5 DEF DeleteOldSnapshots, DeleteOld, Writes, Refused, Broken, Outcome
  <2>2. RollupPlaces'
    BY <1>5 DEF Rollup, DeleteOldSnapshots, RollupPlaces, MonitoringInv
  <2> QED
    BY <1>1, <1>5, <2>1, <2>2
       DEF Rollup, DeleteOldSnapshots, MonitoringInv, Places, counterVars, samplerVars
<1> QED
  BY <1>2, <1>3, <1>4, <1>5 DEF Rollup, RollupStep

\* The steps of main and of the world around it, for the times and counts,
LEMMA OthersKeepTimes ==
  ASSUME Times, Main \/ Feed \/ Crash \/ Tick \/ OtherSnapshot
  PROVE  Times'
<1> USE DEF Times, counterVars, samplerVars, aggregatorVars
<1>1. CASE Main
  BY <1>1 DEF Main, Start, Signal, SamplerJoined, RollupJoined, Stopped
<1>2. CASE Feed
  BY <1>2, StateManagerAssumption DEF Feed, OnMessageReceived, OnExchangeConnected
<1>3. CASE Crash
  BY <1>3, StateManagerAssumption DEF Crash, NoSample, Sample
<1>4. CASE Tick
  BY <1>4, MonitoringAssumption DEF Tick
<1>5. CASE OtherSnapshot
  BY <1>5 DEF OtherSnapshot
<1> QED
  BY <1>1, <1>2, <1>3, <1>4, <1>5

\* for the threads,
LEMMA OthersKeepPlaces ==
  ASSUME Places, Main \/ Feed \/ Crash \/ Tick \/ OtherSnapshot
  PROVE  Places'
<1> USE DEF Places, counterVars, samplerVars, sadapterVars
<1>1. CASE Start
  <2>1. PICK o \in ConnectOutcomes :
          conn' = o.conn /\ usable' = o.usable /\ callback' = o.answer
    BY <1>1 DEF Start
  <2>2. AllPrepared \in BOOLEAN
    BY DEF AllPrepared
  <2> DEFINE yes == AllPrepared
  <2> HIDE DEF yes
  <2>3. \/ o = [conn |-> conn, usable |-> usable, answer |-> FALSE]
        \/ o = [conn |-> "open", usable |-> Prepared, answer |-> yes]
    BY Zenon DEF ConnectOutcomes, yes
  <2>4. yes \in BOOLEAN
    BY <2>2 DEF yes
  <2>5. o.conn \in {conn, "open"} /\ o.usable \in {usable, Prepared}
    BY <2>3
  <2>6. o.answer \in BOOLEAN
    <3>1. CASE o = [conn |-> conn, usable |-> usable, answer |-> FALSE]
      BY <3>1, Zenon
    <3>2. CASE o = [conn |-> "open", usable |-> Prepared, answer |-> yes]
      BY <2>4, <3>2, Zenon
    <3> QED
      BY <2>3, <3>1, <3>2
  <2> QED
    BY <1>1, <2>1, <2>5, <2>6 DEF Start
<1>2. CASE Signal
  BY <1>2 DEF Signal
<1>3. CASE SamplerJoined \/ RollupJoined \/ Stopped
  BY <1>3 DEF SamplerJoined, RollupJoined, Stopped, Disconnect
<1>4. CASE Feed
  BY <1>4 DEF Feed, OnMessageReceived, OnExchangeConnected
<1>5. CASE Crash
  BY <1>5 DEF Crash
<1>6. CASE Tick \/ OtherSnapshot
  BY <1>6 DEF Tick, OtherSnapshot
<1> QED
  BY <1>1, <1>2, <1>3, <1>4, <1>5, <1>6 DEF Main

\* and for the roll-up.
LEMMA OthersKeepRollup ==
  ASSUME RollupPlaces, Main \/ Feed \/ Crash \/ Tick \/ OtherSnapshot
  PROVE  RollupPlaces'
<1> USE DEF RollupPlaces, rollupVars
<1>1. CASE Start
  <2>1. rollupPc' \in {"sleep", "none"} /\ listed = {} /\ UNCHANGED <<listed, lastWeek>>
        /\ mainPc' = "serve"
    BY <1>1 DEF Start
  <2> QED
    BY <2>1
<1>2. CASE Signal \/ SamplerJoined \/ RollupJoined \/ Stopped
  BY <1>2 DEF Signal, SamplerJoined, RollupJoined, Stopped
<1>3. CASE Crash
  BY <1>3 DEF Crash
<1>4. CASE Feed \/ Tick \/ OtherSnapshot
  BY <1>4 DEF Feed, Tick, OtherSnapshot
<1> QED
  BY <1>1, <1>2, <1>3, <1>4 DEF Main

\* The types hold through crashes and restarts; in particular the callback's insertion
\* is always refused.
THEOREM MonitoringTyped == Spec => []MonitoringTypeOK
<1>1. Init => MonitoringInv
  <2>1. ASSUME Init PROVE Times /\ Places /\ RollupPlaces
    BY <2>1, StateManagerAssumption, MonitoringAssumption
       DEF Init, Times, Places, RollupPlaces, NoSample, Sample
  <2> QED
    BY <2>1, RingInit DEF MonitoringInv
<1>2. MonitoringInv /\ Next => MonitoringInv'
  BY SamplerTyped, RollupTyped, OthersKeepTimes, OthersKeepPlaces, OthersKeepRollup, RingStep
     DEF Next, MonitoringInv
<1>3. ASSUME MonitoringInv, UNCHANGED vars PROVE MonitoringInv'
  <2>1. Times' /\ Places' /\ RollupPlaces'
    BY <1>3 DEF vars, MonitoringInv, Times, Places, RollupPlaces, counterVars, samplerVars,
                aggregatorVars, rollupVars, sadapterVars
  <2> QED
    BY <1>3, <2>1, RingStep DEF MonitoringInv
<1>4. ASSUME MonitoringInv PROVE MonitoringTypeOK
  <2>1. sum <= total
    BY <1>4 DEF MonitoringInv, Times, RingIInv, CountInv, EachTickInOneSummary, InHand
  <2>2. size \in 0..Capacity /\ head \in 0..(Capacity - 1)
    BY <1>4, StateManagerAssumption, LenProperties DEF MonitoringInv, RingIInv, RingInv
  <2> QED
    BY <1>4, <2>1, <2>2 DEF MonitoringInv, Times, Places, RollupPlaces, MonitoringTypeOK
<1> QED
  BY <1>1, <1>2, <1>3, <1>4, PTL DEF Spec

-----------------------------------------------------------------------------
(* Summaries.                                                              *)

\* The snapshots that a week's summary is of.
MeasuredOf(week, S) == {r \in S : MeasuredIn(week, r)}

\* Snapshots are of times; a week has ended when it has a summary.
RowsTimed(S) ==
  \A r \in S :
    /\ r.of = Snapshots.name => r.data \in Nat /\ r.parent = Ref(FeedInstances, Instance)
    /\ r.of = WeeklySummaries.name => r.key \in Int /\ r.key + Week <= clock

\* The roll-up at work is at a week that has ended, and has listed all that is measured
\* in it: it alone deletes, and not before the summary.
WeekInHand ==
  /\ rollupPc \in {"list", "create"} => \E w \in Nat : lastWeek = {w} /\ w <= clock
  /\ rollupPc = "create" => listed = MeasuredOf(WeekEnded, rows)

Counting(S) ==
  \A s \in S : s.of = WeeklySummaries.name /\ s.key + Retention >= clock =>
    s.data = Cardinality(MeasuredOf(s.key, S))

SummaryInv == clock \in Nat /\ RowsTimed(rows) /\ WeekInHand /\ Counting(rows)

\* A time is in its week, and in none that ended before.
LEMMA InItsWeek ==
  ASSUME NEW c \in Nat
  PROVE  WeekOf(c) \in Int /\ WeekOf(c) <= c /\ c < WeekOf(c) + Week
<1>1. Week \in Nat \ {0}
  BY WeeklyRollupAssumption
<1>2. c % Week \in 0..(Week - 1)
  BY <1>1
<1> QED
  BY <1>1, <1>2 DEF WeekOf

\* A snapshot stored now is of no week that has a summary or is about to get one.
LEMMA StoredNow ==
  ASSUME SummaryInv, rows' \in {rows, rows \cup {SnapshotRow}},
         UNCHANGED <<clock, rollupPc, lastWeek, listed>>
  PROVE  SummaryInv'
<1>1. SnapshotRow.of = Snapshots.name /\ SnapshotRow.data = clock
      /\ SnapshotRow.parent = Ref(FeedInstances, Instance)
  BY DEF SnapshotRow, Row
<1>2. Snapshots.name # WeeklySummaries.name
  BY DEF Snapshots, WeeklySummaries, Table
<1>3. ASSUME NEW week \in Int, week + Week <= clock
      PROVE  MeasuredOf(week, rows') = MeasuredOf(week, rows)
  <2>1. WeekOf(clock) # week
    BY <1>3, InItsWeek, WeeklyRollupAssumption DEF SummaryInv
  <2>2. ~MeasuredIn(week, SnapshotRow)
    BY <1>1, <2>1 DEF MeasuredIn
  <2> QED
    BY <2>2 DEF MeasuredOf
<1>4. RowsTimed(rows)'
  BY <1>1, <1>2 DEF SummaryInv, RowsTimed
<1>5. Counting(rows)'
  <2> SUFFICES ASSUME NEW s \in rows', s.of = WeeklySummaries.name, s.key + Retention >= clock
               PROVE  s.data = Cardinality(MeasuredOf(s.key, rows'))
    BY DEF Counting
  <2>1. s \in rows /\ s.key \in Int /\ s.key + Week <= clock
    BY <1>1, <1>2 DEF SummaryInv, RowsTimed
  <2> QED
    BY <1>3, <2>1 DEF SummaryInv, Counting
<1>6. WeekInHand'
  <2>1. CASE rollupPc = "create"
    <3>1. PICK w \in Nat : lastWeek = {w} /\ w <= clock
      BY <2>1 DEF SummaryInv, WeekInHand
    <3>2. WeekEnded = w - Week /\ WeekEnded' = WeekEnded
      BY <3>1 DEF WeekEnded
    <3>3. MeasuredOf(WeekEnded, rows') = MeasuredOf(WeekEnded, rows)
      BY <1>3, <3>1, <3>2, WeeklyRollupAssumption
    <3> QED
      BY <2>1, <3>2, <3>3 DEF SummaryInv, WeekInHand
  <2>2. CASE rollupPc # "create"
    BY <2>2 DEF SummaryInv, WeekInHand
  <2> QED
    BY <2>1, <2>2
<1> QED
  BY <1>4, <1>5, <1>6 DEF SummaryInv

\* A listing of rows that belong to one instance answers them all or none.
LEMMA ListsAllOrNone ==
  ASSUME NEW table, NEW S, NEW p, \A r \in S : r.parent = p, NEW o \in List(table, S, TRUE)
  PROVE  o.answer \in {{}, S}
<1>1. {r \in S : Readable(table, r)} \in {{}, S}
  BY DEF Readable
<1> DEFINE readable == {r \in S : Readable(table, r)}
<1> HIDE DEF readable
<1>2. readable \in {{}, S}
  BY <1>1 DEF readable
<1>3. \A s \in (IF readable = S THEN {S} ELSE SUBSET readable) : s \in {{}, S}
  BY <1>2
<1>4. o.answer = {} \/ o.answer \in IF readable = S THEN {S} ELSE SUBSET readable
  BY DEF List, Outcome, readable
<1> QED
  BY <1>3, <1>4

\* The roll-up counts what it has listed, and deletes nothing that a summary of a week
\* that is still kept counts.
LEMMA RollupCounts ==
  ASSUME SummaryInv, Rollup
  PROVE  SummaryInv'
<1>1. clock' = clock /\ clock \in Nat
  BY RollupKeepsSampler DEF SummaryInv
<1>2. CASE Wake
  <2>1. UNCHANGED rows
    BY <1>2 DEF Wake, sadapterVars
  <2>2. rollupPc' # "create" /\ (rollupPc' = "list" => lastWeek' = {WeekOf(clock)})
    BY <1>2 DEF Wake
  <2>3. WeekOf(clock) \in Nat /\ WeekOf(clock) <= clock
    BY <1>1, InItsWeek, WeekFollows
  <2>4. WeekInHand'
    BY <1>1, <2>2, <2>3 DEF WeekInHand
  <2> QED
    BY <1>1, <2>1, <2>4 DEF SummaryInv, RowsTimed, Counting
<1>3. CASE ListWeek
  <2> DEFINE S == MeasuredOf(WeekEnded, rows)
  <2>1. PICK o \in List(Snapshots, S, TRUE) :
          listed' = o.answer /\ rollupPc' = IF o.answer = {} THEN "sleep" ELSE "create"
    BY <1>3 DEF ListWeek, MeasuredOf
  <2>2. \A r \in S : r.parent = Ref(FeedInstances, Instance)
    BY DEF SummaryInv, RowsTimed, MeasuredOf, MeasuredIn
  <2>3. UNCHANGED <<rows, lastWeek>> /\ rollupPc = "list"
    BY <1>3 DEF ListWeek
  <2> HIDE DEF S
  <2>4. rollupPc' = "create" => listed' = S
    BY <2>1, <2>2, ListsAllOrNone
  <2>5. WeekEnded' = WeekEnded
    BY <2>3 DEF WeekEnded
  <2>6. WeekInHand'
    BY <1>1, <2>1, <2>3, <2>4, <2>5 DEF WeekInHand, SummaryInv, S
  <2> QED
    BY <1>1, <2>3, <2>6 DEF SummaryInv, RowsTimed, Counting
<1>4. CASE CreateSummary
  <2> DEFINE row == Row(WeeklySummaries, WeekEnded, Ref(FeedInstances, Instance),
                        Cardinality(listed))
  <2>1. PICK o \in Create(WeeklySummaries, row) :
          rows' = o.rows /\ rollupPc' = IF o.answer = No THEN "sleep" ELSE "delete"
    BY <1>4 DEF CreateSummary
  <2>2. row.of = WeeklySummaries.name /\ row.key = WeekEnded /\ row.data = Cardinality(listed)
    BY DEF Row
  <2>3. listed = MeasuredOf(WeekEnded, rows) /\ \E w \in Nat : lastWeek = {w} /\ w <= clock
    BY <1>4 DEF CreateSummary, SummaryInv, WeekInHand
  <2>4. WeekEnded \in Int /\ WeekEnded + Week <= clock
    BY <2>3, <1>1, WeeklyRollupAssumption DEF WeekEnded
  <2> HIDE DEF row
  <2>5. rows' \in {rows, rows \cup {row}}
    BY <2>1, CreateAdds
  <2>6. Snapshots.name # WeeklySummaries.name
    BY DEF Snapshots, WeeklySummaries, Table
  <2>7. \A week : MeasuredOf(week, rows') = MeasuredOf(week, rows)
    BY <2>2, <2>5, <2>6 DEF MeasuredOf, MeasuredIn
  <2>8. RowsTimed(rows)'
    BY <1>1, <2>2, <2>4, <2>5, <2>6 DEF SummaryInv, RowsTimed
  <2>9. Counting(rows)'
    BY <1>1, <2>2, <2>3, <2>5, <2>7 DEF SummaryInv, Counting
  <2>10. WeekInHand'
    BY <2>1 DEF WeekInHand
  <2> QED
    BY <1>1, <2>8, <2>9, <2>10 DEF SummaryInv
<1>5. CASE DeleteOldSnapshots
  <2> DEFINE old == {r \in rows : TooOld(r)}
             after == {r \in rows : r \in old => \A t \in Aged : r.of # t.name}
  <2>1. rows' \in {rows, after}
    BY <1>5 DEF DeleteOldSnapshots, DeleteOld, Writes, Refused, Broken, Outcome
  <2>2. rows' \subseteq rows /\ \A r \in rows \ rows' : TooOld(r)
    BY <2>1
  <2>3. ASSUME NEW week \in Int, week + Retention >= clock
        PROVE  MeasuredOf(week, rows') = MeasuredOf(week, rows)
    <3>1. ASSUME NEW r \in rows, MeasuredIn(week, r) PROVE ~TooOld(r)
      <4>1. r.data \in Nat /\ WeekOf(r.data) = week
        BY <3>1 DEF MeasuredIn, SummaryInv, RowsTimed
      <4>2. week <= r.data
        BY <4>1, InItsWeek
      <4> QED
        BY <1>1, <2>3, <4>1, <4>2, WeeklyRollupAssumption DEF TooOld
    <3> QED
      BY <2>2, <3>1 DEF MeasuredOf
  <2>4. RowsTimed(rows)'
    BY <1>1, <2>2 DEF SummaryInv, RowsTimed
  <2>5. Counting(rows)'
    BY <1>1, <2>2, <2>3 DEF SummaryInv, RowsTimed, Counting
  <2>6. WeekInHand'
    BY <1>5 DEF DeleteOldSnapshots, WeekInHand
  <2> QED
    BY <1>1, <2>4, <2>5, <2>6 DEF SummaryInv
<1> QED
  BY <1>2, <1>3, <1>4, <1>5 DEF Rollup, RollupStep

\* The others store what is measured now, or let time go by, or leave the roll-up idle.
LEMMA OthersCount ==
  ASSUME SummaryInv, Main \/ Sampler \/ Feed \/ Crash \/ Tick \/ OtherSnapshot
  PROVE  SummaryInv'
<1> USE DEF rollupVars, sadapterVars
<1>1. CASE UNCHANGED <<clock, rows>> /\ rollupPc' \in {"none", "sleep"}
  BY <1>1 DEF SummaryInv, RowsTimed, Counting, WeekInHand
<1>2. CASE UNCHANGED <<clock, rows, rollupPc, lastWeek, listed>>
  BY <1>2, StoredNow
<1>3. CASE Main
  <2>1. CASE Start
    BY <1>1, <2>1 DEF Start
  <2>2. CASE ~Start
    BY <1>2, <1>3, <2>2 DEF Main, Signal, SamplerJoined, RollupJoined, Stopped, Disconnect
  <2> QED
    BY <2>1, <2>2
<1>4. CASE Sampler
  <2>1. UNCHANGED <<clock, rollupPc, lastWeek, listed>>
    BY <1>4 DEF Sampler, SamplerStep, GetSnapshot, Publish, Record, Persist, SamplerEnds
  <2>2. CASE Persist
    <3>1. rows' \in {rows, rows \cup {SnapshotRow}}
      BY <2>2, CreateAdds DEF Persist, SummaryCallback, Refused, Outcome
    <3> QED
      BY <2>1, <3>1, StoredNow
  <2>3. CASE ~Persist
    BY <1>2, <1>4, <2>1, <2>3 DEF Sampler, SamplerStep, GetSnapshot, Publish, Record, SamplerEnds
  <2> QED
    BY <2>2, <2>3
<1>5. CASE Feed
  BY <1>2, <1>5 DEF Feed, OnMessageReceived, OnExchangeConnected, samplerVars
<1>6. CASE Crash
  BY <1>1, <1>6 DEF Crash
<1>7. CASE Tick
  <2>1. clock' = clock + 1 /\ clock \in Nat /\ UNCHANGED <<rows, rollupPc, lastWeek, listed>>
    BY <1>7 DEF Tick, SummaryInv
  <2>2. RowsTimed(rows)'
    BY <2>1, WeeklyRollupAssumption DEF SummaryInv, RowsTimed
  <2>3. WeekInHand'
    BY <2>1 DEF SummaryInv, WeekInHand, WeekEnded
  <2>4. Counting(rows)'
    BY <2>1, WeeklyRollupAssumption DEF SummaryInv, RowsTimed, Counting
  <2> QED
    BY <2>1, <2>2, <2>3, <2>4 DEF SummaryInv
<1>8. CASE OtherSnapshot
  BY <1>8, StoredNow DEF OtherSnapshot
<1> QED
  BY <1>3, <1>4, <1>5, <1>6, <1>7, <1>8

\* A week's summary counts all that was measured in the week, for as long as it is kept:
\* through crashes, lost connections and other programs' snapshots.
THEOREM SummariesCount == Spec => []SummaryCountsItsWeek
<1>1. Init => SummaryInv
  <2> SUFFICES ASSUME Init PROVE SummaryInv
    OBVIOUS
  <2>1. \A r \in rows : r.of = FeedInstances.name
    BY DEF Init, Row
  <2>2. FeedInstances.name \notin {Snapshots.name, WeeklySummaries.name}
    BY DEF FeedInstances, Snapshots, WeeklySummaries, Table
  <2> QED
    BY <2>1, <2>2 DEF Init, SummaryInv, RowsTimed, WeekInHand, Counting
<1>2. SummaryInv /\ [Next]_vars => SummaryInv'
  <2>1. ASSUME SummaryInv, UNCHANGED vars PROVE SummaryInv'
    BY <2>1, StoredNow DEF vars, rollupVars, sadapterVars
  <2> QED
    BY <2>1, RollupCounts, OthersCount DEF Next
<1>3. SummaryInv => SummaryCountsItsWeek
  BY DEF SummaryInv, Counting, MeasuredOf, SummaryCountsItsWeek
<1> QED
  BY <1>1, <1>2, <1>3, PTL DEF Spec
=============================================================================
