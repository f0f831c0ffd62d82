---------------------------- MODULE StateManager ----------------------------
(***************************************************************************)
(* metrics/: the thread of StateManager samples the collector once a       *)
(* second, publishes the sample as the live snapshot, keeps it in a ring   *)
(* and in the aggregator of the running interval, and at the interval's    *)
(* end calls the summary callback.                                         *)
(*                                                                         *)
(* The collector's counters behave alike: one of them stands for all.  A   *)
(* sample is its total and what was added since the sample before, from    *)
(* which the tracker computes the rate.  Other metrics are never set or    *)
(* are read from the system when asked, and are left out.                  *)
(***************************************************************************)
EXTENDS SAdapter, FiniteSets

CONSTANTS
  Capacity,    \* RingCapacity
  Interval,    \* AggregationInterval, in steps of the clock
  Instance,    \* the row of feed_instances that main names, "live-1"
  MaxTotal,    \* bound: the ticks that the feed delivers
  MaxSamples   \* bound: the samples that are taken

ASSUME StateManagerAssumption ==
  /\ Capacity \in Nat \ {0}
  /\ Interval \in Nat
  /\ MaxTotal \in Nat
  /\ MaxSamples \in Nat

VARIABLES
  clock,         \* the time
  total,         \* ThroughputTracker: messages_received_
  lastTotal,     \* last_messages_received_
  known,         \* exchanges_ of the ExchangeMonitor is not empty
  running,       \* StateManager::running_
  pc,            \* its thread: "new", "loop", "publish", "record", "persist", "stuck", "done"
  sample,        \* the snapshot it has in hand, or NoSample
  due,           \* whether the interval had elapsed when it took it
  latest,        \* {latest_snapshot_}, or {}
  data,          \* the ring: its cells,
  head,          \* the next to be written
  size,          \* and the number of those that hold something
  count,         \* the aggregator: the samples it was given,
  sum,           \* and their sum
  intervalStart, \* interval_start_
  callback,      \* summary_callback_ is set
  history,       \* every sample that was recorded, for the properties
  summed         \* the sums of the summaries that were made, likewise

counterVars == <<total, lastTotal, known>>
ringVars == <<data, head, size, history>>
aggregatorVars == <<count, sum, intervalStart, summed>>
samplerVars == <<running, pc, sample, due, latest, callback, ringVars, aggregatorVars>>

Sample(t, d) == [total |-> t, added |-> d]

NoSample == Sample(0, 0)

-----------------------------------------------------------------------------
(* The collector.                                                          *)

\* on_market_data() of the live source, on an exchange's thread.
OnMessageReceived ==
  /\ total < MaxTotal
  /\ total' = total + 1
  /\ UNCHANGED <<clock, lastTotal, known, samplerVars, sadapterVars>>

\* A switch of the live source reports its first exchange.
OnExchangeConnected ==
  /\ ~known
  /\ known' = TRUE
  /\ UNCHANGED <<clock, total, lastTotal, samplerVars, sadapterVars>>

\* getAndUpdateStats(): the tracker's next window starts where this one ends.
GetAndUpdateStats ==
  /\ sample' = Sample(total, total - lastTotal)
  /\ lastTotal' = total

\* getSnapshot(): after the throughput comes the exchange monitor's getAllStats(),
\* which locks, for every exchange it knows, a mutex it holds.
GetSnapshot ==
  /\ pc = "loop" /\ running
  /\ Len(history) < MaxSamples
  /\ GetAndUpdateStats
  /\ due' = (clock - intervalStart >= Interval)
  /\ pc' = IF known THEN "stuck" ELSE "publish"
  /\ UNCHANGED <<clock, total, known, running, latest, callback, ringVars, aggregatorVars,
                 sadapterVars>>

-----------------------------------------------------------------------------
(* run().                                                                  *)

\* Under snapshot_mutex_: what getLiveSnapshot() returns from now on.
Publish ==
  /\ pc = "publish"
  /\ latest' = {sample}
  /\ pc' = "record"
  /\ UNCHANGED <<clock, counterVars, running, sample, due, callback, ringVars, aggregatorVars,
                 sadapterVars>>

\* Mutant: the head does not wrap.
PushNoWrap ==
  /\ data' = [data EXCEPT ![head] = sample]
  /\ head' = head + 1
  /\ size' = IF size < Capacity THEN size + 1 ELSE size
  /\ history' = Append(history, sample)

\* RingBuffer::push().
Push ==
  /\ data' = [data EXCEPT ![head] = sample]
  /\ head' = (head + 1) % Capacity
  /\ size' = IF size < Capacity THEN size + 1 ELSE size
  /\ history' = Append(history, sample)

\* Mutant: the oldest is at the head before the ring is full, too.
StoredFromHead == [i \in 1..size |-> data[(head + i - 1) % Capacity]]

\* RingBuffer::forEach() goes from the oldest to the newest.
Stored == [i \in 1..size |-> data[(head + Capacity - size + i - 1) % Capacity]]

\* MetricAggregator::addSnapshot().
AddSnapshot ==
  /\ count' = count + 1
  /\ sum' = sum + sample.added

Record ==
  /\ pc = "record"
  /\ Push
  /\ AddSnapshot
  /\ pc' = IF due THEN "persist" ELSE "loop"
  /\ sample' = NoSample /\ due' = FALSE
  /\ UNCHANGED <<clock, counterVars, running, latest, callback, intervalStart, summed, sadapterVars>>

\* produceSummary() divides the sum by the count; what matters here is what it covers.
ProduceSummary == summed' = summed + sum

\* Mutant: reset() leaves a sum out.
ResetCount == count' = 0 /\ UNCHANGED sum

\* MetricAggregator::reset().
Reset == count' = 0 /\ sum' = 0

\* to_db_snapshot(): the row's key is its own, its data the time it is measured at.
SnapshotRow == Row(Snapshots, clock, Ref(FeedInstances, Instance), clock)

\* main's callback stores the snapshot and, if that is done, five histories of it.
SummaryCallback == IF callback THEN Create(Snapshots, SnapshotRow) ELSE Refused(No)

\* insert_snapshot is refused: "histories" is not reached, and the module has no step
\* from it.
Persist ==
  /\ pc = "persist"
  /\ ProduceSummary
  /\ \E o \in SummaryCallback :
       /\ conn' = o.conn
       /\ rows' = o.rows
       /\ pc' = IF o.answer = No THEN "loop" ELSE "histories"
  /\ Reset
  /\ intervalStart' = clock
  /\ UNCHANGED <<clock, counterVars, running, sample, due, latest, callback, ringVars, usable>>

SamplerEnds ==
  /\ pc = "loop" /\ ~running
  /\ pc' = "done"
  /\ UNCHANGED <<clock, counterVars, running, sample, due, latest, callback, ringVars,
                 aggregatorVars, sadapterVars>>

SamplerStep == GetSnapshot \/ Publish \/ Record \/ Persist \/ SamplerEnds
=============================================================================
