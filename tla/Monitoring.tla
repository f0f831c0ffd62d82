----------------------------- MODULE Monitoring -----------------------------
(***************************************************************************)
(* main: the sampling thread and the weekly roll-up over the one adapter,  *)
(* their start, their end at shutdown, and a crash at any time after which *)
(* the program is started again with the database as it was left.  Other   *)
(* programs write snapshots.                                               *)
(***************************************************************************)
EXTENDS WeeklyRollup

CONSTANTS
  MaxClock,   \* bound: the time
  Others,     \* bound: the times at which another program may store a snapshot
  Crashes     \* whether the program may crash

ASSUME MonitoringAssumption ==
  MaxClock \in Nat /\ Others \subseteq 0..MaxClock /\ Crashes \in BOOLEAN

VARIABLE mainPc   \* "down", "serve", "sampler", "rollup", "sources", "stopped"

vars == <<clock, counterVars, samplerVars, rollupVars, sadapterVars, mainPc>>

MonitoringTypeOK ==
  /\ clock \in 0..MaxClock
  /\ total \in 0..MaxTotal /\ lastTotal \in 0..total
  /\ known \in BOOLEAN /\ running \in BOOLEAN /\ due \in BOOLEAN /\ callback \in BOOLEAN
  /\ pc \in {"new", "loop", "publish", "record", "persist", "stuck", "done"}
  /\ sample \in [total : 0..total, added : 0..total]
  /\ head \in 0..(Capacity - 1)
  /\ size \in 0..Capacity
  /\ count \in Nat /\ sum \in 0..total
  /\ intervalStart \in 0..clock
  /\ rollupPc \in {"none", "sleep", "list", "create", "delete", "done"}
  /\ rollupPc \in {"list", "create", "delete"} => \E w \in lastWeek : w >= Week
  /\ rollupPc = "create" <=> listed # {}
  /\ conn \in {"none", "open", "lost"} /\ usable \in {{}, Prepared}
  /\ mainPc \in {"down", "serve", "sampler", "rollup", "sources", "stopped"}

\* The members of a collector, a StateManager and a roll-up that are not started.
Init ==
  /\ clock = 0
  /\ total = 0 /\ lastTotal = 0 /\ known = FALSE
  /\ running = FALSE /\ pc = "new" /\ sample = NoSample /\ due = FALSE /\ latest = {}
  /\ data = [i \in 0..(Capacity - 1) |-> NoSample] /\ head = 0 /\ size = 0
  /\ count = 0 /\ sum = 0 /\ intervalStart = 0
  /\ callback = FALSE
  /\ history = <<>> /\ summed = 0
  /\ rollupRunning = FALSE /\ rollupPc = "none" /\ lastWeek = {} /\ listed = {}
  /\ conn = "none" /\ usable = {}
  /\ rows = {Row(FeedInstances, Instance, None, 0)}
  /\ mainPc = "down"

-----------------------------------------------------------------------------
(* main.                                                                   *)

\* connect() and the threads: the callback and the roll-up only when it answers true.
Start ==
  /\ mainPc = "down"
  /\ \E o \in ConnectOutcomes :
       /\ conn' = o.conn
       /\ usable' = o.usable
       /\ callback' = o.answer
       /\ rollupRunning' = o.answer
       /\ rollupPc' = IF o.answer THEN "sleep" ELSE "none"
  /\ running' = TRUE
  /\ pc' = "loop"
  /\ intervalStart' = clock
  /\ mainPc' = "serve"
  /\ UNCHANGED <<clock, counterVars, sample, due, latest, ringVars, count, sum, summed, lastWeek,
                 listed, rows>>

\* A signal has stopped the io_context and the pool's threads have been joined.
Signal ==
  /\ mainPc = "serve"
  /\ running' = FALSE
  /\ mainPc' = "sampler"
  /\ UNCHANGED <<clock, counterVars, pc, sample, due, latest, callback, ringVars, aggregatorVars,
                 rollupVars, sadapterVars>>

\* Mutant: WeeklyRollup::stop() joins without clearing running_.
SamplerJoinedOnly ==
  /\ mainPc = "sampler" /\ pc = "done"
  /\ mainPc' = "rollup"
  /\ UNCHANGED <<clock, counterVars, samplerVars, rollupVars, sadapterVars>>

\* StateManager::stop() joins its thread; WeeklyRollup::stop() comes after it.
SamplerJoined ==
  /\ mainPc = "sampler" /\ pc = "done"
  /\ rollupRunning' = FALSE
  /\ mainPc' = "rollup"
  /\ UNCHANGED <<clock, counterVars, samplerVars, rollupPc, lastWeek, listed, sadapterVars>>

\* The sources' stop() comes next; it may not return.
RollupJoined ==
  /\ mainPc = "rollup" /\ rollupPc \in {"none", "done"}
  /\ mainPc' = "sources"
  /\ UNCHANGED <<clock, counterVars, samplerVars, rollupVars, sadapterVars>>

Stopped ==
  /\ mainPc = "sources"
  /\ Disconnect
  /\ mainPc' = "stopped"
  /\ UNCHANGED <<clock, counterVars, samplerVars, rollupVars>>

\* A crash, or the next start after a shutdown: only the database stays.
Crash ==
  /\ Crashes /\ mainPc # "down"
  /\ conn' = "none" /\ usable' = {}
  /\ total' = 0 /\ lastTotal' = 0 /\ known' = FALSE
  /\ running' = FALSE /\ pc' = "new" /\ sample' = NoSample /\ due' = FALSE /\ latest' = {}
  /\ data' = [i \in 0..(Capacity - 1) |-> NoSample] /\ head' = 0 /\ size' = 0
  /\ count' = 0 /\ sum' = 0 /\ intervalStart' = 0
  /\ callback' = FALSE
  /\ history' = <<>> /\ summed' = 0
  /\ rollupRunning' = FALSE /\ rollupPc' = "none" /\ lastWeek' = {} /\ listed' = {}
  /\ mainPc' = "down"
  /\ UNCHANGED <<clock, rows>>

-----------------------------------------------------------------------------
(* The rest of the world.                                                  *)

Tick ==
  /\ clock < MaxClock
  /\ clock' = clock + 1
  /\ UNCHANGED <<counterVars, samplerVars, rollupVars, sadapterVars, mainPc>>

\* Another program stores what it measures.
OtherSnapshot ==
  /\ clock \in Others /\ At(Snapshots, clock) = {}
  /\ rows' = rows \cup {SnapshotRow}
  /\ UNCHANGED <<clock, counterVars, samplerVars, rollupVars, conn, usable, mainPc>>

Feed ==
  /\ mainPc # "down"
  /\ OnMessageReceived \/ OnExchangeConnected
  /\ UNCHANGED <<rollupVars, mainPc>>

Sampler == SamplerStep /\ UNCHANGED <<rollupVars, mainPc>>

Rollup == RollupStep /\ UNCHANGED mainPc

Main == Start \/ Signal \/ SamplerJoined \/ RollupJoined \/ Stopped

Next == Main \/ Sampler \/ Rollup \/ Feed \/ Crash \/ Tick \/ OtherSnapshot

Spec == Init /\ [][Next]_vars

\* The threads run, and a join of one that has ended returns.  Stopped is owed nothing:
\* live_source::stop() waits for adapter_mutex_ and may run an exchange's destructor
\* on main, which need not end (live_source.cpp:121-127).
FairSpec ==
  /\ Spec
  /\ WF_vars(Sampler)
  /\ WF_vars(Rollup)
  /\ WF_vars(SamplerJoined \/ RollupJoined)

-----------------------------------------------------------------------------
(* Properties.                                                             *)

InHand == IF pc \in {"publish", "record", "stuck"} THEN sample.added ELSE 0

\* Every tick of the feed is counted in one window of the tracker, and every window in
\* one interval's summary, whenever it comes (throughput_tracker.cpp:84-141,
\* state_manager.cpp:42-73).
EachTickInOneSummary == summed + sum + InHand + (total - lastTotal) = total

\* The ring holds the last samples in the order in which they were taken, and the live
\* snapshot is the one that was taken last (ring_buffer.h:15-66).
RingHoldsLatest ==
  /\ size = IF Len(history) < Capacity THEN Len(history) ELSE Capacity
  /\ Stored = SubSeq(history, Len(history) - size + 1, Len(history))
  /\ history # <<>> \/ pc = "record" =>
       latest = {IF pc = "record" THEN sample ELSE history[Len(history)]}

\* A week's summary counts all the week's snapshots, for as long as they are kept
\* (weekly_rollup.cpp:56-84).
SummaryCountsItsWeek ==
  \A s \in rows : s.of = WeeklySummaries.name /\ s.key + Retention >= clock =>
    s.data = Cardinality({r \in rows : MeasuredIn(s.key, r)})

DeletesOldOnly ==
  \A r \in rows \ rows' :
    /\ r.of = Snapshots.name /\ TooOld(r)
    /\ \E s \in rows : s.of = WeeklySummaries.name /\ s.key + Week \in lastWeek

\* Snapshots are deleted when they are past the retention period, and after a summary of
\* the week that ended last (weekly_rollup.cpp:173-187).
DeletedWhenOld == [][DeletesOldOnly]_vars

\* Once the pool's threads are joined, main gets past the joins of the sampler and of the
\* roll-up, whatever the connection and the clock do and wherever the two are; only a
\* sampler that hangs, or a crash, keeps it there (server.cpp:1099-1100).
MetricsThreadsJoined ==
  mainPc = "sampler" ~> mainPc \in {"sources", "down"} \/ pc = "stuck"

\* The database holds a snapshot of each interval that ends while it is connected:
\* "feed_metrics_snapshots stores 15-minute aggregated summaries" (init/schema.sql:557).
IntervalIsStored ==
  [][pc = "persist" /\ pc' = "loop" /\ conn = "open" /\ conn' = "open" =>
       \E r \in rows' : r.of = Snapshots.name /\ r.data = clock]_vars
=============================================================================
