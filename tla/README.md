# Datafeed Server: TLA+ models, checks and proofs

The Datafeed Server takes ticks from an exchange, keeps websocket clients that
subscribe to topics, relays what a separate adapter process sends, replays
history from PostgreSQL, measures itself, and answers a REST API from the
database. It is C++17 on Boost.Asio and Beast: a pool of threads runs one
`io_context`, and beside it run threads of the exchanges, of the replays and of
the metrics. Most of what can go wrong is an order of steps of these threads
that no test produces. This directory models that.

Contents: [Inventory](#inventory) · [Modules](#modules-and-the-code) ·
[Runs](#runs) · [What the violations show](#what-the-violations-show) ·
[Fairness](#fairness) · [Proofs](#proofs) · [Abstractions](#abstractions) ·
[Not modelled](#not-modelled) · [Plan](#plan)

To repeat a check: `tlc -workers 2 -config <cfg> <module>` for a row of the
table of runs, `tlapm` on each `*Proofs.tla` for the proofs. `PROJECT.json` maps
every definition to the lines it stands for.

## Inventory

| Part (source) | State | Operations | Who calls it | What makes it correct |
|---|---|---|---|---|
| Session registry (`session/session_manager.*`) | `clients_` by raw pointer, `topic_subscribers_` vectors of raw pointers | add, remove, modes, topics, broadcasts, all under `mutex_` | session constructor and destructor, `on_read`, every publisher | no pointer outlives its object; list and vectors agree; one copy per broadcast |
| Websocket session (`server/server.*`) | read buffer, `write_queue_`, `writing_`, strand, owners | upgrade, accept, `on_read` with its message types, `send_message`, `do_write`, `on_write`, destructor | listener, peers, publishers | one write at a time, FIFO, every handler comes to an end, sessions are forgotten |
| Adapter session (`g_adapter_session`, `g_adapter_mutex`) | one `shared_ptr` and its mutex | register, relay, commands, dropped by the destructor | `on_read`, `~websocket_session` | only the adapter relays; the mutex comes back |
| Monitor (`server.cpp:970-1077`) | a timer | eight broadcasts a second | `io_context` | it does not end the server |
| Live source (`live_source/*`) | `adapter_`, `current_exchange_`, database handle | start, switch_exchange with a detached thread, stop, on_market_data | main, `on_read`, exchange threads | one exchange at a time; row, name and metrics agree; adapters outlive their threads |
| EAdapter (`broker/src/adapter`) | one exchange, `running_` | run (blocking), stop, destructor | live source's threads, `main.cpp` | a stop is not lost; the old feed ends |
| Exchange1 (`exchange1.cpp`) | websocket, `running_`, `connected_`, `ws_mutex_`, two threads | connect, subscribe, read loop with reconnection, destructor | EAdapter | the feed resumes; back-off; the destructor joins |
| Exchange2, Exchange3 | flags and a polling thread | connect, subscribe, stop, loop, destructor | EAdapter | the thread ends |
| Backtest source, DAdapter (`backtest_source/*`, `adapters/dadapter/*`) | `adapter_`, `running_`, a connection, the row's status | start_replay, stop_replay, a detached thread per replay | `on_read` under the adapter's mutex, main | a replay is whole and told; the row's status ends as disconnected |
| State manager, ring, aggregator (`metrics/state_manager.*`, `ring_buffer.h`, `metric_aggregator.*`) | live snapshot, ring, sums of the interval | a sample a second, a summary an interval | its own thread; readers in the API | each tick is in one summary; the ring holds the latest; it stops |
| Weekly roll-up (`metrics/weekly_rollup.*`) | `has_last_week_`, `last_week_start_` | an hourly look, summary, deletion | its own thread | a summary counts its week; nothing is deleted before |
| Metric trackers, readings (`metrics/*`) | counters, windows, latencies | record, read | every part | sums are right |
| Exchange monitor (`metrics/exchange_monitor.*`) | `exchanges_`, `mutex_` | connected, disconnected, statistics | live source, sampler | its mutex comes back |
| Database adapter (`sadapter.*`, `init/schema.sql`) | one libpqxx connection, its prepared statements, one mutex | five calls on each of 18 tables | API, live source, summaries, roll-up | an answer says what happened; references hold; statements can be executed |
| HTTP session, router (`server.*`, `api/router/*`) | one request, the list of routes | accept, dispatch, upgrade | peers | each route is reached |
| Controllers and services (`api/*`) | none of their own | 41 routes over the database and the live snapshot | pool threads | no write is lost; replies say what was written |
| Dashboard, worker, examples, tests, deployment | - | - | - | - |

How they meet: the pool's threads call the registry, the live and the backtest
source and the API's handlers; exchange and replay threads call back into the
sources, which broadcast through the registry; a broadcast calls
`send_message` of sessions the calling thread does not own, which posts to the
session's strand; the last reference to a session or to an adapter may go on any
thread, and the destructor runs there. The sources, the API, the summary
callback and the roll-up share one `SAdapter`.

Hard behaviours: a broadcast against a destruction; strands against each
other; a destructor under a lock that it takes itself; an exception in a
handler without a `try`; a switch of exchange against ticks, against another
switch, against start and shutdown; a replay against the next one;
reconnection against destruction; a read, a change and a write back against
another's; a connection that breaks in a commit; a crash between a summary and
the deletion after it; a mutex taken twice.

## Modules and the code

**`SessionManager`** is the registry. A member function holds `mutex_` from
its first line to its last and waits for nothing inside, so each is one
action. `subs[t][s]` says how often session `s` is in the vector of topic `t`:
with multiplicities a duplicate is something the model could have, so
`ListsAgree` says something. The expansion of `"all_"` to five topics, and
the removal that has to undo it, are there as in the code; so is
`remove_client_topics`, which nothing calls yet.

**`Sessions`** EXTENDS it with `server.cpp`. `io[s]` is the read side of a
session: an armed operation or the program counter of `on_read`. A handler is
cut where another thread can come in between: where it takes
`g_adapter_mutex` and at each call of the registry. `Pending(s)` lists what
owns a session object, `Owned(s)` adds `g_adapter_session`; `Destroy(s)` is the
destructor on whichever thread dropped the last owner, and waits for
`g_adapter_mutex` as the code does. Between that moment and `remove_client`
the registry still has the pointer, and so between `add_client` in the
constructor and the first `shared_ptr`: a broadcast that meets such a session
throws, which is `BroadcastThrows`. Where the exception goes is modelled for
each caller: a relay and a result fall through to the text branch, a feed's
goes back to its loop, the monitor's ends the program (`up`).

**`Outbox`** is what `send_message` promises: a FIFO per connection. `Sessions`
implements it with `sent <- posted, got <- received`.

**`LiveSource`** has `live_source.cpp` and the `EAdapter` it drives: a request's
handler (`Request`, `AssignCurrent`, `RegisterRead`, `RegisterWrite`, `Detach`),
the detached thread (`TakeOld` ... `DropOld`), the thread of `start()`
(`Pick`), reference counts (`Referenced`), destructors that join an exchange's
thread (`Dropped`, `Destroyed`), the exchanges' threads, the metrics snapshot
(`Snapshot`) and main's `stop()`. What is done under `adapter_mutex_` is one
step, except that `stop()` and `Publish` may drop an adapter's last reference
under it: `AdapterMutexFree` keeps the others out until the destructor has
joined. `db_mutex_` is held across database calls, in a registration and in
`touch_feed_instance`, while `current_exchange_` changes under no mutex; so it is a
variable, and each of the two is a read and a write.

**`Exchange1`** is the websocket exchange in detail: the thread that runs
`connect()` and `subscribe()`, the reader with its back-off, the destructor
step by step, and a bounded number of faults. In `LiveSource` the same
exchange is `link`, `opened` and `feed`.

**`WebsocketFeed`** is the agreement between the two: `connect()` once, then
`subscribe()` once, the destructor not before they have returned; and of the
exchange's thread, that it ends for the destructor only and has ended when the
destructor returns. `Exchange1` implements it (`FeedSpec`), and `LiveSource`, whatever
its requests, ticks and destructors do to one another, uses each of its websocket
exchanges by it (`FeedsUsedInOrder`). What either module says of the exchange is
so what the other one takes it for.

**`Backtest`** is `backtest_source.cpp` and `DAdapter`. A request is
`Begin`, `StopOld`, `FreeOld`, `Mark`, `Make`, `Unmark`; `g_adapter_mutex`
admits one at a time. The thread it detaches reads `adapter_` itself in
`Enter`: it may find the adapter of a later request, or none. `this[t]` is the
adapter whose `run()` the thread is in, and `UsesFreed(t)` says that a use of it,
or of the connection it opened, is one of freed memory: `Dies` or the step as
before. The query runs on whichever connection `conn_` holds; `ExecFails`
covers the errors that `query_and_replay` swallows.

**`SAdapter`** is the database adapter. A call holds the adapter's mutex from
its test of the connection to its commit, so it is one step; what it may come
to is a set of outcomes (answer, rows, connection), of which the caller's
action picks one. `Writes`, `Find`, `List` are built from three of them:
refused, done, and broken in the commit with the rows either way. A table is a
record that says which of its calls uses which prepared statement, SQL text of its
own or nothing, and what a deletion does to the rows that refer to it
(`onDelete`, from `init/schema.sql`). `Prepared` is what can be executed after
`prepare_statements()`: with `Eager` the statements before the first that the
server refuses, else all but those refused when they are used. **`AdapterCalls`** lets any thread make any call and keeps its answer.

**`Router`** lists the 41 routes in the order of `build_router()`, and `Dispatch`
picks the first that fits, as `router.cpp` does. **`RestApi`** EXTENDS both: one
action per handler, cut at each call of the adapter, so that requests on two
threads interleave between a read and the write back. A copy that another
writer has made stale is remembered in `wanted`: `NoLostWrite` is about all the
other cases.

**`StateManager`** has the sampling thread (`GetSnapshot`, `Publish`, `Record`,
`Persist`), the tracker's windows, the ring as cells, head and size, the
aggregator and the callback, whose first insertion is refused, so that those
after it are never reached. **`WeeklyRollup`** EXTENDS it
with the hourly thread: `Wake` decides, `ListWeek`, `CreateSummary` and
`DeleteOldSnapshots` are calls of their own, with anything between them. **`Monitoring`**
composes both over one `SAdapter` with main: start-up, the order of shutdown,
a crash at any point after which only the database remains, and other programs that
write snapshots.

The modules share code where the code does: `Sessions` extends the registry,
`AdapterCalls`, `RestApi` and `Monitoring` the database adapter, with its
statements and foreign keys.

`MCSessionManager`, `MCSessions`, `MCLiveSource`, `MCBacktest`, `MCAdapterCalls`
and `MCRestApi` hold the bounds for TLC. The definitions marked *Mutant* are
faulty versions of the definition they precede. No specification uses them; each
is there to show that a property fails when the code has that fault.

## Runs

| cfg (module) | states | asks |
|---|---|---|
| `SessionManager.cfg` (`MCSessionManager`) | 12,246 | the registry's functions in any order, `remove_client_topics` included |
| `Sessions.cfg` (`MCSessions`) | 483,224 | safety of sessions, write queue and adapter with two would-be adapters; `OutboxSpec` and `RegistrySpec` as refinements |
| `SessionsLive.cfg` (`MCSessions`) | 35,828 | liveness with one adapter connection |
| `LiveSource.cfg` (`MCLiveSource`) | 1,414,952 | two overlapping switches, shutdown, a lost database; each websocket exchange used as a `WebsocketFeed` |
| `Exchange1.cfg` (`Exchange1`) | 2,336 | back-off, reconnection, destructor; `FeedSpec` as a refinement |
| `Backtest.cfg` (`MCBacktest`) | 481,241 | two replays and shutdown in any order, with a query, a connection or a broadcast that fails; every replay is told its end |
| `AdapterCalls.cfg` (`MCAdapterCalls`) | 62,628 | every call of every table in any order, with a connection that breaks |
| `RestApi.cfg` (`MCRestApi`) | 170,747 | two threads that serve requests of every route on shared rows |
| `Monitoring.cfg` (`Monitoring`) | 513,011 | sampler, roll-up, main and the database through crashes and restarts |
| `AdapterReconnect.cfg` (`MCSessions`), `SwitchStuck.cfg` (`MCLiveSource`), `SummaryLost.cfg` (`Monitoring`) | - | one property each, violated: below |

Bounds and why they are enough.

* *Registry*: two addresses, `"all_"`, two topics it names and one it does not.
  The functions treat sessions and topics alike, so one of each kind and a
  second session to tell apart from the first show every case; the proofs
  cover the rest.
* *Sessions*: two sessions, `MaxInputs` frames, ticks and timer expiries in a
  behaviour (3 for safety, 2 with liveness). Three inputs are enough for one
  session to register, subscribe and be relayed to, or for a registration, its
  replacement and a broadcast. Connections and disconnections are not bounded:
  an address is used again and again. There is one frame of each class that
  `on_read` tells apart; a relay has two topics so that something can come
  between its broadcasts. The inductive invariant is proved without bounds.
* *LiveSource*: two requests, which may overlap in any way, to a polled and to
  the websocket exchange, plus the adapter of `start()`: each kind is switched
  to and from, and any two threads race. Ticks write the row from the adapter
  that is replaced and from one that replaces it (`Touching`). The proofs cover
  any number of switches. The violations use fewer requests, or polled
  exchanges only, and no ticks, to stay short.
* *Exchange1*: `MaxDelay = 30` as in the code, and seven faults, two more than
  the five failures that take the pause from 1 s to its cap.
* *Backtest*: two replays, the least that can take each other's adapter, of two
  rows each, so that one can be stopped between two of them.
* *AdapterCalls*: one key a table and two rows in all: a row and the one that it
  refers to, of every pair of tables. libpqxx 6 (`Eager = FALSE`), under which all
  calls are reached; under libpqxx 7 `connect()` fails and every call is
  refused or made with fewer statements.
* *RestApi*: an alert, a threshold with and one without an instance, two threads.
  Each may write to the rows that the other reads and writes; every route is
  asked for, with an empty word and with words of other routes in the place of
  its parameter. A thread serves request after request without a bound.
* *Monitoring*: a ring of two, which fills and turns with `MaxSamples = 3`; an
  interval of one step and a week of two, with `MaxClock = 4` for two weeks to
  end and a snapshot of the first to pass the retention of 2; other programs
  store snapshots at 1 and 2, in two different weeks. Time is not lost in a
  crash, the rest of the program's state is.

Deadlock is checked in `SessionManager.cfg`, `SessionsLive.cfg`,
`AdapterCalls.cfg` and `RestApi.cfg`. In `Sessions.cfg` it is off because a second
adapter's registration really stops the server (`AdapterReconnect.cfg`), in the
others because the modelled part ends: after `stop()`, after the destructor or
at the clock's bound nothing is left to do.

What the properties say:

* `NoDanglingPointer`, `SubscribersRegistered`, `ListsAgree`, `ReuseStartsClean`:
  raw pointers never outlive their object, list and vectors say the same, and an
  address used again inherits nothing.
* `OneWriteAtATime`, `InOrder`, `OutboxSpec`, `PostedIsReceived`: the write queue.
  `PostedIsReceived` excepts a session with a failed write: `on_write` returns
  with `writing_` set, and nothing is written there any more. Beside a peer
  that has gone, a `broadcast_all` before the websocket handshake is a way to it.
* `RelayIsTheAdapters`, `GoneIsForgotten`, `ReadIsHandled`: the adapter's place and
  its mutex. `GoneIsForgotten` excepts the adapter: the code keeps a disconnected
  adapter's session until another registers.
* `RowIsCurrent`, `CurrentIsShown`: the database row and the metrics agree with
  `current_exchange_` once no handler is on its way, in spite of ticks that
  write the row from the adapter that is being replaced. That nothing *else* is
  shown connected does not hold for overlapping switches.
* `PublishedNotStopped`, `AdapterOutlivesItsThreads`: the exchange of adapters.
* `FeedsUsedInOrder`, `FeedSpec`: the live source and the websocket exchange keep the
  agreement of `WebsocketFeed`. It ends where a second `connect()` ends the program:
  the thread of `start()` and that of a switch may both run an adapter. Polled
  exchanges are excepted, which are stopped and connected in any order.
* `FeedResumes`: the reader of the websocket exchange comes back from its faults.
  Beside the types, `ExchangeTypeOK` says that its pause stays within 30 s and is back
  at 1 s with each connection that is made.
* `AloneIsWhole`: a replay that no later request and no shutdown stops, and whose
  adapter no late thread runs, uses its own adapter, nothing that is freed, and
  has broadcast every row when it is told as complete. Without those conditions it
  does not hold: the thread's `adapter_` is whatever is there. `QuietIsDisconnected`
  and `ReplayIsTold` hold of all of them, unless the process dies of freed memory.
* `ReferencesHold`, `AnswersAreTrue`: the rows keep what the schema promises, and an
  answer is what happened: success means the effect and nothing else, and a
  failure on a connection that is still open changed nothing. The exception,
  `create_metric_threshold`, commits and then throws on the row it reads back.
* `NoLostWrite`, `RepliesAreTrue`, `RoutesReached`: a column that was asked for is
  overwritten by nobody whose copy was up to date; a reply claims exactly the
  writes that were made, a broken connection and a later item that is refused
  apart; no route hides another.
* `EachTickInOneSummary`, `RingHoldsLatest`, `SummaryCountsItsWeek`,
  `DeletedWhenOld`: what is counted, kept, summarised and deleted, through crashes.
  A deletion needs the summary of the week that ended last, not one of every week it
  deletes: the snapshots of a week the roll-up skipped go without one.
* `MetricsThreadsJoined`: main gets past the joins of the sampler and of the roll-up,
  unless the sampler hangs in the exchange monitor. It does not speak of the whole
  shutdown: before them main joins the pool's threads, one of which may hang
  (`AdapterReconnect.cfg`, `SwitchStuck.cfg`), and after them `live_source::stop()` may run
  an exchange's destructor, which need not end.

## What the violations show

* **`AdapterReconnect.cfg`** (`server.cpp:572`). A registers as the adapter and
  disconnects; its session lives on in `g_adapter_session`. B registers: the
  assignment, under `g_adapter_mutex`, drops A's last reference, and A's
  destructor locks the same mutex on the same thread. `HolderProceeds` is
  violated; every later JSON message and every end of a session waits forever.
* **`SwitchStuck.cfg`** (`exchange_monitor.cpp:109`). The first switch makes the
  exchange monitor know an exchange; the next snapshot locks its mutex twice
  and hangs with it. A handler under way then hangs in `onExchangeConnected`
  (`HandlerGetsThrough`), a later one in `onExchangeDisconnected`, and main in
  `state_manager.stop()`.
* **`SummaryLost.cfg`** (`sadapter.cpp:168`). `insert_snapshot` names 113 columns
  and 117 values, and the server refuses it: `IntervalIsStored`, which
  `init/schema.sql:557` promises, is violated. The run has libpqxx 6
  (`Eager = FALSE`, for which `sadapter.cpp:17` has a branch): `connect()` answers true, main
  sets callback and roll-up, the connection stays open, and the callback's first
  insertion fails each time. With libpqxx 7 (`Eager = TRUE`, which the repository's
  README asks for) `connect()` already answers false with the connection open, main sets up
  neither, and the property is violated as well.

Four more configurations show what no run above repeats; each is a
counterexample to be had with `tlc` as well.

* **`MonitorCrash.cfg`** (`MCSessions`; `server.cpp:1012`). A subscribed session has
  lost its last owner and is not yet unregistered when the timer's handler
  broadcasts. `shared_from_this()` throws, nothing catches, the program ends.
* **`Unsubscribe.cfg`** (`MCSessions`; `server.cpp:661`). `unsubscribe` contains
  `subscribe`.
* **`OldFeed.cfg`** (`MCLiveSource`; `eadapter.cpp:132`). `EAdapter::stop()` leaves the
  websocket exchange to its destructor; the switching thread keeps `old_adapter`
  while it is in `run()` of the new one. Both exchanges feed the clients.
* **`InitialConnect.cfg`** (`Exchange1`; `exchange1.cpp:184`). "reader will retry": no
  reader was started.

Two smaller observations of `SAdapter` have no run: `insert_feed_event` and
`insert_api_request` are executed with an argument too few (`ShortOfArguments`), so
their calls always fail; and a threshold that is created is reported as not.

## Fairness

`Sessions!FairSpec` assumes that pool threads run what is ready (handlers,
posted lambdas, destructors), each session on its own, and that an operation
on a connection whose peer has gone ends: `do_accept` sets Beast's suggested
timeouts, which end idle and half-closed connections. Peers and publishers owe
nothing. Weak fairness of a step that waits for `g_adapter_mutex` is enough in
the instance because inputs are bounded, so the mutex is not taken again and
again. `start_replay` and `switch_exchange` are taken to return in `Sessions`;
`SwitchStuck.cfg` shows when the latter does not.

`LiveSource!FairSpec`: threads run, the StateManager takes its snapshots, and two
steps are strongly fair. A loop of an exchange looks at its condition after
every tick (requests time out after 5 s), so ticks do not keep it from ending;
and a handler that waits for `db_mutex_`, which ticks take one time in fifty, gets
it. Nothing makes the network fail or a tick come.

`Exchange1!FairSpec`: the owner and the reader run, and a read of a stream that
has ended returns. An exchange answers a SUBSCRIBE or breaks off. A connect
fails only with one of the bounded faults, so `FeedResumes` speaks of a network
that comes back in the end. Messages are not promised.

`Backtest!FairSpec`: a request in `start_replay` and each detached thread run, so a
query ends and its rows are delivered. No request has to come.

`Monitoring!FairSpec`: the sampler and the roll-up run, and main's join of either returns
when it has ended. The clock owes nothing: a sleep ends whether it moves or not, as
the code sleeps by intervals. The sources' `stop()` (`Stopped`) is owed nothing either: it waits
for `adapter_mutex_` and may drop the last reference to an adapter, whose exchange's
destructor waits for a mutex and a reader that may not come (`exchange1.cpp:18-31`).

## Proofs

Eight modules hold theorems for any values of the constants. They rest on the
named assumptions about constants alone (`RegistryAssumption`,
`SessionsAssumption`, `Exchange1Assumption`, `LiveSourceAssumption`,
`BacktestAssumption`, `SAdapterAssumption`, `AdapterCallsAssumption`,
`RestApiAssumption`, `PathAssumption`, `StateManagerAssumption`,
`WeeklyRollupAssumption`, `MonitoringAssumption`), which say that `None` and `NoSession`
are none of what they are told from, that bounds are numbers, that a ring has a cell,
that a path and a body are finite sequences and a body's items switch on or off. TLC
evaluates them in the runs.

Every invariant and every action property that a passing run checks is stated by a
theorem, and so is each of the refinements.

*Registry* (`SessionManagerProofs`). `SubscribersRegistered` and `ListsAgree` are
inductive with the types (a topic added is served once because `Subscribed` looks
before it adds, and a removal takes the topic out of both). `RegistryReuse`
follows: an address that is not registered is in no vector.

*Sessions* (`SessionsProofs`). None of the properties is inductive alone.
`SessionsInv` is

* `RegistryInv`: the registry's types and agreement. It is kept because each step
  of the server is a registry step or leaves it alone, which is also theorem
  `ServerUsesRegistry`;
* `OwnTypeOK`: the other types;
* `WriteInv`: per session, `writing_` exactly when the queue is not empty, at most
  one write in flight and then with its message at the front, and queue and
  strand numbered without gaps from `received` to `posted`. `OneWriteAtATime` and
  `InOrder` are parts of it, and `OutboxImplemented` needs it to see that the
  message a completed write reports is the next one;
* `Lifecycle`: a session in the registry is not freed; a freed one, or one in its
  constructor, has nothing pending and is not the adapter. Without it
  `NoDanglingPointer` would not survive the reuse of an address;
* `MutexHeld`: a session in its relay or inside `start_replay` holds
  `g_adapter_mutex`, and one that relays is `g_adapter_session`. With it no one
  else can change `g_adapter_session` during a relay: `RelayIsTheAdapters`.

`SessionsInvariant` has one step per action, with lemmas for the groups that
change one part only. `OutboxImplemented` maps each step to a `Send`, a
`Receive`, an `Open` or a stutter.

*Exchange* (`Exchange1Proofs`). `ReaderInv` adds to `ReaderEndsForDestructor` and
`GoneIsQuiet`, which say by themselves what the two theorems before the refinement
are about, what they rest on: nobody but the destructor clears `running_` after
`connect()` (otherwise the reader could end at the head of its loop while the
adapter lives), no reader exists before `subscribe()`, and `ws_mutex_` is held
exactly during a blocking read (so it is free when the join returns).
`FeedImplemented` maps the three steps of the destructor to "dying" until the join,
and every place of the reader between its start and its end to "running": of the
reader's twelve steps, the agreement sees the end and the `running_ = true`
of a reconnection. `BackoffStartsOver` rests on one part of `ReaderInv`: before `connect()`
there is no reader that could have moved the pause.

*Live source* (`LiveSourceProofs`). `LiveIInv` has beside the types and `Placed`:

* `DbHeld`: `db_mutex_` has one holder, a handler or a tick;
* `RowFollows`: unless some handler has named an exchange and is still to register
  it, the copy that the holder of `db_mutex_` has read is `current_exchange_`, and
  without a handler's write under way the row has it. This is what makes
  `RowIsCurrent` inductive: a tick may write a stale name only while a handler is
  still to come and correct it;
* `Owned`: what is in `adapter_` has been published, and a thread takes it out
  before it stops it, so no two threads hold the same adapter as their old one;
* `Living`: what is referred to is alive, an adapter's destructor runs on one
  thread, and its exchange's thread has ended before it.

`FeedsInOrder` adds `Used`: only an adapter that was made is connected, only one that
was connected has a thread, and as long as the program runs one thread at most is
between `connect()` and `subscribe()` of a websocket exchange, which has no thread yet.
The last is why the second `subscribe()` that `SubscribeNothing` allows for is never
one of a websocket exchange. The theorem has a step per action: the reference that
goes last is the destructor's (`DropsInOrder`, for the three steps that drop one on a
thread, and `Stop`), and what touches neither life, link nor thread is a stutter
(`FeedStutters`).

*Backtest* (`BacktestProofs`). `RowInv`: a row that says connected has a request or
a thread that is still to write it. `AloneInv`: `g_adapter_mutex` admits one request
and by the time it stops an adapter every thread counts as disturbed
(`OneRequest`); the adapter of a thread nobody disturbed is still in `adapter_` and
alive (`Owned`); its thread ran no other (`OwnAdapter`); and it comes to its end with
all rows, unless it failed (`Followed`).

*Database* (`AdapterCallsProofs`). `Sound`: a row refers to one that is there and to
a kind its table may refer to, and a key has one row. A deletion is the hard case:
it removes and changes rows of several tables at once. `TablesFit` says what the
proof needs of the 18 tables: what others refer to refers to nothing but clients,
and lets go of those when they are deleted, so a cascade never has to go a second
level. `AnswersStayTrue` needs `Sound` too: that a deletion which finds no row changes
nothing holds because no row refers to one that is not there. `CreateAnswer`,
`UpdateAnswer` and `DeleteAnswer` have a call each.

*REST API* (`RestApiProofs`). `ReplyInv`: for each thread, `wrote` counts the writes
of the request it serves, and the reply's claim is that count, unless the
connection broke. It rests on `Honest`: a call that answers nothing on an open
connection has changed nothing, proved for each call a handler makes.

`NoLostWrite` is inductive with `ColumnInv`: a shared key has one row (`OneEach`; otherwise
an update would write another row than the one that was read), every shared row has
the columns that were asked for (`AsWanted`), and a thread holds a copy exactly between
its read and its write (`CopyFits`). A write from a copy that is up to date is then what
was asked for, by this request and by those before (`CopyUpToDate`, `WishIsWritten`).
`TaskInv` says which requests can be in which handler: without it `RestApiTypeOK` would not
know that a thread of `updateThresholds` is inside its list of items.

`RoutesAreReached` compares 41 routes without comparing pairs. `RowOf` turns the table
round: from a method, a number of segments and the third and fourth of them it names
the only row that can be meant. Each route singles out its row, which is one line a
route (`SingledOut`, `Leads`), so a request that two routes match is for one row and they
are the same. `Joins` keeps the concatenation of the four parts of the table apart from
what is in them.

*Metrics* (`MonitoringProofs`). `CountInv` is `EachTickInOneSummary` with types and
"a program that is down has no sample in hand". `RingInv` relates head, size and
cells to the history; `PushedCells` is the arithmetic modulo the capacity, from
which `PushKeepsRing` shows that a push keeps what is stored a suffix of the history.
`DeleteInv`: a roll-up that is about to delete has in the database the summary of the
week before the one it last saw (`OnlyOldIsDeleted`), whatever crashes come in
between and whoever else stores snapshots. `MonitoringTyped` takes all of these, and
`InsertRefused`: with the statements that are ever prepared, no summary is stored.
`SummaryInv` is for `SummaryCountsItsWeek`: a summary is of a week that has ended, and while
the roll-up has a week in hand, what it has listed of it is what the database holds. A
snapshot stored now is of a week that has not ended, so it changes no count
(`StoredNow`); a deletion takes snapshots past their retention only, and the property
speaks of summaries that are still within it.

Model-checked only: the liveness properties (`GoneIsForgotten`,
`PostedIsReceived`, `ReadIsHandled`, `FeedResumes`, `ReplayIsTold`,
`MetricsThreadsJoined`), which are out of the prover's reach, as is `ENABLED`. No recursive
operator is used in the modules, so nothing computed by recursion is left
unproved. The violations are counterexamples and need no proof.

## Abstractions

* Messages are numbers in the order they are posted to a session; contents,
  JSON wording and topic names beyond a few are left out. `extract_topics` is
  the map from words to topics, `all` to all of them.
* `RelayTopics` leaves out `backtest_price_`, `backtest_bid_`, `backtest_ask_` and
  `backtest_complete`, which no client can subscribe to through `extract_topics`.
* A broadcast is one step, as it is one critical section and only posts. The
  order of a vector matters only when one of the sessions throws; any subset
  of the others may then have come before it.
* There are as many pool threads as there are handlers to run, so that none
  waits for a thread. With fewer threads there are fewer interleavings.
* Undefined behaviour is given the outcomes the build can have (a callback of a
  dying adapter, or a use of a freed one, has its effect or ends the process) or
  is left out and listed as a hazard in `PROJECT.json` (a torn read of
  `current_exchange_`, threads after main).
* A lost database stays lost: `is_connected()` is all that callers look at, and
  nothing reconnects before a restart.
* `io_thread_` of Exchange1 has no work and ends by itself.
* A row is its key, the row it refers to and the data that callers tell apart:
  which of two columns is set, whether it is old, when it was measured. The text
  of conditions, and columns nobody compares, are left out.
* A statement is refused or runs; the order of columns inside it, beyond their
  number, is not modelled.
* What a view computes of the live snapshot, and the JSON of a reply, have no
  control beyond the request and its answer.
* One counter stands for all of the collector's; averages and maxima of an interval
  or a week are left out, and what is kept is which samples they are of.
* Time is a number; milliseconds, time zones and the conversions between clock and
  database are left out, and a step of the clock is long enough for a sample.

## Not modelled

* `exchange4.cpp` is not compiled. `main.cpp` drives `EAdapter` as `LiveSource` does.
* How Exchange2 and Exchange3 poll and parse: their flags, thread and destructor
  are in `LiveSource`.
* The ring of latencies with its percentiles, and plain counters: arithmetic
  without control.
* The readings of `/proc` and the copies of fields in `snapshot_converter.cpp`.
* Listening, accepting and the sockets of HTTP sessions: one strand each, with no
  shared state.
* The dashboard, the worker, the tests against a running server, and deployment.

## Plan

Done: the registry, sessions and outbox; the live source and its exchange; the
replays; the database adapter, the router and the API; the metrics with the
roll-up and shutdown; the proofs above.

Left, in this order:

1. A composition of `Sessions` with `LiveSource`, in which the exchange monitor's
   mutex takes pool threads away, for `ReadIsHandled` over both.
2. An agreement like `WebsocketFeed` for the replays' adapters, which `Backtest` would
   have to keep until a freed one is used.
3. The latency ring and its percentiles against a reference definition, and the
   exchange monitor's counters.
4. The polling loops of Exchange2 and Exchange3, and `main.cpp` with them.
