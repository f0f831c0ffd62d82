------------------------------ MODULE LiveSource ------------------------------
(***************************************************************************)
(* live_source/live_source.{h,cpp} and the EAdapter it drives              *)
(* (broker/src/adapter/eadapter.cpp): a client's switch_exchange, handled  *)
(* on a pool thread, names the new exchange in current_exchange_, in the   *)
(* metrics collector and in the database's feed_instances row, and leaves  *)
(* the change of adapters to a detached thread.  That thread takes the old *)
(* adapter out of adapter_, stops it, publishes a new one and then stays   *)
(* inside EAdapter::run() of it.                                           *)
(*                                                                         *)
(* A request and the thread it detaches have one name, which is also that  *)
(* of the adapter the thread makes; Starter is the thread of start() and   *)
(* the adapter start() makes.  What is done under adapter_mutex_ is one    *)
(* step, unless it drops the last reference to an adapter: the mutex is    *)
(* then held until the destructor has joined the exchange's thread.        *)
(* db_mutex_ is held across database calls, so it is a variable.           *)
(*                                                                         *)
(* The exchange of an adapter is here the flags its stop() and destructor  *)
(* clear and the thread that calls back with ticks.  Module Exchange1 has  *)
(* the websocket exchange in detail.                                       *)
(***************************************************************************)
EXTENDS Naturals

CONSTANTS Switches,       \* switch_exchange requests
          Starter,        \* the thread of start(), and its adapter
          Main,           \* the main thread, which calls stop()
          None,
          Exchanges,
          Websockets,     \* the exchanges with Exchange1's reader thread: BINANCE
          StartExchange,  \* EXCHANGE of the environment
          Requested,      \* bound: which request may ask for which exchange
          Touching,       \* bound: the adapters whose ticks write the row
          ShutsDown       \* bound: whether the main thread comes to stop()

Threads == Switches \cup {Starter}
Adapters == Threads

ASSUME LiveSourceAssumption ==
  /\ Starter \notin Switches
  /\ Main \notin Threads
  /\ None \notin Threads \cup {Main} \cup Exchanges
  /\ Websockets \subseteq Exchanges
  /\ StartExchange \in Exchanges
  /\ Requested \subseteq Switches \X Exchanges
  /\ Touching \subseteq Adapters
  /\ ShutsDown \in BOOLEAN

VARIABLES
  pc,        \* of a request's handler, then of its thread
  slot,      \* adapter_
  alive,     \* an adapter: "none" yet, "live", "dying" in its destructor, "freed"
  type,      \* exchange_type_ of an adapter
  run,       \* EAdapter::running_
  link,      \* the exchange's running_, for a polled one with its connected_
  opened,    \* adapters on whose exchange connect() was called
  feed,      \* the thread that subscribe() starts: "none", "running", "touching" the
             \* row in its callback, "ended"
  stopped,   \* adapters on which live_source has called stop()
  mine,      \* the reference a thread runs: new_adapter, or a in start()
  old,       \* old_adapter
  joins,     \* the adapter whose destructor a thread is in
  current,   \* current_exchange_
  row,       \* feed_instances.exchange of this instance
  read,      \* the exchange read for the update of the row that is under way
  dbLocked,  \* db_mutex_ is held: by a handler in "write" or by a feed "touching"
  db,        \* FALSE once a call found the database's connection lost
  known,     \* the keys of exchanges_ in the collector's ExchangeMonitor
  shown,     \* those of them it shows as connected
  stuck,     \* the mutex of that monitor is never released any more
  closing,   \* main has called stop()
  up         \* FALSE once std::terminate was called

refVars == <<slot, mine, old>>
exchangeVars == <<link, opened, feed>>
adapterVars == <<alive, type, run, stopped, joins, exchangeVars>>
rowVars == <<row, read, dbLocked, db>>
monitorVars == <<known, shown, stuck>>
nameVars == <<current, rowVars, monitorVars>>
vars == <<pc, refVars, adapterVars, nameVars, closing, up>>

InHandler == {"assign", "register", "write", "connected"}
InRun == {"connect", "subscribe", "start", "loop"}
InWorker == {"take", "stop", "publish", "dropOld"} \cup InRun

LiveTypeOK ==
  /\ pc \in [Threads -> {"idle", "pick", "done"} \cup InHandler \cup InWorker]
  /\ slot \in Adapters \cup {None}
  /\ alive \in [Adapters -> {"none", "live", "dying", "freed"}]
  /\ type \in [Adapters -> Exchanges]
  /\ run \in [Adapters -> BOOLEAN]
  /\ link \in [Adapters -> BOOLEAN]
  /\ opened \in SUBSET Adapters
  /\ feed \in [Adapters -> {"none", "running", "touching", "ended"}]
  /\ stopped \in SUBSET Adapters
  /\ mine \in [Threads -> Adapters \cup {None}]
  /\ old \in [Threads -> Adapters \cup {None}]
  /\ joins \in [Threads \cup {Main} -> Adapters \cup {None}]
  /\ current \in Exchanges
  /\ row \in Exchanges
  /\ read \in Exchanges \cup {None}
  /\ dbLocked \in BOOLEAN
  /\ db \in BOOLEAN
  /\ known \in SUBSET Exchanges
  /\ shown \in SUBSET known
  /\ stuck \in BOOLEAN
  /\ closing \in BOOLEAN
  /\ up \in BOOLEAN

\* start() has returned: the main thread calls it before the server accepts.
Init ==
  /\ pc = [t \in Threads |-> IF t = Starter THEN "pick" ELSE "idle"]
  /\ slot = Starter
  /\ alive = [a \in Adapters |-> IF a = Starter THEN "live" ELSE "none"]
  /\ type = [a \in Adapters |-> StartExchange]
  /\ run = [a \in Adapters |-> FALSE]
  /\ link = [a \in Adapters |-> FALSE]
  /\ opened = {}
  /\ feed = [a \in Adapters |-> "none"]
  /\ stopped = {}
  /\ mine = [t \in Threads |-> None]
  /\ old = [t \in Threads |-> None]
  /\ joins = [t \in Threads \cup {Main} |-> None]
  /\ current = StartExchange
  /\ row = StartExchange
  /\ read = None
  /\ dbLocked = FALSE
  /\ db = TRUE
  /\ known = {}
  /\ shown = {}
  /\ stuck = FALSE
  /\ closing = FALSE
  /\ up = TRUE

At(t, from, to) == pc[t] = from /\ pc' = [pc EXCEPT ![t] = to]
-----------------------------------------------------------------------------
(* The handler of switch_exchange *)

\* onExchangeDisconnected for the exchange of the moment.
Request(t, x) ==
  /\ ~closing
  /\ <<t, x>> \in Requested
  /\ At(t, "idle", "assign")
  /\ type' = [type EXCEPT ![t] = x]
  /\ ~stuck
  /\ shown' = shown \ {current}
  /\ UNCHANGED <<refVars, alive, run, stopped, joins, exchangeVars, current, rowVars,
                 known, stuck, closing, up>>

AssignCurrent(t) ==
  /\ At(t, "assign", "register")
  /\ current' = type[t]
  /\ UNCHANGED <<refVars, adapterVars, rowVars, monitorVars, closing, up>>

\* Mutant: the exchange is the request's own, not what current_exchange_ says now.
RegisterReadOwn(t) ==
  /\ At(t, "register", "write")
  /\ ~dbLocked
  /\ dbLocked' = TRUE
  /\ read' = type[t]
  /\ UNCHANGED <<refVars, adapterVars, current, row, db, monitorVars, closing, up>>

\* register_feed_instance takes db_mutex_ and reads its argument, a reference to
\* current_exchange_.
RegisterRead(t) ==
  /\ At(t, "register", "write")
  /\ ~dbLocked
  /\ dbLocked' = TRUE
  /\ read' = current
  /\ UNCHANGED <<refVars, adapterVars, current, row, db, monitorVars, closing, up>>

\* The update, or nothing, now and later, once the connection is lost.
UpdateRow ==
  /\ \/ db /\ row' = read /\ UNCHANGED db
     \/ db' = FALSE /\ UNCHANGED row
  /\ dbLocked' = FALSE
  /\ read' = None

RegisterWrite(t) ==
  /\ At(t, "write", "connected")
  /\ UpdateRow
  /\ UNCHANGED <<refVars, adapterVars, current, monitorVars, closing, up>>

\* Mutant: the collector is not told of the new exchange.
DetachUnreported(t) ==
  /\ At(t, "connected", "take")
  /\ UNCHANGED <<refVars, adapterVars, nameVars, closing, up>>

\* onExchangeConnected, and the thread is detached.
Detach(t) ==
  /\ At(t, "connected", "take")
  /\ ~stuck
  /\ known' = known \cup {current}
  /\ shown' = shown \cup {current}
  /\ UNCHANGED <<refVars, adapterVars, current, rowVars, stuck, closing, up>>
-----------------------------------------------------------------------------
(* References and destruction *)

\* Mutant: the threads hold their adapters by plain pointers.
ReferencedByOwners(a, s, m, o) == s = a \/ \E t \in Threads : o[t] = a

Referenced(a, s, m, o) == s = a \/ \E t \in Threads : m[t] = a \/ o[t] = a

\* After a reference to a went, in slot', mine' or old': the last one runs the
\* destructor on thread t, which clears the flags and joins the exchange's thread.
Dropped(t, a) ==
  IF a # None /\ ~Referenced(a, slot', mine', old')
  THEN /\ alive' = [alive EXCEPT ![a] = "dying"]
       /\ run' = [run EXCEPT ![a] = FALSE]
       /\ link' = [link EXCEPT ![a] = FALSE]
       /\ joins' = [joins EXCEPT ![t] = a]
  ELSE UNCHANGED <<alive, run, link, joins>>

\* Mutant: the destructor of the exchange detaches its thread.
DestroyedDetached(t) ==
  /\ joins[t] # None
  /\ alive' = [alive EXCEPT ![joins[t]] = "freed"]
  /\ joins' = [joins EXCEPT ![t] = None]
  /\ UNCHANGED <<pc, refVars, type, run, stopped, exchangeVars, nameVars, closing, up>>

Destroyed(t) ==
  /\ joins[t] # None
  /\ feed[joins[t]] \in {"none", "ended"}
  /\ alive' = [alive EXCEPT ![joins[t]] = "freed"]
  /\ joins' = [joins EXCEPT ![t] = None]
  /\ UNCHANGED <<pc, refVars, type, run, stopped, exchangeVars, nameVars, closing, up>>

\* EAdapter::stop(): the websocket exchange has no stop of its own.
StopAdapter(a) ==
  /\ run' = [run EXCEPT ![a] = FALSE]
  /\ link' = [link EXCEPT ![a] = @ /\ type[a] \in Websockets]
  /\ stopped' = stopped \cup {a}
-----------------------------------------------------------------------------
(* The detached threads *)

\* No destructor runs under adapter_mutex_: in stop(), or where an adapter is
\* published over another.
AdapterMutexFree ==
  /\ joins[Main] = None
  /\ \A t \in Threads : pc[t] = "connect" => joins[t] = None

\* Mutant: old_adapter is copied and adapter_ left as it is.
TakeOldNoReset(t) ==
  /\ At(t, "take", "stop")
  /\ AdapterMutexFree
  /\ old' = [old EXCEPT ![t] = slot]
  /\ UNCHANGED <<slot, mine, adapterVars, nameVars, closing, up>>

TakeOld(t) ==
  /\ At(t, "take", "stop")
  /\ AdapterMutexFree
  /\ old' = [old EXCEPT ![t] = slot]
  /\ slot' = None
  /\ UNCHANGED <<mine, adapterVars, nameVars, closing, up>>

\* Nobody sees the new adapter before it is published.
StopOldMakeNew(t) ==
  /\ At(t, "stop", "publish")
  /\ IF old[t] # None THEN StopAdapter(old[t]) ELSE UNCHANGED <<run, link, stopped>>
  /\ alive' = [alive EXCEPT ![t] = "live"]
  /\ mine' = [mine EXCEPT ![t] = t]
  /\ UNCHANGED <<slot, old, type, joins, opened, feed, nameVars, closing, up>>

\* What adapter_ held before, if another request published it, loses a reference.
Publish(t) ==
  /\ At(t, "publish", "connect")
  /\ AdapterMutexFree
  /\ slot' = t
  /\ UNCHANGED <<mine, old>>
  /\ Dropped(t, slot)
  /\ UNCHANGED <<type, stopped, opened, feed, nameVars, closing, up>>

\* The thread of start() runs what adapter_ holds by the time it looks.
Pick(t) ==
  /\ At(t, "pick", IF slot = None THEN "done" ELSE "connect")
  /\ AdapterMutexFree
  /\ mine' = [mine EXCEPT ![t] = slot]
  /\ UNCHANGED <<slot, old, adapterVars, nameVars, closing, up>>

\* A second connect() of a websocket exchange assigns to a joinable io_thread_.
Connect(t) ==
  /\ At(t, "connect", "subscribe")
  /\ joins[t] = None
  /\ link' = [link EXCEPT ![mine[t]] = TRUE]
  /\ opened' = opened \cup {mine[t]}
  /\ up' = ~(mine[t] \in opened /\ type[mine[t]] \in Websockets)
  /\ UNCHANGED <<refVars, alive, type, run, stopped, joins, feed, nameVars, closing>>

\* stream_thread_ or reader_thread_ is started once.
Subscribe(t) ==
  /\ At(t, "subscribe", "start")
  /\ link[mine[t]]
  /\ feed[mine[t]] = "none"
  /\ feed' = [feed EXCEPT ![mine[t]] = "running"]
  /\ UNCHANGED <<refVars, alive, type, run, stopped, joins, link, opened, nameVars, closing, up>>

\* Nothing is started when the websocket exchange's first connect failed, or when a
\* polled exchange was stopped since connect().
SubscribeNothing(t) ==
  /\ At(t, "subscribe", "start")
  /\ type[mine[t]] \in Websockets \/ ~link[mine[t]] \/ feed[mine[t]] # "none"
  /\ UNCHANGED <<refVars, adapterVars, nameVars, closing, up>>

\* running_ = true, whether or not stop() has come first.
StartLoop(t) ==
  /\ At(t, "start", "loop")
  /\ run' = [run EXCEPT ![mine[t]] = TRUE]
  /\ UNCHANGED <<refVars, alive, type, stopped, joins, exchangeVars, nameVars, closing, up>>

\* run() returns.  The lambda's locals go in the reverse order of their declaration.
DropNew(t) ==
  /\ At(t, "loop", "dropOld")
  /\ ~run[mine[t]]
  /\ mine' = [mine EXCEPT ![t] = None]
  /\ UNCHANGED <<slot, old>>
  /\ Dropped(t, mine[t])
  /\ UNCHANGED <<type, stopped, opened, feed, nameVars, closing, up>>

DropOld(t) ==
  /\ At(t, "dropOld", "done")
  /\ joins[t] = None
  /\ old' = [old EXCEPT ![t] = None]
  /\ UNCHANGED <<slot, mine>>
  /\ Dropped(t, old[t])
  /\ UNCHANGED <<type, stopped, opened, feed, nameVars, closing, up>>

Worker(t) ==
  \/ TakeOld(t) \/ StopOldMakeNew(t) \/ Publish(t) \/ Pick(t)
  \/ Connect(t) \/ Subscribe(t) \/ SubscribeNothing(t) \/ StartLoop(t) \/ DropNew(t) \/ DropOld(t)
-----------------------------------------------------------------------------
(* The exchange's thread, the database, the main thread *)

\* The StateManager's snapshot: getAllStats() holds the monitor's mutex and calls
\* getStats(), which locks it again, for each exchange the monitor knows.  Main joins
\* the StateManager before it comes to stop().
Snapshot ==
  /\ ~stuck
  /\ ~closing
  /\ known # {}
  /\ stuck' = TRUE
  /\ UNCHANGED <<pc, refVars, adapterVars, current, rowVars, known, shown, closing, up>>

\* Mutant: db_mutex_ is not taken.
TouchReadUnlocked(a) ==
  /\ a \in Touching /\ feed[a] = "running" /\ db
  /\ dbLocked' = TRUE
  /\ read' = current
  /\ feed' = [feed EXCEPT ![a] = "touching"]
  /\ UNCHANGED <<pc, refVars, alive, type, run, stopped, joins, link, opened, current, row, db,
                 monitorVars, closing, up>>

\* touch_feed_instance: every 50th tick writes the row again, from whichever
\* adapter the tick came.  ~EAdapter destroys external_cb_ before the exchange whose
\* thread calls it: while the adapter is dying the call goes through, as here, or
\* the program ends, or nothing happens.
TouchRead(a) ==
  /\ a \in Touching
  /\ feed[a] = "running"
  /\ ~dbLocked
  /\ db
  /\ dbLocked' = TRUE
  /\ read' = current
  /\ feed' = [feed EXCEPT ![a] = "touching"]
  /\ UNCHANGED <<pc, refVars, alive, type, run, stopped, joins, link, opened, current, row, db,
                 monitorVars, closing, up>>

TouchWrite(a) ==
  /\ feed[a] = "touching"
  /\ feed' = [feed EXCEPT ![a] = "running"]
  /\ UpdateRow
  /\ UNCHANGED <<pc, refVars, alive, type, run, stopped, joins, link, opened, current,
                 monitorVars, closing, up>>

FeedEnds(a) ==
  /\ feed[a] = "running"
  /\ ~link[a]
  /\ feed' = [feed EXCEPT ![a] = "ended"]
  /\ UNCHANGED <<pc, refVars, alive, type, run, stopped, joins, link, opened, nameVars, closing, up>>

\* The reader of a websocket exchange sets running_ when it reconnects.
Reconnect(a) ==
  /\ feed[a] = "running"
  /\ type[a] \in Websockets
  /\ ~link[a]
  /\ link' = [link EXCEPT ![a] = TRUE]
  /\ UNCHANGED <<pc, refVars, alive, type, run, stopped, joins, opened, feed, nameVars, closing, up>>

\* stop(), after the pool's threads and the StateManager were joined: under
\* adapter_mutex_, the destructor included if adapter_ was the last reference.
Stop ==
  /\ ShutsDown
  /\ ~closing
  /\ ~stuck
  /\ \A t \in Switches : pc[t] \notin InHandler
  /\ AdapterMutexFree
  /\ closing' = TRUE
  /\ slot' = None
  /\ UNCHANGED <<mine, old>>
  /\ IF slot # None
     THEN /\ stopped' = stopped \cup {slot}
          /\ run' = [run EXCEPT ![slot] = FALSE]
          /\ IF Referenced(slot, slot', mine, old)
             THEN /\ link' = [link EXCEPT ![slot] = @ /\ type[slot] \in Websockets]
                  /\ UNCHANGED <<alive, joins>>
             ELSE /\ link' = [link EXCEPT ![slot] = FALSE]
                  /\ alive' = [alive EXCEPT ![slot] = "dying"]
                  /\ joins' = [joins EXCEPT ![Main] = slot]
     ELSE UNCHANGED <<stopped, run, link, alive, joins>>
  /\ UNCHANGED <<pc, type, opened, feed, nameVars, up>>
-----------------------------------------------------------------------------
Handler(t) == AssignCurrent(t) \/ RegisterRead(t) \/ RegisterWrite(t) \/ Detach(t)

Exchange(a) == TouchRead(a) \/ TouchWrite(a) \/ FeedEnds(a) \/ Reconnect(a)

Terminated == ~up /\ UNCHANGED vars

Next ==
  \/ up /\ \/ \E t \in Threads :
                (\E x \in Exchanges : Request(t, x)) \/ Handler(t) \/ Worker(t)
           \/ \E t \in Threads \cup {Main} : Destroyed(t)
           \/ \E a \in Adapters : Exchange(a)
           \/ Snapshot
           \/ Stop
  \/ Terminated

Spec == Init /\ [][Next]_vars

\* Every thread runs, and the loop of an exchange looks at its condition after every
\* tick: the polled ones time out after 5 s.  db_mutex_ is free most of the time, and
\* who waits for it gets it.  A snapshot is taken every second.
Fairness ==
  /\ WF_vars(up /\ Snapshot)
  /\ \A t \in Threads :
       WF_vars(up /\ Handler(t)) /\ SF_vars(up /\ RegisterRead(t)) /\ WF_vars(up /\ Worker(t))
  /\ \A t \in Threads \cup {Main} : WF_vars(up /\ Destroyed(t))
  /\ \A a \in Adapters : WF_vars(up /\ TouchWrite(a)) /\ SF_vars(up /\ FeedEnds(a))

FairSpec == Spec /\ Fairness
-----------------------------------------------------------------------------
Registering == \E t \in Switches : pc[t] \in {"register", "write"}

\* Whatever requests and ticks overlap, once no handler is between naming its
\* exchange and registering it, feed_instances names current_exchange_.
RowIsCurrent == db /\ ~Registering => row = current

\* Once no handler is under way, the exchange that the last request named is one the
\* collector shows as connected.
CurrentIsShown ==
  (\A t \in Switches : pc[t] \notin InHandler) /\ (\E t \in Switches : pc[t] # "idle")
    => current \in shown

\* The adapter others find in adapter_ is one that no request has stopped.
PublishedNotStopped == slot \notin stopped

\* run() executes on an object that is there, and an exchange's thread calls back
\* into an object that is not gone: its destructor has joined it.
AdapterOutlivesItsThreads ==
  /\ \A t \in Threads : pc[t] \in InRun => alive[mine[t]] = "live"
  /\ \A a \in Adapters : feed[a] \in {"running", "touching"} => alive[a] \in {"live", "dying"}

LifeOf(a) ==
  CASE alive[a] = "freed" -> "gone"
    [] alive[a] = "dying" -> "dying"
    [] alive[a] \in {"none", "live"} /\ a \notin opened -> "new"
    [] OTHER -> IF \E t \in Threads : pc[t] = "subscribe" /\ mine[t] = a
                  THEN "connected" ELSE "idle"

FeedOf(a) == IF feed[a] = "touching" THEN "running" ELSE feed[a]

Feed(a) == INSTANCE WebsocketFeed WITH life <- LifeOf(a), link <- link[a], feed <- FeedOf(a)

\* Requests, destructors, ticks and shutdown use every websocket exchange by the order
\* that module WebsocketFeed has, and see nothing of it that the module does not have,
\* until a second connect() ends the program (eadapter.cpp:58-127).
FeedsUsedInOrder ==
  /\ \A a \in Adapters : Feed(a)!Init
  /\ [][\A a \in Adapters : up' /\ type[a] \in Websockets =>
         [Feed(a)!Next]_<<LifeOf(a), link[a], FeedOf(a)>>]_vars

\* "Runtime exchange switching without downtime": a handler under way, which still
\* has to report the new exchange, does not wait for a mutex that nobody releases.
HandlerGetsThrough == stuck => \A t \in Switches : pc[t] \notin InHandler

\* switch_exchange changes the exchange being used: the one that an adapter was
\* stopped for does not feed any longer.
ReplacedFeedEnds ==
  \A a \in Adapters : (a \in stopped) ~> (feed[a] \in {"none", "ended"} \/ ~up)
=============================================================================
