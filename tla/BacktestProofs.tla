---------------------------- MODULE BacktestProofs ----------------------------
(***************************************************************************)
(* For any number of replays and rows: a replay that nobody disturbs is    *)
(* whole, and the row of the instance does not stay as connected.          *)
(***************************************************************************)
EXTENDS Backtest, TLAPS

\* A thread that runs an adapter has read adapter_, and only a request that has made
\* its adapter has a thread.
Entered ==
  \A t \in Replays :
    /\ thread[t] \in {"none", "enter"} => this[t] = None
    /\ thread[t] \in {"connect", "query", "exec", "rows"} => this[t] \in Replays
    /\ request[t] \in {"idle", "stop", "free", "mark", "make"} => thread[t] = "none"

TypeInv == BacktestTypeOK /\ Entered

-----------------------------------------------------------------------------
(* Types.                                                                  *)

\* A write of the row keeps the types of row and database.
LEMMA RowTyped ==
  ASSUME BacktestTypeOK, NEW s \in {"connected", "disconnected"}, SetFeedStatus(s)
  PROVE  row' \in {"none", "connected", "disconnected"} /\ db' \in BOOLEAN
BY DEF BacktestTypeOK, SetFeedStatus

\* The initial state is typed.
LEMMA TypeInit == Init => TypeInv
BY BacktestAssumption DEF Init, TypeInv, BacktestTypeOK, Entered

\* Stopping and freeing the adapter keep the types.
LEMMA AdapterTyped ==
  ASSUME BacktestTypeOK, StopAdapter \/ FreeAdapter
  PROVE  /\ slot' \in Replays \cup {None}
         /\ alive' \in [Replays -> {"none", "live", "freed"}]
         /\ running' \in [Replays -> BOOLEAN]
         /\ conn' \in [Replays -> Replays \cup {None}]
         /\ disturbed' \in SUBSET Replays
BY DEF BacktestTypeOK, StopAdapter, FreeAdapter, Started

\* The steps of a request and of main keep the types.
LEMMA HandlerTyped ==
  ASSUME TypeInv, MainStops \/ \E r \in Replays : Handler(r) \/ Arrives(r)
  PROVE  TypeInv'
<1> USE DEF TypeInv, BacktestTypeOK, InStart, InThread, adapterVars, threadVars, requestVars, rowVars
<1>1. ASSUME NEW r \in Replays, Arrives(r) PROVE TypeInv'
  BY <1>1 DEF Arrives, Begin, Entered, Started
<1>2. ASSUME NEW r \in Replays, Handler(r) PROVE TypeInv'
  <2>1. CASE StopOld(r) /\ UNCHANGED up
    BY <2>1, AdapterTyped DEF StopOld, Entered
  <2>2. CASE FreeOld(r) /\ UNCHANGED up
    BY <2>2, AdapterTyped DEF FreeOld, Entered
  <2>3. CASE Mark(r) /\ UNCHANGED up
    BY <2>3, RowTyped DEF Mark, Entered
  <2>4. CASE Make(r) /\ UNCHANGED up
    BY <2>4 DEF Make, Entered
  <2>5. CASE Unmark(r) /\ UNCHANGED up
    BY <2>5, RowTyped DEF Unmark, Entered
  <2> QED
    BY <1>2, <2>1, <2>2, <2>3, <2>4, <2>5 DEF Handler
<1>3. CASE MainStops
  BY <1>3, AdapterTyped DEF MainStops, Close, CloseFree, Entered
<1> QED
  BY <1>1, <1>2, <1>3

\* The steps of a thread keep the types.
LEMMA WorkerTyped ==
  ASSUME TypeInv, NEW t \in Replays, Worker(t)
  PROVE  TypeInv'
<1> USE DEF TypeInv, BacktestTypeOK, InStart, InThread, adapterVars, threadVars, requestVars, rowVars, Goto
<1>1. CASE Enter(t) /\ UNCHANGED up
  BY <1>1 DEF Enter, Entered
<1>2. CASE Connect(t) /\ UNCHANGED up
  <2>1. this[t] \in Replays
    BY <1>2 DEF Connect, Entered
  <2> QED
    BY <1>2, <2>1 DEF Connect, Entered
<1>9. CASE ConnectFails(t) /\ UNCHANGED up
  BY <1>9 DEF ConnectFails, Entered
<1>3. CASE Query(t) /\ UNCHANGED up
  BY <1>3 DEF Query, Entered
<1>4. CASE (Exec(t) \/ ExecFails(t)) /\ UNCHANGED up
  BY <1>4 DEF Exec, ExecFails, Entered
<1>5. CASE Deliver(t) /\ UNCHANGED up
  BY <1>5, BacktestAssumption DEF Deliver, Entered
<1>6. CASE ThreadUnmark(t) /\ UNCHANGED up
  BY <1>6, RowTyped DEF ThreadUnmark, Entered
<1>7. CASE (Tell(t) \/ TellThrows(t)) /\ UNCHANGED up
  BY <1>7 DEF Tell, TellThrows, Entered
<1>8. CASE Dies(t)
  BY <1>8 DEF Dies, Entered
<1> QED
  BY <1>1, <1>2, <1>3, <1>4, <1>5, <1>6, <1>7, <1>8, <1>9 DEF Worker

\* Every step keeps the types.
LEMMA TypeStep == TypeInv /\ [Next]_vars => TypeInv'
<1>1. ASSUME TypeInv, UNCHANGED vars PROVE TypeInv'
  BY <1>1 DEF vars, TypeInv, BacktestTypeOK, Entered, adapterVars, threadVars, requestVars, rowVars
<1> QED
  BY <1>1, HandlerTyped, WorkerTyped DEF Next

\* A replay's state keeps its types whatever requests, threads and main do.
THEOREM BacktestTyped == Spec => []BacktestTypeOK
<1>1. TypeInv => BacktestTypeOK
  BY DEF TypeInv
<1> QED
  BY <1>1, TypeInit, TypeStep, PTL DEF Spec

-----------------------------------------------------------------------------
(* The row.                                                                *)

\* A row that says connected has a request or a thread that is still to write it.
RowInv ==
  db /\ row = "connected" =>
    \E r \in Replays :
      \/ request[r] \in {"make", "unmark"}
      \/ thread[r] \in {"enter", "connect", "query", "exec", "rows", "unmark"}

\* The steps of a request and of main leave a writer behind.
LEMMA HandlerRow ==
  ASSUME TypeInv, RowInv, MainStops \/ \E r \in Replays : Handler(r) \/ Arrives(r)
  PROVE  RowInv'
<1> USE DEF TypeInv, BacktestTypeOK, RowInv, adapterVars, threadVars, requestVars, rowVars
<1>1. ASSUME NEW r \in Replays, Arrives(r) PROVE RowInv'
  BY <1>1 DEF Arrives, Begin
<1>2. ASSUME NEW r \in Replays, Handler(r) PROVE RowInv'
  <2>1. CASE StopOld(r) \/ FreeOld(r)
    BY <2>1 DEF StopOld, FreeOld
  <2>2. CASE Mark(r)
    BY <2>2 DEF Mark
  <2>3. CASE Make(r)
    BY <2>3 DEF Make
  <2>4. CASE Unmark(r)
    BY <2>4 DEF Unmark, SetFeedStatus
  <2> QED
    BY <1>2, <2>1, <2>2, <2>3, <2>4 DEF Handler
<1>3. CASE MainStops
  BY <1>3 DEF MainStops, Close, CloseFree
<1> QED
  BY <1>1, <1>2, <1>3

\* A thread goes on to its own write of the row.
LEMMA WorkerRow ==
  ASSUME TypeInv, RowInv, NEW t \in Replays, Worker(t)
  PROVE  RowInv'
<1> USE DEF TypeInv, BacktestTypeOK, RowInv, adapterVars, threadVars, requestVars, rowVars, Goto
<1>1. CASE Enter(t) \/ Connect(t) \/ ConnectFails(t)
  BY <1>1 DEF Enter, Connect, ConnectFails
<1>2. CASE Query(t) \/ Exec(t) \/ ExecFails(t)
  BY <1>2 DEF Query, Exec, ExecFails
<1>3. CASE Deliver(t)
  BY <1>3 DEF Deliver
<1>4. CASE ThreadUnmark(t)
  BY <1>4 DEF ThreadUnmark, SetFeedStatus
<1>5. CASE Tell(t) \/ TellThrows(t)
  BY <1>5 DEF Tell, TellThrows
<1>6. CASE Dies(t)
  BY <1>6 DEF Dies
<1> QED
  BY <1>1, <1>2, <1>3, <1>4, <1>5, <1>6 DEF Worker

\* Once requests and threads are through, the row is not left as connected.
THEOREM RowEndsDisconnected == Spec => []QuietIsDisconnected
<1>1. Init => RowInv
  BY DEF Init, RowInv
<1>2. ASSUME TypeInv, RowInv, UNCHANGED vars PROVE RowInv'
  BY <1>2 DEF vars, RowInv, adapterVars, threadVars, requestVars, rowVars
<1>3. TypeInv /\ RowInv /\ [Next]_vars => RowInv'
  BY <1>2, HandlerRow, WorkerRow DEF Next
<1>4. TypeInv /\ RowInv => QuietIsDisconnected
  BY DEF TypeInv, BacktestTypeOK, RowInv, QuietIsDisconnected
<1> QED
  BY <1>1, <1>3, <1>4, TypeInit, TypeStep, PTL DEF Spec

-----------------------------------------------------------------------------
(* A replay that is left alone.                                            *)

\* g_adapter_mutex lets one request in, and by then every thread is disturbed.
OneRequest ==
  \A r \in Replays : request[r] \in InStart =>
    /\ Started \subseteq disturbed
    /\ \A s \in Replays : request[s] \in InStart => s = r

\* The adapter of a thread that nobody disturbed is still in adapter_.
Owned == \A t \in Started \ disturbed : slot = t /\ alive[t] = "live"

\* A thread that nobody disturbed has run no adapter but its own request's.
OwnAdapter == \A t \in Replays \ disturbed : this[t] \in {None, t}

\* Only a thread that has ended was told, and as complete only without an error.
Untold ==
  \A t \in Replays :
    /\ told[t] # "none" => thread[t] = "ended"
    /\ told[t] = "complete" => t \notin erring

\* Until its query a replay has the connection that its thread opened, and it comes to
\* its end with every row broadcast, unless it failed.
Follows(t) ==
  /\ thread[t] = "query" => running[t] /\ conn[t] = t
  /\ thread[t] = "exec" => conn[t] = session[t]
  /\ /\ t \notin erring \cup failed
     /\ thread[t] \in {"unmark", "tell"} \/ told[t] = "complete"
     => sent[t] = Rows

Followed == \A t \in Replays : Alone(t) => Follows(t)

\* What the invariant says of requests, owners and ends.
Guarded == OneRequest /\ Owned /\ OwnAdapter /\ Untold

AloneInv == Guarded /\ Followed

\* What the property asks of a replay left alone follows.
LEMMA AloneInvSuffices == TypeInv /\ AloneInv => AloneIsWhole
<1> SUFFICES ASSUME TypeInv, AloneInv, NEW t \in Replays, Alone(t)
             PROVE  /\ this[t] \in {None, t}
                    /\ ~UsesFreed(t)
                    /\ told[t] = "complete" /\ t \notin failed => sent[t] = Rows
  BY DEF AloneIsWhole
<1>1. this[t] \in {None, t}
  BY DEF Alone, AloneInv, Guarded, OwnAdapter
<1>2. thread[t] \in InThread => slot = t /\ alive[t] = "live"
  BY DEF Alone, AloneInv, Guarded, Owned, Started, TypeInv, BacktestTypeOK, InThread
<1>3. thread[t] \in {"connect", "query", "exec", "rows"} => this[t] = t
  BY <1>1, BacktestAssumption DEF TypeInv, Entered
<1>4. ~UsesFreed(t)
  BY <1>2, <1>3, BacktestAssumption DEF UsesFreed, InThread, AloneInv, Followed, Follows
<1>5. told[t] = "complete" /\ t \notin failed => sent[t] = Rows
  BY DEF AloneInv, Guarded, Untold, Followed, Follows
<1> QED
  BY <1>1, <1>4, <1>5

\* The steps of a request keep it: the one that begins disturbs every thread.
LEMMA RequestGuarded ==
  ASSUME TypeInv, Guarded, NEW r \in Replays, Arrives(r) \/ Handler(r)
  PROVE  Guarded'
<1> USE DEF TypeInv, BacktestTypeOK, Guarded, OneRequest, Owned, OwnAdapter, Untold, Started,
            InStart, adapterVars, threadVars, requestVars, rowVars
<1>1. CASE Arrives(r)
  BY <1>1 DEF Arrives, Begin, MutexFree
<1>2. CASE StopOld(r)
  BY <1>2 DEF StopOld, StopAdapter
<1>3. CASE FreeOld(r)
  BY <1>3 DEF FreeOld, FreeAdapter
<1>4. CASE Mark(r) \/ Unmark(r)
  BY <1>4 DEF Mark, Unmark
<1>5. CASE Make(r)
  BY <1>5 DEF Make, Entered
<1> QED
  BY <1>1, <1>2, <1>3, <1>4, <1>5 DEF Handler

\* main stops the adapter when no request is under way, and disturbs every thread.
LEMMA MainGuarded ==
  ASSUME TypeInv, Guarded, MainStops
  PROVE  Guarded'
<1> USE DEF TypeInv, BacktestTypeOK, Guarded, OneRequest, Owned, OwnAdapter, Untold, Started,
            InStart, adapterVars, threadVars, requestVars, rowVars
<1>1. CASE Close
  BY <1>1 DEF Close, StopAdapter, MutexFree
<1>2. CASE CloseFree
  BY <1>2 DEF CloseFree, FreeAdapter
<1> QED
  BY <1>1, <1>2 DEF MainStops

\* A thread takes nothing from the others, and enters the adapter it owns.
LEMMA WorkerGuarded ==
  ASSUME TypeInv, Guarded, NEW t \in Replays, Worker(t)
  PROVE  Guarded'
<1> USE DEF TypeInv, BacktestTypeOK, Guarded, OneRequest, Owned, OwnAdapter, Untold, Started,
            adapterVars, threadVars, requestVars, rowVars, Goto
<1>1. CASE Enter(t)
  BY <1>1 DEF Enter
<1>2. CASE Connect(t) \/ ConnectFails(t)
  BY <1>2 DEF Connect, ConnectFails
<1>3. CASE Query(t) \/ Exec(t) \/ ExecFails(t)
  BY <1>3 DEF Query, Exec, ExecFails
<1>4. CASE Deliver(t) \/ ThreadUnmark(t)
  BY <1>4 DEF Deliver, ThreadUnmark
<1>5. CASE Tell(t) \/ TellThrows(t)
  BY <1>5 DEF Tell, TellThrows
<1>6. CASE Dies(t)
  BY <1>6 DEF Dies
<1> QED
  BY <1>1, <1>2, <1>3, <1>4, <1>5, <1>6 DEF Worker

\* Nobody is left alone again: disturbed grows, and a thread reads adapter_ once.
LEMMA AloneBefore ==
  ASSUME TypeInv, Next, NEW a \in Replays, Alone(a)'
  PROVE  Alone(a)
<1> USE DEF TypeInv, BacktestTypeOK, Alone, adapterVars, threadVars, requestVars, rowVars, Goto
<1>1. ASSUME NEW r \in Replays, Arrives(r) \/ Handler(r) PROVE Alone(a)
  BY <1>1 DEF Arrives, Begin, Handler, StopOld, StopAdapter, FreeOld, FreeAdapter, Mark, Make, Unmark
<1>2. CASE MainStops
  BY <1>2 DEF MainStops, Close, CloseFree, StopAdapter, FreeAdapter
<1>3. ASSUME NEW t \in Replays, Worker(t) PROVE Alone(a)
  <2>1. CASE Enter(t)
    BY <2>1, BacktestAssumption DEF Enter, Entered
  <2>2. CASE ~Enter(t)
    BY <1>3, <2>2 DEF Worker, Connect, ConnectFails, Query, Exec, ExecFails, Deliver,
                      ThreadUnmark, Tell, TellThrows, Dies
  <2> QED
    BY <2>1, <2>2
<1> QED
  BY <1>1, <1>2, <1>3 DEF Next

\* The steps of a request and of main touch no adapter of a replay left alone.
LEMMA HandlerFollowed ==
  ASSUME TypeInv, AloneInv, Next, MainStops \/ \E r \in Replays : Arrives(r) \/ Handler(r)
  PROVE  Followed'
<1> SUFFICES ASSUME NEW a \in Replays, Alone(a)' PROVE Follows(a)'
  BY DEF Followed
<1>1. Follows(a) /\ a \notin disturbed'
  BY AloneBefore DEF Alone, AloneInv, Followed
<1> USE <1>1 DEF TypeInv, BacktestTypeOK, Entered, Follows, Started, InThread, adapterVars, threadVars,
                 requestVars, rowVars
<1>2. ASSUME NEW r \in Replays, Arrives(r) \/ Handler(r) PROVE Follows(a)'
  <2>1. CASE Arrives(r) \/ Mark(r) \/ Unmark(r)
    BY <2>1 DEF Arrives, Begin, Mark, Unmark
  <2>2. CASE StopOld(r)
    BY <2>2 DEF StopOld, StopAdapter
  <2>3. CASE FreeOld(r)
    BY <2>3 DEF FreeOld, FreeAdapter
  <2>4. CASE Make(r)
    BY <2>4 DEF Make
  <2> QED
    BY <1>2, <2>1, <2>2, <2>3, <2>4 DEF Handler
<1>3. CASE MainStops
  BY <1>3 DEF MainStops, Close, CloseFree, StopAdapter, FreeAdapter
<1> QED
  BY <1>2, <1>3

\* A thread of its own takes a replay left alone from its connection to its last row;
\* the others run other adapters.
LEMMA WorkerFollowed ==
  ASSUME TypeInv, AloneInv, Next, NEW t \in Replays, Worker(t)
  PROVE  Followed'
<1> SUFFICES ASSUME NEW a \in Replays, Alone(a)' PROVE Follows(a)'
  BY DEF Followed
<1>1. Follows(a) /\ a \notin disturbed'
  BY AloneBefore DEF Alone, AloneInv, Followed
<1>2. \A o \in Replays : o # a => this'[o] # a
  BY DEF Alone
<1>3. this[a] \in {None, a}
  BY AloneBefore DEF Alone, AloneInv, Guarded, OwnAdapter
<1> USE <1>1 DEF TypeInv, BacktestTypeOK, Follows, adapterVars, threadVars, requestVars, rowVars, Goto
<1>4. CASE Enter(t)
  BY <1>4, BacktestAssumption DEF Enter, Entered
<1>5. CASE Connect(t)
  BY <1>5, <1>2, <1>3, BacktestAssumption DEF Connect, Entered
<1>6. CASE ConnectFails(t) \/ ExecFails(t)
  BY <1>6 DEF ConnectFails, ExecFails
<1>7. CASE Query(t)
  BY <1>7, <1>3, BacktestAssumption DEF Query, Entered
<1>8. CASE Exec(t)
  BY <1>8 DEF Exec
<1>9. CASE Deliver(t)
  BY <1>9, BacktestAssumption DEF Deliver
<1>10. CASE ThreadUnmark(t)
  BY <1>10 DEF ThreadUnmark
<1>11. CASE Tell(t)
  BY <1>11 DEF Tell
<1>12. CASE TellThrows(t)
  BY <1>12 DEF TellThrows
<1>13. CASE Dies(t)
  BY <1>13 DEF Dies
<1> QED
  BY <1>4, <1>5, <1>6, <1>7, <1>8, <1>9, <1>10, <1>11, <1>12, <1>13 DEF Worker

\* A replay that nobody disturbs runs its own adapter, uses nothing that is freed and
\* broadcasts all its rows.
THEOREM AloneReplayIsWhole == Spec => []AloneIsWhole
<1>1. Init => AloneInv
  BY BacktestAssumption DEF Init, AloneInv, Guarded, OneRequest, Owned, OwnAdapter, Untold, Followed,
                            Follows, Started, InStart
<1>2. ASSUME TypeInv, AloneInv, UNCHANGED vars PROVE AloneInv'
  BY <1>2 DEF vars, adapterVars, threadVars, requestVars, rowVars, AloneInv, Guarded, OneRequest, Owned,
              OwnAdapter, Untold, Followed, Follows, Started, Alone
<1>3. TypeInv /\ AloneInv /\ [Next]_vars => AloneInv'
  BY <1>2, RequestGuarded, MainGuarded, WorkerGuarded, HandlerFollowed, WorkerFollowed
     DEF Next, AloneInv
<1> QED
  BY <1>1, <1>3, AloneInvSuffices, TypeInit, TypeStep, PTL DEF Spec
=============================================================================
