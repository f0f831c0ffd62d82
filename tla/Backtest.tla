------------------------------- MODULE Backtest -------------------------------
(***************************************************************************)
(* backtest_source/backtest_source.{h,cpp} and the DAdapter it drives      *)
(* (adapters/dadapter/dadapter.cpp).  A client's start_replay, handled on  *)
(* a pool thread under g_adapter_mutex, stops and frees the adapter of the *)
(* replay before it, marks the feed_instances row, makes a new adapter and *)
(* leaves it to a detached thread.  The thread reads adapter_ itself, when *)
(* it gets there, and nothing waits for it: a second start_replay or       *)
(* main's stop_replay() takes the adapter from under it.                   *)
(*                                                                         *)
(* A request, the thread it detaches and the adapter it makes have one     *)
(* name.  A use of an adapter, or of a connection, that another thread has *)
(* destroyed is undefined: the process dies or the use works as before.    *)
(***************************************************************************)
EXTENDS Naturals

CONSTANTS Replays,       \* start_replay requests
          None,
          Rows           \* bound: the rows of market_data a replay selects

ASSUME BacktestAssumption ==
  /\ None \notin Replays
  /\ Rows \in Nat

VARIABLES
  request,    \* where a request is in start_replay()
  slot,       \* adapter_
  alive,      \* an adapter: "none" yet, "live", "freed"
  running,    \* DAdapter::running_
  conn,       \* DAdapter::conn_: the thread whose connect opened it, or None
  thread,     \* where the thread of a request is
  this,       \* the adapter whose run() a thread is in
  session,    \* the connection a thread's transaction is on
  sent,       \* rows a thread has broadcast
  failed,     \* threads whose query or a broadcast in it failed and was swallowed
  erring,     \* threads in the catch block
  told,       \* what a thread broadcast as backtest_complete
  disturbed,  \* threads whose replay a later request or main stopped
  row,        \* feed_status of this instance's row, "none" if there is none
  db,         \* FALSE once the connection of the SAdapter is lost
  closing,    \* main: "no", "stopping" in stop_replay(), "stopped"
  up          \* FALSE once the process died

requestVars == <<request, disturbed>>
adapterVars == <<slot, alive, running, conn>>
threadVars == <<thread, this, session, sent, failed, erring, told>>
rowVars == <<row, db>>
vars == <<requestVars, adapterVars, threadVars, rowVars, closing, up>>

InStart == {"stop", "free", "mark", "make", "unmark"}
InThread == {"enter", "connect", "query", "exec", "rows", "unmark", "tell"}

BacktestTypeOK ==
  /\ request \in [Replays -> {"idle", "done"} \cup InStart]
  /\ slot \in Replays \cup {None}
  /\ alive \in [Replays -> {"none", "live", "freed"}]
  /\ running \in [Replays -> BOOLEAN]
  /\ conn \in [Replays -> Replays \cup {None}]
  /\ thread \in [Replays -> {"none", "ended"} \cup InThread]
  /\ this \in [Replays -> Replays \cup {None}]
  /\ session \in [Replays -> Replays \cup {None}]
  /\ sent \in [Replays -> 0..Rows]
  /\ failed \in SUBSET Replays
  /\ erring \in SUBSET Replays
  /\ told \in [Replays -> {"none", "complete", "error"}]
  /\ disturbed \in SUBSET Replays
  /\ row \in {"none", "connected", "disconnected"}
  /\ db \in BOOLEAN
  /\ closing \in {"no", "stopping", "stopped"}
  /\ up \in BOOLEAN

Init ==
  /\ request = [r \in Replays |-> "idle"]
  /\ slot = None
  /\ alive = [r \in Replays |-> "none"]
  /\ running = [r \in Replays |-> FALSE]
  /\ conn = [r \in Replays |-> None]
  /\ thread = [r \in Replays |-> "none"]
  /\ this = [r \in Replays |-> None]
  /\ session = [r \in Replays |-> None]
  /\ sent = [r \in Replays |-> 0]
  /\ failed = {}
  /\ erring = {}
  /\ told = [r \in Replays |-> "none"]
  /\ disturbed = {}
  /\ row \in {"none", "disconnected"}
  /\ db \in BOOLEAN
  /\ closing = "no"
  /\ up = TRUE

-----------------------------------------------------------------------------
(* The feed_instances row.  get and update or create are under db_mutex_,  *)
(* which every writer of this row takes.                                   *)

\* A lost connection is met in a call: nothing is written, then or later.
SetFeedStatus(status) ==
  \/ /\ db
     /\ row' = status
     /\ UNCHANGED db
  \/ /\ db' = FALSE
     /\ UNCHANGED row

-----------------------------------------------------------------------------
(* start_replay() and stop_replay().                                       *)

\* g_adapter_mutex: one request at a time, and none once the pool is joined.
MutexFree == \A r \in Replays : request[r] \notin InStart

Started == {r \in Replays : thread[r] \notin {"none", "ended"}}

\* adapter_->stop(): worker_thread_ was never started.
StopAdapter ==
  /\ running' = [running EXCEPT ![slot] = FALSE]
  /\ conn' = [conn EXCEPT ![slot] = None]
  /\ disturbed' = disturbed \cup Started
  /\ UNCHANGED <<slot, alive>>

\* adapter_.reset()
FreeAdapter ==
  /\ alive' = [alive EXCEPT ![slot] = "freed"]
  /\ conn' = [conn EXCEPT ![slot] = None]
  /\ slot' = None
  /\ disturbed' = disturbed \cup Started
  /\ UNCHANGED running

\* Mutant: start_replay() called without g_adapter_mutex.
BeginUnlocked(r) ==
  /\ request[r] = "idle"
  /\ closing = "no"
  /\ request' = [request EXCEPT ![r] = IF slot = None THEN "mark" ELSE "stop"]
  /\ disturbed' = disturbed \cup Started
  /\ UNCHANGED <<adapterVars, threadVars, rowVars, closing>>

Begin(r) ==
  /\ request[r] = "idle"
  /\ closing = "no"
  /\ MutexFree
  /\ request' = [request EXCEPT ![r] = IF slot = None THEN "mark" ELSE "stop"]
  /\ disturbed' = disturbed \cup Started
  /\ UNCHANGED <<adapterVars, threadVars, rowVars, closing>>

StopOld(r) ==
  /\ request[r] = "stop"
  /\ StopAdapter
  /\ request' = [request EXCEPT ![r] = "free"]
  /\ UNCHANGED <<threadVars, rowVars, closing>>

FreeOld(r) ==
  /\ request[r] = "free"
  /\ FreeAdapter
  /\ request' = [request EXCEPT ![r] = "mark"]
  /\ UNCHANGED <<threadVars, rowVars, closing>>

Mark(r) ==
  /\ request[r] = "mark"
  /\ SetFeedStatus("connected")
  /\ request' = [request EXCEPT ![r] = "make"]
  /\ UNCHANGED <<disturbed, adapterVars, threadVars, closing>>

\* No thread is left when std::thread throws; adapter_ then stays set.
Make(r) ==
  /\ request[r] = "make"
  /\ slot' = r
  /\ alive' = [alive EXCEPT ![r] = "live"]
  /\ \/ /\ thread' = [thread EXCEPT ![r] = "enter"]
        /\ request' = [request EXCEPT ![r] = "done"]
     \/ /\ request' = [request EXCEPT ![r] = "unmark"]
        /\ UNCHANGED thread
  /\ UNCHANGED <<disturbed, running, conn, this, session, sent, failed, erring, told, rowVars, closing>>

Unmark(r) ==
  /\ request[r] = "unmark"
  /\ SetFeedStatus("disconnected")
  /\ request' = [request EXCEPT ![r] = "done"]
  /\ UNCHANGED <<disturbed, adapterVars, threadVars, closing>>

\* main has joined the pool: no request is under way and none will come.
Close ==
  /\ closing = "no"
  /\ MutexFree
  /\ \/ /\ slot = None
        /\ closing' = "stopped"
        /\ UNCHANGED <<adapterVars, disturbed>>
     \/ /\ slot # None
        /\ closing' = "stopping"
        /\ StopAdapter
  /\ UNCHANGED <<request, threadVars, rowVars>>

CloseFree ==
  /\ closing = "stopping"
  /\ FreeAdapter
  /\ closing' = "stopped"
  /\ UNCHANGED <<request, threadVars, rowVars>>

-----------------------------------------------------------------------------
(* The detached thread.                                                    *)

Goto(t, pc) == thread' = [thread EXCEPT ![t] = pc]

\* adapter_->run(): the adapter_ of now, not the one the request made.
Enter(t) ==
  /\ thread[t] = "enter"
  /\ slot # None
  /\ this' = [this EXCEPT ![t] = slot]
  /\ Goto(t, "connect")
  /\ UNCHANGED <<requestVars, adapterVars, session, sent, failed, erring, told, rowVars, closing>>

Connect(t) ==
  /\ thread[t] = "connect"
  /\ conn' = [conn EXCEPT ![this[t]] = t]
  /\ running' = [running EXCEPT ![this[t]] = TRUE]
  /\ Goto(t, "query")
  /\ UNCHANGED <<requestVars, slot, alive, this, session, sent, failed, erring, told, rowVars, closing>>

\* connect_to_database() throws out of run().
ConnectFails(t) ==
  /\ thread[t] = "connect"
  /\ erring' = erring \cup {t}
  /\ Goto(t, "unmark")
  /\ UNCHANGED <<requestVars, adapterVars, this, session, sent, failed, told, rowVars, closing>>

\* Nothing is queried when the loop finds running_ cleared or conn_ gone.
Query(t) ==
  /\ thread[t] = "query"
  /\ IF running[this[t]] /\ conn[this[t]] # None
       THEN /\ session' = [session EXCEPT ![t] = conn[this[t]]]
            /\ Goto(t, "exec")
       ELSE /\ Goto(t, "unmark")
            /\ UNCHANGED session
  /\ UNCHANGED <<requestVars, adapterVars, this, sent, failed, erring, told, rowVars, closing>>

Exec(t) ==
  /\ thread[t] = "exec"
  /\ Goto(t, "rows")
  /\ UNCHANGED <<requestVars, adapterVars, this, session, sent, failed, erring, told, rowVars, closing>>

\* query_historical_data() swallows a bad date, an SQL error, and what a
\* broadcast of a row throws.
ExecFails(t) ==
  /\ thread[t] \in {"exec", "rows"}
  /\ failed' = failed \cup {t}
  /\ Goto(t, "unmark")
  /\ UNCHANGED <<requestVars, adapterVars, this, session, sent, erring, told, rowVars, closing>>

\* Mutant: a row too many.
DeliverOneMore(t) ==
  /\ thread[t] = "rows"
  /\ IF sent[t] <= Rows
       THEN /\ sent' = [sent EXCEPT ![t] = @ + 1]
            /\ UNCHANGED thread
       ELSE /\ Goto(t, "unmark")
            /\ UNCHANGED sent
  /\ UNCHANGED <<requestVars, adapterVars, this, session, failed, erring, told, rowVars, closing>>

\* external_cb_ is a member of the adapter; running_ is not looked at.
Deliver(t) ==
  /\ thread[t] = "rows"
  /\ IF sent[t] < Rows
       THEN /\ sent' = [sent EXCEPT ![t] = @ + 1]
            /\ UNCHANGED thread
       ELSE /\ Goto(t, "unmark")
            /\ UNCHANGED sent
  /\ UNCHANGED <<requestVars, adapterVars, this, session, failed, erring, told, rowVars, closing>>

\* Mutant: the catch block does not write the row.
ThreadUnmarkNoError(t) ==
  /\ thread[t] = "unmark"
  /\ IF t \in erring THEN UNCHANGED rowVars ELSE SetFeedStatus("disconnected")
  /\ Goto(t, "tell")
  /\ UNCHANGED <<requestVars, adapterVars, this, session, sent, failed, erring, told, closing>>

ThreadUnmark(t) ==
  /\ thread[t] = "unmark"
  /\ SetFeedStatus("disconnected")
  /\ Goto(t, "tell")
  /\ UNCHANGED <<requestVars, adapterVars, this, session, sent, failed, erring, told, closing>>

Tell(t) ==
  /\ thread[t] = "tell"
  /\ told' = [told EXCEPT ![t] = IF t \in erring THEN "error" ELSE "complete"]
  /\ Goto(t, "ended")
  /\ UNCHANGED <<requestVars, adapterVars, this, session, sent, failed, erring, rowVars, closing>>

\* Mutant: the catch block tells nobody.
TellThrowsSilently(t) ==
  /\ thread[t] = "tell"
  /\ t \notin erring
  /\ erring' = erring \cup {t}
  /\ Goto(t, "ended")
  /\ UNCHANGED <<requestVars, adapterVars, this, session, sent, failed, told, rowVars, closing>>

\* What the broadcast throws is caught and told as an error.
TellThrows(t) ==
  /\ thread[t] = "tell"
  /\ t \notin erring
  /\ erring' = erring \cup {t}
  /\ Goto(t, "unmark")
  /\ UNCHANGED <<requestVars, adapterVars, this, session, sent, failed, told, rowVars, closing>>

-----------------------------------------------------------------------------
(* The undefined uses, each of which may end the process, and the throw    *)
(* out of the catch block, which does.                                     *)

UsesFreed(t) ==
  \/ thread[t] = "enter" /\ slot = None
  \/ thread[t] \in {"connect", "query", "exec"} /\ alive[this[t]] = "freed"
  \/ thread[t] = "rows" /\ sent[t] < Rows /\ alive[this[t]] = "freed"
  \/ thread[t] = "exec" /\ conn[this[t]] # session[t]

Dies(t) ==
  /\ UsesFreed(t) \/ (thread[t] = "tell" /\ t \in erring)
  /\ up' = FALSE
  /\ UNCHANGED <<requestVars, adapterVars, threadVars, rowVars, closing>>

Handler(r) ==
  /\ up
  /\ StopOld(r) \/ FreeOld(r) \/ Mark(r) \/ Make(r) \/ Unmark(r)
  /\ UNCHANGED up

Worker(t) ==
  /\ up
  /\ \/ /\ \/ Enter(t) \/ Connect(t) \/ ConnectFails(t) \/ Query(t) \/ Exec(t)
           \/ ExecFails(t) \/ Deliver(t) \/ ThreadUnmark(t) \/ Tell(t) \/ TellThrows(t)
        /\ UNCHANGED up
     \/ Dies(t)

Arrives(r) == up /\ Begin(r) /\ UNCHANGED up

MainStops == up /\ (Close \/ CloseFree) /\ UNCHANGED up

Next ==
  \/ \E r \in Replays : Arrives(r) \/ Handler(r) \/ Worker(r)
  \/ MainStops

Spec == Init /\ [][Next]_vars

\* The pool runs a request to its end and the system runs every thread.
FairSpec ==
  /\ Spec
  /\ \A r \in Replays : WF_vars(Handler(r)) /\ WF_vars(Worker(r))

-----------------------------------------------------------------------------
(* Properties.                                                             *)

\* No later request and no shutdown stopped the replay, and no thread that
\* came late runs its adapter.
Alone(t) == t \notin disturbed /\ \A o \in Replays \ {t} : this[o] # t

\* A replay that is left alone runs the adapter its own request made, never
\* uses what another thread destroyed, and broadcasts every row it selected
\* before it is told as complete, except when the query failed
\* (backtest_source.cpp:106-124, 132-137; dadapter.cpp:134, 178).
AloneIsWhole ==
  \A t \in Replays : Alone(t) =>
    /\ this[t] \in {None, t}
    /\ ~UsesFreed(t)
    /\ told[t] = "complete" /\ t \notin failed => sent[t] = Rows

\* Every start_replay() marks the row as connected; once requests and threads
\* are through, in whatever order they ran, the last status written is
\* disconnected (backtest_source.cpp:80, 109, 116, 127).
QuietIsDisconnected ==
  ( /\ up /\ db
    /\ \A r \in Replays : request[r] \in {"idle", "done"} /\ thread[r] \in {"none", "ended"} )
  => row \in {"none", "disconnected"}

\* The clients of every replay are told its end, unless the process dies of
\* an adapter freed under it (backtest_source.cpp:110-122).
ReplayIsTold ==
  \A t \in Replays : thread[t] = "enter" ~> told[t] # "none" \/ ~up
=============================================================================
