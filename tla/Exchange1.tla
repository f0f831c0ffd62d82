------------------------------- MODULE Exchange1 -------------------------------
(***************************************************************************)
(* broker/src/exchange/exchange1.cpp: the websocket exchange.  The thread  *)
(* inside EAdapter::run() calls connect() and subscribe(), which starts    *)
(* the reader; whichever thread drops the adapter runs the destructor.     *)
(* The reader holds ws_mutex_ for as long as a read blocks, rebuilds the   *)
(* stream under it after a failure, and reconnects without it.             *)
(*                                                                         *)
(* The io_context has no asynchronous work, so io_thread_ ends by itself   *)
(* and joining it never waits; what is left of it is that it was started.  *)
(* Time is what the reader sleeps: delay counts its seconds.               *)
(***************************************************************************)
EXTENDS Integers

CONSTANTS MaxDelay,   \* the longest pause between two attempts, 30 s
          MaxFaults   \* bound: failures of the network, the peer or a callback

ASSUME Exchange1Assumption == MaxDelay \in Nat \ {0} /\ MaxFaults \in Nat

VARIABLES
  owner,      \* where the calls of the owner are, "gone" after the destructor
  reader,     \* reader_thread_: a program counter, "none" before it is started
  running,    \* running_
  connected,  \* connected_
  wsMutex,    \* the reader reads with ws_mutex_ held
  stream,     \* ws_: "closed" or new, "open", "broken" by the peer
  sub,        \* SUBSCRIBE was written to this connection
  delay,      \* reconnect_delay
  attempt,    \* reconnect_attempt
  faults      \* what is left of MaxFaults

flagVars == <<running, connected>>
streamVars == <<stream, sub>>
backoffVars == <<delay, attempt>>
vars == <<owner, reader, flagVars, wsMutex, streamVars, backoffVars, faults>>

Destroying == owner \in {"clear", "close", "join", "gone"}

ExchangeTypes ==
  /\ owner \in {"new", "connected", "idle", "clear", "close", "join", "gone"}
  /\ reader \in {"none", "head", "check", "rebuild", "restart", "connect", "resubscribe",
                 "read", "reading", "ended"}
  /\ running \in BOOLEAN
  /\ connected \in BOOLEAN
  /\ wsMutex \in BOOLEAN
  /\ stream \in {"closed", "open", "broken"}
  /\ sub \in BOOLEAN
  /\ delay \in 1..MaxDelay
  /\ attempt \in Nat
  /\ faults \in 0..MaxFaults

\* A connection that was made has put the back-off where it started.
BackoffStartsOver == connected \/ owner = "new" => delay = 1 /\ attempt = 0

\* The state keeps its types, the pause between 1 s and its maximum, and goes back to 1 s
\* with each success, over any sequence of failures (exchange1.cpp:236-266).
ExchangeTypeOK == ExchangeTypes /\ BackoffStartsOver

Init ==
  /\ owner = "new"
  /\ reader = "none"
  /\ running = FALSE
  /\ connected = FALSE
  /\ wsMutex = FALSE
  /\ stream = "closed"
  /\ sub = FALSE
  /\ delay = 1
  /\ attempt = 0
  /\ faults = MaxFaults

Fault == faults > 0 /\ faults' = faults - 1

OwnerAt(from, to) == owner = from /\ owner' = to
ReaderAt(from, to) == reader = from /\ reader' = to
-----------------------------------------------------------------------------
(* The owner *)

\* perform_connect() throws or not; connect() returns all the same.
Connect ==
  /\ OwnerAt("new", "connected")
  /\ running' = TRUE
  /\ \/ connected' = TRUE /\ stream' = "open" /\ UNCHANGED faults
     \/ connected' = FALSE /\ Fault /\ UNCHANGED stream
  /\ UNCHANGED <<reader, wsMutex, sub, backoffVars>>

\* Without a connection subscribe() returns before it starts the reader.
SubscribeUnconnected ==
  /\ OwnerAt("connected", "idle")
  /\ ~connected
  /\ UNCHANGED <<reader, flagVars, wsMutex, streamVars, backoffVars, faults>>

\* A failed write is caught, and so is whatever the read of the answer throws.
Subscribe ==
  /\ OwnerAt("connected", "idle")
  /\ connected
  /\ reader' = "head"
  /\ \/ stream = "open" /\ sub' = TRUE /\ UNCHANGED <<stream, faults>>
     \/ stream = "broken" /\ UNCHANGED <<streamVars, faults>>
     \/ stream = "open" /\ stream' = "broken" /\ Fault /\ UNCHANGED sub
  /\ UNCHANGED <<flagVars, wsMutex, backoffVars>>

\* The destructor, also of an exchange that was never run.
Destroy ==
  /\ owner \in {"new", "idle"}
  /\ owner' = "clear"
  /\ running' = FALSE
  /\ UNCHANGED <<reader, connected, wsMutex, streamVars, backoffVars, faults>>

ClearConnected ==
  /\ OwnerAt("clear", "close")
  /\ connected' = FALSE
  /\ UNCHANGED <<reader, running, wsMutex, streamVars, backoffVars, faults>>

CloseStream ==
  /\ OwnerAt("close", "join")
  /\ ~wsMutex
  /\ stream' = "closed"
  /\ UNCHANGED <<reader, flagVars, wsMutex, sub, backoffVars, faults>>

\* Mutant: the destructor does not wait for the reader.
JoinIoOnly ==
  /\ OwnerAt("join", "gone")
  /\ UNCHANGED <<reader, flagVars, wsMutex, streamVars, backoffVars, faults>>

JoinReader ==
  /\ OwnerAt("join", "gone")
  /\ reader \in {"none", "ended"}
  /\ UNCHANGED <<reader, flagVars, wsMutex, streamVars, backoffVars, faults>>
-----------------------------------------------------------------------------
(* read_loop *)

Head ==
  /\ ReaderAt("head", IF running THEN "check" ELSE "ended")
  /\ UNCHANGED <<owner, flagVars, wsMutex, streamVars, backoffVars, faults>>

CheckConnected ==
  /\ ReaderAt("check", "read")
  /\ connected
  /\ UNCHANGED <<owner, flagVars, wsMutex, streamVars, backoffVars, faults>>

\* The pause is the delay before it is doubled.
Backoff ==
  /\ ReaderAt("check", "rebuild")
  /\ ~connected
  /\ attempt' = attempt + 1
  /\ delay' = IF 2 * delay < MaxDelay THEN 2 * delay ELSE MaxDelay
  /\ UNCHANGED <<owner, flagVars, wsMutex, streamVars, faults>>

\* The old stream is closed and destroyed and a new one made in its place.
Rebuild ==
  /\ ReaderAt("rebuild", "restart")
  /\ ~wsMutex
  /\ stream' = "closed"
  /\ sub' = FALSE
  /\ UNCHANGED <<owner, flagVars, wsMutex, backoffVars, faults>>

\* running_ is set whatever the destructor has made of it.
Restart ==
  /\ ReaderAt("restart", "connect")
  /\ running' = TRUE
  /\ UNCHANGED <<owner, connected, wsMutex, streamVars, backoffVars, faults>>

\* Mutant: a success leaves the pause as it is.
ReconnectKeepsDelay ==
  /\ ReaderAt("connect", "resubscribe")
  /\ connected' = TRUE
  /\ stream' = "open"
  /\ attempt' = 0
  /\ UNCHANGED <<owner, running, wsMutex, sub, delay, faults>>

Reconnect ==
  /\ ReaderAt("connect", "resubscribe")
  /\ connected' = TRUE
  /\ stream' = "open"
  /\ delay' = 1
  /\ attempt' = 0
  /\ UNCHANGED <<owner, running, wsMutex, sub, faults>>

ReconnectFails ==
  /\ ReaderAt("connect", "head")
  /\ connected' = FALSE
  /\ Fault
  /\ UNCHANGED <<owner, running, wsMutex, streamVars, backoffVars>>

\* Mutant: the new connection reads without having subscribed.
ResubscribeNothing ==
  /\ ReaderAt("resubscribe", "read")
  /\ UNCHANGED <<owner, flagVars, wsMutex, streamVars, backoffVars, faults>>

\* What the read of the answer throws is swallowed.
Resubscribe ==
  /\ ReaderAt("resubscribe", "read")
  /\ stream = "open"
  /\ sub' = TRUE
  /\ UNCHANGED <<owner, flagVars, wsMutex, stream, backoffVars, faults>>

ResubscribeFails ==
  /\ ReaderAt("resubscribe", "head")
  /\ connected' = FALSE
  /\ \/ stream # "open" /\ UNCHANGED <<stream, faults>>
     \/ stream = "open" /\ stream' = "broken" /\ Fault
  /\ UNCHANGED <<owner, running, wsMutex, sub, backoffVars>>

LockAndRead ==
  /\ ReaderAt("read", "reading")
  /\ ~wsMutex
  /\ wsMutex' = TRUE
  /\ UNCHANGED <<owner, flagVars, streamVars, backoffVars, faults>>

\* A ticker, whose callback is made under the mutex, an answer or anything else.
ReadMessage ==
  /\ ReaderAt("reading", "head")
  /\ stream = "open"
  /\ sub
  /\ wsMutex' = FALSE
  /\ UNCHANGED <<owner, flagVars, streamVars, backoffVars, faults>>

ReadThrows ==
  /\ ReaderAt("reading", "head")
  /\ stream # "open"
  /\ connected' = FALSE
  /\ wsMutex' = FALSE
  /\ UNCHANGED <<owner, running, streamVars, backoffVars, faults>>

\* An exception of the parsing or of the callback gives up a good connection.
MessageThrows ==
  /\ ReaderAt("reading", "head")
  /\ stream = "open"
  /\ Fault
  /\ connected' = FALSE
  /\ wsMutex' = FALSE
  /\ UNCHANGED <<owner, running, streamVars, backoffVars>>
-----------------------------------------------------------------------------
PeerBreaks ==
  /\ stream = "open"
  /\ stream' = "broken"
  /\ Fault
  /\ UNCHANGED <<owner, reader, flagVars, wsMutex, sub, backoffVars>>

Owner ==
  \/ Connect \/ SubscribeUnconnected \/ Subscribe
  \/ ClearConnected \/ CloseStream \/ JoinReader

Reader ==
  \/ Head \/ CheckConnected \/ Backoff \/ Rebuild \/ Restart
  \/ Reconnect \/ ReconnectFails \/ Resubscribe \/ ResubscribeFails
  \/ LockAndRead \/ ReadThrows

Next == Owner \/ Destroy \/ Reader \/ ReadMessage \/ MessageThrows \/ PeerBreaks

Spec == Init /\ [][Next]_vars

\* The threads run, and a read of a stream that has ended returns.  Nobody owes a
\* message, and an attempt to connect fails only with a fault.
FairSpec == Spec /\ WF_vars(Owner) /\ WF_vars(Reader)
-----------------------------------------------------------------------------
\* The reader gives up for the destructor only, whatever it reads or fails at.
ReaderEndsForDestructor == reader = "ended" => Destroying

\* After the destructor nothing of the exchange runs or holds its mutex.
GoneIsQuiet == owner = "gone" => reader \in {"none", "ended"} /\ ~wsMutex

\* The exchange is what live_source takes it for: its reader ends for the destructor,
\* which waits for it, and its owner's calls come in their order (exchange1.cpp:18-31).
LifeOf ==
  CASE owner \in {"new", "connected", "idle", "gone"} -> owner
    [] OTHER -> "dying"
FeedOf ==
  CASE reader \in {"none", "ended"} -> reader
    [] OTHER -> "running"

Feed == INSTANCE WebsocketFeed WITH life <- LifeOf, link <- running, feed <- FeedOf

FeedSpec == Feed!Spec

\* Once the reader runs, a lost connection is replaced by one that is subscribed.
FeedResumes ==
  (reader \notin {"none", "ended"} /\ ~(stream = "open" /\ sub))
    ~> ((stream = "open" /\ sub) \/ Destroying)

\* "Initial connect failed, reader will retry": a connection comes about in the end.
FailedConnectIsRetried == (owner = "idle" /\ ~connected) ~> (connected \/ Destroying)
=============================================================================
