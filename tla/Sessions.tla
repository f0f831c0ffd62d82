------------------------------- MODULE Sessions -------------------------------
(***************************************************************************)
(* server/server.{h,cpp}: the websocket sessions, from the upgrade of a    *)
(* connection to the destruction of the session object, on a pool of       *)
(* io_context threads; the session of the adapter (g_adapter_session under *)
(* g_adapter_mutex); and the publishers that broadcast to the sessions of  *)
(* the registry (module SessionManager).                                   *)
(*                                                                         *)
(* Boost.Asio runs one handler of a strand at a time, in the order they    *)
(* were posted, and any number of strands at once.  io[s] is the read side *)
(* of session s: an armed operation, or the program counter of the         *)
(* on_read handler that its strand is running.  A session object lives as  *)
(* long as something owns it: the operations that are armed or running,    *)
(* the lambdas posted to its strand, g_adapter_session.  When the last     *)
(* owner goes, the thread that dropped it runs the destructor, which first *)
(* takes g_adapter_mutex.  Until it has unregistered the session, others   *)
(* still find its pointer, and shared_from_this() throws on it.            *)
(***************************************************************************)
EXTENDS SessionManager, Sequences, FiniteSets

CONSTANTS NoSession,      \* a null g_adapter_session, a free g_adapter_mutex
          Adapters,       \* the sessions whose peers announce themselves as the adapter
          Keywords,       \* the topics extract_topics knows
          AllWord,        \* the word "all" in a message
          Frames,         \* the messages clients send
          RelayTopics,    \* the topics an adapter's message is relayed to, in order
          MonitorTopics,  \* the topics of the one-second monitor, in order
          FeedTopics,     \* the topics the live and the backtest source publish on
          MaxInputs       \* bound: frames read, ticks and timer expiries in a behaviour

Verbs == {"none", "subscribe", "unsubscribe"}
FrameTypes == {"none", "adapter", "backtest_result", "switch_exchange"}

\* What on_read tells apart in a message: whether it parses as JSON, its "type",
\* the mode and the verb whose substrings it contains, and the topic words in it.
Frame == [json : BOOLEAN, type : FrameTypes, mode : Modes,
          verb : Verbs, words : SUBSET (Keywords \cup {AllWord})]

ASSUME SessionsAssumption ==
  /\ NoSession \notin Sessions
  /\ Adapters \subseteq Sessions
  /\ Keywords \subseteq Topics
  /\ Frames \subseteq Frame
  /\ RelayTopics \in Seq(Topics)
  /\ MonitorTopics \in Seq(Topics)
  /\ FeedTopics \subseteq Topics
  /\ MaxInputs \in Nat

VARIABLES
  stage,     \* the object: "free" memory, in its "ctor", "live"
  peer,      \* "up" until the other end leaves
  io,        \* the read side, see above
  frame,     \* the message the on_read handler works on
  todo,      \* the topics its relay still has to broadcast to
  adapter,   \* g_adapter_session
  mutex,     \* the session whose thread holds g_adapter_mutex
  strand,    \* the messages of the send_message lambdas posted to the strand
  queue,     \* write_queue_
  writing,   \* writing_
  inflight,  \* async_writes started and not completed
  posted,    \* messages posted since the session was made
  received,  \* the number of the last message written to the peer
  monitor,   \* the topics the running monitor handler still has to broadcast to
  up,        \* FALSE once an exception left a handler of the io_context
  inputs     \* what is left of MaxInputs

handlerVars == <<io, frame, todo>>
adapterVars == <<adapter, mutex>>
writeVars == <<queue, writing, inflight, received>>
postVars == <<strand, posted>>
publisherVars == <<monitor, up>>
vars == <<registryVars, stage, peer, handlerVars, adapterVars, postVars, writeVars,
          publisherVars, inputs>>

Waiting == {"none", "accepting", "armed"}
Running == {"register", "destroyOld", "route", "relay", "result", "switch", "text",
            "command", "replay", "subscribe"}

NoFrame == [json |-> FALSE, type |-> "none", mode |-> "unknown",
            verb |-> "none", words |-> {}]

SessionsTypeOK ==
  /\ RegistryTypeOK
  /\ stage \in [Sessions -> {"free", "ctor", "live"}]
  /\ peer \in [Sessions -> {"up", "gone"}]
  /\ io \in [Sessions -> Waiting \cup Running]
  /\ frame \in [Sessions -> Frame]
  /\ todo \in [Sessions -> Seq(Topics)]
  /\ adapter \in Sessions \cup {NoSession}
  /\ mutex \in Sessions \cup {NoSession}
  /\ strand \in [Sessions -> Seq(Nat)]
  /\ queue \in [Sessions -> Seq(Nat)]
  /\ writing \in [Sessions -> BOOLEAN]
  /\ inflight \in [Sessions -> Nat]
  /\ posted \in [Sessions -> Nat]
  /\ received \in [Sessions -> Nat]
  /\ monitor \in Seq(Topics)
  /\ up \in BOOLEAN
  /\ inputs \in 0..MaxInputs

Init ==
  /\ RegistryInit
  /\ stage = [s \in Sessions |-> "free"]
  /\ peer = [s \in Sessions |-> "gone"]
  /\ io = [s \in Sessions |-> "none"]
  /\ frame = [s \in Sessions |-> NoFrame]
  /\ todo = [s \in Sessions |-> <<>>]
  /\ adapter = NoSession
  /\ mutex = NoSession
  /\ strand = [s \in Sessions |-> <<>>]
  /\ queue = [s \in Sessions |-> <<>>]
  /\ writing = [s \in Sessions |-> FALSE]
  /\ inflight = [s \in Sessions |-> 0]
  /\ posted = [s \in Sessions |-> 0]
  /\ received = [s \in Sessions |-> 0]
  /\ monitor = <<>>
  /\ up = TRUE
  /\ inputs = MaxInputs
-----------------------------------------------------------------------------
(* Ownership and sending *)

\* What keeps a session alive beside g_adapter_session.
Pending(s) == io[s] # "none" \/ strand[s] # <<>> \/ inflight[s] > 0

Owned(s) == Pending(s) \/ adapter = s

\* shared_from_this() works on it.
Sendable(s) == stage[s] = "live" /\ Owned(s)

StrandIdle(s) == io[s] \in Waiting

\* copies[s] calls of send_message on each session: each posts a lambda.
Post(copies) ==
  /\ strand' = [s \in Sessions |->
                  strand[s] \o [i \in 1..copies[s] |-> posted[s] + i]]
  /\ posted' = [s \in Sessions |-> posted[s] + copies[s]]

CopyTo(s) == [x \in Sessions |-> IF x = s THEN 1 ELSE 0]

\* The broadcasts: under mutex_, send_message for each pointer of a vector or of
\* the map.  The first pointer that is not Sendable ends it with an exception;
\* which of the others came before it in the vector is left open.
Completes(copies) == \A s \in Sessions : copies[s] > 0 => Sendable(s)

BroadcastCompletes(copies) == Completes(copies) /\ Post(copies)

BroadcastThrows(copies) ==
  /\ ~Completes(copies)
  /\ \E before \in SUBSET {s \in Sessions : copies[s] > 0 /\ Sendable(s)} :
       Post([s \in Sessions |-> IF s \in before THEN copies[s] ELSE 0])

ToTopic(t) == subs[t]
ToAll == [s \in Sessions |-> IF s \in clients THEN 1 ELSE 0]

UseInput == inputs > 0 /\ inputs' = inputs - 1
-----------------------------------------------------------------------------
(* Connection: upgrade, accept, end *)

\* The constructor registers the session before make_shared has made it shared.
Upgrade(s) ==
  /\ stage[s] = "free"
  /\ stage' = [stage EXCEPT ![s] = "ctor"]
  /\ peer' = [peer EXCEPT ![s] = "up"]
  /\ AddClient(s)
  /\ strand' = [strand EXCEPT ![s] = <<>>]
  /\ posted' = [posted EXCEPT ![s] = 0]
  /\ queue' = [queue EXCEPT ![s] = <<>>]
  /\ writing' = [writing EXCEPT ![s] = FALSE]
  /\ inflight' = [inflight EXCEPT ![s] = 0]
  /\ received' = [received EXCEPT ![s] = 0]
  /\ UNCHANGED <<handlerVars, adapterVars, publisherVars, inputs>>

DoAccept(s) ==
  /\ stage[s] = "ctor"
  /\ stage' = [stage EXCEPT ![s] = "live"]
  /\ io' = [io EXCEPT ![s] = "accepting"]
  /\ UNCHANGED <<registryVars, peer, frame, todo, adapterVars, postVars, writeVars,
                 publisherVars, inputs>>

\* on_accept: the first read is armed, or the session's only owner returns.
OnAccept(s) ==
  /\ io[s] = "accepting"
  /\ io' = [io EXCEPT ![s] = IF peer[s] = "up" THEN "armed" ELSE "none"]
  /\ UNCHANGED <<registryVars, stage, peer, frame, todo, adapterVars, postVars, writeVars,
                 publisherVars, inputs>>

PeerLeaves(s) ==
  /\ stage[s] = "live"
  /\ peer[s] = "up"
  /\ peer' = [peer EXCEPT ![s] = "gone"]
  /\ UNCHANGED <<registryVars, stage, handlerVars, adapterVars, postVars, writeVars,
                 publisherVars, inputs>>

\* Mutant: an error arms the read again.
ReadEndsRearmed(s) ==
  /\ io[s] = "armed" /\ peer[s] = "gone"
  /\ UNCHANGED vars

\* on_read with closed or an error: nothing is armed again.
ReadEnds(s) ==
  /\ io[s] = "armed"
  /\ peer[s] = "gone"
  /\ io' = [io EXCEPT ![s] = "none"]
  /\ UNCHANGED <<registryVars, stage, peer, frame, todo, adapterVars, postVars, writeVars,
                 publisherVars, inputs>>

\* Mutant: the destructor unregisters the session, its topics stay.
DestroyKeepsTopics(s) ==
  /\ stage[s] = "live" /\ ~Owned(s) /\ mutex = NoSession
  /\ stage' = [stage EXCEPT ![s] = "free"]
  /\ clients' = clients \ {s}
  /\ UNCHANGED <<topics, mode, subs, peer, handlerVars, adapterVars, postVars, writeVars,
                 publisherVars, inputs>>

\* The destructor, once it holds g_adapter_mutex.
Destroy(s) ==
  /\ stage[s] = "live"
  /\ ~Owned(s)
  /\ mutex = NoSession
  /\ stage' = [stage EXCEPT ![s] = "free"]
  /\ adapter' = IF adapter = s THEN NoSession ELSE adapter
  /\ RemoveClient(s)
  /\ UNCHANGED <<peer, handlerVars, mutex, postVars, writeVars, publisherVars, inputs>>
-----------------------------------------------------------------------------
(* on_read.  Each step is what the handler does between two points at which  *)
(* another thread's step can come between: the acquisition of g_adapter_mutex *)
(* and of the registry's mutex_, once per call.                              *)

Goto(s, pc) == io' = [io EXCEPT ![s] = pc]

\* buffer_.consume() and do_read().
EndHandler(s) ==
  /\ Goto(s, "armed")
  /\ frame' = [frame EXCEPT ![s] = NoFrame]

OnRead(s, f) ==
  /\ io[s] = "armed" /\ peer[s] = "up"
  /\ f.type = "adapter" => s \in Adapters
  /\ UseInput
  /\ frame' = [frame EXCEPT ![s] = f]
  /\ Goto(s, IF ~f.json THEN "text"
             ELSE IF f.type = "adapter" THEN "register" ELSE "route")
  /\ UNCHANGED <<registryVars, stage, peer, todo, adapterVars, postVars, writeVars,
                 publisherVars>>

\* "type": "adapter".  The assignment drops g_adapter_session's reference to the
\* session registered before; if that was its last, its destructor runs here,
\* on this thread, and waits for the mutex this thread holds.
Register(s) ==
  /\ io[s] = "register"
  /\ mutex = NoSession
  /\ adapter' = s
  /\ IF adapter \in Sessions \ {s} /\ ~Pending(adapter)
     THEN mutex' = s /\ Goto(s, "destroyOld") /\ UNCHANGED frame
     ELSE EndHandler(s) /\ UNCHANGED mutex
  /\ UNCHANGED <<registryVars, stage, peer, todo, postVars, writeVars, publisherVars,
                 inputs>>

\* Mutant: the mutex protects the check and not the relay.
RouteCheckThenAct(s) ==
  /\ io[s] = "route"
  /\ mutex = NoSession
  /\ IF adapter = s
     THEN todo' = [todo EXCEPT ![s] = RelayTopics] /\ Goto(s, "relay")
     ELSE Goto(s, "text") /\ UNCHANGED todo
  /\ UNCHANGED <<registryVars, stage, peer, frame, adapterVars, postVars, writeVars,
                 publisherVars, inputs>>

\* Any other JSON message: from the adapter it is relayed under g_adapter_mutex,
\* from a client its "type" decides.
Route(s) ==
  /\ io[s] = "route"
  /\ mutex = NoSession
  /\ IF adapter = s
     THEN /\ mutex' = s
          /\ todo' = [todo EXCEPT ![s] = RelayTopics]
          /\ Goto(s, "relay")
     ELSE /\ Goto(s, CASE frame[s].type = "backtest_result" -> "result"
                       [] frame[s].type = "switch_exchange" -> "switch"
                       [] OTHER -> "text")
          /\ UNCHANGED <<todo, mutex>>
  /\ UNCHANGED <<registryVars, stage, peer, frame, adapter, postVars, writeVars,
                 publisherVars, inputs>>

\* An exception of a broadcast unwinds to catch (...), past the lock_guard, and
\* the message is handled as text.
Relay(s) ==
  /\ io[s] = "relay"
  /\ \/ /\ todo[s] # <<>>
        /\ BroadcastCompletes(ToTopic(Head(todo[s])))
        /\ todo' = [todo EXCEPT ![s] = Tail(@)]
        /\ UNCHANGED <<io, frame, mutex>>
     \/ /\ todo[s] # <<>>
        /\ BroadcastThrows(ToTopic(Head(todo[s])))
        /\ todo' = [todo EXCEPT ![s] = <<>>]
        /\ Goto(s, "text")
        /\ mutex' = NoSession
        /\ UNCHANGED frame
     \/ /\ todo[s] = <<>>
        /\ EndHandler(s)
        /\ mutex' = NoSession
        /\ UNCHANGED <<todo, postVars>>
  /\ UNCHANGED <<registryVars, stage, peer, adapter, writeVars, publisherVars, inputs>>

\* "type": "backtest_result": broadcast_all.
Result(s) ==
  /\ io[s] = "result"
  /\ \/ BroadcastCompletes(ToAll) /\ EndHandler(s)
     \/ BroadcastThrows(ToAll) /\ Goto(s, "text") /\ UNCHANGED frame
  /\ UNCHANGED <<registryVars, stage, peer, todo, adapterVars, writeVars, publisherVars,
                 inputs>>

\* "type": "switch_exchange": the live source's part of it is module LiveSource's.
\* An exchange or a symbol that is not a string throws before it is called.
Switch(s) ==
  /\ io[s] = "switch"
  /\ EndHandler(s) \/ (Goto(s, "text") /\ UNCHANGED frame)
  /\ UNCHANGED <<registryVars, stage, peer, todo, adapterVars, postVars, writeVars,
                 publisherVars, inputs>>

\* Plain text: a mode is set before the adapter's mutex is taken.
Text(s) ==
  /\ io[s] = "text"
  /\ IF frame[s].mode = "unknown"
     THEN Goto(s, "subscribe") /\ UNCHANGED registryVars
     ELSE Goto(s, "command") /\ SetClientMode(s, frame[s].mode)
  /\ UNCHANGED <<stage, peer, frame, todo, adapterVars, postVars, writeVars, publisherVars,
                 inputs>>

\* {"command": "stop"} or {"command": "start"} to the adapter.  The mutex is kept
\* for start_replay.
Command(s) ==
  /\ io[s] = "command"
  /\ mutex = NoSession
  /\ IF adapter # NoSession THEN Post(CopyTo(adapter)) ELSE UNCHANGED postVars
  /\ IF frame[s].mode = "_Backtest"
     THEN Goto(s, "replay") /\ mutex' = s
     ELSE Goto(s, "subscribe") /\ UNCHANGED mutex
  /\ UNCHANGED <<registryVars, stage, peer, frame, todo, adapter, writeVars, publisherVars,
                 inputs>>

\* Mutant: the mutex is not released after start_replay.
ReplayKeepsMutex(s) ==
  /\ io[s] = "replay"
  /\ Goto(s, "subscribe")
  /\ UNCHANGED <<registryVars, stage, peer, frame, todo, adapterVars, postVars, writeVars,
                 publisherVars, inputs>>

\* start_replay returns.
Replay(s) ==
  /\ io[s] = "replay"
  /\ mutex' = NoSession
  /\ Goto(s, "subscribe")
  /\ UNCHANGED <<registryVars, stage, peer, frame, todo, adapter, postVars, writeVars,
                 publisherVars, inputs>>

ExtractTopics(words) == IF AllWord \in words THEN Keywords ELSE words

\* "unsubscribe" contains "subscribe".
Subscribe(s) ==
  /\ io[s] = "subscribe"
  /\ IF frame[s].verb = "none" THEN UNCHANGED registryVars
     ELSE AddClientTopics(s, ExtractTopics(frame[s].words))
  /\ EndHandler(s)
  /\ UNCHANGED <<stage, peer, todo, adapterVars, postVars, writeVars, publisherVars, inputs>>

Handle(s) ==
  \/ Register(s) \/ Route(s) \/ Relay(s) \/ Result(s) \/ Switch(s)
  \/ Text(s) \/ Command(s) \/ Replay(s) \/ Subscribe(s)
-----------------------------------------------------------------------------
(* The write side *)

\* Mutant: a write is started whether or not one is running.
RunPostedWrites(s) ==
  /\ strand[s] # <<>> /\ StrandIdle(s)
  /\ strand' = [strand EXCEPT ![s] = Tail(@)]
  /\ queue' = [queue EXCEPT ![s] = Append(@, Head(strand[s]))]
  /\ writing' = [writing EXCEPT ![s] = TRUE]
  /\ inflight' = [inflight EXCEPT ![s] = @ + 1]
  /\ UNCHANGED <<registryVars, stage, peer, handlerVars, adapterVars, posted, received,
                 publisherVars, inputs>>

\* Mutant: the message is pushed in front of the one being written.
RunPostedFront(s) ==
  /\ strand[s] # <<>> /\ StrandIdle(s)
  /\ strand' = [strand EXCEPT ![s] = Tail(@)]
  /\ queue' = [queue EXCEPT ![s] = <<Head(strand[s])>> \o @]
  /\ writing' = [writing EXCEPT ![s] = TRUE]
  /\ inflight' = [inflight EXCEPT ![s] = IF writing[s] THEN @ ELSE @ + 1]
  /\ UNCHANGED <<registryVars, stage, peer, handlerVars, adapterVars, posted, received,
                 publisherVars, inputs>>

\* The lambda of send_message: push, and do_write unless a write is running.
RunPosted(s) ==
  /\ strand[s] # <<>>
  /\ StrandIdle(s)
  /\ strand' = [strand EXCEPT ![s] = Tail(@)]
  /\ queue' = [queue EXCEPT ![s] = Append(@, Head(strand[s]))]
  /\ writing' = [writing EXCEPT ![s] = TRUE]
  /\ inflight' = [inflight EXCEPT ![s] = IF writing[s] THEN @ ELSE @ + 1]
  /\ UNCHANGED <<registryVars, stage, peer, handlerVars, adapterVars, posted, received,
                 publisherVars, inputs>>

\* Mutant: the message stays in the queue and is written again.
OnWriteNoPop(s) ==
  /\ inflight[s] > 0 /\ StrandIdle(s)
  /\ received' = [received EXCEPT ![s] = Head(queue[s])]
  /\ UNCHANGED <<registryVars, stage, peer, handlerVars, adapterVars, postVars, queue,
                 writing, inflight, publisherVars, inputs>>

\* Mutant: on_write pops, clears writing_ and does not go on to the next message.
OnWritePopOnly(s) ==
  /\ inflight[s] > 0 /\ StrandIdle(s)
  /\ received' = [received EXCEPT ![s] = Head(queue[s])]
  /\ queue' = [queue EXCEPT ![s] = Tail(@)]
  /\ writing' = [writing EXCEPT ![s] = FALSE]
  /\ inflight' = [inflight EXCEPT ![s] = @ - 1]
  /\ UNCHANGED <<registryVars, stage, peer, handlerVars, adapterVars, postVars,
                 publisherVars, inputs>>

\* on_write: the front has been written; pop, and do_write.
OnWrite(s) ==
  /\ inflight[s] > 0
  /\ StrandIdle(s)
  /\ received' = [received EXCEPT ![s] = Head(queue[s])]
  /\ queue' = [queue EXCEPT ![s] = Tail(@)]
  /\ writing' = [writing EXCEPT ![s] = Tail(queue[s]) # <<>>]
  /\ inflight' = [inflight EXCEPT ![s] = IF Tail(queue[s]) # <<>> THEN @ ELSE @ - 1]
  /\ UNCHANGED <<registryVars, stage, peer, handlerVars, adapterVars, postVars,
                 publisherVars, inputs>>

\* Mutant: an error is reported for a write that has completed.
OnWriteFailsTwice(s) ==
  /\ StrandIdle(s) /\ peer[s] = "gone"
  /\ inflight' = [inflight EXCEPT ![s] = @ - 1]
  /\ UNCHANGED <<registryVars, stage, peer, handlerVars, adapterVars, postVars, queue,
                 writing, received, publisherVars, inputs>>

\* on_write with an error: returns with writing_ set and the queue as it is.  A
\* write fails when the peer has gone, and may fail when it was posted, as
\* broadcast_all can, before the websocket handshake has made the stream open.
OnWriteFails(s) ==
  /\ inflight[s] > 0
  /\ StrandIdle(s)
  /\ peer[s] = "gone" \/ io[s] = "accepting"
  /\ inflight' = [inflight EXCEPT ![s] = @ - 1]
  /\ UNCHANGED <<registryVars, stage, peer, handlerVars, adapterVars, postVars, queue,
                 writing, received, publisherVars, inputs>>
-----------------------------------------------------------------------------
(* The other publishers *)

\* on_market_data of the live source, on the exchange's reader thread, and of the
\* backtest source: an exception goes back to their loops.
FeedTick(t) ==
  /\ UseInput
  /\ BroadcastCompletes(ToTopic(t)) \/ BroadcastThrows(ToTopic(t))
  /\ UNCHANGED <<registryVars, stage, peer, handlerVars, adapterVars, writeVars,
                 publisherVars>>

\* The timer of the monitor expires; it is set again after the last broadcast.
MonitorFires ==
  /\ monitor = <<>>
  /\ UseInput
  /\ monitor' = MonitorTopics
  /\ UNCHANGED <<registryVars, stage, peer, handlerVars, adapterVars, postVars, writeVars,
                 up>>

\* An exception leaves the handler and io_context::run(): the program terminates.
MonitorBroadcast ==
  /\ monitor # <<>>
  /\ \/ BroadcastCompletes(ToTopic(Head(monitor))) /\ monitor' = Tail(monitor) /\ UNCHANGED up
     \/ BroadcastThrows(ToTopic(Head(monitor))) /\ monitor' = <<>> /\ up' = FALSE
  /\ UNCHANGED <<registryVars, stage, peer, handlerVars, adapterVars, writeVars, inputs>>
-----------------------------------------------------------------------------
Terminated == ~up /\ UNCHANGED vars

SessionStep(s) ==
  \/ Upgrade(s) \/ DoAccept(s) \/ OnAccept(s) \/ PeerLeaves(s) \/ ReadEnds(s) \/ Destroy(s)
  \/ \E f \in Frames : OnRead(s, f)
  \/ Handle(s)
  \/ RunPosted(s) \/ OnWrite(s) \/ OnWriteFails(s)

Publish == (\E t \in FeedTopics : FeedTick(t)) \/ MonitorFires \/ MonitorBroadcast

Next ==
  \/ up /\ ((\E s \in Sessions : SessionStep(s)) \/ Publish)
  \/ Terminated

Spec == Init /\ [][Next]_vars

\* The threads of the pool run what is ready; an operation whose peer has gone
\* ends by the websocket timeouts (do_accept sets the suggested ones).  Peers and
\* publishers owe nothing.
Fairness ==
  /\ \A s \in Sessions :
       /\ WF_vars(up /\ (DoAccept(s) \/ OnAccept(s)))
       /\ WF_vars(up /\ ReadEnds(s))
       /\ WF_vars(up /\ Destroy(s))
       /\ WF_vars(up /\ Handle(s))
       /\ WF_vars(up /\ RunPosted(s))
       /\ WF_vars(up /\ (OnWrite(s) \/ OnWriteFails(s)))
  /\ WF_vars(up /\ MonitorBroadcast)

FairSpec == Spec /\ Fairness
-----------------------------------------------------------------------------
\* A pointer in the registry, in clients_ or in a subscriber vector, is that of a
\* session object whose destructor has not finished: no broadcast follows a
\* pointer to freed memory, whichever thread drops the last reference when.
NoDanglingPointer ==
  \A s \in Sessions :
    s \in clients \/ (\E t \in Topics : subs[t][s] > 0) => stage[s] # "free"

\* Commands go to a session that is still there: g_adapter_session keeps its object.
AdapterObjectLives == adapter # NoSession => stage[adapter] = "live"

\* Two messages are never written to one websocket at once, the message being
\* written stays in the queue until its write completes, and writing_ says
\* whether the queue still owes its front to the peer.
OneWriteAtATime ==
  \A s \in Sessions :
    /\ inflight[s] <= 1
    /\ inflight[s] = 1 => queue[s] # <<>>
    /\ writing[s] <=> queue[s] # <<>>

\* The thread that holds g_adapter_mutex is inside a relay or start_replay, from
\* which it comes back to release it, and never waits for that mutex itself.
HolderProceeds == mutex # NoSession => io[mutex] \in {"relay", "replay"}

\* A relay is the adapter's from its check to its last broadcast: no session
\* that has lost or never had the adapter's place broadcasts market data.
RelayIsTheAdapters == \A s \in Sessions : io[s] = "relay" => adapter = s

Backlog(s) == queue[s] \o strand[s]

\* b holds the numbers after r, up to p, each once and in order.
Numbered(b, r, p) ==
  /\ Len(b) = p - r
  /\ \A i \in 1..Len(b) : b[i] = r + i

\* What was posted to a session and its peer has not received is in the queue and
\* on the strand, complete and in order.
InOrder == \A s \in Sessions : Numbered(Backlog(s), received[s], posted[s])

\* The sessions' outboxes are FIFO, exactly once and per connection (module Outbox).
OutboxOf == INSTANCE Outbox WITH sent <- posted, got <- received
OutboxSpec == OutboxOf!Spec

\* The server outlives its clients' disconnections.
StaysUp == up

\* An unsubscribe message adds nothing to what the client is subscribed to.
UnsubscribeAddsNothing ==
  [][\A s \in Sessions :
       io[s] = "subscribe" /\ io'[s] = "armed" /\ frame[s].verb = "unsubscribe"
       => topics'[s] \subseteq topics[s]]_vars

\* A session whose peer has gone is destroyed and unregistered, the adapter's
\* excepted: disconnections leave nothing behind.
GoneIsForgotten ==
  \A s \in Sessions :
    (stage[s] = "live" /\ peer[s] = "gone") ~> (s \notin clients \/ adapter = s \/ ~up)

\* A write failed: nothing is written to the session any more.
Broken(s) == writing[s] /\ inflight[s] = 0

\* A message posted to a session reaches its peer, unless the peer leaves or a
\* write to it has failed: a handler that ends with work left has started it.
PostedIsReceived ==
  \A s \in Sessions :
    (posted[s] > received[s])
      ~> (posted[s] = received[s] \/ peer[s] = "gone" \/ Broken(s) \/ ~up)

\* A message that has been read is handled: no handler waits forever.
ReadIsHandled == \A s \in Sessions : (io[s] \in Running) ~> (io[s] = "armed" \/ ~up)
=============================================================================
