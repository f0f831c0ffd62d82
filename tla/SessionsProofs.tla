---------------------------- MODULE SessionsProofs ----------------------------
(***************************************************************************)
(* Proofs about the sessions.  SessionsInv is inductive: the registry's    *)
(* invariant (SessionManagerProofs), the types, the numbering of what is   *)
(* queued (WriteInv), the agreement of the registry with the life of the   *)
(* objects (Lifecycle) and the sections of g_adapter_mutex (MutexHeld).    *)
(* Each part has a lemma that says a step keeps it; the theorems are at    *)
(* the end.                                                                *)
(***************************************************************************)
EXTENDS Sessions, SessionManagerProofs, SequenceTheorems

\* The type invariant without the registry's part of it.
OwnTypeOK ==
  /\ stage \in [Sessions -> {"free", "ctor", "live"}]
  /\ peer \in [Sessions -> {"up", "gone"}]
  /\ io \in [Sessions -> Waiting \cup Running]
  /\ frame \in [Sessions -> Frame]
  /\ todo \in [Sessions -> Seq(Topics)]
  /\ adapter \in Sessions \cup {NoSession}
  /\ mutex \in Sessions \cup {NoSession}
  /\ monitor \in Seq(Topics)
  /\ up \in BOOLEAN
  /\ inputs \in 0..MaxInputs

WriteTypeOK ==
  /\ strand \in [Sessions -> Seq(Nat)]
  /\ queue \in [Sessions -> Seq(Nat)]
  /\ writing \in [Sessions -> BOOLEAN]
  /\ inflight \in [Sessions -> Nat]
  /\ posted \in [Sessions -> Nat]
  /\ received \in [Sessions -> Nat]

\* The registry holds the sessions whose object exists; only a live one is owned.
Lifecycle ==
  \A s \in Sessions :
    /\ s \in clients <=> stage[s] # "free"
    /\ stage[s] # "live" => ~Owned(s)

\* Who may hold g_adapter_mutex, and that a handler in its section does.
MutexHeld ==
  /\ mutex # NoSession => io[mutex] \in {"relay", "replay", "destroyOld"}
  /\ \A s \in Sessions : io[s] \in {"relay", "replay", "destroyOld"} => mutex = s
  /\ RelayIsTheAdapters

WriteInv == WriteTypeOK /\ OneWriteAtATime /\ InOrder
-----------------------------------------------------------------------------
\* send_message adds the next numbers to the strands, nothing else.
LEMMA PostEffect ==
  ASSUME WriteTypeOK, NEW copies \in [Sessions -> Nat], Post(copies)
  PROVE  /\ strand' \in [Sessions -> Seq(Nat)]
         /\ posted' \in [Sessions -> Nat]
         /\ \A s \in Sessions :
              /\ posted'[s] = posted[s] + copies[s]
              /\ Len(strand'[s]) = Len(strand[s]) + copies[s]
              /\ \A i \in 1..Len(strand[s]) : strand'[s][i] = strand[s][i]
              /\ \A i \in 1..copies[s] : strand'[s][Len(strand[s]) + i] = posted[s] + i
  <1>1. ASSUME NEW s \in Sessions
        PROVE  /\ strand[s] \in Seq(Nat)
               /\ [i \in 1..copies[s] |-> posted[s] + i] \in Seq(Nat)
               /\ Len([i \in 1..copies[s] |-> posted[s] + i]) = copies[s]
    <2>1. strand[s] \in Seq(Nat) /\ posted[s] \in Nat /\ copies[s] \in Nat
      BY DEF WriteTypeOK
    <2>2. \A i \in 1..copies[s] : posted[s] + i \in Nat
      BY <2>1
    <2>3. [i \in 1..copies[s] |-> posted[s] + i] \in Seq(Nat)
      BY <2>1, <2>2
    <2>4. QED
      BY <2>1, <2>3
  <1>2. strand' = [s \in Sessions |-> strand[s] \o [i \in 1..copies[s] |-> posted[s] + i]]
    BY DEF Post
  <1>3. posted' = [s \in Sessions |-> posted[s] + copies[s]]
    BY DEF Post
  <1>4. strand' \in [Sessions -> Seq(Nat)]
    BY <1>1, <1>2
  <1>5. posted' \in [Sessions -> Nat]
    BY <1>3 DEF WriteTypeOK
  <1>6. ASSUME NEW s \in Sessions
        PROVE  /\ posted'[s] = posted[s] + copies[s]
               /\ Len(strand'[s]) = Len(strand[s]) + copies[s]
               /\ \A i \in 1..Len(strand[s]) : strand'[s][i] = strand[s][i]
               /\ \A i \in 1..copies[s] : strand'[s][Len(strand[s]) + i] = posted[s] + i
    BY <1>1, <1>2, <1>3
  <1>7. QED
    BY <1>4, <1>5, <1>6
-----------------------------------------------------------------------------
\* The frames of a session are of one type, as is having none.
LEMMA NoFrameTyped == NoFrame \in Frame /\ Frames \subseteq Frame
  BY SessionsAssumption DEF NoFrame, Frame, FrameTypes, Verbs, Modes

\* A step of one session that goes to a place of the handler.
LEMMA IoTyped ==
  ASSUME io \in [Sessions -> Waiting \cup Running],
         NEW s \in Sessions, NEW pc \in Waiting \cup Running, io' = [io EXCEPT ![s] = pc]
  PROVE  io' \in [Sessions -> Waiting \cup Running]
  OBVIOUS

\* What a step does to the frame keeps its type.
LEMMA FrameTyped ==
  ASSUME frame \in [Sessions -> Frame], NEW s \in Sessions,
         frame' = frame \/ frame' = [frame EXCEPT ![s] = NoFrame]
  PROVE  frame' \in [Sessions -> Frame]
  BY NoFrameTyped

\* The variables of the life, the handlers and the publishers stay well typed.
LEMMA OwnTypeStep ==
  ASSUME OwnTypeOK, [Next]_vars
  PROVE  OwnTypeOK'
  <1> USE DEF OwnTypeOK, Waiting, Running, Goto, EndHandler, UseInput, handlerVars,
              adapterVars, publisherVars
  <1>1. ASSUME NEW s \in Sessions, Upgrade(s) PROVE OwnTypeOK'
    BY <1>1 DEF Upgrade
  <1>2. ASSUME NEW s \in Sessions, DoAccept(s) PROVE OwnTypeOK'
    BY <1>2 DEF DoAccept
  <1>3. ASSUME NEW s \in Sessions, OnAccept(s) PROVE OwnTypeOK'
    BY <1>3 DEF OnAccept
  <1>4. ASSUME NEW s \in Sessions, PeerLeaves(s) PROVE OwnTypeOK'
    BY <1>4 DEF PeerLeaves
  <1>5. ASSUME NEW s \in Sessions, ReadEnds(s) PROVE OwnTypeOK'
    BY <1>5 DEF ReadEnds
  <1>6. ASSUME NEW s \in Sessions, Destroy(s) PROVE OwnTypeOK'
    BY <1>6 DEF Destroy
  <1>7. ASSUME NEW s \in Sessions, NEW f \in Frames, OnRead(s, f) PROVE OwnTypeOK'
    BY <1>7, SessionsAssumption, NoFrameTyped DEF OnRead
  <1>8. ASSUME NEW s \in Sessions, Register(s) PROVE OwnTypeOK'
    <2>1. CASE mutex' = s /\ Goto(s, "destroyOld") /\ UNCHANGED frame
      BY <1>8, <2>1 DEF Register
    <2>2. CASE EndHandler(s) /\ UNCHANGED mutex
      BY <1>8, <2>2, NoFrameTyped DEF Register
    <2>3. QED
      BY <1>8, <2>1, <2>2 DEF Register
  <1>9. ASSUME NEW s \in Sessions, Route(s) PROVE OwnTypeOK'
    BY <1>9, SessionsAssumption, NoFrameTyped DEF Route
  <1>10. ASSUME NEW s \in Sessions, Relay(s) PROVE OwnTypeOK'
    <2>1. \/ todo[s] # <<>> /\ todo' = [todo EXCEPT ![s] = Tail(todo[s])]
          \/ todo' = [todo EXCEPT ![s] = <<>>]
          \/ todo' = todo
      BY <1>10 DEF Relay
    <2>2. todo' \in [Sessions -> Seq(Topics)]
      <3>1. todo[s] # <<>> => Tail(todo[s]) \in Seq(Topics)
        OBVIOUS
      <3>2. <<>> \in Seq(Topics)
        OBVIOUS
      <3>3. QED
        BY <2>1, <3>1, <3>2
    <2>3. io' \in [Sessions -> Waiting \cup Running] /\ frame' \in [Sessions -> Frame]
      <3>1. /\ io' = io \/ \E pc \in {"text", "armed"} : io' = [io EXCEPT ![s] = pc]
            /\ frame' = frame \/ frame' = [frame EXCEPT ![s] = NoFrame]
        BY <1>10 DEF Relay
      <3>2. frame' \in [Sessions -> Frame]
        BY <3>1, FrameTyped
      <3>3. io' \in [Sessions -> Waiting \cup Running]
        BY <3>1, IoTyped
      <3>4. QED
        BY <3>2, <3>3
    <2>4. mutex' \in Sessions \cup {NoSession} /\ UNCHANGED <<stage, peer, adapter, monitor, up, inputs>>
      BY <1>10 DEF Relay
    <2>5. QED
      BY <2>2, <2>3, <2>4
  <1>11. ASSUME NEW s \in Sessions, Result(s) PROVE OwnTypeOK'
    <2>1. /\ \E pc \in {"text", "armed"} : io' = [io EXCEPT ![s] = pc]
          /\ frame' = frame \/ frame' = [frame EXCEPT ![s] = NoFrame]
          /\ UNCHANGED <<stage, peer, todo, adapter, mutex, monitor, up, inputs>>
      BY <1>11 DEF Result
    <2>2. frame' \in [Sessions -> Frame]
      BY <2>1, FrameTyped
    <2>3. io' \in [Sessions -> Waiting \cup Running]
      BY <2>1, IoTyped
    <2>4. QED
      BY <2>1, <2>2, <2>3
  <1>12. ASSUME NEW s \in Sessions, Switch(s) PROVE OwnTypeOK'
    <2>1. /\ \E pc \in {"text", "armed"} : io' = [io EXCEPT ![s] = pc]
          /\ frame' = frame \/ frame' = [frame EXCEPT ![s] = NoFrame]
          /\ UNCHANGED <<stage, peer, todo, adapter, mutex, monitor, up, inputs>>
      BY <1>12 DEF Switch
    <2>2. frame' \in [Sessions -> Frame]
      BY <2>1, FrameTyped
    <2>3. io' \in [Sessions -> Waiting \cup Running]
      BY <2>1, IoTyped
    <2>4. QED
      BY <2>1, <2>2, <2>3
  <1>13. ASSUME NEW s \in Sessions, Text(s) PROVE OwnTypeOK'
    BY <1>13, SessionsAssumption, NoFrameTyped DEF Text
  <1>14. ASSUME NEW s \in Sessions, Command(s) PROVE OwnTypeOK'
    BY <1>14, SessionsAssumption, NoFrameTyped DEF Command
  <1>15. ASSUME NEW s \in Sessions, Replay(s) PROVE OwnTypeOK'
    BY <1>15, SessionsAssumption, NoFrameTyped DEF Replay
  <1>16. ASSUME NEW s \in Sessions, Subscribe(s) PROVE OwnTypeOK'
    BY <1>16, SessionsAssumption, NoFrameTyped DEF Subscribe
  <1>17. ASSUME NEW s \in Sessions, RunPosted(s) PROVE OwnTypeOK'
    BY <1>17 DEF RunPosted
  <1>18. ASSUME NEW s \in Sessions, OnWrite(s) PROVE OwnTypeOK'
    BY <1>18 DEF OnWrite
  <1>19. ASSUME NEW s \in Sessions, OnWriteFails(s) PROVE OwnTypeOK'
    BY <1>19 DEF OnWriteFails
  <1>20. ASSUME NEW t \in FeedTopics, FeedTick(t) PROVE OwnTypeOK'
    BY <1>20, SessionsAssumption, NoFrameTyped DEF FeedTick
  <1>21. ASSUME MonitorFires PROVE OwnTypeOK'
    BY <1>21, SessionsAssumption, NoFrameTyped DEF MonitorFires
  <1>22. ASSUME MonitorBroadcast PROVE OwnTypeOK'
    <2>1. monitor' \in Seq(Topics)
      <3>1. (monitor # <<>> /\ monitor' = Tail(monitor)) \/ monitor' = <<>>
        BY <1>22 DEF MonitorBroadcast
      <3>2. monitor # <<>> => Tail(monitor) \in Seq(Topics)
        OBVIOUS
      <3>3. <<>> \in Seq(Topics)
        OBVIOUS
      <3>4. QED
        BY <3>1, <3>2, <3>3
    <2>2. up' \in BOOLEAN /\ UNCHANGED <<stage, peer, handlerVars, adapterVars, inputs>>
      BY <1>22 DEF MonitorBroadcast
    <2>3. QED
      BY <2>1, <2>2
  <1>23. ASSUME UNCHANGED vars PROVE OwnTypeOK'
    BY <1>23 DEF vars
  <1>24. QED
    BY <1>1, <1>2, <1>3, <1>4, <1>5, <1>6, <1>7, <1>8, <1>9, <1>10, <1>11, <1>12,
       <1>13, <1>14, <1>15, <1>16, <1>17, <1>18, <1>19, <1>20, <1>21, <1>22, <1>23
    DEF Next, Publish, SessionStep, Handle, Terminated
-----------------------------------------------------------------------------
(* The write side: two facts about a backlog of messages, what a post does to *)
(* it, and its invariant.                                                      *)

\* Numbers without gaps, put together where one ends and the next begins.
LEMMA NumberedConcat ==
  ASSUME NEW q \in Seq(Nat), NEW t \in Seq(Nat), NEW r \in Nat, NEW p \in Nat
  PROVE  Numbered(q \o t, r, p) <=>
           Numbered(q, r, r + Len(q)) /\ Numbered(t, r + Len(q), p)
  <1>1. Len(q) \in Nat /\ Len(t) \in Nat /\ Len(q \o t) = Len(q) + Len(t)
    OBVIOUS
  <1>2. \A i \in 1..Len(q) : (q \o t)[i] = q[i]
    OBVIOUS
  <1>3. \A i \in 1..Len(t) : (q \o t)[Len(q) + i] = t[i]
    OBVIOUS
  <1>4. ASSUME Numbered(q \o t, r, p)
        PROVE  Numbered(q, r, r + Len(q)) /\ Numbered(t, r + Len(q), p)
    <2>1. ASSUME NEW i \in 1..Len(q) PROVE q[i] = r + i
      <3>1. i \in 1..Len(q \o t) /\ (q \o t)[i] = q[i]
        BY <1>1, <1>2
      <3>2. QED
        BY <1>4, <3>1 DEF Numbered
    <2>2. ASSUME NEW i \in 1..Len(t) PROVE t[i] = r + Len(q) + i
      <3>1. Len(q) + i \in 1..Len(q \o t) /\ (q \o t)[Len(q) + i] = t[i] /\ i \in Int
        BY <1>1, <1>3
      <3>2. t[i] = r + (Len(q) + i)
        BY <1>4, <3>1 DEF Numbered
      <3>3. QED
        BY <1>1, <3>1, <3>2
    <2>3. Len(t) = p - (r + Len(q)) /\ Len(q) = r + Len(q) - r
      BY <1>1, <1>4 DEF Numbered
    <2>4. QED
      BY <2>1, <2>2, <2>3 DEF Numbered
  <1>5. ASSUME Numbered(q, r, r + Len(q)), Numbered(t, r + Len(q), p)
        PROVE  Numbered(q \o t, r, p)
    <2>1. Len(q \o t) = p - r
      BY <1>1, <1>5 DEF Numbered
    <2>2. ASSUME NEW i \in 1..Len(q \o t) PROVE (q \o t)[i] = r + i
      <3>1. CASE i <= Len(q)
        <4>1. i \in 1..Len(q) /\ (q \o t)[i] = q[i]
          BY <1>1, <1>2, <3>1
        <4>2. QED
          BY <1>5, <4>1 DEF Numbered
      <3>2. CASE i > Len(q)
        <4> DEFINE j == i - Len(q)
        <4>1. j \in 1..Len(t) /\ i = Len(q) + j /\ j \in Int
          BY <1>1, <3>2
        <4>2. t[j] = r + Len(q) + j
          BY <1>5, <4>1 DEF Numbered
        <4>3. (q \o t)[Len(q) + j] = t[j]
          BY <1>3, <4>1
        <4>4. QED
          BY <1>1, <4>1, <4>2, <4>3
      <3>3. QED
        BY <1>1, <3>1, <3>2
    <2>3. QED
      BY <2>1, <2>2 DEF Numbered
  <1>6. QED
    BY <1>4, <1>5

\* A message that goes from the strand to the queue stays in its place.
LEMMA NumberedMove ==
  ASSUME NEW q \in Seq(Nat), NEW t \in Seq(Nat), t # <<>>,
         NEW r \in Nat, NEW p \in Nat, Numbered(q \o t, r, p)
  PROVE  /\ Append(q, Head(t)) \in Seq(Nat)
         /\ Append(q, Head(t)) # <<>>
         /\ Tail(t) \in Seq(Nat)
         /\ Numbered(Append(q, Head(t)) \o Tail(t), r, p)
  <1>1. /\ Head(t) = t[1] /\ Head(t) \in Nat /\ Tail(t) \in Seq(Nat)
        /\ Len(Tail(t)) = Len(t) - 1 /\ Len(t) \in Nat /\ Len(t) >= 1 /\ Len(q) \in Nat
        /\ \A i \in 1..Len(Tail(t)) : Tail(t)[i] = t[i + 1]
    BY HeadTailProperties
  <1>2. Numbered(q, r, r + Len(q)) /\ Numbered(t, r + Len(q), p)
    BY NumberedConcat
  <1> DEFINE a == Append(q, Head(t))
  <1>3. /\ a \in Seq(Nat) /\ a # <<>> /\ Len(a) = Len(q) + 1 /\ a[Len(q) + 1] = t[1]
        /\ \A i \in 1..Len(q) : a[i] = q[i]
    BY <1>1, AppendProperties
  <1> HIDE DEF a
  <1>4. Numbered(a, r, r + Len(a))
    <2>1. t[1] = r + Len(q) + 1
      BY <1>1, <1>2 DEF Numbered
    <2>2. \A i \in 1..Len(q) : q[i] = r + i
      BY <1>2 DEF Numbered
    <2>3. ASSUME NEW i \in 1..Len(a) PROVE a[i] = r + i
      <3>1. CASE i = Len(q) + 1
        <4>1. a[i] = r + Len(q) + 1
          BY <1>3, <2>1, <3>1
        <4>2. QED
          BY <1>1, <3>1, <4>1
      <3>2. CASE i # Len(q) + 1
        <4>1. i \in 1..Len(q)
          BY <1>1, <1>3, <3>2
        <4>2. QED
          BY <1>3, <2>2, <4>1
      <3>3. QED
        BY <3>1, <3>2
    <2>4. QED
      BY <1>1, <1>3, <2>3 DEF Numbered
  <1>5. Numbered(Tail(t), r + Len(a), p)
    BY <1>1, <1>2, <1>3 DEF Numbered
  <1>6. Numbered(a \o Tail(t), r, p)
    BY <1>1, <1>3, <1>4, <1>5, NumberedConcat
  <1>7. QED
    BY <1>1, <1>3, <1>6 DEF a

\* Without its first a numbered sequence starts one later.
LEMMA NumberedTail ==
  ASSUME NEW q \in Seq(Nat), NEW t \in Seq(Nat), q # <<>>,
         NEW r \in Nat, NEW p \in Nat, Numbered(q \o t, r, p)
  PROVE  /\ Head(q) = r + 1 /\ r < p
         /\ Tail(q) \in Seq(Nat)
         /\ Numbered(Tail(q) \o t, r + 1, p)
  <1>1. /\ Head(q) = q[1] /\ Tail(q) \in Seq(Nat) /\ Len(Tail(q)) = Len(q) - 1
        /\ Len(q) \in Nat /\ Len(q) >= 1 /\ Len(t) \in Nat
        /\ \A i \in 1..Len(Tail(q)) : Tail(q)[i] = q[i + 1]
    BY HeadTailProperties
  <1>2. /\ Numbered(q, r, r + Len(q)) /\ Numbered(t, r + Len(q), p)
    BY NumberedConcat
  <1>3. r + Len(q) = r + 1 + Len(Tail(q)) /\ r + 1 \in Nat
    BY <1>1
  <1>4. Head(q) = r + 1 /\ r < p
    BY <1>1, <1>2 DEF Numbered
  <1>5. Numbered(Tail(q), r + 1, r + 1 + Len(Tail(q)))
    BY <1>1, <1>2 DEF Numbered
  <1>6. Numbered(t, r + 1 + Len(Tail(q)), p)
    BY <1>2, <1>3
  <1>7. QED
    BY <1>1, <1>3, <1>4, <1>5, <1>6, NumberedConcat

\* Messages handed over go to the end of the backlog, numbered on.
LEMMA PostWriteInv ==
  ASSUME WriteInv, NEW copies \in [Sessions -> Nat], Post(copies), UNCHANGED writeVars
  PROVE  WriteInv'
  <1>1. WriteTypeOK /\ OneWriteAtATime /\ InOrder
    BY DEF WriteInv
  <1>2. queue' = queue /\ writing' = writing /\ inflight' = inflight /\ received' = received
    BY DEF writeVars
  <1>3. WriteTypeOK' /\ OneWriteAtATime'
    BY <1>1, <1>2, PostEffect DEF WriteTypeOK, OneWriteAtATime
  <1>4. ASSUME NEW s \in Sessions
        PROVE  Numbered(Backlog(s)', received'[s], posted'[s])
    <2>1. /\ queue[s] \in Seq(Nat) /\ strand[s] \in Seq(Nat) /\ strand'[s] \in Seq(Nat)
          /\ copies[s] \in Nat /\ posted[s] \in Nat /\ received[s] \in Nat
          /\ posted'[s] \in Nat
      BY <1>1, PostEffect DEF WriteTypeOK
    <2>2. Backlog(s)' = queue[s] \o strand'[s] /\ Backlog(s) = queue[s] \o strand[s]
      BY <1>2 DEF Backlog
    <2>3. /\ Numbered(queue[s], received[s], received[s] + Len(queue[s]))
          /\ Numbered(strand[s], received[s] + Len(queue[s]), posted[s])
      BY <1>1, <2>1, <2>2, NumberedConcat DEF InOrder
    <2>4. Numbered(strand'[s], received[s] + Len(queue[s]), posted'[s])
      <3>1. /\ posted'[s] = posted[s] + copies[s]
            /\ Len(strand'[s]) = Len(strand[s]) + copies[s]
            /\ \A i \in 1..Len(strand[s]) : strand'[s][i] = strand[s][i]
            /\ \A i \in 1..copies[s] : strand'[s][Len(strand[s]) + i] = posted[s] + i
        BY <1>1, PostEffect
      <3>2. Len(queue[s]) \in Nat /\ Len(strand[s]) \in Nat
        BY <2>1
      <3>3. ASSUME NEW i \in 1..Len(strand'[s])
            PROVE  strand'[s][i] = received[s] + Len(queue[s]) + i
        <4>1. CASE i \in 1..Len(strand[s])
          BY <2>3, <3>1, <4>1 DEF Numbered
        <4>2. CASE i \notin 1..Len(strand[s])
          <5> DEFINE j == i - Len(strand[s])
          <5>1. j \in 1..copies[s] /\ i = Len(strand[s]) + j /\ j \in Int
            BY <2>1, <3>1, <3>2, <4>2
          <5>2. strand'[s][Len(strand[s]) + j] = posted[s] + j
            BY <3>1, <5>1
          <5>3. posted[s] = received[s] + Len(queue[s]) + Len(strand[s])
            BY <2>1, <2>3, <3>2 DEF Numbered
          <5>4. strand'[s][i] = posted[s] + j
            BY <5>1, <5>2
          <5>5. posted[s] + j = received[s] + Len(queue[s]) + i
            <6>1. received[s] \in Int /\ Len(queue[s]) \in Int /\ Len(strand[s]) \in Int
              BY <2>1, <3>2
            <6>2. QED
              BY <5>1, <5>3, <6>1
          <5>6. QED
            BY <5>4, <5>5
        <4>3. QED
          BY <4>1, <4>2
      <3>4. Len(strand'[s]) = posted'[s] - (received[s] + Len(queue[s]))
        BY <2>1, <2>3, <3>1, <3>2 DEF Numbered
      <3>5. QED
        BY <3>3, <3>4 DEF Numbered
    <2>5. Numbered(queue[s] \o strand'[s], received[s], posted'[s])
      BY <2>1, <2>3, <2>4, NumberedConcat
    <2>6. QED
      BY <1>2, <2>2, <2>5
  <1>5. QED
    BY <1>3, <1>4 DEF WriteInv, InOrder

\* What an action does to the strands and the counts of posted messages: nothing,
\* or a post to live sessions.
Posts ==
  \/ UNCHANGED postVars
  \/ \E made \in [Sessions -> Nat] :
       Post(made) /\ \A s \in Sessions : made[s] > 0 => stage[s] = "live"

\* A broadcast, completed or not, is a post to live sessions.
LEMMA BroadcastIsPost ==
  ASSUME NEW copies \in [Sessions -> Nat],
         BroadcastCompletes(copies) \/ BroadcastThrows(copies)
  PROVE  Posts
  <1>1. CASE BroadcastCompletes(copies)
    BY <1>1 DEF BroadcastCompletes, Completes, Sendable, Posts
  <1>2. CASE BroadcastThrows(copies)
    <2>1. PICK before \in SUBSET {s \in Sessions : copies[s] > 0 /\ Sendable(s)} :
            Post([s \in Sessions |-> IF s \in before THEN copies[s] ELSE 0])
      BY <1>2 DEF BroadcastThrows
    <2> DEFINE made == [s \in Sessions |-> IF s \in before THEN copies[s] ELSE 0]
    <2>2. made \in [Sessions -> Nat] /\ \A s \in Sessions : made[s] > 0 => stage[s] = "live"
      BY DEF Sendable
    <2>3. QED
      BY <2>1, <2>2 DEF Posts
  <1>3. QED
    BY <1>1, <1>2

\* Each broadcast hands a session a number of copies.
LEMMA CopiesTyped ==
  ASSUME RegistryTypeOK
  PROVE  /\ \A t \in Topics : ToTopic(t) \in [Sessions -> Nat]
         /\ ToAll \in [Sessions -> Nat]
         /\ \A s : CopyTo(s) \in [Sessions -> Nat]
  BY DEF RegistryTypeOK, ToTopic, ToAll, CopyTo

\* What is posted is numbered after what was posted before.
LEMMA PostsWriteInv ==
  ASSUME WriteInv, Posts, UNCHANGED writeVars
  PROVE  WriteInv'
  <1>1. CASE UNCHANGED postVars
    BY <1>1 DEF WriteInv, WriteTypeOK, OneWriteAtATime, InOrder, Backlog, postVars, writeVars
  <1>2. CASE ~UNCHANGED postVars
    BY <1>2, PostWriteInv DEF Posts
  <1>3. QED
    BY <1>1, <1>2

\* The steps other than the upgrade and those of the write side.
OtherStep ==
  \/ \E s \in Sessions :
       \/ DoAccept(s) \/ OnAccept(s) \/ PeerLeaves(s) \/ ReadEnds(s) \/ Destroy(s)
       \/ \E f \in Frames : OnRead(s, f)
       \/ Handle(s)
  \/ Publish
  \/ UNCHANGED vars

\* They only post.
LEMMA OtherStepsPost ==
  ASSUME RegistryTypeOK, OwnTypeOK, Lifecycle, OtherStep
  PROVE  Posts /\ UNCHANGED writeVars
  <1> DEFINE Goal == Posts /\ UNCHANGED writeVars
  <1>1. ASSUME NEW s \in Sessions,
               \/ DoAccept(s) \/ OnAccept(s) \/ PeerLeaves(s) \/ ReadEnds(s) \/ Destroy(s)
               \/ \E f \in Frames : OnRead(s, f)
               \/ Register(s) \/ Route(s) \/ Switch(s) \/ Text(s) \/ Replay(s) \/ Subscribe(s)
        PROVE Goal
    BY <1>1 DEF Posts, DoAccept, OnAccept, PeerLeaves, ReadEnds, Destroy, OnRead, Register,
                Route, Switch, Text, Replay, Subscribe
  <1>2. ASSUME NEW s \in Sessions, Relay(s) PROVE Goal
    <2>1. todo[s] # <<>> => Head(todo[s]) \in Topics
      BY DEF OwnTypeOK
    <2>2. UNCHANGED writeVars
      BY <1>2 DEF Relay
    <2>3. CASE todo[s] # <<>>
      <3>1. BroadcastCompletes(ToTopic(Head(todo[s]))) \/ BroadcastThrows(ToTopic(Head(todo[s])))
        BY <1>2, <2>3 DEF Relay
      <3>2. QED
        BY <2>1, <2>2, <2>3, <3>1, BroadcastIsPost, CopiesTyped
    <2>4. CASE todo[s] = <<>>
      BY <1>2, <2>2, <2>4 DEF Relay, Posts
    <2>5. QED
      BY <2>3, <2>4
  <1>3. ASSUME NEW s \in Sessions, Result(s) PROVE Goal
    <2>1. (BroadcastCompletes(ToAll) \/ BroadcastThrows(ToAll)) /\ UNCHANGED writeVars
      BY <1>3 DEF Result
    <2>2. QED
      BY <2>1, BroadcastIsPost, CopiesTyped
  <1>4. ASSUME NEW s \in Sessions, Command(s) PROVE Goal
    <2>1. (Post(CopyTo(adapter)) \/ UNCHANGED postVars) /\ UNCHANGED writeVars
      BY <1>4 DEF Command
    <2>2. CASE UNCHANGED postVars
      BY <2>1, <2>2 DEF Posts
    <2>3. CASE ~UNCHANGED postVars
      <3>1. adapter # NoSession /\ Post(CopyTo(adapter))
        BY <1>4, <2>3 DEF Command
      <3>2. stage[adapter] = "live" /\ adapter \in Sessions
        BY <3>1 DEF Lifecycle, Owned, OwnTypeOK
      <3>3. \A x \in Sessions : CopyTo(adapter)[x] > 0 => stage[x] = "live"
        BY <3>2 DEF CopyTo
      <3>4. QED
        BY <2>1, <3>1, <3>3, CopiesTyped DEF Posts
    <2>4. QED
      BY <2>2, <2>3
  <1>5. ASSUME NEW t \in FeedTopics, FeedTick(t) PROVE Goal
    <2>1. /\ BroadcastCompletes(ToTopic(t)) \/ BroadcastThrows(ToTopic(t))
          /\ UNCHANGED writeVars
          /\ t \in Topics
      BY <1>5, SessionsAssumption DEF FeedTick
    <2>2. QED
      BY <2>1, BroadcastIsPost, CopiesTyped
  <1>6. ASSUME MonitorFires PROVE Goal
    BY <1>6 DEF MonitorFires, Posts
  <1>7. ASSUME MonitorBroadcast PROVE Goal
    <2>1. monitor # <<>> => Head(monitor) \in Topics
      BY DEF OwnTypeOK
    <2>2. /\ BroadcastCompletes(ToTopic(Head(monitor))) \/ BroadcastThrows(ToTopic(Head(monitor)))
          /\ UNCHANGED writeVars
          /\ monitor # <<>>
      BY <1>7 DEF MonitorBroadcast
    <2>3. QED
      BY <2>1, <2>2, BroadcastIsPost, CopiesTyped
  <1>8. ASSUME UNCHANGED vars PROVE Goal
    BY <1>8 DEF vars, Posts
  <1>9. QED
    BY <1>1, <1>2, <1>3, <1>4, <1>5, <1>6, <1>7, <1>8 DEF OtherStep, Publish, Handle

\* Every step keeps the write queue in order.
LEMMA WriteInvStep ==
  ASSUME RegistryTypeOK, OwnTypeOK, WriteInv, Lifecycle, [Next]_vars
  PROVE  WriteInv'
  <1>1. WriteTypeOK /\ OneWriteAtATime /\ InOrder
    BY DEF WriteInv
  <1>2. ASSUME NEW s \in Sessions, Upgrade(s) PROVE WriteInv'
    <2>1. WriteTypeOK'
      <3>1. <<>> \in Seq(Nat)
        OBVIOUS
      <3>2. QED
        BY <1>1, <1>2, <3>1 DEF Upgrade, WriteTypeOK
    <2>2. OneWriteAtATime'
      BY <1>1, <1>2 DEF Upgrade, WriteTypeOK, OneWriteAtATime
    <2>3. ASSUME NEW x \in Sessions, x # s
          PROVE  Backlog(x)' = Backlog(x) /\ posted'[x] = posted[x] /\ received'[x] = received[x]
      BY <1>1, <1>2, <2>3 DEF Upgrade, WriteTypeOK, Backlog
    <2>4. Backlog(s)' = <<>> \o <<>> /\ posted'[s] = 0 /\ received'[s] = 0
      BY <1>1, <1>2 DEF Upgrade, WriteTypeOK, Backlog
    <2>5. Numbered(<<>> \o <<>>, 0, 0)
      BY DEF Numbered
    <2>6. InOrder'
      BY <1>1, <2>3, <2>4, <2>5 DEF InOrder
    <2>7. QED
      BY <2>1, <2>2, <2>6 DEF WriteInv
  <1>3. ASSUME NEW s \in Sessions, RunPosted(s) PROVE WriteInv'
    <2>1. queue[s] \in Seq(Nat) /\ strand[s] \in Seq(Nat) /\ strand[s] # <<>>
      BY <1>1, <1>3 DEF WriteTypeOK, RunPosted
    <2>2. /\ Append(queue[s], Head(strand[s])) \in Seq(Nat)
          /\ Append(queue[s], Head(strand[s])) # <<>>
          /\ Tail(strand[s]) \in Seq(Nat)
          /\ Numbered(Append(queue[s], Head(strand[s])) \o Tail(strand[s]), received[s], posted[s])
      <3>1. Numbered(queue[s] \o strand[s], received[s], posted[s])
        BY <1>1 DEF InOrder, Backlog
      <3>2. received[s] \in Nat /\ posted[s] \in Nat
        BY <1>1 DEF WriteTypeOK
      <3>3. QED
        BY <2>1, <3>1, <3>2, NumberedMove
    <2>3. /\ queue' = [queue EXCEPT ![s] = Append(queue[s], Head(strand[s]))]
          /\ strand' = [strand EXCEPT ![s] = Tail(strand[s])]
          /\ writing' = [writing EXCEPT ![s] = TRUE]
          /\ posted' = posted /\ received' = received
      BY <1>3 DEF RunPosted
    <2>4. /\ inflight' \in [Sessions -> Nat]
          /\ \A x \in Sessions : inflight'[x] <= 1
          /\ \A x \in Sessions \ {s} : inflight'[x] = inflight[x]
      <3>1. \A x \in Sessions : inflight[x] <= 1 /\ (writing[x] <=> queue[x] # <<>>)
        BY <1>1 DEF OneWriteAtATime
      <3>2. CASE writing[s]
        <4>1. inflight' = inflight
          BY <1>1, <1>3, <3>2 DEF RunPosted, WriteTypeOK
        <4>2. QED
          BY <1>1, <3>1, <4>1 DEF WriteTypeOK
      <3>3. CASE ~writing[s]
        <4>1. inflight' = [inflight EXCEPT ![s] = inflight[s] + 1]
          BY <1>3, <3>3 DEF RunPosted
        <4>2. inflight[s] = 0
          <5>1. queue[s] = <<>>
            BY <3>1, <3>3
          <5>2. inflight[s] # 1 /\ inflight[s] <= 1 /\ inflight[s] \in Nat
            BY <1>1, <5>1 DEF OneWriteAtATime, WriteTypeOK
          <5>3. QED
            BY <5>2
        <4>3. QED
          BY <1>1, <3>1, <4>1, <4>2 DEF WriteTypeOK
      <3>4. QED
        BY <3>2, <3>3
    <2>5. WriteTypeOK' /\ OneWriteAtATime'
      <3>1. WriteTypeOK'
        BY <1>1, <2>2, <2>3, <2>4 DEF WriteTypeOK
      <3>2. ASSUME NEW x \in Sessions
            PROVE  /\ inflight'[x] <= 1
                   /\ inflight'[x] = 1 => queue'[x] # <<>>
                   /\ writing'[x] <=> queue'[x] # <<>>
        <4>1. CASE x = s
          <5>1. queue'[s] # <<>> /\ writing'[s]
            BY <1>1, <2>2, <2>3 DEF WriteTypeOK
          <5>2. QED
            BY <2>4, <4>1, <5>1
        <4>2. CASE x # s
          <5>1. queue'[x] = queue[x] /\ writing'[x] = writing[x] /\ inflight'[x] = inflight[x]
            BY <1>1, <2>3, <2>4, <4>2 DEF WriteTypeOK
          <5>2. QED
            BY <1>1, <5>1 DEF OneWriteAtATime
        <4>3. QED
          BY <4>1, <4>2
      <3>3. QED
        BY <3>1, <3>2 DEF OneWriteAtATime
    <2>6. /\ Backlog(s)' = Append(queue[s], Head(strand[s])) \o Tail(strand[s])
          /\ \A x \in Sessions : x # s => Backlog(x)' = Backlog(x)
      BY <1>1, <2>2, <2>3 DEF WriteTypeOK, Backlog
    <2>7. InOrder'
      BY <1>1, <2>2, <2>3, <2>6 DEF InOrder
    <2>8. QED
      BY <2>5, <2>7 DEF WriteInv
  <1>4. ASSUME NEW s \in Sessions, OnWrite(s) PROVE WriteInv'
    <2> DEFINE rest == Tail(queue[s])
    <2>1. /\ queue[s] \in Seq(Nat) /\ strand[s] \in Seq(Nat) /\ queue[s] # <<>>
          /\ inflight[s] = 1 /\ received[s] \in Nat /\ posted[s] \in Nat
      BY <1>1, <1>4 DEF WriteTypeOK, OneWriteAtATime, OnWrite
    <2>2. /\ queue' = [queue EXCEPT ![s] = rest]
          /\ writing' = [writing EXCEPT ![s] = rest # <<>>]
          /\ received' = [received EXCEPT ![s] = Head(queue[s])]
          /\ posted' = posted /\ strand' = strand
      BY <1>4 DEF OnWrite, postVars
    <2>3. inflight' = [inflight EXCEPT ![s] = IF rest # <<>> THEN 1 ELSE 0]
      BY <1>1, <1>4, <2>1 DEF OnWrite, WriteTypeOK
    <2>4. Numbered(queue[s] \o strand[s], received[s], posted[s])
      BY <1>1 DEF InOrder, Backlog
    <2>5. /\ rest \in Seq(Nat) /\ Head(queue[s]) = received[s] + 1
          /\ Numbered(rest \o strand[s], received[s] + 1, posted[s])
      BY <2>1, <2>4, NumberedTail
    <2>6. received[s] + 1 \in Nat
      BY <2>1
    <2>8. WriteTypeOK'
      <3>1. writing' \in [Sessions -> BOOLEAN]
        BY <1>1, <2>2 DEF WriteTypeOK
      <3>2. received' \in [Sessions -> Nat] /\ inflight' \in [Sessions -> Nat]
        BY <1>1, <2>2, <2>3, <2>5, <2>6 DEF WriteTypeOK
      <3>3. queue' \in [Sessions -> Seq(Nat)]
        BY <1>1, <2>2, <2>5 DEF WriteTypeOK
      <3>4. QED
        BY <1>1, <2>2, <3>1, <3>2, <3>3 DEF WriteTypeOK
    <2>9. ASSUME NEW x \in Sessions
          PROVE  /\ inflight'[x] <= 1
                 /\ inflight'[x] = 1 => queue'[x] # <<>>
                 /\ writing'[x] <=> queue'[x] # <<>>
                 /\ Numbered(Backlog(x)', received'[x], posted'[x])
      <3>1. CASE x = s
        <4>1. /\ queue'[s] = rest /\ received'[s] = received[s] + 1
              /\ inflight'[s] = (IF rest # <<>> THEN 1 ELSE 0)
              /\ Backlog(s)' = rest \o strand[s]
          BY <1>1, <2>2, <2>3, <2>5 DEF WriteTypeOK, Backlog
        <4>2. writing'[s] <=> rest # <<>>
          BY <1>1, <2>2 DEF WriteTypeOK
        <4>3. inflight'[s] <= 1 /\ (inflight'[s] = 1 => queue'[s] # <<>>)
          BY <4>1
        <4>4. writing'[s] <=> queue'[s] # <<>>
          BY <4>1, <4>2
        <4>5. Numbered(Backlog(s)', received'[s], posted'[s])
          BY <2>2, <2>5, <4>1
        <4>6. QED
          BY <3>1, <4>3, <4>4, <4>5
      <3>2. CASE x # s
        <4>1. /\ queue'[x] = queue[x] /\ writing'[x] = writing[x] /\ inflight'[x] = inflight[x]
              /\ received'[x] = received[x] /\ Backlog(x)' = Backlog(x)
          BY <1>1, <2>2, <2>3, <3>2 DEF WriteTypeOK, Backlog
        <4>2. QED
          BY <1>1, <2>2, <4>1 DEF OneWriteAtATime, InOrder
      <3>3. QED
        BY <3>1, <3>2
    <2>10. QED
      BY <2>8, <2>9 DEF WriteInv, OneWriteAtATime, InOrder
  <1>5. ASSUME NEW s \in Sessions, OnWriteFails(s) PROVE WriteInv'
    <2>1. /\ inflight[s] = 1
          /\ inflight' = [inflight EXCEPT ![s] = inflight[s] - 1]
          /\ UNCHANGED <<queue, strand, posted, received, writing>>
      BY <1>1, <1>5 DEF OnWriteFails, OneWriteAtATime, WriteTypeOK, postVars
    <2>2. WriteTypeOK' /\ OneWriteAtATime'
      BY <1>1, <2>1 DEF WriteTypeOK, OneWriteAtATime
    <2>3. InOrder'
      BY <1>1, <2>1 DEF InOrder, Backlog
    <2>4. QED
      BY <2>2, <2>3 DEF WriteInv
  <1>6. QED
    BY <1>2, <1>3, <1>4, <1>5, OtherStepsPost, PostsWriteInv
    DEF Next, SessionStep, OtherStep, Terminated
-----------------------------------------------------------------------------
(* The registry's part of a step, the life of the objects, the adapter's mutex. *)

\* Only these actions call the registry's functions that change it.
LEMMA RegistryCalls ==
  ASSUME OwnTypeOK, [Next]_vars
  PROVE  \/ UNCHANGED registryVars
         \/ \E s \in Sessions : Upgrade(s) \/ Destroy(s) \/ Text(s) \/ Subscribe(s)
  <1>1. ASSUME NEW s \in Sessions, SessionStep(s),
               ~(Upgrade(s) \/ Destroy(s) \/ Text(s) \/ Subscribe(s))
        PROVE  UNCHANGED registryVars
    BY <1>1 DEF SessionStep, Handle, DoAccept, OnAccept, PeerLeaves, ReadEnds, OnRead,
                Register, Route, Relay, Result, Switch, Command, Replay, RunPosted, OnWrite,
                OnWriteFails
  <1>2. ASSUME Publish PROVE UNCHANGED registryVars
    BY <1>2 DEF Publish, FeedTick, MonitorFires, MonitorBroadcast
  <1>3. QED
    BY <1>1, <1>2 DEF Next, Terminated, vars

\* Every step of the server is a call of the registry or leaves it alone.
LEMMA RegistryStep ==
  ASSUME OwnTypeOK, Lifecycle, [Next]_vars
  PROVE  [RegistryNext]_registryVars
  <1>1. ASSUME NEW s \in Sessions, Upgrade(s) PROVE RegistryNext
    <2>1. s \notin clients /\ AddClient(s)
      BY <1>1 DEF Upgrade, Lifecycle
    <2>2. QED
      BY <2>1 DEF RegistryNext
  <1>2. ASSUME NEW s \in Sessions, Destroy(s) PROVE RegistryNext
    BY <1>2 DEF Destroy, RegistryNext
  <1>3. ASSUME NEW s \in Sessions, Text(s) PROVE [RegistryNext]_registryVars
    <2>1. frame[s].mode \in Modes
      BY DEF OwnTypeOK, Frame
    <2>2. UNCHANGED registryVars \/ SetClientMode(s, frame[s].mode)
      BY <1>3 DEF Text
    <2>3. QED
      BY <2>1, <2>2 DEF RegistryNext
  <1>4. ASSUME NEW s \in Sessions, Subscribe(s) PROVE [RegistryNext]_registryVars
    <2>1. frame[s].words \subseteq Keywords \cup {AllWord} /\ Keywords \subseteq Topics
      BY SessionsAssumption DEF OwnTypeOK, Frame
    <2>2. ExtractTopics(frame[s].words) \in SUBSET Topics
      BY <2>1 DEF ExtractTopics
    <2>3. UNCHANGED registryVars \/ AddClientTopics(s, ExtractTopics(frame[s].words))
      BY <1>4 DEF Subscribe
    <2>4. QED
      BY <2>2, <2>3 DEF RegistryNext
  <1>5. QED
    BY <1>1, <1>2, <1>3, <1>4, RegistryCalls

\* A strand that a post fills is a live session's.
LEMMA PostsToLive ==
  ASSUME WriteTypeOK, Posts, NEW x \in Sessions, strand'[x] # <<>>
  PROVE  strand[x] # <<>> \/ stage[x] = "live"
  <1>1. CASE UNCHANGED postVars
    BY <1>1 DEF postVars
  <1>2. CASE ~UNCHANGED postVars
    <2>1. PICK made \in [Sessions -> Nat] :
            Post(made) /\ \A s \in Sessions : made[s] > 0 => stage[s] = "live"
      BY <1>2 DEF Posts
    <2>2. strand' \in [Sessions -> Seq(Nat)] /\ Len(strand'[x]) = Len(strand[x]) + made[x]
      BY <2>1, PostEffect
    <2>3. CASE made[x] = 0
      <3>1. strand[x] \in Seq(Nat) /\ strand'[x] \in Seq(Nat)
        BY <2>2 DEF WriteTypeOK
      <3>2. Len(strand'[x]) > 0
        BY <3>1
      <3>3. QED
        BY <2>2, <2>3, <3>1, <3>2
    <2>4. CASE made[x] # 0
      <3>1. made[x] > 0
        BY <2>4
      <3>2. QED
        BY <2>1, <3>1
    <2>5. QED
      BY <2>3, <2>4
  <1>3. QED
    BY <1>1, <1>2

\* A session is registered when it is constructed and unregistered when its
\* destructor has run; nothing owns it before or after.
LEMMA LifecycleStep ==
  ASSUME RegistryTypeOK, OwnTypeOK, WriteInv, Lifecycle, [Next]_vars
  PROVE  Lifecycle'
  <1>1. WriteTypeOK
    BY DEF WriteInv
  <1> USE DEF OwnTypeOK, Lifecycle, Owned, Pending
  <1>2. ASSUME NEW s \in Sessions, Upgrade(s) PROVE Lifecycle'
    <2>1. /\ stage' = [stage EXCEPT ![s] = "ctor"] /\ clients' = clients \cup {s}
          /\ io' = io /\ adapter' = adapter /\ strand' = [strand EXCEPT ![s] = <<>>]
          /\ inflight' = [inflight EXCEPT ![s] = 0]
      BY <1>2 DEF Upgrade, AddClient, handlerVars, adapterVars
    <2>2. stage[s] = "free"
      BY <1>2 DEF Upgrade
    <2>3. ASSUME NEW x \in Sessions, x # s
          PROVE  /\ stage'[x] = stage[x] /\ (x \in clients' <=> x \in clients)
                 /\ strand'[x] = strand[x] /\ inflight'[x] = inflight[x]
      BY <1>1, <2>1, <2>3 DEF WriteTypeOK
    <2>4. /\ stage'[s] = "ctor" /\ s \in clients'
          /\ strand'[s] = <<>> /\ inflight'[s] = 0
      BY <1>1, <2>1 DEF WriteTypeOK
    <2>5. io[s] = "none" /\ adapter # s
      BY <2>2
    <2>6. QED
      BY <2>1, <2>3, <2>4, <2>5
  <1>3. ASSUME NEW s \in Sessions, DoAccept(s) PROVE Lifecycle'
    BY <1>3 DEF DoAccept, adapterVars, postVars, writeVars, registryVars
  <1>4. ASSUME NEW s \in Sessions, Destroy(s) PROVE Lifecycle'
    <2>1. clients' = clients \ {s}
      BY <1>4 DEF Destroy, RemoveClient, registryVars
    <2>2. QED
      BY <1>4, <2>1, SessionsAssumption DEF Destroy, handlerVars, postVars, writeVars
  <1>5. ASSUME NEW s \in Sessions, RunPosted(s) PROVE Lifecycle'
    <2>1. /\ stage[s] = "live" /\ stage' = stage /\ clients' = clients
          /\ io' = io /\ adapter' = adapter
          /\ strand' = [strand EXCEPT ![s] = Tail(strand[s])]
          /\ \A x \in Sessions \ {s} : inflight'[x] = inflight[x]
      BY <1>1, <1>5 DEF RunPosted, handlerVars, adapterVars, registryVars, WriteTypeOK
    <2>2. QED
      BY <1>1, <2>1 DEF WriteTypeOK
  <1>6. ASSUME NEW s \in Sessions, OnWrite(s) \/ OnWriteFails(s) PROVE Lifecycle'
    <2>1. /\ stage[s] = "live" /\ stage' = stage /\ clients' = clients
          /\ io' = io /\ adapter' = adapter /\ strand' = strand
          /\ \A x \in Sessions \ {s} : inflight'[x] = inflight[x]
      BY <1>1, <1>6 DEF OnWrite, OnWriteFails, handlerVars, adapterVars, postVars,
                        registryVars, WriteTypeOK
    <2>2. QED
      BY <1>1, <2>1 DEF WriteTypeOK
  <1>7. ASSUME UNCHANGED <<stage, inflight>>, clients' = clients,
               \A x \in Sessions : io'[x] # io[x] => io[x] # "none",
               adapter' = adapter \/ (adapter' \in Sessions /\ io[adapter'] # "none"),
               \A x \in Sessions : strand'[x] # <<>> => strand[x] # <<>> \/ stage[x] = "live"
        PROVE  Lifecycle'
    BY <1>7
  <1>9. ASSUME NEW s \in Sessions,
               OnAccept(s) \/ ReadEnds(s) \/ (\E f \in Frames : OnRead(s, f)) \/ Handle(s)
        PROVE  Lifecycle'
    <2>1. /\ UNCHANGED <<stage, inflight>>
          /\ \A x \in Sessions : io'[x] # io[x] => x = s
          /\ io[s] # "none"
      BY <1>9 DEF OnAccept, ReadEnds, OnRead, Handle, Register, Route, Relay, Result, Switch,
                  Text, Command, Replay, Subscribe, Goto, EndHandler, writeVars
    <2>2. clients' = clients
      BY <1>9 DEF OnAccept, ReadEnds, OnRead, Handle, Register, Route, Relay, Result, Switch,
                  Text, Command, Replay, Subscribe, registryVars, SetClientMode,
                  AddClientTopics
    <2>3. adapter' = adapter \/ adapter' = s
      BY <1>9 DEF OnAccept, ReadEnds, OnRead, Handle, Register, Route, Relay, Result, Switch,
                  Text, Command, Replay, Subscribe, adapterVars
    <2>4. Posts
      BY <1>9, OtherStepsPost DEF OtherStep
    <2>5. QED
      BY <1>1, <1>7, PostsToLive, <2>1, <2>2, <2>3, <2>4
  <1>10. ASSUME \/ \E s \in Sessions : PeerLeaves(s)
                \/ Publish \/ UNCHANGED vars
         PROVE  Lifecycle'
    <2>1. UNCHANGED <<stage, inflight, clients, io, adapter>>
      BY <1>10 DEF PeerLeaves, Publish, FeedTick, MonitorFires, MonitorBroadcast, vars,
                   handlerVars, adapterVars, writeVars, registryVars
    <2>2. Posts
      BY <1>10, OtherStepsPost DEF OtherStep
    <2>3. QED
      BY <1>1, <1>7, PostsToLive, <2>1, <2>2
  <1>11. QED
    BY <1>2, <1>3, <1>4, <1>5, <1>6, <1>9, <1>10 DEF Next, SessionStep, Terminated

\* A thread inside a relay or start_replay holds the mutex, and only the holder
\* changes g_adapter_session: the relay's check stays true to its last broadcast.
LEMMA MutexStep ==
  ASSUME OwnTypeOK, Lifecycle, MutexHeld, [Next]_vars
  PROVE  MutexHeld'
  <1> USE DEF OwnTypeOK, MutexHeld, RelayIsTheAdapters
  <1> DEFINE Section == {"relay", "replay", "destroyOld"}
  <1>1. ASSUME UNCHANGED <<adapter, mutex>>,
               NEW s \in Sessions, io[s] \notin Section,
               io' \in [Sessions -> Waiting \cup Running], io'[s] \notin Section,
               \A x \in Sessions \ {s} : io'[x] = io[x]
        PROVE  MutexHeld'
    BY <1>1, SessionsAssumption
  <1>2. ASSUME NEW s \in Sessions,
               \/ DoAccept(s) \/ OnAccept(s) \/ ReadEnds(s)
               \/ \E f \in Frames : OnRead(s, f)
               \/ Result(s) \/ Switch(s) \/ Text(s) \/ Subscribe(s)
        PROVE  MutexHeld'
    <2>1. UNCHANGED <<adapter, mutex>>
      BY <1>2 DEF DoAccept, OnAccept, ReadEnds, OnRead, Result, Switch, Text, Subscribe,
                  adapterVars
    <2>2. \E pc \in {"none", "accepting", "armed", "register", "route", "text",
                     "command", "subscribe"} : io' = [io EXCEPT ![s] = pc]
      BY <1>2 DEF DoAccept, OnAccept, ReadEnds, OnRead, Result, Switch, Text, Subscribe,
                  Goto, EndHandler
    <2>3. io[s] \notin Section
      BY <1>2 DEF DoAccept, OnAccept, ReadEnds, OnRead, Result, Switch, Text, Subscribe,
                  Lifecycle, Owned, Pending
    <2>4. QED
      BY <1>1, <2>1, <2>2, <2>3 DEF Waiting, Running
  <1>3. ASSUME NEW s \in Sessions, Register(s) PROVE MutexHeld'
    <2>1. mutex = NoSession /\ adapter' = s /\ io[s] = "register"
      BY <1>3 DEF Register
    <2>2. \A x \in Sessions : io[x] \notin Section
      BY <2>1, SessionsAssumption
    <2>3. \/ mutex' = s /\ io' = [io EXCEPT ![s] = "destroyOld"]
          \/ mutex' = mutex /\ io' = [io EXCEPT ![s] = "armed"]
      BY <1>3 DEF Register, Goto, EndHandler
    <2>4. QED
      BY <2>1, <2>2, <2>3
  <1>4. ASSUME NEW s \in Sessions, Route(s) PROVE MutexHeld'
    <2>1. mutex = NoSession /\ adapter' = adapter
      BY <1>4 DEF Route
    <2>2. \A x \in Sessions : io[x] \notin Section
      BY <2>1, SessionsAssumption
    <2>3. \/ adapter = s /\ mutex' = s /\ io' = [io EXCEPT ![s] = "relay"]
          \/ mutex' = mutex /\ \E pc \in {"result", "switch", "text"} :
                               io' = [io EXCEPT ![s] = pc]
      BY <1>4 DEF Route, Goto
    <2>4. QED
      BY <2>1, <2>2, <2>3
  <1>5. ASSUME NEW s \in Sessions, Relay(s) PROVE MutexHeld'
    <2>1. io[s] = "relay" /\ mutex = s /\ adapter' = adapter
      BY <1>5 DEF Relay
    <2>2. \A x \in Sessions \ {s} : io[x] \notin Section
      BY <2>1
    <2>3. \/ UNCHANGED <<io, mutex>>
          \/ mutex' = NoSession /\ \E pc \in {"text", "armed"} : io' = [io EXCEPT ![s] = pc]
      BY <1>5 DEF Relay, Goto, EndHandler
    <2>4. QED
      BY <2>1, <2>2, <2>3
  <1>6. ASSUME NEW s \in Sessions, Command(s) PROVE MutexHeld'
    <2>1. mutex = NoSession /\ adapter' = adapter
      BY <1>6 DEF Command
    <2>2. \A x \in Sessions : io[x] \notin Section
      BY <2>1, SessionsAssumption
    <2>3. \/ mutex' = s /\ io' = [io EXCEPT ![s] = "replay"]
          \/ mutex' = mutex /\ io' = [io EXCEPT ![s] = "subscribe"]
      BY <1>6 DEF Command, Goto
    <2>4. QED
      BY <2>1, <2>2, <2>3
  <1>7. ASSUME NEW s \in Sessions, Replay(s) PROVE MutexHeld'
    <2>1. /\ io[s] = "replay" /\ adapter' = adapter /\ mutex' = NoSession
          /\ io' = [io EXCEPT ![s] = "subscribe"]
      BY <1>7 DEF Replay, Goto
    <2>2. \A x \in Sessions \ {s} : io[x] \notin Section
      BY <2>1
    <2>3. QED
      BY <2>1, <2>2
  <1>8. ASSUME NEW s \in Sessions, Destroy(s) PROVE MutexHeld'
    <2>1. mutex = NoSession /\ mutex' = mutex /\ io' = io
      BY <1>8 DEF Destroy, handlerVars
    <2>2. QED
      BY <2>1, SessionsAssumption
  <1>9. ASSUME \/ UNCHANGED vars \/ Publish
               \/ \E s \in Sessions : \/ Upgrade(s) \/ PeerLeaves(s) \/ RunPosted(s)
                                     \/ OnWrite(s) \/ OnWriteFails(s)
        PROVE  MutexHeld'
    <2>1. UNCHANGED <<io, adapter, mutex>>
      BY <1>9 DEF vars, Publish, FeedTick, MonitorFires, MonitorBroadcast, Upgrade, PeerLeaves,
                  RunPosted, OnWrite, OnWriteFails, handlerVars, adapterVars
    <2>2. QED
      BY <2>1
  <1>10. QED
    BY <1>2, <1>3, <1>4, <1>5, <1>6, <1>7, <1>8, <1>9
    DEF Next, SessionStep, Handle, Terminated
-----------------------------------------------------------------------------
(* The theorems *)

SessionsInv == RegistryInv /\ OwnTypeOK /\ WriteInv /\ Lifecycle /\ MutexHeld

\* main starts with no session.
LEMMA SessionsInitInv == Init => SessionsInv
  <1> SUFFICES ASSUME Init PROVE SessionsInv
    OBVIOUS
  <1> USE DEF Init
  <1>1. RegistryInv
    BY RegistryInitInv
  <1>2. <<>> \in Seq(Topics) /\ <<>> \in Seq(Nat)
    OBVIOUS
  <1>3. OwnTypeOK
    BY <1>2, NoFrameTyped, SessionsAssumption DEF OwnTypeOK, Waiting
  <1>4. WriteTypeOK /\ OneWriteAtATime
    BY <1>2 DEF WriteTypeOK, OneWriteAtATime
  <1>5. InOrder
    <2>1. Numbered(<<>> \o <<>>, 0, 0)
      BY DEF Numbered
    <2>2. QED
      BY <2>1 DEF InOrder, Backlog
  <1>6. Lifecycle
    <2> SUFFICES ASSUME NEW s \in Sessions
                 PROVE  (s \in clients <=> stage[s] # "free") /\ ~Owned(s)
      BY DEF Lifecycle
    <2>1. s \notin clients /\ stage[s] = "free"
      BY DEF RegistryInit
    <2>2. io[s] = "none" /\ strand[s] = <<>> /\ inflight[s] = 0 /\ adapter # s
      BY SessionsAssumption
    <2>3. ~Owned(s)
      BY <2>2 DEF Owned, Pending
    <2>4. QED
      BY <2>1, <2>3
  <1>7. MutexHeld
    BY DEF MutexHeld, RelayIsTheAdapters
  <1>8. QED
    BY <1>1, <1>3, <1>4, <1>5, <1>6, <1>7 DEF SessionsInv, WriteInv

\* Every step keeps every part.
LEMMA SessionsStepInv == SessionsInv /\ [Next]_vars => SessionsInv'
  <1> SUFFICES ASSUME SessionsInv, [Next]_vars PROVE SessionsInv'
    OBVIOUS
  <1>1. RegistryInv /\ OwnTypeOK /\ WriteInv /\ Lifecycle /\ MutexHeld
    BY DEF SessionsInv
  <1>2. RegistryTypeOK
    BY <1>1 DEF RegistryInv
  <1>3. RegistryInv'
    BY <1>1, RegistryStep, RegistryStepInv
  <1>4. OwnTypeOK' /\ WriteInv' /\ Lifecycle' /\ MutexHeld'
    BY <1>1, <1>2, OwnTypeStep, WriteInvStep, LifecycleStep, MutexStep
  <1>5. QED
    BY <1>3, <1>4 DEF SessionsInv

\* The inductive invariant holds.
LEMMA SessionsInvariant == Spec => []SessionsInv
  BY SessionsInitInv, SessionsStepInv, PTL DEF Spec

\* The state of the server stays well typed: no counter of writes or of
\* subscriptions goes below zero.
THEOREM SessionsTyped == Spec => []SessionsTypeOK
  <1>1. SessionsInv => SessionsTypeOK
    BY DEF SessionsInv, RegistryInv, OwnTypeOK, WriteInv, WriteTypeOK, SessionsTypeOK
  <1>2. QED
    BY <1>1, SessionsInvariant, PTL

\* However connections, handlers and broadcasts interleave, the registry points
\* to session objects only.
THEOREM NoDangling == Spec => []NoDanglingPointer
  <1>1. SessionsInv => NoDanglingPointer
    <2> SUFFICES ASSUME SessionsInv, NEW s \in Sessions,
                        s \in clients \/ \E t \in Topics : subs[t][s] > 0
                 PROVE  stage[s] # "free"
      BY DEF NoDanglingPointer
    <2>1. s \in clients
      BY DEF SessionsInv, RegistryInv, Agreement, SubscribersRegistered
    <2>2. QED
      BY <2>1 DEF SessionsInv, Lifecycle
  <1>2. QED
    BY <1>1, SessionsInvariant, PTL

\* Commands reach an object that is alive.
THEOREM AdapterLives == Spec => []AdapterObjectLives
  <1>1. SessionsInv => AdapterObjectLives
    BY DEF SessionsInv, OwnTypeOK, Lifecycle, Owned, AdapterObjectLives
  <1>2. QED
    BY <1>1, SessionsInvariant, PTL

\* writing_ and write_queue_ keep two async_writes from ever overlapping.
THEOREM OneWrite == Spec => []OneWriteAtATime
  <1>1. SessionsInv => OneWriteAtATime
    BY DEF SessionsInv, WriteInv
  <1>2. QED
    BY <1>1, SessionsInvariant, PTL

\* No message is lost, duplicated or overtaken between send_message and the peer.
THEOREM BacklogInOrder == Spec => []InOrder
  <1>1. SessionsInv => InOrder
    BY DEF SessionsInv, WriteInv
  <1>2. QED
    BY <1>1, SessionsInvariant, PTL

\* g_adapter_mutex is held from the check of the adapter to the last broadcast.
THEOREM RelayExclusive == Spec => []RelayIsTheAdapters
  <1>1. SessionsInv => RelayIsTheAdapters
    BY DEF SessionsInv, MutexHeld
  <1>2. QED
    BY <1>1, SessionsInvariant, PTL

\* The server calls the registry only as the registry's own specification allows,
\* so what is proved of the registry alone holds in the server.
THEOREM ServerUsesRegistry == Spec => RegistrySpec
  <1>1. Init => RegistryInit
    BY DEF Init
  <1>2. SessionsInv /\ [Next]_vars => [RegistryNext]_registryVars
    BY RegistryStep DEF SessionsInv
  <1>3. QED
    BY <1>1, <1>2, SessionsInvariant, PTL DEF Spec, RegistrySpec

\* Every step of the server is a step of the outbox or leaves it alone.
LEMMA OutboxStep ==
  ASSUME SessionsInv, [Next]_vars
  PROVE  [OutboxOf!Next]_<<posted, received>>
  <1>1. /\ WriteTypeOK /\ OneWriteAtATime /\ InOrder
        /\ RegistryTypeOK /\ OwnTypeOK /\ Lifecycle
    BY DEF SessionsInv, WriteInv, RegistryInv
  <1>2. ASSUME NEW s \in Sessions, Upgrade(s) PROVE OutboxOf!Open(s)
    BY <1>2 DEF Upgrade, OutboxOf!Open
  <1>3. ASSUME NEW s \in Sessions, OnWrite(s) PROVE OutboxOf!Receive(s)
    <2>1. /\ queue[s] \in Seq(Nat) /\ strand[s] \in Seq(Nat) /\ queue[s] # <<>>
          /\ received[s] \in Nat /\ posted[s] \in Nat
      BY <1>1, <1>3 DEF WriteTypeOK, OneWriteAtATime, OnWrite
    <2>2. Numbered(queue[s] \o strand[s], received[s], posted[s])
      BY <1>1 DEF InOrder, Backlog
    <2>3. Head(queue[s]) = received[s] + 1 /\ received[s] < posted[s]
      BY <2>1, <2>2, NumberedTail
    <2>4. posted' = posted /\ received' = [received EXCEPT ![s] = Head(queue[s])]
      BY <1>3 DEF OnWrite, postVars
    <2>5. QED
      BY <2>3, <2>4 DEF OutboxOf!Receive
  <1>4. ASSUME NEW s \in Sessions, RunPosted(s) \/ OnWriteFails(s)
        PROVE  UNCHANGED <<posted, received>>
    BY <1>4 DEF RunPosted, OnWriteFails, postVars
  <1>5. ASSUME OtherStep PROVE [OutboxOf!Next]_<<posted, received>>
    <2>1. Posts /\ received' = received
      BY <1>1, <1>5, OtherStepsPost DEF writeVars
    <2>2. CASE UNCHANGED postVars
      BY <2>1, <2>2 DEF postVars
    <2>3. CASE ~UNCHANGED postVars
      <3>1. PICK made \in [Sessions -> Nat] : Post(made)
        BY <2>1, <2>3 DEF Posts
      <3>2. /\ posted' \in [Sessions -> Nat]
            /\ \A s \in Sessions : posted'[s] = posted[s] + made[s]
        BY <1>1, <3>1, PostEffect
      <3>3. \A s \in Sessions : posted'[s] >= posted[s]
        BY <1>1, <3>2 DEF WriteTypeOK
      <3>4. OutboxOf!Send
        BY <2>1, <3>2, <3>3 DEF OutboxOf!Send
      <3>5. QED
        BY <3>4 DEF OutboxOf!Next
    <2>4. QED
      BY <2>2, <2>3
  <1>6. QED
    BY <1>2, <1>3, <1>4, <1>5
    DEF Next, SessionStep, OtherStep, Terminated, OutboxOf!Next

\* write_queue_, writing_ and the strand implement a FIFO: whatever a client
\* receives, it receives in the order the server sent it, each message once.
THEOREM OutboxImplemented == Spec => OutboxSpec
  <1>1. Init => OutboxOf!Init
    BY DEF Init, OutboxOf!Init
  <1>2. SessionsInv /\ [Next]_vars => [OutboxOf!Next]_<<posted, received>>
    BY OutboxStep
  <1>3. QED
    BY <1>1, <1>2, SessionsInvariant, PTL DEF Spec, OutboxSpec, OutboxOf!Spec, OutboxOf!outboxVars
=============================================================================
