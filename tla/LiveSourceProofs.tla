-------------------------- MODULE LiveSourceProofs --------------------------
(***************************************************************************)
(* For any number of overlapping switch_exchange requests, exchanges and   *)
(* ticks that write the row: the types, what the row and the collector     *)
(* name once no handler is under way, the life of the adapters, and that   *)
(* websocket exchanges are used in the order of WebsocketFeed.             *)
(***************************************************************************)
EXTENDS LiveSource, TLAPS

-----------------------------------------------------------------------------
(* The inductive invariant.                                                *)

\* The thread of start() comes to no handler, and the others to no pick; who runs an
\* adapter has a reference, and who publishes one has its own.
Placed ==
  /\ pc[Starter] \in {"pick", "dropOld", "done"} \cup InRun
  /\ \A t \in Switches : pc[t] # "pick"
  /\ \A t \in Threads : pc[t] \in InRun => mine[t] \in Adapters
  /\ \A t \in Threads : pc[t] = "publish" => mine[t] = t

\* db_mutex_ has one holder, and an argument is read while it is held.
DbHeld ==
  /\ dbLocked => read \in Exchanges
  /\ \A t \in Threads : pc[t] = "write" =>
       /\ dbLocked
       /\ \A u \in Threads : pc[u] = "write" => u = t
       /\ \A a \in Adapters : feed[a] # "touching"
  /\ \A a \in Adapters : feed[a] = "touching" =>
       /\ dbLocked
       /\ \A b \in Adapters : feed[b] = "touching" => b = a

\* Unless a handler is about to register the exchange it has named, the holder has read
\* what current_exchange_ is now, and without a holder the row has it.
RowFollows ==
  (\A t \in Threads : pc[t] # "register") =>
    /\ dbLocked => read = current
    /\ db /\ (\A t \in Threads : pc[t] # "write") => row = current

\* The adapter of a request that has not made it, or not published it.
Unmade(a) == a # Starter /\ pc[a] \in {"idle", "take", "stop"} \cup InHandler
Unpublished(a) == a # Starter /\ pc[a] \in {"idle", "take", "stop", "publish"} \cup InHandler

\* What is in adapter_ has been published, and is taken out before it is stopped.
Owned ==
  /\ \A a \in Adapters : Unpublished(a) =>
       slot # a /\ a \notin stopped /\ \A t \in Threads : old[t] # a
  /\ slot \notin stopped
  /\ \A t \in Threads : old[t] # None => old[t] # slot

\* An adapter that is referred to is there; a destructor runs on one thread, and the
\* exchange's thread ends before it does.
Living ==
  /\ \A a \in Adapters : Referenced(a, slot, mine, old) => alive[a] = "live"
  /\ \A a \in Adapters : Unmade(a) => alive[a] = "none"
  /\ \A t \in Threads \cup {Main} : joins[t] # None =>
       /\ alive[joins[t]] = "dying"
       /\ \A u \in Threads \cup {Main} : joins[u] = joins[t] => u = t
  /\ \A a \in Adapters : feed[a] \in {"running", "touching"} => alive[a] \in {"live", "dying"}

LiveIInv ==
  LiveTypeOK /\ Placed /\ DbHeld /\ RowFollows /\ CurrentIsShown /\ Owned /\ Living

-----------------------------------------------------------------------------
(* Each step keeps each part of it.                                        *)

\* The exchange's own stop() leaves a websocket exchange as it is.
LEMMA LinkStopped ==
  ASSUME LiveTypeOK, NEW a,
         link' = [link EXCEPT ![a] = @ /\ type[a] \in Websockets]
  PROVE  link' \in [Adapters -> BOOLEAN]
<1>1. (link[a] /\ type[a] \in Websockets) \in BOOLEAN
  OBVIOUS
<1> QED
  BY <1>1 DEF LiveTypeOK

\* Whether the destructor runs or not, and on which thread.
LEMMA DroppedTyped ==
  ASSUME LiveTypeOK, NEW t \in Threads \cup {Main}, NEW a \in Adapters \cup {None}, Dropped(t, a)
  PROVE  /\ alive' \in [Adapters -> {"none", "live", "dying", "freed"}]
         /\ run' \in [Adapters -> BOOLEAN]
         /\ link' \in [Adapters -> BOOLEAN]
         /\ joins' \in [Threads \cup {Main} -> Adapters \cup {None}]
<1>1. CASE a # None /\ ~Referenced(a, slot', mine', old')
  BY <1>1 DEF Dropped, LiveTypeOK
<1>2. CASE ~(a # None /\ ~Referenced(a, slot', mine', old'))
  BY <1>2 DEF Dropped, LiveTypeOK
<1> QED
  BY <1>1, <1>2

\* The types.
LEMMA TypeKept ==
  ASSUME LiveIInv, Next
  PROVE  LiveTypeOK'
<1> USE DEF LiveIInv, LiveTypeOK, At, refVars, exchangeVars, adapterVars, rowVars, monitorVars,
            nameVars, InHandler, InRun, InWorker, Adapters
<1>1. ASSUME NEW t \in Threads, NEW x \in Exchanges, Request(t, x) PROVE LiveTypeOK'
  BY <1>1, LiveSourceAssumption DEF Request
<1>2. ASSUME NEW t \in Threads, AssignCurrent(t) PROVE LiveTypeOK'
  BY <1>2 DEF AssignCurrent
<1>3. ASSUME NEW t \in Threads, RegisterRead(t) PROVE LiveTypeOK'
  BY <1>3 DEF RegisterRead
<1>4. ASSUME NEW t \in Threads, RegisterWrite(t) PROVE LiveTypeOK'
  <2>1. read \in Exchanges
    BY <1>4 DEF RegisterWrite, DbHeld
  <2>2. row' \in Exchanges /\ db' \in BOOLEAN
    BY <1>4, <2>1 DEF RegisterWrite, UpdateRow
  <2> QED
    BY <1>4, <2>2 DEF RegisterWrite, UpdateRow
<1>5. ASSUME NEW t \in Threads, Detach(t) PROVE LiveTypeOK'
  BY <1>5 DEF Detach
<1>6. ASSUME NEW t \in Threads, TakeOld(t) PROVE LiveTypeOK'
  BY <1>6 DEF TakeOld
<1>7. ASSUME NEW t \in Threads, StopOldMakeNew(t) PROVE LiveTypeOK'
  <2>1. /\ run' \in [Adapters -> BOOLEAN]
        /\ link' \in [Adapters -> BOOLEAN]
        /\ stopped' \in SUBSET Adapters
    <3>1. CASE old[t] = None
      BY <1>7, <3>1 DEF StopOldMakeNew
    <3>2. CASE old[t] # None
      <4>1. old[t] \in Adapters /\ StopAdapter(old[t])
        BY <1>7, <3>2 DEF StopOldMakeNew
      <4> QED
        BY <4>1, LinkStopped DEF StopAdapter
    <3> QED
      BY <3>1, <3>2
  <2> QED
    BY <1>7, <2>1 DEF StopOldMakeNew
<1>8. ASSUME NEW t \in Threads, Publish(t) PROVE LiveTypeOK'
  <2>1. pc' \in [Threads -> {"idle", "pick", "done"} \cup InHandler \cup InWorker]
    BY <1>8 DEF Publish
  <2>2. Dropped(t, slot)
    BY <1>8 DEF Publish
  <2> QED
    BY <1>8, <2>1, <2>2, DroppedTyped DEF Publish
<1>9. ASSUME NEW t \in Threads, Pick(t) PROVE LiveTypeOK'
  BY <1>9 DEF Pick
<1>10. ASSUME NEW t \in Threads, Connect(t) PROVE LiveTypeOK'
  <2>1. mine[t] \in Adapters
    BY <1>10 DEF Connect, Placed
  <2> QED
    BY <1>10, <2>1 DEF Connect
<1>11. ASSUME NEW t \in Threads, Subscribe(t) PROVE LiveTypeOK'
  BY <1>11 DEF Subscribe
<1>12. ASSUME NEW t \in Threads, SubscribeNothing(t) PROVE LiveTypeOK'
  BY <1>12 DEF SubscribeNothing
<1>13. ASSUME NEW t \in Threads, StartLoop(t) PROVE LiveTypeOK'
  BY <1>13 DEF StartLoop
<1>14. ASSUME NEW t \in Threads, DropNew(t) PROVE LiveTypeOK'
  <2>1. pc' \in [Threads -> {"idle", "pick", "done"} \cup InHandler \cup InWorker]
    BY <1>14 DEF DropNew
  <2>2. Dropped(t, mine[t])
    BY <1>14 DEF DropNew
  <2> QED
    BY <1>14, <2>1, <2>2, DroppedTyped DEF DropNew
<1>15. ASSUME NEW t \in Threads, DropOld(t) PROVE LiveTypeOK'
  <2>1. pc' \in [Threads -> {"idle", "pick", "done"} \cup InHandler \cup InWorker]
    BY <1>15 DEF DropOld
  <2>2. Dropped(t, old[t])
    BY <1>15 DEF DropOld
  <2> QED
    BY <1>15, <2>1, <2>2, DroppedTyped DEF DropOld
<1>16. ASSUME NEW t \in Threads \cup {Main}, Destroyed(t) PROVE LiveTypeOK'
  BY <1>16, LiveSourceAssumption DEF Destroyed
<1>17. ASSUME NEW a \in Adapters, TouchRead(a) PROVE LiveTypeOK'
  BY <1>17 DEF TouchRead
<1>18. ASSUME NEW a \in Adapters, TouchWrite(a) PROVE LiveTypeOK'
  <2>1. read \in Exchanges
    BY <1>18 DEF TouchWrite, DbHeld
  <2>2. row' \in Exchanges /\ db' \in BOOLEAN
    BY <1>18, <2>1 DEF TouchWrite, UpdateRow
  <2> QED
    BY <1>18, <2>2 DEF TouchWrite, UpdateRow
<1>19. ASSUME NEW a \in Adapters, FeedEnds(a) PROVE LiveTypeOK'
  BY <1>19 DEF FeedEnds
<1>20. ASSUME NEW a \in Adapters, Reconnect(a) PROVE LiveTypeOK'
  BY <1>20 DEF Reconnect
<1>21. ASSUME Stop PROVE LiveTypeOK'
  <2>1. CASE slot = None
    BY <1>21, <2>1 DEF Stop
  <2>2. CASE slot # None
    <3>0. slot \in Adapters /\ stopped' = stopped \cup {slot} /\ run' = [run EXCEPT ![slot] = FALSE]
      BY <1>21, <2>2 DEF Stop
    <3>1. stopped' \in SUBSET Adapters /\ run' \in [Adapters -> BOOLEAN]
      BY <3>0
    <3>2. /\ alive' \in [Adapters -> {"none", "live", "dying", "freed"}]
          /\ joins' \in [Threads \cup {Main} -> Adapters \cup {None}]
      BY <1>21, <2>2, <3>0 DEF Stop
    <3>3. link' \in [Adapters -> BOOLEAN]
      <4>1. CASE Referenced(slot, slot', mine, old)
        BY <1>21, <2>2, <4>1, LinkStopped DEF Stop
      <4>2. CASE ~Referenced(slot, slot', mine, old)
        BY <1>21, <2>2, <4>2 DEF Stop
      <4> QED
        BY <4>1, <4>2
    <3> QED
      BY <1>21, <3>1, <3>2, <3>3 DEF Stop
  <2> QED
    BY <2>1, <2>2
<1>22. ASSUME Snapshot \/ Terminated PROVE LiveTypeOK'
  BY <1>22, LiveSourceAssumption DEF Snapshot, Terminated, vars, adapterVars, nameVars
<1> QED
  BY <1>1, <1>2, <1>3, <1>4, <1>5, <1>6, <1>7, <1>8, <1>9, <1>10, <1>11, <1>12, <1>13, <1>14,
     <1>15, <1>16, <1>17, <1>18, <1>19, <1>20, <1>21, <1>22
      DEF Next, Handler, Worker, Exchange

\* Where the threads are.
LEMMA PlacesKept ==
  ASSUME LiveIInv, Next
  PROVE  Placed'
<1> USE DEF LiveIInv, Placed, At, refVars, exchangeVars, adapterVars, rowVars, monitorVars,
            nameVars, InHandler, InRun, InWorker, Threads, Adapters, LiveTypeOK
<1>1. ASSUME NEW t \in Threads, NEW x \in Exchanges, Request(t, x) PROVE Placed'
  BY <1>1, LiveSourceAssumption DEF Request
<1>2. ASSUME NEW t \in Threads,
               AssignCurrent(t) \/ RegisterRead(t) \/ RegisterWrite(t) \/ Detach(t) \/
               TakeOld(t) \/ StopOldMakeNew(t) \/ Publish(t) \/ Pick(t) \/ Connect(t) \/
               Subscribe(t) \/ SubscribeNothing(t) \/ StartLoop(t) \/ DropNew(t) \/
               DropOld(t)
      PROVE  Placed'
  BY <1>2, LiveSourceAssumption DEF AssignCurrent, RegisterRead, RegisterWrite, Detach, TakeOld,
                                    StopOldMakeNew, Publish, Pick, Connect, Subscribe,
                                    SubscribeNothing, StartLoop, DropNew, DropOld
<1>3. ASSUME NEW t \in Threads \cup {Main}, Destroyed(t) PROVE Placed'
  BY <1>3, LiveSourceAssumption DEF Destroyed
<1>4. ASSUME NEW a \in Adapters,
               TouchRead(a) \/ TouchWrite(a) \/ FeedEnds(a) \/ Reconnect(a)
      PROVE  Placed'
  BY <1>4, LiveSourceAssumption DEF TouchRead, TouchWrite, FeedEnds, Reconnect
<1>5. ASSUME Snapshot \/ Stop \/ Terminated PROVE Placed'
  BY <1>5, LiveSourceAssumption DEF Snapshot, Stop, Terminated, vars, adapterVars, nameVars
<1> QED
  BY <1>1, <1>2, <1>3, <1>4, <1>5
      DEF Next, Handler, Worker, Exchange

\* Both who write the row wait until db_mutex_ is free.
LEMMA DbKept ==
  ASSUME LiveIInv, Next
  PROVE  DbHeld'
<1> USE DEF LiveIInv, DbHeld, At, refVars, exchangeVars, adapterVars, rowVars, monitorVars,
            nameVars, InHandler, InRun, InWorker, Threads, Adapters, LiveTypeOK, UpdateRow
<1>1. ASSUME NEW t \in Threads, NEW x \in Exchanges, Request(t, x) PROVE DbHeld'
  BY <1>1, LiveSourceAssumption DEF Request
<1>2. ASSUME NEW t \in Threads,
               AssignCurrent(t) \/ RegisterRead(t) \/ RegisterWrite(t) \/ Detach(t) \/
               TakeOld(t) \/ StopOldMakeNew(t) \/ Publish(t) \/ Pick(t) \/ Connect(t) \/
               Subscribe(t) \/ SubscribeNothing(t) \/ StartLoop(t) \/ DropNew(t) \/
               DropOld(t)
      PROVE  DbHeld'
  BY <1>2, LiveSourceAssumption DEF AssignCurrent, RegisterRead, RegisterWrite, Detach, TakeOld,
                                    StopOldMakeNew, Publish, Pick, Connect, Subscribe,
                                    SubscribeNothing, StartLoop, DropNew, DropOld
<1>3. ASSUME NEW t \in Threads \cup {Main}, Destroyed(t) PROVE DbHeld'
  BY <1>3, LiveSourceAssumption DEF Destroyed
<1>4. ASSUME NEW a \in Adapters,
               TouchRead(a) \/ TouchWrite(a) \/ FeedEnds(a) \/ Reconnect(a)
      PROVE  DbHeld'
  BY <1>4, LiveSourceAssumption DEF TouchRead, TouchWrite, FeedEnds, Reconnect
<1>5. ASSUME Snapshot \/ Stop \/ Terminated PROVE DbHeld'
  BY <1>5, LiveSourceAssumption DEF Snapshot, Stop, Terminated, vars, adapterVars, nameVars
<1> QED
  BY <1>1, <1>2, <1>3, <1>4, <1>5
      DEF Next, Handler, Worker, Exchange

\* Who registers last has read the name that was assigned last.
LEMMA RowKept ==
  ASSUME LiveIInv, Next
  PROVE  RowFollows'
<1> USE DEF LiveIInv, RowFollows, At, refVars, exchangeVars, adapterVars, rowVars, monitorVars,
            nameVars, Threads, Adapters, LiveTypeOK, UpdateRow
<1>1. ASSUME NEW t \in Threads, NEW x \in Exchanges, Request(t, x) PROVE RowFollows'
  BY <1>1, LiveSourceAssumption DEF Request
<1>2. ASSUME NEW t \in Threads, RegisterWrite(t) PROVE RowFollows'
  <2>1. dbLocked
    BY <1>2 DEF RegisterWrite, DbHeld
  <2>2. (\A u \in Threads : pc'[u] # "register") => read = current
    BY <1>2, <2>1 DEF RegisterWrite
  <2> QED
    BY <1>2, <2>2 DEF RegisterWrite
<1>3. ASSUME NEW t \in Threads,
               AssignCurrent(t) \/ RegisterRead(t) \/ Detach(t) \/ TakeOld(t) \/
               StopOldMakeNew(t) \/ Publish(t) \/ Pick(t) \/ Connect(t) \/ Subscribe(t) \/
               SubscribeNothing(t) \/ StartLoop(t) \/ DropNew(t) \/ DropOld(t)
      PROVE  RowFollows'
  BY <1>3, LiveSourceAssumption DEF AssignCurrent, RegisterRead, Detach, TakeOld,
                                    StopOldMakeNew, Publish, Pick, Connect, Subscribe,
                                    SubscribeNothing, StartLoop, DropNew, DropOld
<1>4. ASSUME NEW t \in Threads \cup {Main}, Destroyed(t) PROVE RowFollows'
  BY <1>4, LiveSourceAssumption DEF Destroyed
<1>5. ASSUME NEW a \in Adapters, TouchWrite(a) PROVE RowFollows'
  <2>1. dbLocked
    BY <1>5 DEF TouchWrite, DbHeld
  <2>2. (\A u \in Threads : pc'[u] # "register") => read = current
    BY <1>5, <2>1 DEF TouchWrite
  <2> QED
    BY <1>5, <2>2 DEF TouchWrite
<1>6. ASSUME NEW a \in Adapters, TouchRead(a) \/ FeedEnds(a) \/ Reconnect(a)
      PROVE  RowFollows'
  BY <1>6, LiveSourceAssumption DEF TouchRead, FeedEnds, Reconnect
<1>7. ASSUME Snapshot \/ Stop \/ Terminated PROVE RowFollows'
  BY <1>7, LiveSourceAssumption DEF Snapshot, Stop, Terminated, vars, adapterVars, nameVars
<1> QED
  BY <1>1, <1>2, <1>3, <1>4, <1>5, <1>6, <1>7
      DEF Next, Handler, Worker, Exchange

\* The last handler to leave reports the name that was assigned last.
LEMMA ShownKept ==
  ASSUME LiveIInv, Next
  PROVE  CurrentIsShown'
<1> USE DEF LiveIInv, CurrentIsShown, At, refVars, exchangeVars, adapterVars, rowVars,
            monitorVars, nameVars, InHandler, InRun, InWorker, Threads, Adapters, LiveTypeOK
<1>1. ASSUME NEW t \in Threads, NEW x \in Exchanges, Request(t, x) PROVE CurrentIsShown'
  BY <1>1, LiveSourceAssumption DEF Request
<1>2. ASSUME NEW t \in Threads, AssignCurrent(t) PROVE CurrentIsShown'
  <2>1. t \in Switches /\ pc'[t] = "register"
    BY <1>2 DEF AssignCurrent, Placed
  <2> QED
    BY <2>1
<1>3. ASSUME NEW t \in Threads,
               RegisterRead(t) \/ RegisterWrite(t) \/ Detach(t) \/ TakeOld(t) \/
               StopOldMakeNew(t) \/ Publish(t) \/ Pick(t) \/ Connect(t) \/ Subscribe(t) \/
               SubscribeNothing(t) \/ StartLoop(t) \/ DropNew(t) \/ DropOld(t)
      PROVE  CurrentIsShown'
  BY <1>3, LiveSourceAssumption DEF RegisterRead, RegisterWrite, Detach, TakeOld,
                                    StopOldMakeNew, Publish, Pick, Connect, Subscribe,
                                    SubscribeNothing, StartLoop, DropNew, DropOld
<1>4. ASSUME NEW t \in Threads \cup {Main}, Destroyed(t) PROVE CurrentIsShown'
  BY <1>4, LiveSourceAssumption DEF Destroyed
<1>5. ASSUME NEW a \in Adapters,
               TouchRead(a) \/ TouchWrite(a) \/ FeedEnds(a) \/ Reconnect(a)
      PROVE  CurrentIsShown'
  BY <1>5, LiveSourceAssumption DEF TouchRead, TouchWrite, FeedEnds, Reconnect
<1>6. ASSUME Snapshot \/ Stop \/ Terminated PROVE CurrentIsShown'
  BY <1>6, LiveSourceAssumption DEF Snapshot, Stop, Terminated, vars, adapterVars, nameVars
<1> QED
  BY <1>1, <1>2, <1>3, <1>4, <1>5, <1>6
      DEF Next, Handler, Worker, Exchange

\* An adapter is published once, and taken out of adapter_ by one request.
LEMMA OwnersKept ==
  ASSUME LiveIInv, Next
  PROVE  Owned'
<1> USE DEF LiveIInv, Owned, At, refVars, exchangeVars, adapterVars, rowVars, monitorVars,
            nameVars, InHandler, InRun, InWorker, Threads, Adapters, LiveTypeOK, Unpublished,
            StopAdapter
<1>1. ASSUME NEW t \in Threads, NEW x \in Exchanges, Request(t, x) PROVE Owned'
  BY <1>1, LiveSourceAssumption DEF Request
<1>2. ASSUME NEW t \in Threads, Publish(t) PROVE Owned'
  <2>1. Unpublished(t)
    BY <1>2, LiveSourceAssumption DEF Publish, Placed
  <2>2. t # None /\ t \notin stopped /\ \A u \in Threads : old[u] # t
    BY <2>1, LiveSourceAssumption
  <2>3. slot' = t /\ old' = old /\ stopped' = stopped
    BY <1>2 DEF Publish
  <2>4. \A a \in Adapters : Unpublished(a)' => a # t /\ Unpublished(a)
    BY <1>2 DEF Publish
  <2> QED
    BY <2>2, <2>3, <2>4
<1>3. ASSUME NEW t \in Threads,
               AssignCurrent(t) \/ RegisterRead(t) \/ RegisterWrite(t) \/ Detach(t) \/
               TakeOld(t) \/ StopOldMakeNew(t) \/ Pick(t) \/ Connect(t) \/ Subscribe(t) \/
               SubscribeNothing(t) \/ StartLoop(t) \/ DropNew(t) \/ DropOld(t)
      PROVE  Owned'
  BY <1>3, LiveSourceAssumption DEF AssignCurrent, RegisterRead, RegisterWrite, Detach, TakeOld,
                                    StopOldMakeNew, Pick, Connect, Subscribe, SubscribeNothing,
                                    StartLoop, DropNew, DropOld
<1>4. ASSUME NEW t \in Threads \cup {Main}, Destroyed(t) PROVE Owned'
  BY <1>4, LiveSourceAssumption DEF Destroyed
<1>5. ASSUME NEW a \in Adapters,
               TouchRead(a) \/ TouchWrite(a) \/ FeedEnds(a) \/ Reconnect(a)
      PROVE  Owned'
  BY <1>5, LiveSourceAssumption DEF TouchRead, TouchWrite, FeedEnds, Reconnect
<1>6. ASSUME Snapshot \/ Stop \/ Terminated PROVE Owned'
  BY <1>6, LiveSourceAssumption DEF Snapshot, Stop, Terminated, vars, adapterVars, nameVars
<1> QED
  BY <1>1, <1>2, <1>3, <1>4, <1>5, <1>6
      DEF Next, Handler, Worker, Exchange

\* The last reference to go runs the destructor, once.
LEMMA LivesKept ==
  ASSUME LiveIInv, Next
  PROVE  Living'
<1> USE DEF LiveIInv, Living, At, refVars, exchangeVars, adapterVars, rowVars, monitorVars,
            nameVars, InHandler, InRun, InWorker, Threads, Adapters, LiveTypeOK, Unmade,
            Dropped, Referenced
<1>1. ASSUME NEW t \in Threads, NEW x \in Exchanges, Request(t, x) PROVE Living'
  BY <1>1, LiveSourceAssumption DEF Request
<1>2. ASSUME NEW t \in Threads, StopOldMakeNew(t) PROVE Living'
  <2>1. Unmade(t) /\ alive[t] = "none" /\ t \in Adapters
    BY <1>2 DEF StopOldMakeNew, Placed
  <2>2. /\ alive' = [alive EXCEPT ![t] = "live"] /\ mine' = [mine EXCEPT ![t] = t]
        /\ joins' = joins /\ feed' = feed /\ slot' = slot /\ old' = old
    BY <1>2 DEF StopOldMakeNew
  <2>3. \A a \in Adapters : Referenced(a, slot, mine, old)' => a = t \/ alive[a] = "live"
    BY <2>2
  <2>4. \A a \in Adapters : Unmade(a)' => a # t /\ Unmade(a)
    BY <1>2 DEF StopOldMakeNew
  <2>5. \A u \in Threads \cup {Main} : joins[u] # None => joins[u] # t
    BY <2>1
  <2> QED
    BY <2>1, <2>2, <2>3, <2>4, <2>5
<1>3. ASSUME NEW t \in Threads, Publish(t) PROVE Living'
  <2>1. alive[t] = "live" /\ ~Unmade(t)
    BY <1>3 DEF Publish, Placed
  <2>2. slot' = t /\ mine' = mine /\ old' = old /\ feed' = feed
    BY <1>3 DEF Publish
  <2>3. Dropped(t, slot)
    BY <1>3 DEF Publish
  <2>4. \A a \in Adapters : Unmade(a)' => Unmade(a) /\ a # slot
    BY <1>3 DEF Publish
  <2>5. CASE slot # None /\ ~Referenced(slot, slot', mine', old')
    BY <2>1, <2>2, <2>3, <2>4, <2>5, LiveSourceAssumption
  <2>6. CASE ~(slot # None /\ ~Referenced(slot, slot', mine', old'))
    BY <2>1, <2>2, <2>3, <2>4, <2>6, LiveSourceAssumption
  <2> QED
    BY <2>5, <2>6
<1>4. ASSUME NEW t \in Threads,
               AssignCurrent(t) \/ RegisterRead(t) \/ RegisterWrite(t) \/ Detach(t) \/
               TakeOld(t) \/ Pick(t) \/ Connect(t) \/ Subscribe(t) \/ SubscribeNothing(t) \/
               StartLoop(t) \/ DropNew(t) \/ DropOld(t)
      PROVE  Living'
  BY <1>4, LiveSourceAssumption DEF AssignCurrent, RegisterRead, RegisterWrite, Detach, TakeOld,
                                    Pick, Connect, Subscribe, SubscribeNothing, StartLoop,
                                    DropNew, DropOld
<1>5. ASSUME NEW t \in Threads \cup {Main}, Destroyed(t) PROVE Living'
  BY <1>5, LiveSourceAssumption DEF Destroyed
<1>6. ASSUME NEW a \in Adapters,
               TouchRead(a) \/ TouchWrite(a) \/ FeedEnds(a) \/ Reconnect(a)
      PROVE  Living'
  BY <1>6, LiveSourceAssumption DEF TouchRead, TouchWrite, FeedEnds, Reconnect
<1>7. ASSUME Snapshot \/ Stop \/ Terminated PROVE Living'
  BY <1>7, LiveSourceAssumption DEF Snapshot, Stop, Terminated, vars, adapterVars, nameVars
<1> QED
  BY <1>1, <1>2, <1>3, <1>4, <1>5, <1>6, <1>7
      DEF Next, Handler, Worker, Exchange

-----------------------------------------------------------------------------
(* The theorems.                                                           *)

\* main starts where nothing has been requested.
LEMMA LiveInit == Init => LiveIInv
<1> SUFFICES ASSUME Init PROVE LiveIInv
  OBVIOUS
<1>1. LiveTypeOK
  BY LiveSourceAssumption DEF Init, LiveTypeOK, InHandler, InWorker, InRun, Threads, Adapters
<1>2. Placed /\ DbHeld /\ RowFollows /\ CurrentIsShown
  BY LiveSourceAssumption
     DEF Init, Placed, DbHeld, RowFollows, CurrentIsShown, InRun, InHandler, Threads, Adapters
<1>3. Owned /\ Living
  BY LiveSourceAssumption
     DEF Init, Owned, Living, Unpublished, Unmade, Referenced, Threads, Adapters
<1> QED
  BY <1>1, <1>2, <1>3 DEF LiveIInv

\* The inductive invariant holds: no request, tick or shutdown breaks a part of it.
THEOREM LiveInvariant == Spec => []LiveIInv
<1>1. ASSUME LiveIInv, UNCHANGED vars PROVE LiveIInv'
  BY <1>1 DEF LiveIInv, LiveTypeOK, Placed, DbHeld, RowFollows, CurrentIsShown, Owned, Living,
     Unpublished, Unmade, vars, refVars, exchangeVars, adapterVars, rowVars, monitorVars, nameVars
<1>2. LiveIInv /\ [Next]_vars => LiveIInv'
  BY <1>1, TypeKept, PlacesKept, DbKept, RowKept, ShownKept, OwnersKept, LivesKept
     DEF LiveIInv
<1> QED
  BY LiveInit, <1>2, PTL DEF Spec

\* The state of the live source keeps its types.
THEOREM LiveTyped == Spec => []LiveTypeOK
BY LiveInvariant, PTL DEF LiveIInv

\* Whatever requests and ticks overlap, feed_instances names current_exchange_ once no
\* handler is between naming its exchange and registering it.
THEOREM RowAgrees == Spec => []RowIsCurrent
<1>1. LiveIInv => RowIsCurrent
  BY DEF LiveIInv, RowFollows, Placed, RowIsCurrent, Registering, Threads, InRun
<1> QED
  BY <1>1, LiveInvariant, PTL

\* Once no handler is under way, the collector shows the last exchange as connected.
THEOREM CollectorAgrees == Spec => []CurrentIsShown
BY LiveInvariant, PTL DEF LiveIInv

\* No request finds an adapter in adapter_ that another has stopped.
THEOREM PublishedRuns == Spec => []PublishedNotStopped
<1>1. LiveIInv => PublishedNotStopped
  BY DEF LiveIInv, Owned, PublishedNotStopped
<1> QED
  BY <1>1, LiveInvariant, PTL

\* run() has its object for as long as it runs, and so has the exchange's thread.
THEOREM AdapterOutlives == Spec => []AdapterOutlivesItsThreads
<1>1. LiveIInv => AdapterOutlivesItsThreads
  BY DEF LiveIInv, Living, Placed, Referenced, AdapterOutlivesItsThreads
<1> QED
  BY <1>1, LiveInvariant, PTL

-----------------------------------------------------------------------------
(* The use of the exchanges.                                               *)

\* Only an adapter that was made is connected, and only one that was connected has a
\* thread.  Two threads run one adapter only where a second connect() ends the program
\* or the exchange is a polled one, so that a websocket exchange is subscribed once.
Used ==
  /\ \A a \in opened : alive[a] # "none"
  /\ \A a \in Adapters : feed[a] # "none" => a \in opened
  /\ \A t \in Threads : pc[t] = "subscribe" => mine[t] \in opened
  /\ up => \A t \in Threads : pc[t] = "subscribe" /\ type[mine[t]] \in Websockets =>
       /\ feed[mine[t]] = "none"
       /\ \A u \in Threads : pc[u] = "subscribe" /\ mine[u] = mine[t] => u = t

\* No step connects an adapter before it is made, or subscribes it twice.
LEMMA UsedKept ==
  ASSUME LiveIInv, Used, Next
  PROVE  Used'
<1> USE DEF LiveIInv, Used, At, refVars, exchangeVars, adapterVars, rowVars, monitorVars,
            nameVars, Threads, Adapters, LiveTypeOK
<1>1. ASSUME NEW t \in Threads, NEW x \in Exchanges, Request(t, x) PROVE Used'
  <2>1. Unmade(t) /\ alive[t] = "none"
    BY <1>1, LiveSourceAssumption DEF Request, Unmade, Living, Placed, InRun
  <2>2. \A u \in Threads : mine[u] # t
    BY <2>1 DEF Living, Referenced
  <2>3. \A u \in Threads : pc'[u] = "subscribe" => pc[u] = "subscribe" /\ type'[mine[u]] = type[mine[u]]
    BY <1>1, <2>2 DEF Request, Placed, InRun
  <2>4. UNCHANGED <<alive, opened, feed, mine, up>>
    BY <1>1 DEF Request
  <2> HIDE DEF LiveIInv, LiveTypeOK
  <2> QED
    BY <2>3, <2>4
<1>2. ASSUME NEW t \in Threads, StopOldMakeNew(t) PROVE Used'
  <2>1. Unmade(t) /\ alive[t] = "none"
    BY <1>2, LiveSourceAssumption DEF StopOldMakeNew, Unmade, Living, Placed, InRun
  <2>2. alive' = [alive EXCEPT ![t] = "live"] /\ mine' = [mine EXCEPT ![t] = t]
        /\ UNCHANGED <<type, opened, feed, up>>
    BY <1>2 DEF StopOldMakeNew
  <2>3. \A u \in Threads : pc'[u] = "subscribe" => pc[u] = "subscribe" /\ u # t
    BY <1>2 DEF StopOldMakeNew
  <2> QED
    BY <2>2, <2>3
<1>3. ASSUME NEW t \in Threads, Connect(t) PROVE Used'
  <2>1. /\ pc[t] = "connect" /\ pc' = [pc EXCEPT ![t] = "subscribe"]
        /\ mine[t] \in Adapters /\ alive[mine[t]] = "live"
    BY <1>3 DEF Connect, Placed, InRun, Living, Referenced
  <2>2. /\ opened' = opened \cup {mine[t]}
        /\ up' = ~(mine[t] \in opened /\ type[mine[t]] \in Websockets)
        /\ UNCHANGED <<type, alive, feed, mine>>
    BY <1>3 DEF Connect
  <2>0. up
    BY <2>1 DEF Next, Terminated, vars
  <2>3. up' /\ type[mine[t]] \in Websockets =>
          feed[mine[t]] = "none" /\ \A u \in Threads : pc[u] = "subscribe" => mine[u] # mine[t]
    BY <2>1, <2>2
  <2>4. ASSUME up', NEW u \in Threads, pc'[u] = "subscribe", type'[mine'[u]] \in Websockets
        PROVE  /\ feed'[mine'[u]] = "none"
               /\ \A v \in Threads : pc'[v] = "subscribe" /\ mine'[v] = mine'[u] => v = u
    <3>1. CASE u = t
      BY <2>1, <2>2, <2>3, <2>4, <3>1
    <3>2. CASE u # t
      <4>1. up /\ pc[u] = "subscribe" /\ type[mine[u]] \in Websockets
        BY <2>0, <2>1, <2>2, <2>4, <3>2
      <4>2. mine[u] # mine[t]
        BY <2>1, <2>2, <2>3, <2>4, <4>1
      <4> QED
        BY <2>1, <2>2, <3>2, <4>1, <4>2
    <3> QED
      BY <3>1, <3>2
  <2> QED
    BY <2>1, <2>2, <2>4
<1>4. ASSUME NEW t \in Threads, Subscribe(t) PROVE Used'
  BY <1>4 DEF Subscribe, Placed, InRun
<1>5. ASSUME NEW t \in Threads, Publish(t) \/ DropNew(t) \/ DropOld(t) PROVE Used'
  <2>1. \A a \in Adapters : alive'[a] = "none" => alive[a] = "none"
    BY <1>5 DEF Publish, DropNew, DropOld, Dropped
  <2>2. \A u \in Threads : pc'[u] = "subscribe" => pc[u] = "subscribe" /\ mine'[u] = mine[u]
    BY <1>5 DEF Publish, DropNew, DropOld
  <2>3. UNCHANGED <<type, opened, feed, up>>
    BY <1>5 DEF Publish, DropNew, DropOld
  <2> QED
    BY <2>1, <2>2, <2>3
<1>6. ASSUME NEW t \in Threads,
               AssignCurrent(t) \/ RegisterRead(t) \/ RegisterWrite(t) \/ Detach(t) \/
               TakeOld(t) \/ Pick(t) \/ SubscribeNothing(t) \/ StartLoop(t)
      PROVE  Used'
  <2>1. \A u \in Threads : pc'[u] = "subscribe" => pc[u] = "subscribe" /\ mine'[u] = mine[u]
    BY <1>6 DEF AssignCurrent, RegisterRead, RegisterWrite, Detach, TakeOld, Pick,
                SubscribeNothing, StartLoop
  <2>2. UNCHANGED <<type, alive, opened, feed, up>>
    BY <1>6 DEF AssignCurrent, RegisterRead, RegisterWrite, Detach, TakeOld, Pick,
                SubscribeNothing, StartLoop
  <2> QED
    BY <2>1, <2>2
<1>7. ASSUME NEW t \in Threads \cup {Main}, Destroyed(t) PROVE Used'
  BY <1>7, LiveSourceAssumption DEF Destroyed
<1>8. ASSUME NEW a \in Adapters,
               TouchRead(a) \/ TouchWrite(a) \/ FeedEnds(a) \/ Reconnect(a)
      PROVE  Used'
  <2>1. /\ \A b \in Adapters : feed'[b] = "none" <=> feed[b] = "none"
        /\ UNCHANGED <<pc, mine, type, alive, opened, up>>
    BY <1>8 DEF TouchRead, TouchWrite, FeedEnds, Reconnect
  <2> QED
    BY <2>1, LiveSourceAssumption DEF Placed, InRun
<1>9. ASSUME Snapshot \/ Stop \/ Terminated PROVE Used'
  <2>1. \A a \in Adapters : alive'[a] = "none" => alive[a] = "none"
    BY <1>9 DEF Snapshot, Stop, Terminated, vars
  <2>2. UNCHANGED <<pc, mine, type, opened, feed, up>>
    BY <1>9 DEF Snapshot, Stop, Terminated, vars
  <2> QED
    BY <2>1, <2>2
<1> QED
  BY <1>1, <1>2, <1>3, <1>4, <1>5, <1>6, <1>7, <1>8, <1>9
      DEF Next, Handler, Worker, Exchange

\* What the exchange of a is to module WebsocketFeed depends on this.
LEMMA FeedStutters ==
  ASSUME NEW a \in Adapters,
         alive'[a] = alive[a] \/ (alive[a] = "none" /\ alive'[a] = "live"),
         alive[a] # "none" \/ a \notin opened,
         a \in opened' <=> a \in opened,
         \A t \in Threads :
           (pc'[t] = "subscribe" /\ mine'[t] = a) <=> (pc[t] = "subscribe" /\ mine[t] = a),
         link'[a] = link[a], FeedOf(a)' = FeedOf(a)
  PROVE  [Feed(a)!Next]_<<LifeOf(a), link[a], FeedOf(a)>>
BY DEF LifeOf

\* Whichever thread drops the last reference to a websocket exchange destroys it between
\* its calls, and nothing happens to the others.
LEMMA DropsInOrder ==
  ASSUME LiveIInv, Used, up', UNCHANGED <<type, opened, feed>>,
         NEW t \in Threads, NEW d \in Adapters \cup {None}, Dropped(t, d),
         d # None => Referenced(d, slot, mine, old),
         \A u \in Threads : pc[u] = "subscribe" <=> pc'[u] = "subscribe",
         \A u \in Threads : pc[u] = "subscribe" => mine'[u] = mine[u],
         NEW a \in Adapters, type[a] \in Websockets
  PROVE  [Feed(a)!Next]_<<LifeOf(a), link[a], FeedOf(a)>>
<1>1. CASE a = d /\ ~Referenced(d, slot', mine', old')
  <2>1. alive[a] = "live" /\ alive'[a] = "dying" /\ link'[a] = FALSE
    BY <1>1, LiveSourceAssumption DEF Dropped, LiveIInv, LiveTypeOK, Living, Adapters
  <2>2. \A u \in Threads : ~(pc[u] = "subscribe" /\ mine[u] = a)
    BY <1>1 DEF Referenced
  <2>3. LifeOf(a) \in {"new", "idle"} /\ LifeOf(a)' = "dying" /\ FeedOf(a)' = FeedOf(a)
    BY <2>1, <2>2 DEF LifeOf, FeedOf
  <2> QED
    BY <2>1, <2>3 DEF Feed!Next, Feed!Destroy
<1>2. CASE ~(a = d /\ ~Referenced(d, slot', mine', old'))
  <2>1. alive'[a] = alive[a] /\ link'[a] = link[a]
    BY <1>2 DEF Dropped, LiveIInv, LiveTypeOK
  <2>2. FeedOf(a)' = FeedOf(a) /\ (a \in opened' <=> a \in opened)
    BY DEF FeedOf
  <2>3. alive[a] # "none" \/ a \notin opened
    BY DEF Used
  <2> QED
    BY <2>1, <2>2, <2>3, FeedStutters
<1> QED
  BY <1>1, <1>2

\* Every step uses every websocket exchange by that order.
LEMMA FeedsStep ==
  ASSUME LiveIInv, Used, Next, up', NEW a \in Adapters, type[a] \in Websockets
  PROVE  [Feed(a)!Next]_<<LifeOf(a), link[a], FeedOf(a)>>
<1> USE DEF At, refVars, exchangeVars, adapterVars, rowVars, monitorVars, nameVars, Threads, Adapters
<1>00. alive[a] # "none" \/ a \notin opened
  BY DEF Used
<1>0. /\ pc \in [Threads -> {"idle", "pick", "done"} \cup InHandler \cup InWorker]
      /\ alive \in [Adapters -> {"none", "live", "dying", "freed"}]
      /\ link \in [Adapters -> BOOLEAN]
      /\ feed \in [Adapters -> {"none", "running", "touching", "ended"}]
      /\ mine \in [Threads -> Adapters \cup {None}]
      /\ old \in [Threads -> Adapters \cup {None}]
      /\ slot \in Adapters \cup {None}
      /\ opened \subseteq Adapters
      /\ \A t \in Threads : pc[t] \in InRun => mine[t] \in Adapters
  BY DEF LiveIInv, LiveTypeOK, Placed
<1>1. ASSUME NEW t \in Threads,
               (\E x \in Exchanges : Request(t, x)) \/ AssignCurrent(t) \/ RegisterRead(t) \/
               RegisterWrite(t) \/ Detach(t) \/ TakeOld(t) \/ Pick(t) \/ StartLoop(t)
      PROVE  [Feed(a)!Next]_<<LifeOf(a), link[a], FeedOf(a)>>
  <2>1. /\ \A u \in Threads : pc'[u] = "subscribe" <=> pc[u] = "subscribe"
        /\ \A u \in Threads : pc[u] = "subscribe" => mine'[u] = mine[u]
    BY <1>0, <1>1 DEF Request, AssignCurrent, RegisterRead, RegisterWrite, Detach, TakeOld, Pick,
                      StartLoop
  <2>2. UNCHANGED <<alive, opened, link, feed>>
    BY <1>1 DEF Request, AssignCurrent, RegisterRead, RegisterWrite, Detach, TakeOld, Pick,
                StartLoop
  <2> QED
    BY <2>1, <2>2, <1>00, FeedStutters DEF FeedOf
<1>2. ASSUME NEW t \in Threads, StopOldMakeNew(t)
      PROVE  [Feed(a)!Next]_<<LifeOf(a), link[a], FeedOf(a)>>
  <2>1. Unmade(t) /\ alive[t] = "none"
    BY <1>2, LiveSourceAssumption
       DEF StopOldMakeNew, Unmade, LiveIInv, Living, Placed, InRun
  <2>2. /\ alive' = [alive EXCEPT ![t] = "live"] /\ mine' = [mine EXCEPT ![t] = t]
        /\ pc[t] = "stop" /\ pc' = [pc EXCEPT ![t] = "publish"]
        /\ UNCHANGED <<opened, feed>>
    BY <1>2 DEF StopOldMakeNew
  <2>3. link'[a] = link[a]
    <3>1. CASE old[t] = None
      BY <1>2, <3>1 DEF StopOldMakeNew
    <3>2. CASE old[t] # None
      BY <1>0, <1>2, <3>2 DEF StopOldMakeNew, StopAdapter
    <3> QED
      BY <3>1, <3>2
  <2>4. \A u \in Threads :
          (pc'[u] = "subscribe" /\ mine'[u] = a) <=> (pc[u] = "subscribe" /\ mine[u] = a)
    BY <1>0, <2>2
  <2>5. alive'[a] = alive[a] \/ (alive[a] = "none" /\ alive'[a] = "live")
    BY <1>0, <2>1, <2>2
  <2> QED
    BY <2>2, <2>3, <2>4, <2>5, <1>00, FeedStutters DEF FeedOf
<1>3. ASSUME NEW t \in Threads, Publish(t) \/ DropNew(t) \/ DropOld(t)
      PROVE  [Feed(a)!Next]_<<LifeOf(a), link[a], FeedOf(a)>>
  <2>1. /\ \A u \in Threads : pc[u] = "subscribe" <=> pc'[u] = "subscribe"
        /\ \A u \in Threads : pc[u] = "subscribe" => mine'[u] = mine[u]
    BY <1>0, <1>3 DEF Publish, DropNew, DropOld
  <2>2. UNCHANGED <<type, opened, feed>>
    BY <1>3 DEF Publish, DropNew, DropOld
  <2>3. PICK d \in Adapters \cup {None} : Dropped(t, d) /\ (d # None => Referenced(d, slot, mine, old))
    BY <1>0, <1>3 DEF Publish, DropNew, DropOld, Referenced
  <2> QED
    BY <2>1, <2>2, <2>3, DropsInOrder
<1>4. ASSUME NEW t \in Threads, Connect(t)
      PROVE  [Feed(a)!Next]_<<LifeOf(a), link[a], FeedOf(a)>>
  <2>1. /\ pc[t] = "connect" /\ pc' = [pc EXCEPT ![t] = "subscribe"]
        /\ mine[t] \in Adapters /\ alive[mine[t]] = "live"
    BY <1>0, <1>4 DEF Connect, InRun, LiveIInv, Living, Referenced
  <2>2. /\ link' = [link EXCEPT ![mine[t]] = TRUE] /\ opened' = opened \cup {mine[t]}
        /\ up' = ~(mine[t] \in opened /\ type[mine[t]] \in Websockets)
        /\ UNCHANGED <<alive, feed, mine>>
    BY <1>4 DEF Connect
  <2>3. FeedOf(a)' = FeedOf(a)
    BY <2>2 DEF FeedOf
  <2>4. CASE mine[t] = a
    <3>1. LifeOf(a) = "new"
      BY <2>1, <2>2, <2>4 DEF LifeOf
    <3>2. LifeOf(a)' = "connected" /\ link'[a] = TRUE
      BY <1>0, <2>1, <2>2, <2>4 DEF LifeOf
    <3> QED
      BY <2>3, <3>1, <3>2 DEF Feed!Next, Feed!Connect
  <2>5. CASE mine[t] # a
    <3>1. \A u \in Threads :
          (pc'[u] = "subscribe" /\ mine'[u] = a) <=> (pc[u] = "subscribe" /\ mine[u] = a)
      BY <1>0, <2>1, <2>2, <2>5
    <3> QED
      BY <1>0, <2>2, <2>3, <2>5, <3>1, <1>00, FeedStutters
  <2> QED
    BY <2>4, <2>5
<1>5. ASSUME NEW t \in Threads, Subscribe(t) \/ SubscribeNothing(t)
      PROVE  [Feed(a)!Next]_<<LifeOf(a), link[a], FeedOf(a)>>
  <2>1. /\ pc[t] = "subscribe" /\ pc' = [pc EXCEPT ![t] = "start"]
        /\ UNCHANGED <<alive, opened, link, mine, up>>
    BY <1>5 DEF Subscribe, SubscribeNothing
  <2>0. mine[t] \in Adapters /\ alive[mine[t]] = "live" /\ mine[t] \in opened
    BY <1>0, <2>1 DEF InRun, LiveIInv, Living, Referenced, Used
  <2>4. /\ \A b \in Adapters : b # mine[t] => feed'[b] = feed[b]
        /\ feed'[mine[t]] \in {feed[mine[t]], "running"}
    BY <1>0, <1>5, <2>0 DEF Subscribe, SubscribeNothing
  <2>2. CASE mine[t] = a
    <3>1. /\ feed[a] = "none"
          /\ \A u \in Threads : pc[u] = "subscribe" /\ mine[u] = a => u = t
      BY <2>0, <2>1, <2>2 DEF Used
    <3>2. LifeOf(a) = "connected"
      BY <2>0, <2>1, <2>2 DEF LifeOf
    <3>3. LifeOf(a)' = "idle"
      BY <1>0, <2>0, <2>1, <2>2, <3>1 DEF LifeOf
    <3>4. FeedOf(a) = "none" /\ FeedOf(a)' \in {"none", "running"} /\ link'[a] = link[a]
      BY <2>1, <2>2, <2>4, <3>1 DEF FeedOf
    <3> QED
      BY <3>2, <3>3, <3>4 DEF Feed!Next, Feed!Subscribe
  <2>3. CASE mine[t] # a
    <3>1. \A u \in Threads :
          (pc'[u] = "subscribe" /\ mine'[u] = a) <=> (pc[u] = "subscribe" /\ mine[u] = a)
      BY <1>0, <2>1, <2>3
    <3>2. FeedOf(a)' = FeedOf(a)
      BY <2>4, <2>3 DEF FeedOf
    <3> QED
      BY <2>1, <3>1, <3>2, <1>00, FeedStutters
  <2> QED
    BY <2>2, <2>3
<1>6. ASSUME NEW t \in Threads \cup {Main}, Destroyed(t)
      PROVE  [Feed(a)!Next]_<<LifeOf(a), link[a], FeedOf(a)>>
  <2>1. /\ alive[joins[t]] = "dying" /\ alive' = [alive EXCEPT ![joins[t]] = "freed"]
        /\ feed[joins[t]] \in {"none", "ended"} /\ UNCHANGED <<pc, mine, opened, link, feed>>
    BY <1>6 DEF Destroyed, LiveIInv, Living
  <2>2. FeedOf(a)' = FeedOf(a)
    BY <2>1 DEF FeedOf
  <2>3. CASE joins[t] = a
    <3>1. LifeOf(a) = "dying" /\ LifeOf(a)' = "gone" /\ FeedOf(a) # "running"
      BY <1>0, <2>1, <2>3 DEF LifeOf, FeedOf
    <3> QED
      BY <2>1, <2>2, <3>1 DEF Feed!Next, Feed!Destroyed
  <2>4. CASE joins[t] # a
    <3>1. alive'[a] = alive[a]
      BY <1>0, <2>1, <2>4
    <3> QED
      BY <2>1, <2>2, <3>1, <1>00, FeedStutters
  <2> QED
    BY <2>3, <2>4
<1>7. ASSUME NEW b \in Adapters, TouchRead(b) \/ TouchWrite(b)
      PROVE  [Feed(a)!Next]_<<LifeOf(a), link[a], FeedOf(a)>>
  <2>1. FeedOf(a)' = FeedOf(a) /\ UNCHANGED <<pc, mine, alive, opened, link>>
    BY <1>0, <1>7 DEF TouchRead, TouchWrite, FeedOf
  <2> QED
    BY <2>1, <1>00, FeedStutters
<1>8. ASSUME NEW b \in Adapters, FeedEnds(b)
      PROVE  [Feed(a)!Next]_<<LifeOf(a), link[a], FeedOf(a)>>
  <2>1. UNCHANGED <<pc, mine, alive, opened, link>>
    BY <1>8 DEF FeedEnds
  <2>2. LifeOf(a)' = LifeOf(a)
    BY <2>1 DEF LifeOf
  <2>3. CASE a = b
    BY <1>0, <1>8, <2>1, <2>2, <2>3 DEF FeedEnds, FeedOf, Feed!Next, Feed!End
  <2>4. CASE a # b
    BY <1>0, <1>8, <2>1, <2>2, <2>4 DEF FeedEnds, FeedOf
  <2> QED
    BY <2>3, <2>4
<1>9. ASSUME NEW b \in Adapters, Reconnect(b)
      PROVE  [Feed(a)!Next]_<<LifeOf(a), link[a], FeedOf(a)>>
  <2>1. UNCHANGED <<pc, mine, alive, opened, feed>>
    BY <1>9 DEF Reconnect
  <2>2. LifeOf(a)' = LifeOf(a) /\ FeedOf(a)' = FeedOf(a)
    BY <2>1 DEF LifeOf, FeedOf
  <2>3. CASE a = b
    BY <1>0, <1>9, <2>1, <2>2, <2>3 DEF Reconnect, FeedOf, Feed!Next, Feed!Restart
  <2>4. CASE a # b
    BY <1>0, <1>9, <2>1, <2>2, <2>4 DEF Reconnect
  <2> QED
    BY <2>3, <2>4
<1>10. ASSUME Snapshot \/ Terminated
       PROVE  [Feed(a)!Next]_<<LifeOf(a), link[a], FeedOf(a)>>
  BY <1>10 DEF Snapshot, Terminated, vars, LifeOf, FeedOf
<1>11. ASSUME Stop
       PROVE  [Feed(a)!Next]_<<LifeOf(a), link[a], FeedOf(a)>>
  <2>1. UNCHANGED <<pc, mine, old, opened, feed>> /\ slot' = None
    BY <1>11 DEF Stop
  <2>2. FeedOf(a)' = FeedOf(a)
    BY <2>1 DEF FeedOf
  <2>3. CASE slot = a /\ ~Referenced(a, slot', mine, old)
    <3>1. alive'[a] = "dying" /\ link'[a] = FALSE /\ alive[a] = "live"
      BY <1>0, <1>11, <2>3, LiveSourceAssumption DEF Stop, LiveIInv, Living, Referenced
    <3>2. \A u \in Threads : ~(pc[u] = "subscribe" /\ mine[u] = a)
      BY <2>3 DEF Referenced
    <3>3. LifeOf(a) \in {"new", "idle"} /\ LifeOf(a)' = "dying"
      BY <3>1, <3>2 DEF LifeOf
    <3> QED
      BY <2>2, <3>1, <3>3 DEF Feed!Next, Feed!Destroy
  <2>4. CASE slot # a \/ Referenced(a, slot', mine, old)
    <3>1. alive'[a] = alive[a]
      BY <1>0, <1>11, <2>4 DEF Stop
    <3>2. link'[a] = link[a]
      BY <1>0, <1>11, <2>4 DEF Stop
    <3> QED
      BY <2>1, <2>2, <3>1, <3>2, <1>00, FeedStutters
  <2> QED
    BY <2>3, <2>4
<1> QED
  BY <1>1, <1>2, <1>3, <1>4, <1>5, <1>6, <1>7, <1>8, <1>9, <1>10, <1>11
      DEF Next, Handler, Worker, Exchange

\* For any number of requests, exchanges and ticks, and through shutdown: every websocket
\* exchange is connected once, then subscribed once, not destroyed before, and its thread
\* has ended when its destructor returns, until a second connect() ends the program.
THEOREM FeedsInOrder == Spec => FeedsUsedInOrder
<1>1. Init => Used
  BY DEF Init, Used
<1>2. LiveIInv /\ Used /\ [Next]_vars => Used'
  <2>1. ASSUME Used, UNCHANGED vars PROVE Used'
    BY <2>1 DEF Used, vars, refVars, exchangeVars, adapterVars
  <2> QED
    BY <2>1, UsedKept
<1>3. LiveIInv /\ Used /\ [Next]_vars =>
        [\A a \in Adapters : up' /\ type[a] \in Websockets =>
           [Feed(a)!Next]_<<LifeOf(a), link[a], FeedOf(a)>>]_vars
  BY FeedsStep
<1>4. Init => \A a \in Adapters : Feed(a)!Init
  BY DEF Init, Feed!Init, LifeOf, FeedOf
<1> QED
  BY LiveInvariant, <1>1, <1>2, <1>3, <1>4, PTL DEF Spec, FeedsUsedInOrder
=============================================================================
