---------------------------- MODULE Exchange1Proofs ----------------------------
(***************************************************************************)
(* The websocket exchange never loses its reader to a failure, leaves      *)
(* nothing running behind its destructor and is what live_source takes it  *)
(* for, WebsocketFeed: all for any number of faults.                       *)
(***************************************************************************)
EXTENDS Exchange1, TLAPS

\* The reader is started by subscribe() only, and ws_mutex_ is the reader's.
Started == owner \in {"new", "connected"} => reader = "none"
MutexIsReaders == wsMutex <=> reader = "reading"

\* Nobody but the destructor clears running_ once connect() has set it.
RunsUntilDestroyed == owner \in {"connected", "idle"} => running

ReaderInv ==
  Started /\ MutexIsReaders /\ RunsUntilDestroyed /\ ReaderEndsForDestructor /\ GoneIsQuiet

\* One second is a pause the bound allows.
LEMMA OneTyped == 1 \in 1..MaxDelay
BY Exchange1Assumption

\* What is left of the faults stays within its bound.
LEMMA FaultTyped == ASSUME ExchangeTypes, Fault PROVE faults' \in 0..MaxFaults
BY Exchange1Assumption DEF ExchangeTypes, Fault

\* The variables keep their types: back-off never leaves 1..MaxDelay.
LEMMA TypeStep == ExchangeTypes /\ [Next]_vars => ExchangeTypes'
<1> SUFFICES ASSUME ExchangeTypes, [Next]_vars PROVE ExchangeTypes'
  OBVIOUS
<1> USE Exchange1Assumption DEF ExchangeTypes, flagVars, streamVars, backoffVars
<1>1. CASE Owner
  <2>1. CASE Connect
    BY FaultTyped, <2>1 DEF Connect, OwnerAt
  <2>2. CASE SubscribeUnconnected
    BY <2>2 DEF SubscribeUnconnected, OwnerAt
  <2>3. CASE Subscribe
    BY FaultTyped, <2>3 DEF Subscribe, OwnerAt
  <2>4. CASE ClearConnected \/ CloseStream \/ JoinReader
    BY <2>4 DEF ClearConnected, CloseStream, JoinReader, OwnerAt
  <2> QED
    BY <1>1, <2>1, <2>2, <2>3, <2>4 DEF Owner
<1>2. CASE Destroy
  BY <1>2 DEF Destroy
<1>3. CASE Reader
  <2>1. CASE Head \/ CheckConnected \/ Rebuild \/ Restart
    BY <2>1 DEF Head, CheckConnected, Rebuild, Restart, ReaderAt
  <2>2. CASE Backoff
    BY <2>2 DEF Backoff, ReaderAt
  <2>3. CASE ReconnectFails
    BY FaultTyped, <2>3 DEF ReconnectFails, ReaderAt
  \* Success starts back-off over, at one second.
  <2>4. CASE Reconnect
    <3>1. delay' \in 1..MaxDelay /\ attempt' \in Nat
      BY OneTyped, <2>4 DEF Reconnect
    <3>2. faults' \in 0..MaxFaults
      BY <2>4 DEF Reconnect
    <3> QED
      BY <2>4, <3>1, <3>2 DEF Reconnect, ReaderAt
  <2>5. CASE Resubscribe \/ ResubscribeFails
    BY FaultTyped, <2>5 DEF Resubscribe, ResubscribeFails, ReaderAt
  <2>6. CASE LockAndRead \/ ReadThrows
    BY <2>6 DEF LockAndRead, ReadThrows, ReaderAt
  <2> QED
    BY <1>3, <2>1, <2>2, <2>3, <2>4, <2>5, <2>6 DEF Reader
<1>4. CASE ReadMessage \/ MessageThrows
  BY FaultTyped, <1>4 DEF ReadMessage, MessageThrows, ReaderAt
<1>5. CASE PeerBreaks
  BY FaultTyped, <1>5 DEF PeerBreaks
<1>6. CASE UNCHANGED vars
  BY <1>6 DEF vars
<1> QED
  BY <1>1, <1>2, <1>3, <1>4, <1>5, <1>6 DEF Next

\* The reader's place and ws_mutex_ follow from what each step does to them.
LEMMA ReaderStep == ExchangeTypes /\ ReaderInv /\ [Next]_vars => ReaderInv'
<1> SUFFICES ASSUME ExchangeTypes, ReaderInv, [Next]_vars PROVE ReaderInv'
  OBVIOUS
<1> USE DEF ReaderInv, Started, MutexIsReaders, RunsUntilDestroyed, ReaderEndsForDestructor,
            GoneIsQuiet, Destroying, flagVars, streamVars, backoffVars
<1>1. CASE Owner
  <2>1. CASE Connect
    BY <2>1 DEF Connect, OwnerAt
  <2>2. CASE SubscribeUnconnected \/ Subscribe
    BY <2>2 DEF SubscribeUnconnected, Subscribe, OwnerAt
  <2>3. CASE ClearConnected \/ CloseStream
    BY <2>3 DEF ClearConnected, CloseStream, OwnerAt
  \* Only a reader that reads has the mutex, and the join waits for its end.
  <2>4. CASE JoinReader
    BY <2>4 DEF JoinReader, OwnerAt
  <2> QED
    BY <1>1, <2>1, <2>2, <2>3, <2>4 DEF Owner
<1>2. CASE Destroy
  BY <1>2 DEF Destroy
<1>3. CASE Reader
  \* The reader ends where running_ is clear, so in the destructor.
  <2>1. CASE Head
    BY <2>1 DEF Head, ReaderAt, ExchangeTypes
  <2>2. CASE CheckConnected \/ Backoff \/ Rebuild \/ Restart
    BY <2>2 DEF CheckConnected, Backoff, Rebuild, Restart, ReaderAt
  <2>3. CASE Reconnect \/ ReconnectFails \/ Resubscribe \/ ResubscribeFails
    BY <2>3 DEF Reconnect, ReconnectFails, Resubscribe, ResubscribeFails, ReaderAt
  <2>4. CASE LockAndRead \/ ReadThrows
    BY <2>4 DEF LockAndRead, ReadThrows, ReaderAt
  <2> QED
    BY <1>3, <2>1, <2>2, <2>3, <2>4 DEF Reader
<1>4. CASE ReadMessage \/ MessageThrows
  BY <1>4 DEF ReadMessage, MessageThrows, ReaderAt
<1>5. CASE PeerBreaks
  BY <1>5 DEF PeerBreaks
<1>6. CASE UNCHANGED vars
  BY <1>6 DEF vars
<1> QED
  BY <1>1, <1>2, <1>3, <1>4, <1>5, <1>6 DEF Next

\* The state keeps its types, the pause of read_loop's back-off between 1 s and its
\* maximum, over any sequence of failures.
LEMMA Typed == Spec => []ExchangeTypes
<1>1. Init => ExchangeTypes
  <2> SUFFICES ASSUME Init PROVE ExchangeTypes
    OBVIOUS
  <2>1. delay \in 1..MaxDelay /\ attempt \in Nat
    BY OneTyped DEF Init
  <2>2. faults \in 0..MaxFaults
    BY Exchange1Assumption DEF Init
  <2> QED
    BY <2>1, <2>2 DEF Init, ExchangeTypes
<1> QED
  BY <1>1, TypeStep, PTL DEF Spec

\* The reader's life, its mutex and the flags of the owner go together, always.
LEMMA ReaderInvariant == Spec => []ReaderInv
<1>1. Init => ReaderInv
  BY DEF Init, ReaderInv, Started, MutexIsReaders, RunsUntilDestroyed,
         ReaderEndsForDestructor, GoneIsQuiet, Destroying
<1> QED
  BY <1>1, ReaderStep, Typed, PTL DEF Spec

\* Back-off moves only without a connection, and the one that is made starts it over.
LEMMA BackoffStep == Started /\ BackoffStartsOver /\ [Next]_vars => BackoffStartsOver'
<1> SUFFICES ASSUME Started, BackoffStartsOver, [Next]_vars PROVE BackoffStartsOver'
  OBVIOUS
<1> USE DEF BackoffStartsOver, flagVars, streamVars, backoffVars, OwnerAt, ReaderAt
<1>1. CASE Owner
  <2>1. CASE Connect
    BY <2>1 DEF Connect
  <2>2. CASE SubscribeUnconnected \/ Subscribe
    BY <2>2 DEF SubscribeUnconnected, Subscribe
  <2>3. CASE ClearConnected \/ CloseStream \/ JoinReader
    BY <2>3 DEF ClearConnected, CloseStream, JoinReader
  <2> QED
    BY <1>1, <2>1, <2>2, <2>3 DEF Owner
<1>2. CASE Destroy
  BY <1>2 DEF Destroy
<1>3. CASE Reader
  <2>1. CASE Head \/ CheckConnected \/ Rebuild \/ Restart
    BY <2>1 DEF Head, CheckConnected, Rebuild, Restart
  \* Whoever backs off has no connection, and its owner is past connect().
  <2>2. CASE Backoff
    BY <2>2 DEF Backoff, Started
  <2>3. CASE Reconnect
    BY <2>3 DEF Reconnect
  <2>4. CASE ReconnectFails \/ ResubscribeFails \/ ReadThrows
    BY <2>4 DEF Started, ReconnectFails, ResubscribeFails, ReadThrows
  <2>5. CASE Resubscribe \/ LockAndRead
    BY <2>5 DEF Resubscribe, LockAndRead
  <2> QED
    BY <1>3, <2>1, <2>2, <2>3, <2>4, <2>5 DEF Reader
<1>4. CASE ReadMessage \/ MessageThrows \/ PeerBreaks
  BY <1>4 DEF ReadMessage, MessageThrows, PeerBreaks
<1>5. CASE UNCHANGED vars
  BY <1>5 DEF vars
<1> QED
  BY <1>1, <1>2, <1>3, <1>4, <1>5 DEF Next

\* The state keeps its types, the pause between 1 s and its maximum, and each connection
\* that is made puts the pause back to 1 s, over any sequence of failures.
THEOREM ExchangeTyped == Spec => []ExchangeTypeOK
<1>1. Init => BackoffStartsOver
  BY DEF Init, BackoffStartsOver
<1>2. ReaderInv => Started
  BY DEF ReaderInv
<1>3. ExchangeTypes /\ BackoffStartsOver => ExchangeTypeOK
  BY DEF ExchangeTypeOK
<1> QED
  BY <1>1, <1>2, <1>3, BackoffStep, Typed, ReaderInvariant, PTL DEF Spec

\* Whatever read_loop reads, or fails at, it ends for the destructor only.
THEOREM ReaderSurvives == Spec => []ReaderEndsForDestructor
<1>1. ReaderInv => ReaderEndsForDestructor
  BY DEF ReaderInv
<1> QED
  BY <1>1, ReaderInvariant, PTL

\* ~Exchange1 returns only when its reader is gone and ws_mutex_ is free.
THEOREM DestructorIsLast == Spec => []GoneIsQuiet
<1>1. ReaderInv => GoneIsQuiet
  BY DEF ReaderInv
<1> QED
  BY <1>1, ReaderInvariant, PTL

\* A step of the owner's is one of the calls that live_source makes, in their order.
LEMMA OwnerFeeds ==
  ASSUME ReaderInv, Owner \/ Destroy
  PROVE  [Feed!Next]_Feed!feedVars
<1> USE DEF LifeOf, FeedOf, Feed!Next, Feed!feedVars, flagVars, streamVars, backoffVars
<1>1. CASE Connect
  BY <1>1 DEF Connect, OwnerAt, Feed!Connect
<1>2. CASE SubscribeUnconnected
  BY <1>2 DEF SubscribeUnconnected, OwnerAt, Feed!Subscribe, ReaderInv, Started
<1>3. CASE Subscribe
  BY <1>3 DEF Subscribe, OwnerAt, Feed!Subscribe, ReaderInv, Started
<1>4. CASE Destroy
  BY <1>4 DEF Destroy, Feed!Destroy
<1>5. CASE ClearConnected \/ CloseStream
  BY <1>5 DEF ClearConnected, CloseStream, OwnerAt
<1>6. CASE JoinReader
  BY <1>6 DEF JoinReader, OwnerAt, Feed!Destroyed
<1> QED
  BY <1>1, <1>2, <1>3, <1>4, <1>5, <1>6 DEF Owner

\* Of what the reader does, live_source sees its end and that it sets running_.
LEMMA ReaderFeeds ==
  ASSUME ReaderInv, Reader \/ ReadMessage \/ MessageThrows
  PROVE  [Feed!Next]_Feed!feedVars
<1> USE DEF LifeOf, FeedOf, Feed!Next, Feed!feedVars, flagVars, streamVars, backoffVars, ReaderAt
<1>1. CASE Head
  <2>1. CASE running
    BY <1>1, <2>1 DEF Head
  <2>2. CASE ~running
    BY <1>1, <2>2 DEF Head, Feed!End
  <2> QED
    BY <2>1, <2>2
<1>2. CASE Restart
  BY <1>2 DEF Restart, Feed!Restart
<1>3. CASE CheckConnected \/ Backoff \/ Rebuild
  BY <1>3 DEF CheckConnected, Backoff, Rebuild
<1>4. CASE Reconnect \/ ReconnectFails \/ Resubscribe \/ ResubscribeFails
  BY <1>4 DEF Reconnect, ReconnectFails, Resubscribe, ResubscribeFails
<1>5. CASE LockAndRead \/ ReadThrows \/ ReadMessage \/ MessageThrows
  BY <1>5 DEF LockAndRead, ReadThrows, ReadMessage, MessageThrows
<1> QED
  BY <1>1, <1>2, <1>3, <1>4, <1>5 DEF Reader

\* Exchange1 implements what live_source relies on: its thread ends for the destructor
\* only, which returns only after it, and running_ is never set without a thread.
THEOREM FeedImplemented == Spec => FeedSpec
<1>1. Init => Feed!Init
  BY DEF Init, Feed!Init, LifeOf, FeedOf
<1>2. ReaderInv /\ [Next]_vars => [Feed!Next]_Feed!feedVars
  <2> SUFFICES ASSUME ReaderInv, [Next]_vars PROVE [Feed!Next]_Feed!feedVars
    OBVIOUS
  <2>1. CASE PeerBreaks \/ UNCHANGED vars
    BY <2>1 DEF PeerBreaks, vars, flagVars, LifeOf, FeedOf, Feed!feedVars
  <2> QED
    BY <2>1, OwnerFeeds, ReaderFeeds DEF Next
<1> QED
  BY <1>1, <1>2, ReaderInvariant, PTL DEF Spec, FeedSpec, Feed!Spec
=============================================================================
