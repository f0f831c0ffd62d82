------------------------- MODULE SessionManagerProofs -------------------------
(***************************************************************************)
(* Proofs about the registry.  RegistryInv is inductive: its parts hold    *)
(* together, since what one function erases is what another has listed.    *)
(***************************************************************************)
EXTENDS SessionManager, TLAPS

\* The parts of the invariant that say how clients_ and topic_subscribers_ agree.
Agreement == SubscribersRegistered /\ SubscribedOnce /\ ListedIsServed

RegistryInv == RegistryTypeOK /\ Agreement
-----------------------------------------------------------------------------
\* push_back into vectors that lack the session leaves it there exactly once, and
\* touches no other session's entries.
LEMMA SubscribedValue ==
  ASSUME RegistryTypeOK, SubscribedOnce, NEW s \in Sessions, NEW T \in SUBSET Topics
  PROVE  /\ Subscribed(s, T) \in [Topics -> [Sessions -> Nat]]
         /\ \A t \in T : Subscribed(s, T)[t][s] = 1
         /\ \A t \in Topics, x \in Sessions :
              x # s \/ t \notin T => Subscribed(s, T)[t][x] = subs[t][x]
  <1>1. \A t \in Topics : subs[t] \in [Sessions -> Nat] /\ subs[t][s] \in {0, 1}
    BY DEF RegistryTypeOK, SubscribedOnce
  <1>2. QED
    BY <1>1 DEF Subscribed

\* Erasing takes every occurrence of the session out of the vectors and touches no
\* other session's entries.
LEMMA ErasedValue ==
  ASSUME RegistryTypeOK, NEW s \in Sessions, NEW T \in SUBSET Topics
  PROVE  /\ Erased(s, T) \in [Topics -> [Sessions -> Nat]]
         /\ \A t \in T : Erased(s, T)[t][s] = 0
         /\ \A t \in Topics, x \in Sessions :
              x # s \/ t \notin T => Erased(s, T)[t][x] = subs[t][x]
  BY DEF RegistryTypeOK, Erased

\* A subscription's vectors are topics, and "all_" is not one of them.
LEMMA ExpandIsTopics ==
  ASSUME NEW T \in SUBSET Topics
  PROVE  Expand(T) \subseteq Topics /\ T \ {AllTopic} \subseteq Expand(T)
         /\ Expand(T) \subseteq T \cup AllTopics
  BY RegistryAssumption DEF Expand
-----------------------------------------------------------------------------
\* The registry starts empty.
LEMMA RegistryInitInv == RegistryInit => RegistryInv
  BY DEF RegistryInit, RegistryInv, RegistryTypeOK, Modes, Agreement,
         SubscribersRegistered, SubscribedOnce, ListedIsServed

\* A session that is not registered has no pointer in any vector.
LEMMA UnregisteredIsUnsubscribed ==
  ASSUME RegistryInv, NEW s \in Sessions \ clients
  PROVE  \A t \in Topics : subs[t][s] = 0
  BY DEF RegistryInv, RegistryTypeOK, Agreement, SubscribersRegistered

\* A new session starts without topics.
LEMMA AddClientInv ==
  ASSUME RegistryInv, NEW s \in Sessions \ clients, AddClient(s)
  PROVE  RegistryInv'
  <1> USE DEF RegistryInv, RegistryTypeOK, AddClient
  <1>1. RegistryTypeOK'
    BY DEF Modes
  <1>2. SubscribersRegistered'
    <2> SUFFICES ASSUME NEW t \in Topics, NEW x \in Sessions, subs[t][x] > 0
                 PROVE  x \in clients' /\ t \in topics'[x] \cup AllTopics
      BY DEF SubscribersRegistered
    <2>1. x # s
      BY UnregisteredIsUnsubscribed
    <2>2. QED
      BY <2>1 DEF Agreement, SubscribersRegistered
  <1>3. SubscribedOnce'
    BY DEF Agreement, SubscribedOnce
  <1>4. ListedIsServed'
    BY DEF Agreement, ListedIsServed
  <1>5. QED
    BY <1>1, <1>2, <1>3, <1>4 DEF Agreement

\* A session that goes takes its pointer out of every vector.
LEMMA RemoveClientInv ==
  ASSUME RegistryInv, NEW s \in Sessions, RemoveClient(s)
  PROVE  RegistryInv'
  <1>1. CASE s \notin clients
    BY <1>1 DEF RemoveClient, registryVars, RegistryInv, RegistryTypeOK, Agreement,
                SubscribersRegistered, SubscribedOnce, ListedIsServed
  <1>2. CASE s \in clients
    <2> DEFINE T == topics[s] \cup AllTopics
    <2>1. T \in SUBSET Topics
      BY RegistryAssumption DEF RegistryInv, RegistryTypeOK
    <2>2. /\ clients' = clients \ {s} /\ topics' = topics /\ mode' = mode
          /\ subs' = Erased(s, T)
      BY <1>2 DEF RemoveClient
    <2>3. /\ subs' \in [Topics -> [Sessions -> Nat]]
          /\ \A t \in T : subs'[t][s] = 0
          /\ \A t \in Topics, x \in Sessions : x # s \/ t \notin T => subs'[t][x] = subs[t][x]
      BY <2>1, <2>2, ErasedValue DEF RegistryInv
    <2>4. \A t \in Topics : subs'[t][s] = 0
      BY <2>3 DEF RegistryInv, RegistryTypeOK, Agreement, SubscribersRegistered
    <2> HIDE DEF T
    <2>5. RegistryTypeOK'
      BY <2>2, <2>3 DEF RegistryInv, RegistryTypeOK
    <2>6. SubscribersRegistered' /\ SubscribedOnce' /\ ListedIsServed'
      BY <2>2, <2>3, <2>4 DEF RegistryInv, RegistryTypeOK, Agreement, SubscribersRegistered,
                              SubscribedOnce, ListedIsServed
    <2>7. QED
      BY <2>5, <2>6 DEF RegistryInv, Agreement
  <1>3. QED
    BY <1>1, <1>2

\* A mode touches neither list.
LEMMA SetClientModeInv ==
  ASSUME RegistryInv, NEW s \in Sessions, NEW m \in Modes, SetClientMode(s, m)
  PROVE  RegistryInv'
  BY DEF RegistryInv, RegistryTypeOK, SetClientMode, Agreement, SubscribersRegistered,
         SubscribedOnce, ListedIsServed

\* A topic that is new to the session gets its pointer once.
LEMMA AddClientTopicsInv ==
  ASSUME RegistryInv, NEW s \in Sessions, NEW T \in SUBSET Topics, AddClientTopics(s, T)
  PROVE  RegistryInv'
  <1>1. CASE s \notin clients
    BY <1>1 DEF AddClientTopics, registryVars, RegistryInv, RegistryTypeOK, Agreement,
                SubscribersRegistered, SubscribedOnce, ListedIsServed
  <1>2. CASE s \in clients
    <2> DEFINE E == Expand(T)
    <2>1. /\ E \in SUBSET Topics
          /\ T \ {AllTopic} \subseteq E
          /\ E \subseteq T \cup AllTopics
      BY ExpandIsTopics
    <2>2. /\ clients' = clients /\ mode' = mode /\ subs' = Subscribed(s, E)
          /\ topics' = [topics EXCEPT ![s] = @ \cup T]
      BY <1>2 DEF AddClientTopics
    <2> HIDE DEF E
    <2>3. /\ subs' \in [Topics -> [Sessions -> Nat]]
          /\ \A t \in E : subs'[t][s] = 1
          /\ \A t \in Topics, x \in Sessions : x # s \/ t \notin E => subs'[t][x] = subs[t][x]
      BY <2>1, <2>2, SubscribedValue DEF RegistryInv, Agreement
    <2>4. /\ topics' \in [Sessions -> SUBSET Topics]
          /\ topics'[s] = topics[s] \cup T
          /\ \A x \in Sessions \ {s} : topics'[x] = topics[x]
      BY <2>2 DEF RegistryInv, RegistryTypeOK
    <2>5. RegistryTypeOK'
      BY <2>2, <2>3, <2>4 DEF RegistryInv, RegistryTypeOK
    <2>6. SubscribersRegistered'
      BY <1>2, <2>1, <2>2, <2>3, <2>4
         DEF RegistryInv, RegistryTypeOK, Agreement, SubscribersRegistered
    <2>7. SubscribedOnce'
      BY <2>2, <2>3 DEF RegistryInv, RegistryTypeOK, Agreement, SubscribedOnce
    <2>8. ListedIsServed'
      BY <2>1, <2>2, <2>3, <2>4 DEF RegistryInv, RegistryTypeOK, Agreement, ListedIsServed
    <2>9. QED
      BY <2>5, <2>6, <2>7, <2>8 DEF RegistryInv, Agreement
  <1>3. QED
    BY <1>1, <1>2

\* A topic is taken out of the list and of its vector together.
LEMMA RemoveClientTopicsInv ==
  ASSUME RegistryInv, NEW s \in Sessions, NEW T \in SUBSET Topics, RemoveClientTopics(s, T)
  PROVE  RegistryInv'
  <1>1. CASE s \notin clients
    BY <1>1 DEF RemoveClientTopics, registryVars, RegistryInv, RegistryTypeOK, Agreement,
                SubscribersRegistered, SubscribedOnce, ListedIsServed
  <1>2. CASE s \in clients
    <2>2. /\ clients' = clients /\ mode' = mode /\ subs' = Erased(s, T)
          /\ topics' = [topics EXCEPT ![s] = @ \ T]
      BY <1>2 DEF RemoveClientTopics
    <2>3. /\ subs' \in [Topics -> [Sessions -> Nat]]
          /\ \A t \in T : subs'[t][s] = 0
          /\ \A t \in Topics, x \in Sessions : x # s \/ t \notin T => subs'[t][x] = subs[t][x]
      BY <2>2, ErasedValue DEF RegistryInv
    <2>4. /\ topics' \in [Sessions -> SUBSET Topics]
          /\ topics'[s] = topics[s] \ T
          /\ \A x \in Sessions \ {s} : topics'[x] = topics[x]
      BY <2>2 DEF RegistryInv, RegistryTypeOK
    <2>5. RegistryTypeOK'
      BY <2>2, <2>3, <2>4 DEF RegistryInv, RegistryTypeOK
    <2>6. SubscribersRegistered' /\ SubscribedOnce' /\ ListedIsServed'
      BY <2>2, <2>3, <2>4 DEF RegistryInv, RegistryTypeOK, Agreement, SubscribersRegistered,
                              SubscribedOnce, ListedIsServed
    <2>7. QED
      BY <2>5, <2>6 DEF RegistryInv, Agreement
  <1>3. QED
    BY <1>1, <1>2

\* Every function of the registry keeps the invariant.
LEMMA RegistryStepInv == RegistryInv /\ [RegistryNext]_registryVars => RegistryInv'
  <1> SUFFICES ASSUME RegistryInv, [RegistryNext]_registryVars
               PROVE  RegistryInv'
    OBVIOUS
  <1>1. CASE UNCHANGED registryVars
    BY <1>1 DEF registryVars, RegistryInv, RegistryTypeOK, Agreement, SubscribersRegistered,
                SubscribedOnce, ListedIsServed
  <1>2. ASSUME NEW s \in Sessions, s \notin clients /\ AddClient(s) PROVE RegistryInv'
    BY <1>2, AddClientInv
  <1>3. ASSUME NEW s \in Sessions, RemoveClient(s) PROVE RegistryInv'
    BY <1>3, RemoveClientInv
  <1>4. ASSUME NEW s \in Sessions, NEW m \in Modes, SetClientMode(s, m) PROVE RegistryInv'
    BY <1>4, SetClientModeInv
  <1>5. ASSUME NEW s \in Sessions, NEW T \in SUBSET Topics, AddClientTopics(s, T)
        PROVE RegistryInv'
    BY <1>5, AddClientTopicsInv
  <1>6. ASSUME NEW s \in Sessions, NEW T \in SUBSET Topics, RemoveClientTopics(s, T)
        PROVE RegistryInv'
    BY <1>6, RemoveClientTopicsInv
  <1>7. QED
    BY <1>1, <1>2, <1>3, <1>4, <1>5, <1>6 DEF RegistryNext
-----------------------------------------------------------------------------
\* Whatever the order of the calls.
LEMMA RegistryInvariant == RegistrySpec => []RegistryInv
  BY RegistryInitInv, RegistryStepInv, PTL DEF RegistrySpec

\* The registry's functions keep its maps well typed: no multiplicity is negative.
THEOREM RegistryTyped == RegistrySpec => []RegistryTypeOK
  BY RegistryInvariant, PTL DEF RegistryInv

\* remove_client leaves no pointer of a removed session in any vector.
THEOREM RegistrySubscribers == RegistrySpec => []SubscribersRegistered
  <1>1. RegistryInv => SubscribersRegistered
    BY DEF RegistryInv, Agreement
  <1>2. QED
    BY <1>1, RegistryInvariant, PTL

\* No session is twice in a vector, and the two representations agree.
THEOREM RegistryAgreement == RegistrySpec => []ListsAgree
  <1>1. RegistryInv => ListsAgree
    BY DEF RegistryInv, Agreement, ListsAgree
  <1>2. QED
    BY <1>1, RegistryInvariant, PTL

\* A session added at an address used before starts without subscriptions.
THEOREM RegistryReuse == RegistrySpec => ReuseStartsClean
  <1> DEFINE Clean == \A s \in clients' \ clients :
                        topics'[s] = {} /\ \A t \in Topics : subs'[t][s] = 0
  <1>1. RegistryInv /\ [RegistryNext]_registryVars => [Clean]_registryVars
    <2> SUFFICES ASSUME RegistryInv, RegistryNext, NEW x \in clients' \ clients
                 PROVE  topics'[x] = {} /\ \A t \in Topics : subs'[t][x] = 0
      OBVIOUS
    <2>1. PICK s \in Sessions : s \notin clients /\ AddClient(s)
      BY DEF RegistryNext, RemoveClient, SetClientMode, AddClientTopics, RemoveClientTopics,
             registryVars
    <2>2. x = s /\ topics' = [topics EXCEPT ![s] = {}] /\ subs' = subs
      BY <2>1 DEF AddClient
    <2>3. QED
      BY <2>1, <2>2, UnregisteredIsUnsubscribed DEF RegistryInv, RegistryTypeOK
  <1>2. QED
    BY <1>1, RegistryInvariant, PTL DEF RegistrySpec, ReuseStartsClean
=============================================================================
