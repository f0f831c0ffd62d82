---------------------------- MODULE SessionManager ----------------------------
(***************************************************************************)
(* session/session_manager.{h,cpp}: the registry of websocket sessions and *)
(* of the topics they subscribe to.  Every member function is one critical *)
(* section of session_manager::mutex_ and blocks on nothing inside it, so  *)
(* each is one action.                                                     *)
(*                                                                         *)
(* A session is named by its address: a raw pointer is all the registry    *)
(* keeps.  A vector of subscribers is the multiplicity of each session in  *)
(* it; the order is what broadcasts choose from when one of them fails     *)
(* (module Sessions).  The topics and modes are kept apart from the set of *)
(* the map's keys, and are those of the last add_client.                   *)
(***************************************************************************)
EXTENDS Integers

CONSTANTS Sessions,    \* addresses a websocket_session may live at
          Topics,      \* topic names, the expanding name included
          AllTopic,    \* "all_"
          AllTopics    \* the topics "all_" expands to

ASSUME RegistryAssumption ==
  /\ AllTopic \in Topics
  /\ AllTopics \subseteq Topics \ {AllTopic}

Modes == {"unknown", "_Live", "_Backtest"}

VARIABLES clients,  \* the keys of clients_
          topics,   \* client_info::topics
          mode,     \* client_info::mode
          subs      \* topic_subscribers_: how often a session is in a vector

registryVars == <<clients, topics, mode, subs>>

RegistryTypeOK ==
  /\ clients \in SUBSET Sessions
  /\ topics \in [Sessions -> SUBSET Topics]
  /\ mode \in [Sessions -> Modes]
  /\ subs \in [Topics -> [Sessions -> Nat]]

RegistryInit ==
  /\ clients = {}
  /\ topics = [s \in Sessions |-> {}]
  /\ mode = [s \in Sessions |-> "unknown"]
  /\ subs = [t \in Topics |-> [s \in Sessions |-> 0]]
-----------------------------------------------------------------------------
\* Mutant: the find before push_back is dropped.
SubscribedNoFind(s, T) ==
  [t \in Topics |-> IF t \in T THEN [subs[t] EXCEPT ![s] = @ + 1] ELSE subs[t]]

\* push_back of s in every vector of T that does not hold it yet.
Subscribed(s, T) ==
  [t \in Topics |->
    IF t \in T /\ subs[t][s] = 0 THEN [subs[t] EXCEPT ![s] = @ + 1] ELSE subs[t]]

\* Mutant: one occurrence is taken out, whether or not there is one.
ErasedOne(s, T) ==
  [t \in Topics |-> IF t \in T THEN [subs[t] EXCEPT ![s] = @ - 1] ELSE subs[t]]

\* erase(remove(...)) of s in every vector of T.
Erased(s, T) ==
  [t \in Topics |-> IF t \in T THEN [subs[t] EXCEPT ![s] = 0] ELSE subs[t]]

\* The vectors a subscription to T goes into: "all_" names five others.
Expand(T) == (T \ {AllTopic}) \cup (IF AllTopic \in T THEN AllTopics ELSE {})

AddClient(s) ==
  /\ clients' = clients \cup {s}
  /\ topics' = [topics EXCEPT ![s] = {}]
  /\ mode' = [mode EXCEPT ![s] = "unknown"]
  /\ UNCHANGED subs

\* Mutant: only the topics on the client's own list are erased.
RemoveClientOwnTopics(s) ==
  IF s \in clients
  THEN /\ clients' = clients \ {s}
       /\ subs' = Erased(s, topics[s])
       /\ UNCHANGED <<topics, mode>>
  ELSE UNCHANGED registryVars

\* Mutant: the map's entry goes, the vectors keep the pointer.
RemoveClientMapOnly(s) ==
  /\ clients' = clients \ {s}
  /\ UNCHANGED <<topics, mode, subs>>

\* The five topics of "all_" are erased whatever the client's own list says.
RemoveClient(s) ==
  IF s \in clients
  THEN /\ clients' = clients \ {s}
       /\ subs' = Erased(s, topics[s] \cup AllTopics)
       /\ UNCHANGED <<topics, mode>>
  ELSE UNCHANGED registryVars

SetClientMode(s, m) ==
  /\ mode' = IF s \in clients THEN [mode EXCEPT ![s] = m] ELSE mode
  /\ UNCHANGED <<clients, topics, subs>>

AddClientTopics(s, T) ==
  IF s \in clients
  THEN /\ topics' = [topics EXCEPT ![s] = @ \cup T]
       /\ subs' = Subscribed(s, Expand(T))
       /\ UNCHANGED <<clients, mode>>
  ELSE UNCHANGED registryVars

\* "all_" is not expanded here: the five vectors it filled keep the session.
RemoveClientTopics(s, T) ==
  IF s \in clients
  THEN /\ topics' = [topics EXCEPT ![s] = @ \ T]
       /\ subs' = Erased(s, T)
       /\ UNCHANGED <<clients, mode>>
  ELSE UNCHANGED registryVars

Subscribers(t) == {s \in Sessions : subs[t][s] > 0}

ClientsByMode(m) == {s \in clients : mode[s] = m}
-----------------------------------------------------------------------------
(***************************************************************************)
(* The registry alone: its functions called in any order.  A session is    *)
(* added by its constructor only, so never while it is registered.         *)
(***************************************************************************)
RegistryNext ==
  \E s \in Sessions :
    \/ s \notin clients /\ AddClient(s)
    \/ RemoveClient(s)
    \/ \E m \in Modes : SetClientMode(s, m)
    \/ \E T \in SUBSET Topics : AddClientTopics(s, T) \/ RemoveClientTopics(s, T)

RegistrySpec == RegistryInit /\ [][RegistryNext]_registryVars
-----------------------------------------------------------------------------
\* Every pointer in a subscriber vector is a registered session's, through one
\* of its topics or one of the five of "all_": exactly what remove_client's two
\* loops (session_manager.cpp:19-36) rely on to leave no dangling pointer behind.
SubscribersRegistered ==
  \A t \in Topics, s \in Sessions :
    subs[t][s] > 0 => s \in clients /\ t \in topics[s] \cup AllTopics

\* A session is at most once in a vector, however often and through whichever
\* names it subscribed.
SubscribedOnce == \A t \in Topics, s \in Sessions : subs[t][s] <= 1

\* A topic a client lists is a topic it is served: the two representations of a
\* subscription do not drift apart.
ListedIsServed ==
  \A s \in clients, t \in Topics \ {AllTopic} : t \in topics[s] => subs[t][s] = 1

\* A broadcast reaches each subscriber once: a vector holds a session at most once and
\* holds every session that lists its topic, under any order of calls
\* (session_manager.cpp:63-110).
ListsAgree == SubscribedOnce /\ ListedIsServed

\* A new session at an address the program used before starts without
\* subscriptions: what an earlier session there subscribed to is gone.
ReuseStartsClean ==
  [][\A s \in clients' \ clients : topics'[s] = {} /\ \A t \in Topics : subs'[t][s] = 0]_registryVars
=============================================================================
