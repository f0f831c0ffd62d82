------------------------------- MODULE RestApi -------------------------------
(***************************************************************************)
(* The HTTP API: http_session hands a request to the router, whose handler *)
(* runs on the pool thread that read it, calls the shared adapter, one     *)
(* step a call, or reads the live snapshot.  Requests on different threads *)
(* interleave between their calls.                                         *)
(*                                                                         *)
(* An acknowledgement and an update of a threshold read a row, change some *)
(* of its columns in the copy and write all of it back.  A row's data is   *)
(* the two columns that different writers change: an alert's acknowledged  *)
(* (left) and resolved_at (right), a threshold's warning (left) and        *)
(* critical value (right).  Other programs write to the database too.      *)
(*                                                                         *)
(* A handler tests is_connected(), and its first call does so again with   *)
(* the same reply when the connection is lost in between: a test and the   *)
(* call after it are one step.                                             *)
(***************************************************************************)
EXTENDS SAdapter, Router, FiniteSets

CONSTANTS
  Threads,       \* the pool threads; the client that one creates has its name
  Requests,      \* the requests that may arrive: method, path, body and ask
  Serves,        \* bound: which of them each thread is given
  Alert,         \* the key of an alert,
  Threshold,     \* of a threshold of the instance,
  Orphan,        \* of a threshold without instance
  Instance       \* and of the instance

ASSUME RestApiAssumption ==
  /\ Serves \in [Threads -> SUBSET Requests]
  /\ \A q \in Requests : /\ Len(q.body) \in Nat
                         /\ \A i \in 1..Len(q.body) : q.body[i].to \in BOOLEAN
  /\ None \notin Threads \cup {Alert, Threshold, Orphan, Instance}

\* A path is a sequence of segments.
ASSUME PathAssumption ==
  \A q \in Requests : Len(q.path) \in Nat /\ q.path = [i \in 1..Len(q.path) |-> q.path[i]]

VARIABLES
  pc,        \* where a thread is: "idle", "call", "write", "reply"
  task,      \* the request it serves
  handler,   \* the handler the router chose for it
  at,        \* the item, or the listing, it has come to
  copy,      \* {the row} it has read and will write back, or {}
  status,    \* of the reply
  value,     \* the writes that the reply claims
  wrote,     \* the writes of the request that took effect
  wanted     \* what the writers of a shared row asked for, see Wanted

threadVars == <<pc, task, handler, at, copy, status, value, wrote>>
vars == <<sadapterVars, threadVars, wanted>>

NoTask == [method |-> "GET", path |-> <<>>, body |-> <<>>, ask |-> "none"]

RefOf(r) == [of |-> r.of, key |-> r.key]

Shared == {Ref(Alerts, Alert), Ref(Thresholds, Threshold)}

Columns == [left : BOOLEAN, right : BOOLEAN]

Fresh == [left |-> FALSE, right |-> FALSE]

Statuses ==
  {"ok", "degraded", "error", "created", "no_content", "not_found", "bad_request", "server_error"}

RestApiTypeOK ==
  /\ conn \in {"none", "open", "lost"}
  /\ usable \in {{}, Prepared}
  /\ \A r \in rows : r.of \in {"feed_instances", "alerts", "metric_thresholds", "clients"}
  /\ \A r \in rows : r.data \in Columns
  /\ pc \in [Threads -> {"idle", "call", "write", "reply"}]
  /\ \A t \in Threads : task[t] \in IF pc[t] = "idle" THEN {NoTask} ELSE Serves[t]
  /\ at \in [Threads -> Nat \ {0}]
  /\ \A t \in Threads : (pc[t] = "write") = (Cardinality(copy[t]) = 1)
  /\ \A t \in Threads :
       pc[t] = "write" /\ handler[t] = "updateThresholds" => at[t] <= Len(task[t].body)
  /\ status \in [Threads -> Statuses]
  /\ value \in [Threads -> Nat] /\ wrote \in [Threads -> Nat]
  /\ \A t \in Threads : wrote[t] <= at[t]
  /\ wanted \in [Shared -> Columns]

\* main has called connect() before it listens.
Init ==
  /\ \/ conn = "none" /\ usable = {}
     \/ conn = "open" /\ usable = Prepared
  /\ rows = {Row(FeedInstances, Instance, None, Fresh),
             Row(Alerts, Alert, None, Fresh),
             Row(Thresholds, Threshold, Ref(FeedInstances, Instance), Fresh),
             Row(Thresholds, Orphan, None, Fresh)}
  /\ pc = [t \in Threads |-> "idle"]
  /\ task = [t \in Threads |-> NoTask]
  /\ handler = [t \in Threads |-> "none"]
  /\ at = [t \in Threads |-> 1]
  /\ copy = [t \in Threads |-> {}]
  /\ status = [t \in Threads |-> "ok"]
  /\ value = [t \in Threads |-> 0]
  /\ wrote = [t \in Threads |-> 0]
  /\ wanted = [s \in Shared |-> Fresh]

-----------------------------------------------------------------------------
(* A request comes and goes.                                               *)

\* on_read(), for a request that is not an upgrade, hands it to handle_request().
\* The database makes a new key for every client: here a thread's client is
\* created when it is gone.
OnRead(t) ==
  /\ pc[t] = "idle"
  /\ \E q \in Serves[t] :
       /\ task' = [task EXCEPT ![t] = q]
       /\ handler' = [handler EXCEPT ![t] = Dispatch(q.method, q.path)]
  /\ handler'[t] = "createClient" => At(Clients, t) = {}
  /\ pc' = [pc EXCEPT ![t] = "call"]
  /\ UNCHANGED <<sadapterVars, at, copy, status, value, wrote, wanted>>

\* The write completes or fails; the socket is shut down.
Replied(t) ==
  /\ pc[t] = "reply"
  /\ pc' = [pc EXCEPT ![t] = "idle"]
  /\ task' = [task EXCEPT ![t] = NoTask]
  /\ handler' = [handler EXCEPT ![t] = "none"]
  /\ at' = [at EXCEPT ![t] = 1]
  /\ status' = [status EXCEPT ![t] = "ok"]
  /\ value' = [value EXCEPT ![t] = 0]
  /\ wrote' = [wrote EXCEPT ![t] = 0]
  /\ UNCHANGED <<sadapterVars, copy, wanted>>

Reply(t, s, v) ==
  /\ pc' = [pc EXCEPT ![t] = "reply"]
  /\ status' = [status EXCEPT ![t] = s]
  /\ value' = [value EXCEPT ![t] = v]

Called(o) ==
  /\ conn' = o.conn
  /\ rows' = o.rows
  /\ UNCHANGED usable

Serving(t, handlers) == pc[t] = "call" /\ handler[t] \in handlers

NotFound(t) ==
  /\ Serving(t, {"none"})
  /\ Reply(t, "not_found", 0)
  /\ UNCHANGED <<sadapterVars, task, handler, at, copy, wrote, wanted>>

-----------------------------------------------------------------------------
(* Views of the live snapshot, which is left out with what they compute of *)
(* it: getExchange() may not find its name there.                          *)

LiveViews ==
  {"getLiveMetrics", "getLivePerformance", "getLiveThroughput", "getLiveFeed",
   "getLiveQueues", "getLiveNetwork", "getLiveDatabase", "getLiveSystem",
   "getLiveSessions", "getAnalytics", "getExchanges", "getExchange", "getTopology",
   "getDependencies"}

LiveView(t) ==
  /\ Serving(t, LiveViews)
  /\ \/ Reply(t, "ok", 0)
     \/ handler[t] = "getExchange" /\ Reply(t, "not_found", 0)
  /\ UNCHANGED <<sadapterVars, task, handler, at, copy, wrote, wanted>>

-----------------------------------------------------------------------------
(* Listings.                                                               *)

HistoryOf ==
  [ getHistoryMetrics |-> Snapshots, getHistoryPerformance |-> Snapshots,
    getHistoryThroughput |-> Snapshots, getHistoryFeed |-> Snapshots,
    getHistorySessions |-> Snapshots, getExchangeHistory |-> ExchangeEntries,
    getHistoryQueues |-> QueueEntries, getHistoryNetwork |-> NetworkEntries,
    getHistoryDatabase |-> DatabaseEntries, getHistorySystem |-> SystemEntries ]

Listing(table, where, wellFormed) ==
  [table |-> table, where |-> where, wellFormed |-> wellFormed]

\* from and to go into the statement as they come: only a quoted literal is SQL.
HistoryListing(h, ask) == <<Listing(HistoryOf[h], "all", ask # "unquoted")>>

\* A clause that is only an ORDER BY is put after WHERE and refused.
AlertListing(ask) ==
  <<Listing(Alerts,
            CASE ask = "active" -> "active"
              [] ask = "acknowledged" -> "acknowledged"
              [] OTHER -> "open",
            ask # "none")>>

\* tenant_id and session_id are UUIDs, to which ILIKE does not apply.
SearchListings(ask) ==
  IF ask = "none" THEN <<>>
  ELSE <<Listing(FeedInstances, "all", TRUE), Listing(Clients, "all", FALSE),
         Listing(SessionRows, "all", FALSE), Listing(Alerts, "all", TRUE),
         Listing(FeedEvents, "all", TRUE)>>

DashboardListing == <<Listing(Alerts, "open", TRUE)>>

ClientListing == <<Listing(Clients, "all", TRUE)>>

HealthListing == <<Listing(FeedInstances, "all", TRUE)>>

AuditListing(ask) == <<Listing(FeedEvents, "all", ask # "unquoted")>>

\* These clauses start with ORDER BY.
TimelineListing == <<Listing(FeedEvents, "all", FALSE)>>

ConfigListing == <<Listing(ConfigVersions, "all", FALSE)>>

ThresholdListing == <<Listing(Thresholds, "all", FALSE)>>

Listings(h, ask) ==
  CASE h \in DOMAIN HistoryOf -> HistoryListing(h, ask)
    [] h = "getAlerts" -> AlertListing(ask)
    [] h = "getAlertHistory" -> AlertListing("all")
    [] h = "getDashboard" -> DashboardListing
    [] h = "search" -> SearchListings(ask)
    [] h = "getClients" -> ClientListing
    [] h = "health" -> HealthListing
    [] h = "getAudit" -> AuditListing(ask)
    [] h = "getTimeline" -> TimelineListing
    [] h = "getConfig" -> ConfigListing
    [] h = "getThresholds" -> ThresholdListing

Listers ==
  DOMAIN HistoryOf \cup
  {"getAlerts", "getAlertHistory", "getDashboard", "search", "getClients", "health",
   "getAudit", "getTimeline", "getConfig", "getThresholds"}

Chosen(where, r) ==
  CASE where = "all" -> TRUE
    [] where = "active" -> ~r.data.left /\ ~r.data.right
    [] where = "acknowledged" -> r.data.left
    [] where = "open" -> ~r.data.left
    [] where = "connected" -> r.data.left

\* One listing after the other; search() without a word makes none.
ListNext(t) ==
  /\ Serving(t, Listers)
  /\ LET todo == Listings(handler[t], task[t].ask)
         answer == IF handler[t] = "health" /\ ~is_connected THEN "degraded" ELSE "ok"
     IN  /\ IF todo = <<>>
              THEN UNCHANGED sadapterVars
              ELSE LET l == todo[at[t]]
                   IN  \E o \in List(l.table, {r \in RowsOf(l.table) : Chosen(l.where, r)}, l.wellFormed) :
                         Called(o)
         /\ IF at[t] < Len(todo)
              THEN at' = [at EXCEPT ![t] = @ + 1] /\ UNCHANGED <<pc, status, value>>
              ELSE Reply(t, answer, 0) /\ UNCHANGED at
  /\ UNCHANGED <<task, handler, copy, wrote, wanted>>

\* The connected instances, or all when there are none.
GetFeedStatus(t) ==
  /\ Serving(t, {"getFeedStatus"})
  /\ LET where == IF at[t] = 1 THEN "connected" ELSE "all"
     IN  \E o \in List(FeedInstances, {r \in RowsOf(FeedInstances) : Chosen(where, r)}, TRUE) :
           /\ Called(o)
           /\ IF at[t] = 1 /\ ~is_connected
                THEN Reply(t, "degraded", 0) /\ UNCHANGED at
              ELSE IF o.answer # {}
                THEN Reply(t, "ok", 0) /\ UNCHANGED at
              ELSE IF at[t] = 1
                THEN at' = [at EXCEPT ![t] = 2] /\ UNCHANGED <<pc, status, value>>
                ELSE Reply(t, "server_error", 0) /\ UNCHANGED at
  /\ UNCHANGED <<task, handler, copy, wrote, wanted>>

GetClientById(t) ==
  /\ Serving(t, {"getClientById"})
  /\ \E o \in Find(Clients, task[t].path[4]) :
       /\ Called(o)
       /\ Reply(t, IF o.answer = {} THEN "not_found" ELSE "ok", 0)
  /\ UNCHANGED <<task, handler, at, copy, wrote, wanted>>

-----------------------------------------------------------------------------
(* Writes.                                                                 *)

\* An outcome that took effect, whatever the caller is told.
Effective(o) == o.answer # {} \/ o.rows # rows

Wrote(t, o) == wrote' = [wrote EXCEPT ![t] = @ + IF Effective(o) THEN 1 ELSE 0]

CreateClient(t) ==
  /\ Serving(t, {"createClient"})
  /\ IF task[t].ask = "malformed"
       THEN /\ Reply(t, "bad_request", 0)
            /\ UNCHANGED <<sadapterVars, wrote>>
       ELSE \E o \in Create(Clients, Row(Clients, t, None, Fresh)) :
              /\ Called(o)
              /\ Wrote(t, o)
              /\ IF o.answer = {} THEN Reply(t, "server_error", 0) ELSE Reply(t, "created", 1)
  /\ UNCHANGED <<task, handler, at, copy, wanted>>

\* Mutant: what delete_client() answers is not looked at.
DeleteClientUnseen(t) ==
  /\ Serving(t, {"deleteClient"})
  /\ \E o \in Delete(Clients, task[t].path[4]) :
       /\ Called(o)
       /\ Wrote(t, o)
       /\ Reply(t, "no_content", 1)
  /\ UNCHANGED <<task, handler, at, copy, wanted>>

DeleteClient(t) ==
  /\ Serving(t, {"deleteClient"})
  /\ \E o \in Delete(Clients, task[t].path[4]) :
       /\ Called(o)
       /\ Wrote(t, o)
       /\ IF o.answer = {} THEN Reply(t, "not_found", 0) ELSE Reply(t, "no_content", 1)
  /\ UNCHANGED <<task, handler, at, copy, wanted>>

UpdateConfig(t) ==
  /\ Serving(t, {"updateConfig"})
  /\ Reply(t, IF task[t].ask = "malformed" THEN "bad_request" ELSE "ok", 0)
  /\ UNCHANGED <<sadapterVars, task, handler, at, copy, wrote, wanted>>

\* The columns a request sets in its copy.
Acknowledged(data) == [data EXCEPT !.left = TRUE]

Edited(data, item) ==
  [left  |-> IF item.sets = "left" THEN item.to ELSE data.left,
   right |-> IF item.sets = "right" THEN item.to ELSE data.right]

DataAt(ref, S) == (CHOOSE r \in S : RefOf(r) = ref).data

\* What a row's writers asked for, column by column.  A writer whose copy was
\* out of date overwrites what came in between: the count starts anew there.
Wanted(t, ref, Change(_), o) ==
  wanted' = IF ~Effective(o) THEN wanted
            ELSE IF copy[t] \subseteq rows
              THEN [wanted EXCEPT ![ref] = Change(@)]
              ELSE [wanted EXCEPT ![ref] = DataAt(ref, o.rows)]

\* Mutant: the alert is not tested.
ReadAlertUntested(t) ==
  /\ Serving(t, {"acknowledgeAlert"})
  /\ \E o \in Find(Alerts, task[t].path[4]) :
       /\ Called(o)
       /\ copy' = [copy EXCEPT ![t] = o.answer]
  /\ pc' = [pc EXCEPT ![t] = "write"]
  /\ UNCHANGED <<status, value, task, handler, at, wrote, wanted>>

ReadAlert(t) ==
  /\ Serving(t, {"acknowledgeAlert"})
  /\ \E o \in Find(Alerts, task[t].path[4]) :
       /\ Called(o)
       /\ IF ~is_connected
            THEN Reply(t, "error", 0) /\ UNCHANGED copy
          ELSE IF o.answer = {}
            THEN Reply(t, "not_found", 0) /\ UNCHANGED copy
            ELSE /\ pc' = [pc EXCEPT ![t] = "write"]
                 /\ copy' = [copy EXCEPT ![t] = o.answer]
                 /\ UNCHANGED <<status, value>>
  /\ UNCHANGED <<task, handler, at, wrote, wanted>>

WriteAlert(t) ==
  /\ pc[t] = "write" /\ handler[t] = "acknowledgeAlert"
  /\ \E r \in copy[t] : \E o \in Update(Alerts, r.key, Acknowledged(r.data)) :
       /\ Called(o)
       /\ Wrote(t, o)
       /\ Wanted(t, Ref(Alerts, r.key), Acknowledged, o)
       /\ IF o.answer = {} THEN Reply(t, "error", 0) ELSE Reply(t, "ok", 1)
  /\ copy' = [copy EXCEPT ![t] = {}]
  /\ UNCHANGED <<task, handler, at>>

\* A body that is not an array, or a value of the wrong type, ends the request;
\* the items before it have been written.
ReadThreshold(t) ==
  /\ Serving(t, {"updateThresholds"})
  /\ at[t] <= Len(task[t].body)
  /\ LET item == task[t].body[at[t]]
     IN  \E o \in IF item.id = None THEN Refused(No) ELSE Find(Thresholds, item.id) :
           /\ Called(o)
           /\ IF at[t] = 1 /\ ~is_connected
                THEN Reply(t, "error", 0) /\ UNCHANGED <<at, copy>>
              ELSE IF o.answer = {}
                THEN at' = [at EXCEPT ![t] = @ + 1] /\ UNCHANGED <<pc, status, value, copy>>
              ELSE IF item.sets = "mistyped"
                THEN Reply(t, "bad_request", 0) /\ UNCHANGED <<at, copy>>
                ELSE /\ pc' = [pc EXCEPT ![t] = "write"]
                     /\ copy' = [copy EXCEPT ![t] = o.answer]
                     /\ UNCHANGED <<status, value, at>>
  /\ UNCHANGED <<task, handler, wrote, wanted>>

\* Mutant: what the request leaves out is written as the default.
WriteThresholdAnew(t) ==
  /\ pc[t] = "write" /\ handler[t] = "updateThresholds"
  /\ LET item == task[t].body[at[t]]
     IN  \E r \in copy[t] : \E o \in Update(Thresholds, r.key, Edited(Fresh, item)) :
           /\ Called(o)
           /\ Wrote(t, o)
           /\ Wanted(t, Ref(Thresholds, r.key), LAMBDA d : Edited(d, item), o)
           /\ value' = [value EXCEPT ![t] = @ + IF o.answer = {} THEN 0 ELSE 1]
  /\ pc' = [pc EXCEPT ![t] = "call"]
  /\ at' = [at EXCEPT ![t] = @ + 1]
  /\ copy' = [copy EXCEPT ![t] = {}]
  /\ UNCHANGED <<task, handler, status>>

WriteThreshold(t) ==
  /\ pc[t] = "write" /\ handler[t] = "updateThresholds"
  /\ LET item == task[t].body[at[t]]
     IN  \E r \in copy[t] : \E o \in Update(Thresholds, r.key, Edited(r.data, item)) :
           /\ Called(o)
           /\ Wrote(t, o)
           /\ Wanted(t, Ref(Thresholds, r.key), LAMBDA d : Edited(d, item), o)
           /\ value' = [value EXCEPT ![t] = @ + IF o.answer = {} THEN 0 ELSE 1]
  /\ pc' = [pc EXCEPT ![t] = "call"]
  /\ at' = [at EXCEPT ![t] = @ + 1]
  /\ copy' = [copy EXCEPT ![t] = {}]
  /\ UNCHANGED <<task, handler, status>>

ThresholdsDone(t) ==
  /\ Serving(t, {"updateThresholds"})
  /\ at[t] > Len(task[t].body)
  /\ Reply(t, "ok", value[t])
  /\ UNCHANGED <<sadapterVars, task, handler, at, copy, wrote, wanted>>

-----------------------------------------------------------------------------
(* The rest of the world.                                                  *)

\* Alerts come from, and are resolved and purged by, programs of their own.
Resolve ==
  /\ \E r \in At(Alerts, Alert), b \in BOOLEAN :
       /\ rows' = (rows \ {r}) \cup {[r EXCEPT !.data.right = b]}
       /\ wanted' = [wanted EXCEPT ![Ref(Alerts, Alert)].right = b]
  /\ UNCHANGED <<conn, usable, threadVars>>

Purge ==
  /\ rows' = rows \ At(Alerts, Alert)
  /\ wanted' = [wanted EXCEPT ![Ref(Alerts, Alert)] = Fresh]
  /\ UNCHANGED <<conn, usable, threadVars>>

Handle(t) ==
  \/ NotFound(t) \/ LiveView(t) \/ ListNext(t)
  \/ GetFeedStatus(t) \/ GetClientById(t) \/ CreateClient(t) \/ DeleteClient(t)
  \/ UpdateConfig(t) \/ ReadAlert(t) \/ WriteAlert(t) \/ ReadThreshold(t)
  \/ WriteThreshold(t) \/ ThresholdsDone(t)

Next ==
  \/ \E t \in Threads : OnRead(t) \/ Handle(t) \/ Replied(t)
  \/ Resolve
  \/ Purge

Spec == Init /\ [][Next]_vars

-----------------------------------------------------------------------------
(* Properties.                                                             *)

\* The handlers of the routes that have a request's path for some parameter.
Fitting(q) ==
  {routes[i].handler : i \in
     {j \in DOMAIN routes :
        /\ routes[j].method = q.method
        /\ Len(routes[j].path) = Len(q.path)
        /\ \E k \in DOMAIN q.path : q.path[k] # "" /\ q.path = PathOf(routes[j], q.path[k])}}

\* The handler that serves a request is that of the only route that fits it,
\* whatever word it has for the parameter, and none serves one that fits none:
\* no route hides another in the order build_router() adds them (server.cpp:80-427).
RoutesReached ==
  \A t \in Threads : pc[t] = "call" => Fitting(task[t]) = {handler[t]} \ {"none"}

\* A row holds every column that an acknowledgement, an update of thresholds or
\* another program asked for, unless a writer's copy was out of date when it was
\* written back (AlertsService.cpp:47-53, ConfigService.cpp:83-95).
NoLostWrite ==
  \A r \in rows : RefOf(r) \in Shared => r.data = wanted[RefOf(r)]

Writers == {"createClient", "deleteClient", "acknowledgeAlert", "updateThresholds"}

\* A reply never claims a write that did not happen; and it claims each that
\* did, unless the connection broke or a later item of the request was refused
\* (server.cpp:130-200, AlertsService.cpp:53-57, ConfigService.cpp:95-100).
RepliesAreTrue ==
  \A t \in Threads : pc[t] = "reply" /\ handler[t] \in Writers =>
    LET claimed == IF status[t] \in {"ok", "created", "no_content"} THEN value[t] ELSE 0
    IN  /\ claimed <= wrote[t]
        /\ conn = "open" /\ status[t] # "bad_request" => claimed = wrote[t]
=============================================================================
