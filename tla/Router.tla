-------------------------------- MODULE Router --------------------------------
(***************************************************************************)
(* The routes of the HTTP API, in the order build_router() registers them  *)
(* (server.cpp), and api/router/router.cpp, which serves a request by the  *)
(* first route whose method and pattern match its path without the query.  *)
(* A path is the sequence of its segments: ":id" matches one segment that  *)
(* is not empty, every other segment itself.                               *)
(***************************************************************************)
EXTENDS Naturals, Sequences

Param == ":"

Route(method, path, name) ==
  [method |-> method, path |-> path, handler |-> name]

Get(path, name) == Route("GET", <<"api", "v1">> \o path, name)

ClientRoutes ==
  <<Get(<<"feed", "status">>, "getFeedStatus"),
    Get(<<"clients">>, "getClients"),
    Get(<<"clients", Param>>, "getClientById"),
    Route("POST", <<"api", "v1", "clients">>, "createClient"),
    Route("DELETE", <<"api", "v1", "clients", Param>>, "deleteClient")>>

LiveRoutes ==
  <<Get(<<"dashboard">>, "getDashboard"),
    Get(<<"metrics", "live">>, "getLiveMetrics"),
    Get(<<"metrics", "history">>, "getHistoryMetrics"),
    Get(<<"performance", "live">>, "getLivePerformance"),
    Get(<<"performance", "history">>, "getHistoryPerformance"),
    Get(<<"throughput", "live">>, "getLiveThroughput"),
    Get(<<"throughput", "history">>, "getHistoryThroughput"),
    Get(<<"feed", "live">>, "getLiveFeed"),
    Get(<<"feed", "history">>, "getHistoryFeed"),
    Get(<<"exchanges">>, "getExchanges"),
    Get(<<"exchange", Param>>, "getExchange"),
    Get(<<"exchange", Param, "history">>, "getExchangeHistory")>>

ResourceRoutes ==
  <<Get(<<"queues", "live">>, "getLiveQueues"),
    Get(<<"queues", "history">>, "getHistoryQueues"),
    Get(<<"network", "live">>, "getLiveNetwork"),
    Get(<<"network", "history">>, "getHistoryNetwork"),
    Get(<<"database", "live">>, "getLiveDatabase"),
    Get(<<"database", "history">>, "getHistoryDatabase"),
    Get(<<"system", "live">>, "getLiveSystem"),
    Get(<<"system", "history">>, "getHistorySystem"),
    Get(<<"sessions", "live">>, "getLiveSessions"),
    Get(<<"sessions", "history">>, "getHistorySessions"),
    Get(<<"analytics">>, "getAnalytics"),
    Get(<<"timeline">>, "getTimeline"),
    Get(<<"dependencies">>, "getDependencies"),
    Get(<<"topology">>, "getTopology")>>

AdminRoutes ==
  <<Get(<<"alerts">>, "getAlerts"),
    Route("POST", <<"api", "v1", "alerts", Param, "ack">>, "acknowledgeAlert"),
    Get(<<"alerts", "history">>, "getAlertHistory"),
    Get(<<"audit">>, "getAudit"),
    Get(<<"config">>, "getConfig"),
    Route("PUT", <<"api", "v1", "config">>, "updateConfig"),
    Get(<<"thresholds">>, "getThresholds"),
    Route("PUT", <<"api", "v1", "thresholds">>, "updateThresholds"),
    Get(<<"search">>, "search"),
    Route("GET", <<"health">>, "health")>>

routes == ClientRoutes \o LiveRoutes \o ResourceRoutes \o AdminRoutes

\* Mutant: std::regex_search.
MatchesStart(path, pattern) ==
  /\ Len(path) >= Len(pattern)
  /\ \A i \in DOMAIN pattern :
       IF pattern[i] = Param THEN path[i] # "" ELSE path[i] = pattern[i]

\* path_to_regex() and std::regex_match.
Matches(path, pattern) ==
  /\ Len(path) = Len(pattern)
  /\ \A i \in DOMAIN pattern :
       IF pattern[i] = Param THEN path[i] # "" ELSE path[i] = pattern[i]

\* handle_request(): the handler of the first route that matches.
Dispatch(method, path) ==
  LET matching == {i \in DOMAIN routes : routes[i].method = method /\ Matches(path, routes[i].path)}
  IN  IF matching = {} THEN "none"
      ELSE routes[CHOOSE i \in matching : \A j \in matching : i <= j].handler

\* The path of a route with a word in the place of its parameter.
PathOf(route, word) ==
  [i \in DOMAIN route.path |-> IF route.path[i] = Param THEN word ELSE route.path[i]]
=============================================================================
