------------------------------- MODULE MCRestApi -------------------------------
(***************************************************************************)
(* Two pool threads that write to the same rows, one of which also reads.  *)
(* Every route is asked for, with words of other routes in the place of    *)
(* its parameter.                                                          *)
(***************************************************************************)
EXTENDS RestApi, TLC

CONSTANTS t1, t2, a1, w1, w2, i1

Request(method, path, body, ask) ==
  [method |-> method, path |-> path, body |-> body, ask |-> ask]

Item(id, sets, to) == [id |-> id, sets |-> sets, to |-> to]

MCWrites ==
  {Request("POST", <<"api", "v1", "alerts", a1, "ack">>, <<>>, "none"),
   Request("PUT", <<"api", "v1", "thresholds">>, <<Item(None, "left", TRUE), Item(w1, "left", TRUE)>>, "none"),
   Request("POST", <<"api", "v1", "clients">>, <<>>, "none")}

MCOtherWrites ==
  {Request("PUT", <<"api", "v1", "thresholds">>,
           <<Item(w2, "right", TRUE), Item(w1, "right", TRUE), Item(w1, "mistyped", TRUE)>>, "none"),
   Request("DELETE", <<"api", "v1", "clients", t1>>, <<>>, "none")}

MCReads ==
  {Request("GET", r.path, <<>>, "none") :
     r \in {q \in {routes[i] : i \in DOMAIN routes} :
              q.method = "GET" /\ \A k \in DOMAIN q.path : q.path[k] # Param}}
  \cup
  {Request("GET", <<"api", "v1", "alerts">>, <<>>, ask) : ask \in {"active", "acknowledged"}}
  \cup
  {Request("GET", <<"api", "v1", "search">>, <<>>, "word"),
   Request("GET", <<"api", "v1", "queues", "history">>, <<>>, "unquoted"),
   Request("GET", <<"api", "v1", "clients", t1>>, <<>>, "none"),
   Request("GET", <<"api", "v1", "clients", "">>, <<>>, "none"),
   Request("GET", <<"api", "v1", "clients", "live">>, <<>>, "none"),
   Request("GET", <<"api", "v1", "exchange", "BINANCE">>, <<>>, "none"),
   Request("GET", <<"api", "v1", "exchange", "history">>, <<>>, "none"),
   Request("GET", <<"api", "v1", "exchange", "history", "history">>, <<>>, "none"),
   Request("POST", <<"api", "v1", "clients">>, <<>>, "malformed"),
   Request("PUT", <<"api", "v1", "config">>, <<>>, "none"),
   Request("POST", <<"api", "v1", "alerts", "history">>, <<>>, "none")}

MCRequests == MCWrites \cup MCOtherWrites \cup MCReads

MCServes == (t1 :> MCWrites) @@ (t2 :> MCOtherWrites \cup MCReads)
=============================================================================
