----------------------------- MODULE MCLiveSource -----------------------------
(***************************************************************************)
(* Two switch_exchange requests, in either order and overlapping: to a     *)
(* polled exchange and to the websocket exchange, which is also the one    *)
(* start() uses; or both to polled ones, one of them start()'s.            *)
(***************************************************************************)
EXTENDS LiveSource

CONSTANTS w1, w2

MCRequested == {<<w1, "JUPITER">>, <<w2, "BINANCE">>}
MCPolledRequested == {<<w1, "JUPITER">>, <<w2, "BIRDEYE">>}
MCOneRequest == {<<w1, "JUPITER">>}
=============================================================================
