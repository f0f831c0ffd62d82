------------------------------ MODULE MCSessions ------------------------------
(***************************************************************************)
(* Instances of Sessions for TLC: a message of each class on_read tells    *)
(* apart, over one market topic and one monitor topic.                     *)
(***************************************************************************)
EXTENDS Sessions, TLC

Json(type) == [NoFrame EXCEPT !.json = TRUE, !.type = type]
Verb(v, words) == [Json("none") EXCEPT !.verb = v, !.words = words]

MCFrames ==
  {Json("adapter"), Json("none"), Json("backtest_result"), Json("switch_exchange"),
   Verb("subscribe", {"all"}), Verb("unsubscribe", {"price_"}),
   [NoFrame EXCEPT !.mode = "_Live"],
   [Verb("subscribe", {"price_"}) EXCEPT !.mode = "_Backtest"]}

MCRelayTopics == <<"price_", "bid_">>
MCMonitorTopics == <<"dashboard">>
=============================================================================
