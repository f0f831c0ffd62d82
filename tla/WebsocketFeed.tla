----------------------------- MODULE WebsocketFeed -----------------------------
(***************************************************************************)
(* What live_source relies on of a websocket exchange, and what the        *)
(* exchange relies on of live_source: connect() once, then subscribe()     *)
(* once, the destructor not before they have returned.  Between them the   *)
(* exchange's thread starts, ends for the destructor only, and has ended   *)
(* when the destructor returns.  LiveSource's adapters are used by this    *)
(* order, and Exchange1 implements it.                                     *)
(***************************************************************************)

VARIABLES
  life,  \* "new", "connected", "idle" after subscribe(), "dying", "gone"
  link,  \* the running_ that the thread's loop looks at
  feed   \* the exchange's thread: "none", "running", "ended"

feedVars == <<life, link, feed>>

Init ==
  /\ life = "new"
  /\ link = FALSE
  /\ feed = "none"

\* Whether or not the first connection comes about.
Connect ==
  /\ life = "new" /\ life' = "connected"
  /\ link' = TRUE
  /\ UNCHANGED feed

\* Without a connection no thread is started.
Subscribe ==
  /\ life = "connected" /\ life' = "idle"
  /\ feed = "none" /\ feed' \in {"none", "running"}
  /\ UNCHANGED link

Destroy ==
  /\ life \in {"new", "idle"} /\ life' = "dying"
  /\ link' = FALSE
  /\ UNCHANGED feed

Destroyed ==
  /\ life = "dying" /\ life' = "gone"
  /\ feed # "running"
  /\ UNCHANGED <<link, feed>>

\* A reconnect, of an exchange that may be dying.
Restart ==
  /\ feed = "running"
  /\ link' = TRUE
  /\ UNCHANGED <<life, feed>>

End ==
  /\ feed = "running" /\ feed' = "ended"
  /\ ~link
  /\ UNCHANGED <<life, link>>

Next == Connect \/ Subscribe \/ Destroy \/ Destroyed \/ Restart \/ End

Spec == Init /\ [][Next]_feedVars
=============================================================================
