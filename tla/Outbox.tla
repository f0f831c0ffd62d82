-------------------------------- MODULE Outbox --------------------------------
(***************************************************************************)
(* What a client may expect of websocket_session::send_message: messages   *)
(* are numbered in the order they are handed over, and the peer receives   *)
(* them in that order, each once, possibly not all of them.  A new         *)
(* connection starts a new numbering.                                      *)
(***************************************************************************)
EXTENDS Naturals

CONSTANT Sessions

VARIABLES sent,  \* messages handed over for each session
          got    \* the number of the last one its peer received

outboxVars == <<sent, got>>

Init == sent = [s \in Sessions |-> 0] /\ got = [s \in Sessions |-> 0]

\* One broadcast may hand over several messages, to several sessions.
Send ==
  /\ sent' \in [Sessions -> Nat]
  /\ \A s \in Sessions : sent'[s] >= sent[s]
  /\ UNCHANGED got

Receive(s) ==
  /\ got[s] < sent[s]
  /\ got' = [got EXCEPT ![s] = @ + 1]
  /\ UNCHANGED sent

Open(s) ==
  /\ sent' = [sent EXCEPT ![s] = 0]
  /\ got' = [got EXCEPT ![s] = 0]

Next == Send \/ \E s \in Sessions : Receive(s) \/ Open(s)

Spec == Init /\ [][Next]_outboxVars
=============================================================================
