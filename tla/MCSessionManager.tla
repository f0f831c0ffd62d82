--------------------------- MODULE MCSessionManager ---------------------------
(***************************************************************************)
(* Bounds for TLC: two addresses, which are interchangeable; "all_", two   *)
(* of the topics it expands to and one topic it does not name.             *)
(***************************************************************************)
EXTENDS SessionManager, TLC

Symmetry == Permutations(Sessions)
=============================================================================
