------------------------------ MODULE MCBacktest ------------------------------
(***************************************************************************)
(* Two start_replay requests, so that the thread of the first can meet the *)
(* adapter of the second, each replay with two rows.                       *)
(***************************************************************************)
EXTENDS Backtest

CONSTANTS r1, r2
=============================================================================
