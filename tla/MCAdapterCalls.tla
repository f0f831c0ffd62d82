---------------------------- MODULE MCAdapterCalls ----------------------------
(***************************************************************************)
(* One key a table, so that a row of every table can refer to a client, a  *)
(* session or an instance that is deleted under it.                        *)
(***************************************************************************)
EXTENDS AdapterCalls

CONSTANT k1
=============================================================================
