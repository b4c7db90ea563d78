------------------------- MODULE MCRequestExecution -------------------------
(* Small instance of RequestExecution: one followed request and another one  *)
(* that shares its conversation and its two keys.                            *)
EXTENDS RequestExecution
=============================================================================
