-------------------------- MODULE MCUpstreamHealth --------------------------
(* Small instances of UpstreamHealth. *)
EXTENDS UpstreamHealth
=============================================================================
