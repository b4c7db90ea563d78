---------------------------- MODULE MCHealthRuns ----------------------------
(* Small instances of HealthRuns.                                          *)
EXTENDS HealthRuns
=============================================================================
