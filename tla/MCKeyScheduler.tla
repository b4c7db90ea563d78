--------------------------- MODULE MCKeyScheduler ---------------------------
(* Small instance of KeyScheduler with its round robin's history: every     *)
(* interleaving of acquisitions, releases, coolings, dead marks, resets and *)
(* scores, and the refinement of KeyPool.                                   *)
EXTENDS SchedulerFairness, TLC

Symmetry == Permutations(Callers) \cup Permutations(Keys)
=============================================================================
