---------------------------- MODULE MCMasterKeys ----------------------------
(* Small instances of MasterKeys. *)
EXTENDS MasterKeys, TLC

MCQuotas == {3}

\* Values of keys and requests are interchangeable.
MCSymmetry == Permutations(Tokens) \cup Permutations(Requests)
=============================================================================
