----------------------------- MODULE StoreParts -----------------------------
(***************************************************************************)
(* The parts of the document store (db.go): each has a JSON file of its    *)
(* own and is known by its place in the order of writing (1 api_keys,      *)
(* 2 master_keys, 3 system_config, 4 health_state, 5 model_catalog).       *)
(***************************************************************************)
EXTENDS Naturals

CONSTANT NFiles  \* how many files, hence parts, there are

ASSUME PartsAssumption == NFiles \in Nat \ {0}

Parts == 1 .. NFiles
=============================================================================
