---------------------------- MODULE MCStoreLayout ----------------------------
(* A store of three files, with former places of two of them. *)
EXTENDS StoreLayout

\* Two places of the same root for one part: which one wins is open.
MCOldPlaces == {
  [root |-> "store", name |-> "flat", part |-> 1],
  [root |-> "data", name |-> "flat", part |-> 1],
  [root |-> "data", name |-> "nested", part |-> 1],
  [root |-> "data", name |-> "runtime", part |-> 3]}
=============================================================================
