--------------------------- MODULE MCKeyLifecycle ---------------------------
(* Small instance of KeyLifecycle: a store with one key or with none.      *)
EXTENDS KeyLifecycle

MCStores == {<<>>} \cup {<<NewRecord(k, FALSE)>> : k \in Keys}
=============================================================================
