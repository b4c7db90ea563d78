---------------------------- MODULE MCStoreFiles ----------------------------
(* Small instances of StoreFiles: all five files, two goroutines. *)
EXTENDS StoreFiles

\* Mutators of upstream keys and of master keys, and the health report, which
\* is split over two files.
MCChanges == {{1}, {2}, {4, 5}}
=============================================================================
