----------------------------- MODULE StoreFiles -----------------------------
(***************************************************************************)
(* The document store while the gateway runs (db.go): a document in memory *)
(* that readers copy without a lock, and one JSON file per part.  An       *)
(* update holds storeMu while it copies the document, changes it and       *)
(* writes ALL the files, one after the other, each through a temporary     *)
(* file, fsync and rename.  The process may die between any two steps, and *)
(* the machine may lose power: then data nobody flushed is gone.           *)
(*                                                                         *)
(* The content of a part is known by the number of the update that changed *)
(* it last, 0 being the default.  The reading of files that are not JSON   *)
(* is left out (the process does not start then), and a rename that was    *)
(* done is taken to outlast a loss of power, though the code does not      *)
(* flush directories.                                                      *)
(***************************************************************************)
EXTENDS StoreParts, FiniteSets

CONSTANTS
  Writers,        \* goroutines that call UpdateStore
  NoOne,          \* storeMu is free
  Changes,        \* the sets of parts that the mutators change
  Gone, Blank,    \* contents of a path: no file; a file of NUL bytes
  NoDocument,     \* storeCache of a process that is not running
  RenameMayFail,  \* os.Rename over an existing file may fail (Windows)
  MaxUpdates, MaxCrashes

ASSUME StoreAssumption ==
  /\ NoOne \notin Writers
  /\ Changes \subseteq SUBSET Parts
  /\ Gone \notin Nat /\ Blank \notin Nat
  /\ NoDocument \notin [Parts -> Nat]
  /\ RenameMayFail \in BOOLEAN
  /\ MaxUpdates \in Nat /\ MaxCrashes \in Nat

VARIABLES
  disk,       \* part -> what its path shows
  unflushed,  \* parts whose path shows a file with data not flushed
  flushed,    \* parts whose temporary file has been flushed
  cache,      \* storeCache
  lock,       \* who holds storeMu
  pc,         \* writer -> its next step
  at,         \* writer -> the part whose file it is writing
  doc,        \* writer -> the document it is writing
  updates, crashes,
  attempts    \* not in the code: updates that nobody has acknowledged

storeVars == <<disk, unflushed, flushed, cache, lock, pc, at, doc, updates, crashes, attempts>>

Steps == {"idle", "write", "sync", "rename", "remove", "again", "publish"}

Default == [p \in Parts |-> 0]

Init ==
  /\ disk = Default
  /\ unflushed = {} /\ flushed = {}
  /\ cache = Default
  /\ lock = NoOne
  /\ pc = [w \in Writers |-> "idle"]
  /\ at = [w \in Writers |-> 1]
  /\ doc = [w \in Writers |-> Default]
  /\ updates = 0 /\ crashes = 0
  /\ attempts = {}

\* What readStoreUnlocked makes of a path: no file and a file of NUL bytes
\* both leave the default in place.
ReadBack(p) == IF disk[p] \in Nat THEN disk[p] ELSE 0

Running == cache # NoDocument

-----------------------------------------------------------------------------
(* UpdateStore.                                                            *)

Changed(S, v) == [p \in Parts |-> IF p \in S THEN v ELSE cache[p]]

\* storeMu.Lock()
Take(w) == Running /\ pc[w] = "idle" /\ lock = NoOne

\* The lock is taken, the cached document copied and changed.
Begin(w) ==
  /\ Take(w)
  /\ updates < MaxUpdates
  /\ \E S \in Changes :
       /\ doc' = [doc EXCEPT ![w] = Changed(S, updates + 1)]
       /\ attempts' = attempts \cup {[parts |-> S, version |-> updates + 1]}
  /\ updates' = updates + 1
  /\ lock' = w
  /\ pc' = [pc EXCEPT ![w] = "write"]
  /\ at' = [at EXCEPT ![w] = 1]
  /\ UNCHANGED <<disk, unflushed, flushed, cache, crashes>>

\* The mutator returns an error: nothing is written.
MutatorFails(w) == Take(w) /\ UNCHANGED storeVars

WriteTmpUnsynced(w) ==
  /\ pc[w] = "write"
  /\ flushed' = flushed \ {at[w]}
  /\ pc' = [pc EXCEPT ![w] = "rename"]
  /\ UNCHANGED <<disk, unflushed, cache, lock, at, doc, updates, crashes, attempts>>

\* The temporary file is created or truncated, and written.
WriteTmp(w) ==
  /\ pc[w] = "write"
  /\ flushed' = flushed \ {at[w]}
  /\ pc' = [pc EXCEPT ![w] = "sync"]
  /\ UNCHANGED <<disk, unflushed, cache, lock, at, doc, updates, crashes, attempts>>

SyncTmp(w) ==
  /\ pc[w] = "sync"
  /\ flushed' = flushed \cup {at[w]}
  /\ pc' = [pc EXCEPT ![w] = "rename"]
  /\ UNCHANGED <<disk, unflushed, cache, lock, at, doc, updates, crashes, attempts>>

\* The temporary file takes the path of the file; on to the next file.
Install(w) ==
  /\ disk' = [disk EXCEPT ![at[w]] = doc[w][at[w]]]
  /\ unflushed' = IF at[w] \in flushed THEN unflushed \ {at[w]} ELSE unflushed \cup {at[w]}
  /\ IF at[w] = NFiles
     THEN pc' = [pc EXCEPT ![w] = "publish"] /\ UNCHANGED at
     ELSE pc' = [pc EXCEPT ![w] = "write"] /\ at' = [at EXCEPT ![w] = @ + 1]
  /\ UNCHANGED <<flushed, cache, lock, doc, updates, crashes, attempts>>

Rename(w) == pc[w] = "rename" /\ Install(w)

RenameRefused(w) ==
  /\ pc[w] = "rename" /\ RenameMayFail
  /\ pc' = [pc EXCEPT ![w] = "remove"]
  /\ UNCHANGED <<disk, unflushed, flushed, cache, lock, at, doc, updates, crashes, attempts>>

\* The target is removed so that the second rename succeeds.
RemoveTarget(w) ==
  /\ pc[w] = "remove"
  /\ disk' = [disk EXCEPT ![at[w]] = Gone]
  /\ unflushed' = unflushed \ {at[w]}
  /\ pc' = [pc EXCEPT ![w] = "again"]
  /\ UNCHANGED <<flushed, cache, lock, at, doc, updates, crashes, attempts>>

RenameAgain(w) == pc[w] = "again" /\ Install(w)

FailsButPublishes(w) ==
  /\ pc[w] \in {"write", "sync", "remove", "again"}
  /\ pc' = [pc EXCEPT ![w] = "publish"]
  /\ UNCHANGED <<disk, unflushed, flushed, cache, lock, at, doc, updates, crashes, attempts>>

\* Creating, writing, flushing, removing or the second rename fails: the
\* update returns the error.  Files written before stay as they are.
Fails(w) ==
  /\ pc[w] \in {"write", "sync", "remove", "again"}
  /\ lock' = NoOne
  /\ pc' = [pc EXCEPT ![w] = "idle"]
  /\ UNCHANGED <<disk, unflushed, flushed, cache, at, doc, updates, crashes, attempts>>

\* All files are written: the cache is replaced, the caller gets its answer.
Publish(w) ==
  /\ pc[w] = "publish"
  /\ cache' = doc[w]
  /\ lock' = NoOne
  /\ pc' = [pc EXCEPT ![w] = "idle"]
  /\ attempts' = {}
  /\ UNCHANGED <<disk, unflushed, flushed, at, doc, updates, crashes>>

-----------------------------------------------------------------------------
(* The end of the process, and its next start.                             *)

\* The process dies, or the machine loses power (some data not flushed is
\* NUL bytes afterwards).
Crash ==
  /\ Running /\ crashes < MaxCrashes
  /\ \E lost \in SUBSET unflushed :
       disk' = [p \in Parts |-> IF p \in lost THEN Blank ELSE disk[p]]
  /\ unflushed' = {} /\ flushed' = {}
  /\ cache' = NoDocument
  /\ lock' = NoOne
  /\ pc' = [w \in Writers |-> "idle"]
  /\ crashes' = crashes + 1
  /\ attempts' = {}
  /\ UNCHANGED <<at, doc, updates>>

\* ensureDefaultFiles writes the files that are missing, ReadStore reads.
Restart ==
  /\ ~Running
  /\ disk' = [p \in Parts |-> IF disk[p] = Gone THEN 0 ELSE disk[p]]
  /\ cache' = [p \in Parts |-> ReadBack(p)]
  /\ UNCHANGED <<unflushed, flushed, lock, pc, at, doc, updates, crashes, attempts>>

WriterStep(w) ==
  \/ Begin(w) \/ MutatorFails(w) \/ WriteTmp(w) \/ SyncTmp(w) \/ Rename(w)
  \/ RenameRefused(w) \/ RemoveTarget(w) \/ RenameAgain(w) \/ Fails(w) \/ Publish(w)

Next == (\E w \in Writers : WriterStep(w)) \/ Crash \/ Restart

Spec == Init /\ [][Next]_storeVars

-----------------------------------------------------------------------------
(* Properties.                                                             *)

StoreTypeOK ==
  /\ disk \in [Parts -> Nat \cup {Gone, Blank}]
  /\ unflushed \subseteq Parts /\ flushed \subseteq Parts
  /\ cache \in [Parts -> Nat] \cup {NoDocument}
  /\ lock \in Writers \cup {NoOne}
  /\ pc \in [Writers -> Steps] /\ at \in [Writers -> Parts]
  /\ doc \in [Writers -> [Parts -> Nat]]
  /\ updates \in Nat /\ crashes \in Nat
  /\ attempts \subseteq [parts : Changes, version : Nat]

\* The document a reader is given: the one in memory, or the one that the
\* next start will find.
Served == IF Running THEN cache ELSE [p \in Parts |-> ReadBack(p)]

\* A rename that fails makes the code remove the file first, and what then
\* goes wrong leaves the default.
Contract == INSTANCE StoreContract WITH
  committed <- Served,
  Lost <- IF RenameMayFail THEN {0} ELSE {}

\* Updates are atomic for readers and work on each other's results, and
\* what was acknowledged survives the end of the process.
ImplementsContract == Contract!ContractSpec

\* The cache holds nothing that is not on disk, and the disk nothing else
\* once an update has returned without an error: the comment at the end of
\* writeStoreUnlocked.
CacheIsOnDisk ==
  (Running /\ lock = NoOne /\ attempts = {}) => \A p \in Parts : ReadBack(p) = cache[p]

\* A crash finds every file of the store there and whole: the comment on
\* writeDataFile calls its way of writing crash-safe.
CrashSafe == ~Running => \A p \in Parts : disk[p] \in Nat
=============================================================================
