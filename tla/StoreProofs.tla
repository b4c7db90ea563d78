----------------------------- MODULE StoreProofs -----------------------------
(***************************************************************************)
(* What holds of the document store on disk, for any number of files.      *)
(*                                                                         *)
(* StoreFiles, for any number of writers, updates and crashes, and for any *)
(* sets of parts the mutators change: the store implements its contract.   *)
(* Updates are atomic for readers, and what a restart finds is what was    *)
(* acknowledged, part by part, or what a later, unacknowledged update      *)
(* wrote.                                                                  *)
(*                                                                         *)
(* StoreLayout, for any old places and documents, however often starts are *)
(* cut off: no data is lost, only whole imports are put aside, and a store *)
(* that has served is never refused.                                       *)
(***************************************************************************)
EXTENDS StoreFiles, StoreLayout, WellFoundedInduction, TLAPS

-----------------------------------------------------------------------------
(* The store while the gateway runs: StoreFiles.                           *)

\* storeMu: whoever is on its way through an update holds the lock.
WritersHoldTheLock == \A w \in Writers : pc[w] # "idle" => Running /\ lock = w

\* The document being written is the cached one with the parts of an update
\* that has been begun and not yet acknowledged.
Applied(a) == [p \in Parts |-> IF p \in a.parts THEN a.version ELSE cache[p]]

DocumentsAreAttempts ==
  \A w \in Writers : pc[w] # "idle" => \E a \in attempts : doc[w] = Applied(a)

\* The files are written in their order, and all of them before the cache.
WrittenInOrder ==
  \A w \in Writers : pc[w] # "idle" =>
    \A p \in Parts : (p < at[w] \/ pc[w] = "publish") => disk[p] = doc[w][p]

\* No path ever shows a file with data that has not been flushed.
FlushedBeforeRename ==
  /\ unflushed = {}
  /\ \A w \in Writers : pc[w] \in {"rename", "remove", "again"} => at[w] \in flushed

\* A file is missing, or blank, only where a rename may fail.
WholeFiles ==
  /\ \A w \in Writers : pc[w] \in {"remove", "again"} => RenameMayFail
  /\ RenameMayFail \/ \A p \in Parts : disk[p] \in Nat

\* What a restart would find now is what the contract lets it find.
DiskIsRecoverable ==
  IF Running THEN \A p \in Parts : ReadBack(p) \in Contract!Recoverable(p)
             ELSE attempts = {}

StoreInv ==
  /\ StoreTypeOK
  /\ WritersHoldTheLock
  /\ DocumentsAreAttempts
  /\ WrittenInOrder
  /\ FlushedBeforeRename
  /\ WholeFiles
  /\ DiskIsRecoverable

-----------------------------------------------------------------------------
(* Facts about any state of the invariant.                                 *)

\* The lock keeps everybody else out.
LEMMA OnlyOneWriter ==
  ASSUME StoreInv, NEW w \in Writers, pc[w] # "idle"
  PROVE  /\ Running /\ cache \in [Parts -> Nat]
         /\ \A v \in Writers : v # w => pc[v] = "idle"
         /\ attempts # {}
         /\ \A p \in Parts : doc[w][p] \in Contract!Recoverable(p)
<1>1. Running /\ cache \in [Parts -> Nat]
  BY DEF StoreInv, StoreTypeOK, WritersHoldTheLock, Running
<1>2. \A v \in Writers : v # w => pc[v] = "idle"
  BY DEF StoreInv, WritersHoldTheLock
<1>3. PICK a \in attempts : doc[w] = Applied(a)
  BY DEF StoreInv, DocumentsAreAttempts
<1>4. \A p \in Parts : doc[w][p] \in Contract!Recoverable(p)
  BY <1>1, <1>3 DEF Applied, Contract!Recoverable, Served
<1> QED
  BY <1>1, <1>2, <1>3, <1>4

\* Between two updates that both returned, the files and the cache agree.
LEMMA QuietDisk ==
  ASSUME StoreInv, Running, attempts = {}
  PROVE  \A p \in Parts : ReadBack(p) = cache[p]
BY DEF StoreInv, DiskIsRecoverable, Contract!Recoverable, Served

-----------------------------------------------------------------------------
(* The steps of an update.                                                 *)

LEMMA Beginning ==
  ASSUME StoreInv, NEW w \in Writers, Begin(w)
  PROVE  StoreInv'
<1> PICK S \in Changes :
      /\ doc' = [doc EXCEPT ![w] = Changed(S, updates + 1)]
      /\ attempts' = attempts \cup {[parts |-> S, version |-> updates + 1]}
  BY DEF Begin
<1> DEFINE a == [parts |-> S, version |-> updates + 1]
<1>1. /\ Running /\ pc[w] = "idle" /\ lock = NoOne /\ cache \in [Parts -> Nat]
      /\ Running' /\ lock' = w /\ updates' = updates + 1
      /\ pc' = [pc EXCEPT ![w] = "write"] /\ at' = [at EXCEPT ![w] = 1]
      /\ UNCHANGED <<disk, unflushed, flushed, cache, crashes>>
  BY DEF Begin, Take, Running, StoreInv, StoreTypeOK
<1>2. \A v \in Writers : pc[v] = "idle"
  BY <1>1, StoreAssumption DEF StoreInv, WritersHoldTheLock
<1>3. a \in [parts : Changes, version : Nat] /\ a \in attempts'
  BY DEF StoreInv, StoreTypeOK
<1>4. Changed(S, updates + 1) \in [Parts -> Nat] /\ Changed(S, updates + 1) = Applied(a)
  BY <1>1 DEF Changed, Applied, StoreInv, StoreTypeOK
<1>5. doc'[w] = Applied(a) /\ doc' \in [Writers -> [Parts -> Nat]]
  BY <1>4 DEF StoreInv, StoreTypeOK
<1> HIDE DEF a
<1>6. 1 \in Parts
  BY StoreAssumption, PartsAssumption DEF Parts
<1>7. attempts' \subseteq [parts : Changes, version : Nat]
  BY <1>3 DEF StoreInv, StoreTypeOK, a
<1>8. StoreTypeOK'
  BY <1>1, <1>5, <1>6, <1>7 DEF StoreInv, StoreTypeOK, Steps
<1>9. WritersHoldTheLock' /\ DocumentsAreAttempts'
  <2>1. \A v \in Writers : pc'[v] # "idle" => v = w
    BY <1>1, <1>2 DEF StoreInv, StoreTypeOK
  <2>2. \A b : Applied(b)' = Applied(b)
    BY <1>1 DEF Applied
  <2>3. WritersHoldTheLock'
    BY <1>1, <2>1 DEF WritersHoldTheLock
  <2>4. DocumentsAreAttempts'
    BY <1>3, <1>5, <2>1, <2>2 DEF DocumentsAreAttempts
  <2> QED
    BY <2>3, <2>4
<1>10. WrittenInOrder'
  BY <1>1, <1>2 DEF WrittenInOrder, StoreInv, StoreTypeOK, Parts
<1>11. FlushedBeforeRename' /\ WholeFiles'
  BY <1>1, <1>2 DEF FlushedBeforeRename, WholeFiles, StoreInv, StoreTypeOK
<1>12. DiskIsRecoverable'
  BY <1>1 DEF DiskIsRecoverable, Contract!Recoverable, Served, ReadBack, StoreInv, a
<1> QED
  BY <1>8, <1>9, <1>10, <1>11, <1>12 DEF StoreInv

\* A step between two renames: no file changes.
LEMMA Moving ==
  ASSUME StoreInv, NEW w \in Writers, pc[w] # "idle",
         NEW to \in {"sync", "rename", "remove"},
         pc' = [pc EXCEPT ![w] = to],
         flushed' \subseteq Parts,
         to \in {"rename", "remove"} => at[w] \in flushed',
         to = "remove" => RenameMayFail,
         UNCHANGED <<disk, unflushed, cache, lock, at, doc, updates, crashes, attempts>>
  PROVE  StoreInv'
<1>1. \A v \in Writers : v # w => pc[v] = "idle" /\ pc'[v] = "idle"
  BY OnlyOneWriter DEF StoreInv, StoreTypeOK
<1>2. pc'[w] = to
  BY DEF StoreInv, StoreTypeOK
<1>3. StoreTypeOK'
  BY DEF StoreInv, StoreTypeOK, Steps
<1>4. WritersHoldTheLock' /\ DocumentsAreAttempts' /\ WrittenInOrder'
  <2>1. \A b : Applied(b)' = Applied(b)
    BY DEF Applied
  <2>2. DocumentsAreAttempts'
    BY <1>1, <2>1 DEF StoreInv, DocumentsAreAttempts
  <2>3. WritersHoldTheLock' /\ WrittenInOrder'
    BY <1>1, <1>2 DEF StoreInv, WritersHoldTheLock, WrittenInOrder, Running
  <2> QED
    BY <2>2, <2>3
<1>5. FlushedBeforeRename' /\ WholeFiles'
  BY <1>1, <1>2 DEF StoreInv, FlushedBeforeRename, WholeFiles
<1>6. DiskIsRecoverable'
  BY DEF StoreInv, DiskIsRecoverable, Contract!Recoverable, Served, ReadBack, Running
<1> QED
  BY <1>3, <1>4, <1>5, <1>6 DEF StoreInv

\* The file that takes its place has been flushed, and holds a version that
\* the contract allows.
LEMMA Installing ==
  ASSUME StoreInv, NEW w \in Writers, pc[w] \in {"rename", "again"}, Install(w)
  PROVE  StoreInv'
<1> DEFINE f == at[w]
<1>1. /\ f \in Parts /\ f \in flushed /\ disk' = [disk EXCEPT ![f] = doc[w][f]]
      /\ unflushed' = {} /\ doc[w] \in [Parts -> Nat]
      /\ UNCHANGED <<flushed, cache, lock, doc, updates, crashes, attempts>>
  BY DEF Install, StoreInv, StoreTypeOK, FlushedBeforeRename
<1>2. /\ pc' \in [Writers -> Steps] /\ at' \in [Writers -> Parts]
      /\ pc'[w] \in {"write", "publish"}
      /\ \A v \in Writers : v # w => pc'[v] = pc[v] /\ at'[v] = at[v]
  <2>1. CASE f = NFiles
    <3>1. pc' = [pc EXCEPT ![w] = "publish"] /\ at' = at
      BY <2>1 DEF Install
    <3> QED
      BY <3>1 DEF StoreInv, StoreTypeOK, Steps
  <2>2. CASE f # NFiles
    <3>1. f + 1 \in Parts
      BY <1>1, <2>2, StoreAssumption, PartsAssumption DEF Parts
    <3>2. pc' = [pc EXCEPT ![w] = "write"] /\ at' = [at EXCEPT ![w] = f + 1]
      BY <2>2 DEF Install
    <3> QED
      BY <3>1, <3>2 DEF StoreInv, StoreTypeOK, Steps
  <2> QED
    BY <2>1, <2>2
<1>3. \A p \in Parts : (p < at'[w] \/ pc'[w] = "publish") => p < f \/ p = f
  <2> SUFFICES ASSUME NEW p \in Parts, p < at'[w] \/ pc'[w] = "publish"
               PROVE  p < f \/ p = f
    OBVIOUS
  <2>1. NFiles \in Nat /\ f \in 1 .. NFiles /\ p \in 1 .. NFiles
    BY <1>1, StoreAssumption, PartsAssumption DEF Parts
  <2>2. CASE f = NFiles
    BY <2>1, <2>2
  <2>3. CASE f # NFiles
    <3>1. pc'[w] = "write" /\ at'[w] = f + 1
      BY <2>3 DEF Install, StoreInv, StoreTypeOK
    <3> QED
      BY <2>1, <3>1
  <2> QED
    BY <2>2, <2>3
<1> HIDE DEF f
<1>4. /\ disk'[f] = doc[w][f] /\ doc[w][f] \in Nat
      /\ \A p \in Parts : p # f => disk'[p] = disk[p]
      /\ disk' \in [Parts -> Nat \cup {Gone, Blank}]
  BY <1>1 DEF StoreInv, StoreTypeOK
<1>5. /\ Running /\ \A v \in Writers : v # w => pc[v] = "idle"
      /\ doc[w][f] \in Contract!Recoverable(f)
  BY <1>1, OnlyOneWriter
<1>6. StoreTypeOK'
  BY <1>1, <1>2, <1>4 DEF StoreInv, StoreTypeOK
<1>7. WritersHoldTheLock' /\ DocumentsAreAttempts'
  <2>1. \A b : Applied(b)' = Applied(b)
    BY <1>1 DEF Applied
  <2>2. DocumentsAreAttempts'
    BY <1>1, <1>2, <1>5, <2>1 DEF StoreInv, DocumentsAreAttempts
  <2>3. WritersHoldTheLock'
    BY <1>1, <1>2, <1>5 DEF StoreInv, WritersHoldTheLock, Running
  <2> QED
    BY <2>2, <2>3
<1>8. WrittenInOrder'
  <2> SUFFICES ASSUME NEW v \in Writers, pc'[v] # "idle", NEW p \in Parts,
                      p < at'[v] \/ pc'[v] = "publish"
               PROVE  disk'[p] = doc'[v][p]
    BY DEF WrittenInOrder
  <2>1. v = w
    BY <1>2, <1>5
  <2>2. p < f \/ p = f
    BY <1>3, <2>1
  <2>3. p < f => disk[p] = doc[w][p]
    BY DEF StoreInv, WrittenInOrder, f
  <2> QED
    BY <1>1, <1>4, <2>1, <2>2, <2>3
<1>9. FlushedBeforeRename' /\ WholeFiles'
  BY <1>1, <1>2, <1>4, <1>5 DEF StoreInv, FlushedBeforeRename, WholeFiles
<1>10. DiskIsRecoverable'
  <2>1. Running' /\ \A p \in Parts : Contract!Recoverable(p)' = Contract!Recoverable(p)
    BY <1>1, <1>5 DEF Contract!Recoverable, Served, Running
  <2>2. \A p \in Parts : ReadBack(p)' \in Contract!Recoverable(p)
    BY <1>4, <1>5 DEF ReadBack, StoreInv, DiskIsRecoverable
  <2> QED
    BY <2>1, <2>2 DEF DiskIsRecoverable
<1> QED
  BY <1>6, <1>7, <1>8, <1>9, <1>10 DEF StoreInv

\* Removing the target leaves what the contract calls lost.
LEMMA Removing ==
  ASSUME StoreInv, NEW w \in Writers, RemoveTarget(w)
  PROVE  StoreInv'
<1> DEFINE f == at[w]
<1>1. /\ f \in Parts /\ f \in flushed /\ RenameMayFail /\ disk' = [disk EXCEPT ![f] = Gone]
      /\ unflushed' = {} /\ pc' = [pc EXCEPT ![w] = "again"] /\ pc[w] = "remove"
      /\ UNCHANGED <<flushed, cache, lock, at, doc, updates, crashes, attempts>>
  BY DEF RemoveTarget, StoreInv, StoreTypeOK, FlushedBeforeRename, WholeFiles
<1>2. /\ pc' \in [Writers -> Steps] /\ pc'[w] = "again"
      /\ \A v \in Writers : v # w => pc'[v] = pc[v]
  BY <1>1 DEF StoreInv, StoreTypeOK, Steps
<1>3. /\ disk'[f] = Gone /\ \A p \in Parts : p # f => disk'[p] = disk[p]
      /\ disk' \in [Parts -> Nat \cup {Gone, Blank}]
  BY <1>1 DEF StoreInv, StoreTypeOK
<1>4. Running /\ attempts # {} /\ \A v \in Writers : v # w => pc[v] = "idle"
  BY <1>1, OnlyOneWriter
<1>5. StoreTypeOK'
  BY <1>1, <1>2, <1>3 DEF StoreInv, StoreTypeOK
<1>6. WritersHoldTheLock' /\ DocumentsAreAttempts'
  <2>1. \A b : Applied(b)' = Applied(b)
    BY <1>1 DEF Applied
  <2>2. DocumentsAreAttempts'
    BY <1>1, <1>2, <1>4, <2>1 DEF StoreInv, DocumentsAreAttempts
  <2>3. WritersHoldTheLock'
    BY <1>1, <1>2, <1>4 DEF StoreInv, WritersHoldTheLock, Running
  <2> QED
    BY <2>2, <2>3
<1>7. WrittenInOrder'
  <2> SUFFICES ASSUME NEW p \in Parts, p < at[w]
               PROVE  disk'[p] = doc[w][p]
    BY <1>1, <1>2, <1>4 DEF WrittenInOrder
  <2>1. p # f /\ disk[p] = doc[w][p]
    BY <1>1 DEF StoreInv, WrittenInOrder, Parts
  <2> QED
    BY <1>3, <2>1
<1>8. FlushedBeforeRename' /\ WholeFiles'
  BY <1>1, <1>2, <1>4 DEF StoreInv, FlushedBeforeRename, WholeFiles
<1>9. DiskIsRecoverable'
  <2>1. Running' /\ \A p \in Parts : Contract!Recoverable(p)' = Contract!Recoverable(p)
    BY <1>1, <1>4 DEF Contract!Recoverable, Served, Running
  <2>2. 0 \in Contract!Recoverable(f)
    BY <1>1, <1>4 DEF Contract!Recoverable
  <2>3. \A p \in Parts : ReadBack(p)' = IF p = f THEN 0 ELSE ReadBack(p)
    BY <1>3, StoreAssumption DEF ReadBack
  <2> QED
    BY <1>4, <2>1, <2>2, <2>3 DEF StoreInv, DiskIsRecoverable
<1> QED
  BY <1>5, <1>6, <1>7, <1>8, <1>9 DEF StoreInv

\* A writer leaves, and with it the last one that was not idle.
LEMMA Leaving ==
  ASSUME StoreInv, NEW w \in Writers, pc[w] # "idle",
         pc' = [pc EXCEPT ![w] = "idle"], lock' = NoOne,
         UNCHANGED <<disk, unflushed, flushed, at, doc, updates, crashes>>,
         cache' \in [Parts -> Nat], attempts' \subseteq attempts,
         DiskIsRecoverable'
  PROVE  StoreInv'
<1>1. \A v \in Writers : pc'[v] = "idle"
  BY OnlyOneWriter DEF StoreInv, StoreTypeOK
<1>2. StoreTypeOK'
  BY DEF StoreInv, StoreTypeOK, Steps
<1>3. WritersHoldTheLock' /\ DocumentsAreAttempts' /\ WrittenInOrder'
  BY <1>1 DEF WritersHoldTheLock, DocumentsAreAttempts, WrittenInOrder
<1>4. FlushedBeforeRename' /\ WholeFiles'
  BY <1>1 DEF StoreInv, FlushedBeforeRename, WholeFiles
<1> QED
  BY <1>2, <1>3, <1>4 DEF StoreInv

LEMMA Failing ==
  ASSUME StoreInv, NEW w \in Writers, Fails(w)
  PROVE  StoreInv'
<1>1. pc[w] # "idle" /\ cache \in [Parts -> Nat]
  BY OnlyOneWriter DEF Fails
<1>2. DiskIsRecoverable'
  BY DEF Fails, StoreInv, DiskIsRecoverable, Contract!Recoverable, Served, ReadBack, Running
<1> QED
  BY <1>1, <1>2, Leaving DEF Fails

\* All the files hold the document that becomes the cache.
LEMMA Publishing ==
  ASSUME StoreInv, NEW w \in Writers, Publish(w)
  PROVE  StoreInv' /\ \A p \in Parts : ReadBack(p)' = cache'[p]
<1>1. /\ pc[w] = "publish" /\ doc[w] \in [Parts -> Nat] /\ cache' = doc[w]
      /\ attempts' = {} /\ disk' = disk
  BY DEF Publish, StoreInv, StoreTypeOK
<1>2. \A p \in Parts : disk[p] = doc[w][p]
  BY <1>1 DEF StoreInv, WrittenInOrder
<1>3. \A p \in Parts : ReadBack(p)' = cache'[p]
  BY <1>1, <1>2 DEF ReadBack
<1>4. Running'
  BY <1>1, StoreAssumption DEF Running
<1>5. DiskIsRecoverable'
  BY <1>3, <1>4 DEF DiskIsRecoverable, Contract!Recoverable, Served
<1> QED
  BY <1>1, <1>3, <1>5, Leaving DEF Publish

-----------------------------------------------------------------------------
(* The end of the process and its next start.                              *)

\* Nothing that a path shows can be lost with the power.
LEMMA Crashing ==
  ASSUME StoreInv, Crash
  PROVE  StoreInv' /\ disk' = disk /\ ~Running' /\ attempts' = {}
<1>1. /\ disk' = disk /\ unflushed' = {} /\ flushed' = {} /\ cache' = NoDocument
      /\ lock' = NoOne /\ pc' = [w \in Writers |-> "idle"] /\ crashes' = crashes + 1
      /\ attempts' = {} /\ UNCHANGED <<at, doc, updates>>
  BY DEF Crash, StoreInv, StoreTypeOK, FlushedBeforeRename
<1>2. ~Running' /\ \A w \in Writers : pc'[w] = "idle"
  BY <1>1 DEF Running
<1>3. StoreTypeOK'
  BY <1>1 DEF StoreInv, StoreTypeOK, Steps
<1>4. WritersHoldTheLock' /\ DocumentsAreAttempts' /\ WrittenInOrder'
  BY <1>2 DEF WritersHoldTheLock, DocumentsAreAttempts, WrittenInOrder
<1>5. FlushedBeforeRename' /\ WholeFiles' /\ DiskIsRecoverable'
  BY <1>1, <1>2 DEF StoreInv, FlushedBeforeRename, WholeFiles, DiskIsRecoverable
<1> QED
  BY <1>1, <1>2, <1>3, <1>4, <1>5 DEF StoreInv

\* The next start reads into the cache what every reader would have been given
\* from the files.
LEMMA Restarting ==
  ASSUME StoreInv, Restart
  PROVE  StoreInv' /\ cache' = [p \in Parts |-> ReadBack(p)] /\ Running'
<1>1. /\ ~Running /\ attempts = {}
      /\ UNCHANGED <<unflushed, flushed, lock, pc, at, doc, updates, crashes, attempts>>
  BY DEF Restart, StoreInv, DiskIsRecoverable
<1>2. \A w \in Writers : pc[w] = "idle"
  BY <1>1 DEF StoreInv, WritersHoldTheLock
<1>3. cache' = [p \in Parts |-> ReadBack(p)] /\ cache' \in [Parts -> Nat]
  BY DEF Restart, ReadBack
<1>4. Running'
  BY <1>3, StoreAssumption DEF Running
<1>5. /\ disk' \in [Parts -> Nat \cup {Gone, Blank}]
      /\ \A p \in Parts : ReadBack(p)' = ReadBack(p)
      /\ \A p \in Parts : disk[p] \in Nat => disk'[p] \in Nat
  BY StoreAssumption DEF Restart, ReadBack, StoreInv, StoreTypeOK
<1>6. StoreTypeOK'
  BY <1>1, <1>3, <1>5 DEF StoreInv, StoreTypeOK
<1>7. WritersHoldTheLock' /\ DocumentsAreAttempts' /\ WrittenInOrder'
  BY <1>1, <1>2 DEF WritersHoldTheLock, DocumentsAreAttempts, WrittenInOrder
<1>8. FlushedBeforeRename' /\ WholeFiles'
  BY <1>1, <1>2, <1>5 DEF StoreInv, FlushedBeforeRename, WholeFiles
<1>9. DiskIsRecoverable'
  BY <1>3, <1>4, <1>5 DEF DiskIsRecoverable, Contract!Recoverable, Served
<1> QED
  BY <1>3, <1>4, <1>6, <1>7, <1>8, <1>9 DEF StoreInv

-----------------------------------------------------------------------------
(* The invariant and the theorems.                                         *)

LEMMA StoreInitially == Init => StoreInv
<1> SUFFICES ASSUME Init PROVE StoreInv
  OBVIOUS
<1>1. 1 \in Parts /\ Default \in [Parts -> Nat] /\ \A p \in Parts : disk[p] = 0
  BY StoreAssumption, PartsAssumption DEF Init, Default, Parts
<1>2. Running
  BY <1>1, StoreAssumption DEF Init, Running
<1>3. StoreTypeOK
  BY <1>1 DEF Init, StoreTypeOK, Steps
<1>4. WritersHoldTheLock /\ DocumentsAreAttempts /\ WrittenInOrder
  BY DEF Init, WritersHoldTheLock, DocumentsAreAttempts, WrittenInOrder
<1>5. FlushedBeforeRename /\ WholeFiles
  BY <1>1 DEF Init, FlushedBeforeRename, WholeFiles
<1>6. DiskIsRecoverable
  BY <1>1, <1>2 DEF Init, Default, DiskIsRecoverable, ReadBack, Contract!Recoverable, Served
<1> QED
  BY <1>3, <1>4, <1>5, <1>6 DEF StoreInv

LEMMA StoreUntouched ==
  ASSUME StoreInv, UNCHANGED storeVars
  PROVE  StoreInv'
<1>1. StoreTypeOK'
  BY DEF storeVars, StoreInv, StoreTypeOK
<1>2. WritersHoldTheLock' /\ DocumentsAreAttempts' /\ WrittenInOrder'
  BY DEF storeVars, StoreInv, WritersHoldTheLock, DocumentsAreAttempts, WrittenInOrder,
         Applied, Running
<1>3. FlushedBeforeRename' /\ WholeFiles'
  BY DEF storeVars, StoreInv, FlushedBeforeRename, WholeFiles
<1>4. DiskIsRecoverable'
  BY DEF storeVars, StoreInv, DiskIsRecoverable, Contract!Recoverable, Served, ReadBack, Running
<1> QED
  BY <1>1, <1>2, <1>3, <1>4 DEF StoreInv

LEMMA StoreKept == StoreInv /\ [Next]_storeVars => StoreInv'
<1> SUFFICES ASSUME StoreInv, [Next]_storeVars PROVE StoreInv'
  OBVIOUS
<1>1. ASSUME NEW w \in Writers, WriterStep(w)
      PROVE  StoreInv'
  <2>1. CASE Begin(w)
    BY <2>1, Beginning
  <2>2. CASE MutatorFails(w)
    BY <2>2, StoreUntouched DEF MutatorFails
  <2>3. CASE WriteTmp(w)
    <3>1. flushed' \subseteq Parts
      BY <2>3 DEF WriteTmp, StoreInv, StoreTypeOK
    <3> QED
      BY <2>3, <3>1, Moving DEF WriteTmp
  <2>4. CASE SyncTmp(w)
    <3>1. flushed' \subseteq Parts /\ at[w] \in flushed'
      BY <2>4 DEF SyncTmp, StoreInv, StoreTypeOK
    <3> QED
      BY <2>4, <3>1, Moving DEF SyncTmp
  <2>5. CASE Rename(w) \/ RenameAgain(w)
    BY <2>5, Installing DEF Rename, RenameAgain
  <2>6. CASE RenameRefused(w)
    <3>1. flushed' \subseteq Parts /\ at[w] \in flushed'
      BY <2>6 DEF RenameRefused, StoreInv, StoreTypeOK, FlushedBeforeRename
    <3> QED
      BY <2>6, <3>1, Moving DEF RenameRefused
  <2>7. CASE RemoveTarget(w)
    BY <2>7, Removing
  <2>8. CASE Fails(w)
    BY <2>8, Failing
  <2>9. CASE Publish(w)
    BY <2>9, Publishing
  <2> QED
    BY <1>1, <2>1, <2>2, <2>3, <2>4, <2>5, <2>6, <2>7, <2>8, <2>9 DEF WriterStep
<1>2. CASE Crash
  BY <1>2, Crashing
<1>3. CASE Restart
  BY <1>3, Restarting
<1>4. CASE UNCHANGED storeVars
  BY <1>4, StoreUntouched
<1> QED
  BY <1>1, <1>2, <1>3, <1>4 DEF Next

\* The cache and the files agree whenever no update is under way and none has
\* failed since the last success (db.go, the end of writeStoreUnlocked): what
\* readers are given is what a restart would find.
THEOREM CacheAlwaysOnDisk == Spec => []CacheIsOnDisk
<1>1. StoreInv => CacheIsOnDisk
  BY QuietDisk DEF CacheIsOnDisk
<1> QED
  BY <1>1, StoreInitially, StoreKept, PTL DEF Spec

\* Where a rename replaces its target, a crash at any point of any update, or
\* a loss of power, finds every file there and whole (the comment on
\* writeDataFile); the model checker finds that it is not so elsewhere.
THEOREM CrashSafeWhereRenameReplaces ==
  ASSUME ~RenameMayFail
  PROVE  Spec => []CrashSafe
<1>1. StoreInv => CrashSafe
  BY DEF StoreInv, WholeFiles, CrashSafe
<1> QED
  BY <1>1, StoreInitially, StoreKept, PTL DEF Spec

-----------------------------------------------------------------------------
(* The store implements its contract.                                      *)

\* The steps that no reader and no restart can see.
LEMMA Unseen ==
  ASSUME StoreInv, StoreInv', Running, UNCHANGED <<cache, attempts>>
  PROVE  UNCHANGED Contract!contractVars
BY DEF Contract!contractVars, Served, Running

LEMMA BeginIsAttempt ==
  ASSUME StoreInv, NEW w \in Writers, Begin(w)
  PROVE  Contract!Attempt
<1> PICK S \in Changes : attempts' = attempts \cup {[parts |-> S, version |-> updates + 1]}
  BY DEF Begin
<1>1. updates + 1 \in Nat
  BY DEF StoreInv, StoreTypeOK
<1>2. [parts |-> S, version |-> updates + 1] \in [parts : Changes, version : Nat]
  BY <1>1
<1>3. UNCHANGED Served
  BY DEF Begin, Take, Served, Running
<1> QED
  BY <1>2, <1>3 DEF Contract!Attempt

LEMMA PublishIsCommit ==
  ASSUME StoreInv, NEW w \in Writers, Publish(w)
  PROVE  Contract!Commit
<1>1. Running /\ pc[w] # "idle" /\ attempts' = {} /\ cache' = doc[w]
  BY OnlyOneWriter DEF Publish
<1>2. PICK a \in attempts : doc[w] = Applied(a)
  BY <1>1 DEF StoreInv, DocumentsAreAttempts
<1>3. Running' /\ doc[w] \in [Parts -> Nat]
  BY <1>1, StoreAssumption DEF StoreInv, StoreTypeOK, Running
<1>4. Served = cache /\ Served' = Applied(a)
  BY <1>1, <1>2, <1>3 DEF Served
<1> QED
  BY <1>1, <1>4 DEF Contract!Commit, Applied

LEMMA CrashIsRecover ==
  ASSUME StoreInv, Crash
  PROVE  Contract!Recover
<1>1. disk' = disk /\ ~Running' /\ attempts' = {} /\ Running
  BY Crashing DEF Crash
<1>2. Served' = [p \in Parts |-> ReadBack(p)]
  BY <1>1 DEF Served, ReadBack
<1>3. \A p \in Parts : ReadBack(p) \in Nat /\ ReadBack(p) \in Contract!Recoverable(p)
  BY <1>1 DEF StoreInv, StoreTypeOK, DiskIsRecoverable, ReadBack
<1> QED
  BY <1>1, <1>2, <1>3 DEF Contract!Recover

LEMMA RestartIsUnseen ==
  ASSUME StoreInv, Restart
  PROVE  UNCHANGED Contract!contractVars
<1>1. cache' = [p \in Parts |-> ReadBack(p)] /\ Running' /\ ~Running /\ attempts' = attempts
  BY Restarting DEF Restart
<1> QED
  BY <1>1 DEF Contract!contractVars, Served

\* An update is seen by readers all at once and works on the result of the one
\* before it, and a restart, after whatever crash, finds in each part what was
\* acknowledged last, what a later unacknowledged update wrote there, or, where
\* a rename may fail, its default (db.go 561-668).
THEOREM StoreImplementsContract == Spec => ImplementsContract
<1>1. Init => Contract!ContractInit
  <2> SUFFICES ASSUME Init PROVE Contract!ContractInit
    OBVIOUS
  <2>1. Running
    BY StoreAssumption DEF Init, Default, Running
  <2> QED
    BY <2>1 DEF Init, Default, Contract!ContractInit, Served
<1>2. StoreInv /\ StoreInv' /\ [Next]_storeVars
        => [Contract!ContractNext]_(Contract!contractVars)
  <2> SUFFICES ASSUME StoreInv, StoreInv', [Next]_storeVars
               PROVE  [Contract!ContractNext]_(Contract!contractVars)
    OBVIOUS
  <2>1. ASSUME NEW w \in Writers, WriterStep(w)
        PROVE  Contract!ContractNext \/ UNCHANGED Contract!contractVars
    <3>1. CASE Begin(w)
      BY <3>1, BeginIsAttempt DEF Contract!ContractNext
    <3>2. CASE Publish(w)
      BY <3>2, PublishIsCommit DEF Contract!ContractNext
    <3>3. CASE ~Begin(w) /\ ~Publish(w)
      <4>1. Running
        BY <2>1, <3>3, OnlyOneWriter
           DEF WriterStep, MutatorFails, Take, WriteTmp, SyncTmp, Rename, RenameRefused,
               RemoveTarget, RenameAgain, Fails
      <4>2. UNCHANGED <<cache, attempts>>
        BY <2>1, <3>3
           DEF WriterStep, MutatorFails, storeVars, WriteTmp, SyncTmp, Rename,
               RenameRefused, RemoveTarget, RenameAgain, Install, Fails
      <4> QED
        BY <4>1, <4>2, Unseen
    <3> QED
      BY <3>1, <3>2, <3>3
  <2>2. CASE Crash
    BY <2>2, CrashIsRecover DEF Contract!ContractNext
  <2>3. CASE Restart
    BY <2>3, RestartIsUnseen
  <2>4. CASE UNCHANGED storeVars
    BY <2>4 DEF storeVars, Contract!contractVars, Served, Running, ReadBack
  <2> QED
    BY <2>1, <2>2, <2>3, <2>4 DEF Next
<1> QED
  BY <1>1, <1>2, StoreInitially, StoreKept, PTL DEF Spec, ImplementsContract, Contract!ContractSpec

-----------------------------------------------------------------------------
(* Starts of the gateway: StoreLayout.                                     *)

\* What the import writes into each file.
Source == IF try \in Candidates THEN OfDocument(try) ELSE DefaultFile

\* An import begins with nothing on disk and writes file after file.
ImportFillsTheVoid ==
  /\ stage = "import" => \A p \in Parts : files[p] = Missing
  /\ stage = "write" => \A p \in Parts : files[p] = IF p < writing THEN Source ELSE Missing
  /\ stage = "backup" => try \in Candidates /\ \A p \in Parts : files[p] = Source
  /\ stage \in {"write", "backup"} /\ try \in Candidates => json[try] = "document"

\* A start gets past the SQLite files only when none is left in its place.
SQLiteGone ==
  stage \in {"files", "import", "write", "backup", "defaults", "up"} \/ served => sqlite = {}

\* A store that has served is complete for good, so that it is never imported.
ServedIsComplete ==
  served =>
    /\ \A p \in Parts : files[p] # Missing
    /\ stage \notin {"import", "write", "backup", "refused"}

LayoutInv ==
  /\ LayoutTypeOK /\ ImportFillsTheVoid /\ SQLiteGone /\ ServedIsComplete
  /\ OnlyWholeImportsAreBackedUp

-----------------------------------------------------------------------------
LEMMA Contents ==
  /\ Missing # DefaultFile /\ Parts # {}
  /\ \A c \in Candidates : OfDocument(c) \notin {Missing, DefaultFile}
  /\ \A c, d \in Candidates : OfDocument(c) = OfDocument(d) => c = d
  /\ \A o \in OldPlaces : OfPlace(o) \notin {Missing, DefaultFile}
  /\ {Missing, DefaultFile} \subseteq Content
  /\ \A c \in Candidates : OfDocument(c) \in Content
  /\ \A o \in OldPlaces : OfPlace(o) \in Content
<1>1. /\ Missing.from = "nowhere" /\ DefaultFile.from = "default"
      /\ \A c \in Candidates : OfDocument(c).from = "document" /\ OfDocument(c).candidate = c
      /\ \A o \in OldPlaces : OfPlace(o).from = "place"
  BY DEF Missing, DefaultFile, OfDocument, OfPlace
<1>2. 1 \in Parts
  BY LayoutAssumption, PartsAssumption DEF Parts
<1>3. \A c, d \in Candidates : OfDocument(c) = OfDocument(d) => c = d
  BY <1>1
<1> QED
  BY <1>1, <1>2, <1>3 DEF Content

LEMMA SmallestPlace ==
  ASSUME NEW S, S \subseteq SQLitePlaces, S # {}
  PROVE  Min(S) \in S
<1>1. S \subseteq Nat
  BY LayoutAssumption DEF SQLitePlaces
<1>2. \E x \in S : \A y \in S : x <= y
  <2>1. PICK x \in S : \A y \in S : <<y, x>> \notin OpToRel(<, Nat)
    BY <1>1, NatLessThanWellFounded, WFMin
  <2>2. \A y \in S : ~(y < x)
    BY <1>1, <2>1 DEF OpToRel
  <2> QED
    BY <1>1, <2>2
<1> QED
  BY <1>2 DEF Min

\* Steps that leave the parts and the documents alone.
LEMMA LookingAround ==
  ASSUME LayoutInv,
         Start \/ BackupSQLite \/ NoSQLite \/ LookForData \/ SkipCandidate
           \/ RefuseCandidate \/ Die
  PROVE  LayoutInv' /\ Stored' = Stored
<1>1. /\ UNCHANGED <<files, old, json, backups, served>>
      /\ sqlite' \subseteq sqlite
  BY DEF Start, BackupSQLite, NoSQLite, LookForData, SkipCandidate, RefuseCandidate, Die
<1>b. bak' \subseteq SQLitePlaces
  <2>1. sqlite # {} => Min(sqlite) \in sqlite
    BY SmallestPlace DEF LayoutInv, LayoutTypeOK
  <2> QED
    BY <2>1 DEF LayoutInv, LayoutTypeOK, Start, BackupSQLite, NoSQLite, LookForData,
       SkipCandidate, RefuseCandidate, Die
<1>2. /\ stage' \in {"down", "sqlite", "files", "import", "defaults", "refused"}
      /\ try' \in 1 .. NCandidates + 1 /\ writing' \in Parts
  <2>1. 1 \in Parts /\ 1 \in 1 .. NCandidates + 1
    BY LayoutAssumption, PartsAssumption DEF Parts
  <2>2. try \in Candidates => try + 1 \in 1 .. NCandidates + 1
    BY LayoutAssumption DEF Candidates
  <2> QED
    BY <2>1, <2>2 DEF LayoutInv, LayoutTypeOK, Start, BackupSQLite, NoSQLite, LookForData,
       SkipCandidate, RefuseCandidate, Die
<1>3. LayoutTypeOK'
  BY <1>1, <1>b, <1>2 DEF LayoutInv, LayoutTypeOK, Content
<1>4. ImportFillsTheVoid'
  BY <1>1, <1>2 DEF LayoutInv, ImportFillsTheVoid, Start, BackupSQLite, NoSQLite,
     LookForData, HasData, SkipCandidate, RefuseCandidate, Die
<1>5. SQLiteGone'
  BY <1>1, <1>2 DEF LayoutInv, SQLiteGone, Start, BackupSQLite, NoSQLite, LookForData,
     SkipCandidate, RefuseCandidate, Die
<1>6. ServedIsComplete'
  <2> SUFFICES ASSUME served PROVE ServedIsComplete'
    BY <1>1 DEF ServedIsComplete
  <2>1. /\ sqlite = {} /\ \A p \in Parts : files[p] # Missing
        /\ stage \notin {"import", "write", "backup", "refused"}
    BY DEF LayoutInv, SQLiteGone, ServedIsComplete
  <2>2. HasData
    BY <2>1, Contents DEF HasData
  <2>3. stage' \notin {"import", "refused"}
    BY <2>1, <2>2 DEF Start, BackupSQLite, NoSQLite, LookForData, SkipCandidate,
       RefuseCandidate, Die
  <2> QED
    BY <1>1, <1>2, <2>1, <2>3 DEF ServedIsComplete
<1>7. OnlyWholeImportsAreBackedUp'
  BY <1>1 DEF LayoutInv, OnlyWholeImportsAreBackedUp
<1>8. Stored' = Stored
  BY <1>1 DEF Stored
<1> QED
  BY <1>3, <1>4, <1>5, <1>6, <1>7, <1>8 DEF LayoutInv

\* Nothing is put aside while a part is missing.
LEMMA NothingPutAsideYet ==
  ASSUME LayoutInv, NEW p \in Parts, files[p] = Missing
  PROVE  backups = {} /\ ~served
BY Contents DEF LayoutInv, LayoutTypeOK, OnlyWholeImportsAreBackedUp, ServedIsComplete

\* A missing part is filled, from an old place or with its default.
LEMMA FillingIn ==
  ASSUME LayoutInv, NEW p \in Parts, NEW v \in Content \ {Missing}, files[p] = Missing,
         files' = [files EXCEPT ![p] = v], stage \in {"files", "defaults"}, old' \subseteq old,
         \A o \in old \ old' : v = OfPlace(o),
         UNCHANGED <<json, backups, sqlite, bak, stage, try, writing, served>>
  PROVE  LayoutInv' /\ Stored \subseteq Stored'
<1>1. /\ backups = {} /\ ~served
      /\ files'[p] = v /\ \A q \in Parts \ {p} : files'[q] = files[q]
  BY NothingPutAsideYet DEF LayoutInv, LayoutTypeOK
<1>2. LayoutTypeOK'
  BY DEF LayoutInv, LayoutTypeOK, Content
<1>3. ImportFillsTheVoid' /\ SQLiteGone' /\ ServedIsComplete' /\ OnlyWholeImportsAreBackedUp'
  BY <1>1 DEF LayoutInv, ImportFillsTheVoid, SQLiteGone, ServedIsComplete,
     OnlyWholeImportsAreBackedUp
<1>4. {files[q] : q \in Parts} \ {Missing, DefaultFile}
        \subseteq {files'[q] : q \in Parts} \ {Missing, DefaultFile}
  BY <1>1
<1>5. {OfPlace(o) : o \in old \ old'} \subseteq {files'[q] : q \in Parts} \ {Missing, DefaultFile}
  BY <1>1, Contents DEF LayoutInv, LayoutTypeOK
<1>6. Stored \subseteq Stored'
  BY <1>4, <1>5 DEF Stored
<1> QED
  BY <1>2, <1>3, <1>6 DEF LayoutInv

LEMMA MoveFillsIn ==
  ASSUME LayoutInv, MoveOldFile
  PROVE  LayoutInv' /\ Stored \subseteq Stored'
<1>1. PICK o \in old : /\ files[o.part] = Missing
                      /\ files' = [files EXCEPT ![o.part] = OfPlace(o)]
                      /\ old' = old \ {o}
  BY DEF MoveOldFile, Movable
<1>2. stage = "files" /\ UNCHANGED <<json, backups, sqlite, bak, stage, try, writing, served>>
  BY DEF MoveOldFile
<1>3. o \in OldPlaces /\ o.part \in Parts /\ OfPlace(o) \in Content \ {Missing}
  BY LayoutAssumption, Contents DEF LayoutInv, LayoutTypeOK
<1> QED
  BY <1>1, <1>2, <1>3, FillingIn

LEMMA DefaultFillsIn ==
  ASSUME LayoutInv, EnsureDefault
  PROVE  LayoutInv' /\ Stored \subseteq Stored'
<1>1. PICK p \in Parts : files[p] = Missing /\ files' = [files EXCEPT ![p] = DefaultFile]
  BY DEF EnsureDefault
<1>2. stage = "defaults" /\ UNCHANGED <<old, json, backups, sqlite, bak, stage, try, writing, served>>
  BY DEF EnsureDefault
<1>3. DefaultFile \in Content \ {Missing}
  BY Contents
<1> QED
  BY <1>1, <1>2, <1>3, FillingIn

LEMMA BeginWritingKeeps ==
  ASSUME LayoutInv, BeginWriting
  PROVE  LayoutInv' /\ Stored' = Stored
<1>1. /\ stage = "import" /\ stage' = "write" /\ writing' = 1
      /\ try \in Candidates => json[try] = "document"
      /\ UNCHANGED <<files, old, json, backups, sqlite, bak, try, served>>
  BY DEF BeginWriting
<1>2. 1 \in Parts /\ \A p \in Parts : ~(p < 1)
  BY LayoutAssumption, PartsAssumption DEF Parts
<1>3. LayoutTypeOK'
  BY <1>1, <1>2 DEF LayoutInv, LayoutTypeOK, Content
<1>4. ImportFillsTheVoid'
  BY <1>1, <1>2 DEF LayoutInv, ImportFillsTheVoid, Source
<1>5. SQLiteGone' /\ ServedIsComplete' /\ OnlyWholeImportsAreBackedUp'
  BY <1>1 DEF LayoutInv, SQLiteGone, ServedIsComplete, OnlyWholeImportsAreBackedUp
<1> QED
  BY <1>1, <1>3, <1>4, <1>5 DEF LayoutInv, Stored

LEMMA WriteFileKeeps ==
  ASSUME LayoutInv, WriteFile
  PROVE  LayoutInv' /\ Stored \subseteq Stored'
<1>1. /\ stage = "write" /\ files' = [files EXCEPT ![writing] = Source]
      /\ IF writing < NFiles THEN writing' = writing + 1 /\ stage' = "write"
                        ELSE writing' = writing /\ stage' = IF try \in Candidates THEN "backup" ELSE "defaults"
      /\ UNCHANGED <<old, json, backups, sqlite, bak, try, served>>
  BY DEF WriteFile, Source
<1>2. /\ writing \in Parts /\ NFiles \in Nat /\ Parts = 1 .. NFiles
      /\ \A p \in Parts : files[p] = IF p < writing THEN Source ELSE Missing
      /\ files \in [Parts -> Content] /\ Source \in Content
  BY <1>1, LayoutAssumption, PartsAssumption, Contents
     DEF LayoutInv, LayoutTypeOK, ImportFillsTheVoid, Source, Parts
<1>3. files[writing] = Missing /\ backups = {} /\ ~served /\ Source # Missing
  BY <1>1, <1>2, NothingPutAsideYet, Contents DEF Source
<1>4. LayoutTypeOK'
  BY <1>1, <1>2 DEF LayoutInv, LayoutTypeOK, Content
<1>5. Source' = Source
  BY <1>1 DEF Source
<1>6. \A p \in Parts : files'[p] = IF p <= writing THEN Source ELSE Missing
  BY <1>1, <1>2
<1>7. ImportFillsTheVoid'
  <2>1. CASE writing < NFiles
    <3>1. writing' = writing + 1 /\ stage' = "write" /\ \A p \in Parts : p < writing + 1 <=> p <= writing
      BY <1>1, <1>2, <2>1
    <3> QED
      BY <1>1, <1>5, <1>6, <3>1 DEF LayoutInv, ImportFillsTheVoid
  <2>2. CASE ~(writing < NFiles)
    <3>1. \A p \in Parts : files'[p] = Source
      BY <1>2, <1>6, <2>2
    <3>2. stage' = IF try \in Candidates THEN "backup" ELSE "defaults"
      BY <1>1, <2>2
    <3> QED
      BY <1>1, <1>5, <3>1, <3>2 DEF LayoutInv, ImportFillsTheVoid
  <2> QED
    BY <2>1, <2>2
<1>8. SQLiteGone' /\ ServedIsComplete' /\ OnlyWholeImportsAreBackedUp'
  BY <1>1, <1>3 DEF LayoutInv, SQLiteGone, ServedIsComplete, OnlyWholeImportsAreBackedUp
<1>9. {files[p] : p \in Parts} \ {Missing, DefaultFile}
        \subseteq {files'[p] : p \in Parts} \ {Missing, DefaultFile}
  BY <1>1, <1>2, <1>3
<1> QED
  BY <1>1, <1>4, <1>7, <1>8, <1>9 DEF LayoutInv, Stored

LEMMA BackupDocumentKeeps ==
  ASSUME LayoutInv, BackupDocument
  PROVE  LayoutInv' /\ Stored \subseteq Stored'
<1>1. /\ stage = "backup" /\ stage' = "defaults"
      /\ json' = [json EXCEPT ![try] = "none"] /\ backups' = backups \cup {try}
      /\ UNCHANGED <<files, old, sqlite, bak, try, writing, served>>
  BY DEF BackupDocument
<1>2. /\ try \in Candidates /\ json[try] = "document" /\ ~served
      /\ \A p \in Parts : files[p] = OfDocument(try)
      /\ json \in [Candidates -> DocumentKinds \cup {"none"}]
  BY <1>1 DEF LayoutInv, LayoutTypeOK, ImportFillsTheVoid, ServedIsComplete, Source
<1>3. LayoutTypeOK'
  BY <1>1, <1>2 DEF LayoutInv, LayoutTypeOK, Content
<1>4. ImportFillsTheVoid' /\ SQLiteGone' /\ ServedIsComplete' /\ OnlyWholeImportsAreBackedUp'
  BY <1>1, <1>2 DEF LayoutInv, ImportFillsTheVoid, SQLiteGone, ServedIsComplete,
     OnlyWholeImportsAreBackedUp
<1>5. backups \cup {d \in Candidates : json[d] = "document"}
        \subseteq backups' \cup {d \in Candidates : json'[d] = "document"}
  BY <1>1, <1>2
<1> QED
  BY <1>1, <1>3, <1>4, <1>5 DEF LayoutInv, Stored

LEMMA ServeKeeps ==
  ASSUME LayoutInv, Serve
  PROVE  LayoutInv' /\ Stored' = Stored
<1>1. /\ stage = "defaults" /\ stage' = "up" /\ served' = TRUE /\ \A p \in Parts : files[p] # Missing
      /\ UNCHANGED <<files, old, json, backups, sqlite, bak, try, writing>>
  BY DEF Serve
<1>2. LayoutTypeOK'
  BY <1>1 DEF LayoutInv, LayoutTypeOK, Content
<1>3. ImportFillsTheVoid' /\ SQLiteGone' /\ ServedIsComplete' /\ OnlyWholeImportsAreBackedUp'
  BY <1>1 DEF LayoutInv, ImportFillsTheVoid, SQLiteGone, ServedIsComplete,
     OnlyWholeImportsAreBackedUp
<1> QED
  BY <1>1, <1>2, <1>3 DEF LayoutInv, Stored

-----------------------------------------------------------------------------
LEMMA LayoutInitially == LayoutInit => LayoutInv
<1> SUFFICES ASSUME LayoutInit PROVE LayoutInv
  OBVIOUS
<1>1. 1 \in Parts /\ 1 \in 1 .. NCandidates + 1
  BY LayoutAssumption, PartsAssumption DEF Parts
<1>2. LayoutTypeOK
  BY <1>1 DEF LayoutInit, LayoutTypeOK, Content
<1>3. ImportFillsTheVoid /\ SQLiteGone /\ ServedIsComplete /\ OnlyWholeImportsAreBackedUp
  BY DEF LayoutInit, ImportFillsTheVoid, SQLiteGone, ServedIsComplete, OnlyWholeImportsAreBackedUp
<1> QED
  BY <1>2, <1>3 DEF LayoutInv

LEMMA LayoutStep ==
  ASSUME LayoutInv, [LayoutNext]_layoutVars
  PROVE  LayoutInv' /\ Stored \subseteq Stored'
<1>1. CASE \/ Start \/ BackupSQLite \/ NoSQLite \/ LookForData \/ SkipCandidate
           \/ RefuseCandidate \/ Die
  BY <1>1, LookingAround
<1>2. CASE MoveOldFile \/ EnsureDefault
  BY <1>2, MoveFillsIn, DefaultFillsIn
<1>3. CASE BeginWriting \/ WriteFile \/ BackupDocument \/ Serve
  BY <1>3, BeginWritingKeeps, WriteFileKeeps, BackupDocumentKeeps, ServeKeeps
<1>4. CASE UNCHANGED layoutVars
  BY <1>4 DEF layoutVars, LayoutInv, LayoutTypeOK, Content, ImportFillsTheVoid, Source,
     SQLiteGone, ServedIsComplete, OnlyWholeImportsAreBackedUp, Stored
<1> QED
  BY <1>1, <1>2, <1>3, <1>4 DEF LayoutNext

LEMMA LayoutKept == LayoutInv /\ [LayoutNext]_layoutVars => LayoutInv'
BY LayoutStep

-----------------------------------------------------------------------------
(* What follows from it.                                                   *)

\* No start destroys data, by a default or by an older copy, wherever it is cut
\* off (db.go: migrateLegacyDataFiles, writeStoreUnlocked, backupMigratedLegacyFile).
THEOREM NoStartLosesData == LayoutSpec => StartsLoseNothing
<1>1. LayoutInv /\ [LayoutNext]_layoutVars => [Stored \subseteq Stored']_layoutVars
  BY LayoutStep
<1> QED
  BY <1>1, LayoutInitially, LayoutKept, PTL DEF LayoutSpec, StartsLoseNothing

\* A document is put aside only when the store holds all of it.
THEOREM ImportsAreWhole == LayoutSpec => []OnlyWholeImportsAreBackedUp
<1>1. LayoutInv => OnlyWholeImportsAreBackedUp
  BY DEF LayoutInv
<1> QED
  BY <1>1, LayoutInitially, LayoutKept, PTL DEF LayoutSpec

\* Once a store has served, no start is refused because of files of former
\* versions.
THEOREM ServedStoresAreAccepted == LayoutSpec => []ServedStoresStart
<1>1. LayoutInv => ServedStoresStart
  BY DEF LayoutInv, ServedIsComplete, ServedStoresStart
<1> QED
  BY <1>1, LayoutInitially, LayoutKept, PTL DEF LayoutSpec
=============================================================================
