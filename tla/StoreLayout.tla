----------------------------- MODULE StoreLayout -----------------------------
(***************************************************************************)
(* How the document store is found or made when the gateway starts (db.go, *)
(* InitDB and ensureStoreLayout): an old SQLite file is put aside, files   *)
(* of former layouts are moved to their place, a single-document           *)
(* gateway.json is imported when there is no data yet, and what is missing *)
(* gets its default.  A start may be cut off after any file operation, and *)
(* the next one begins with what it finds.                                 *)
(*                                                                         *)
(* One file is written in one step here (StoreFiles takes it apart).  What *)
(* a file holds is named by where it came from: an old place, a document,  *)
(* or the default.                                                         *)
(***************************************************************************)
EXTENDS StoreParts, FiniteSetsExt

CONSTANTS
  OldPlaces,     \* [root, name, part]: where former layouts kept the parts
  NCandidates,   \* places of a gateway.json, in the order they are tried
  InStoreDir,    \* those of them that lie in the store's directory
  NSQLite,       \* how many places of a gateway.db there are
  DocumentKinds  \* what a gateway.json may be

Candidates == 1 .. NCandidates
SQLitePlaces == 1 .. NSQLite

ASSUME LayoutAssumption ==
  /\ NCandidates \in Nat /\ NSQLite \in Nat
  /\ OldPlaces \subseteq [root : {"store", "data"}, name : STRING, part : Parts]
  /\ InStoreDir \subseteq Candidates
  /\ DocumentKinds \subseteq {"none", "empty", "invalid", "document"}

Missing == [from |-> "nowhere"]
DefaultFile == [from |-> "default"]
OfDocument(c) == [from |-> "document", candidate |-> c]
OfPlace(o) == [from |-> "place", place |-> o]

VARIABLES
  files,     \* part -> what its file holds, or Missing
  old,      \* old places that still have a file
  json,     \* candidate -> what is there, "none" included
  backups,  \* candidates renamed to .migrated.bak
  sqlite,   \* places with a gateway.db
  bak,      \* places with a gateway.db.bak
  stage,    \* the step of the start
  try,      \* the candidate being looked at, NCandidates + 1 for the default document
  writing,  \* the file being written
  served    \* not in the code: this store has been in use

layoutVars == <<files, old, json, backups, sqlite, bak, stage, try, writing, served>>

LayoutInit ==
  /\ \E present \in SUBSET Parts :
       files = [p \in Parts |-> IF p \in present THEN [from |-> "store"] ELSE Missing]
  /\ old \in SUBSET OldPlaces
  /\ json \in [Candidates -> DocumentKinds]
  /\ backups = {}
  /\ sqlite \in SUBSET SQLitePlaces /\ bak \in SUBSET SQLitePlaces
  /\ stage = "down" /\ try = 1 /\ writing = 1
  /\ served = FALSE

Start ==
  /\ stage = "down"
  /\ stage' = "sqlite" /\ try' = 1 /\ writing' = 1
  /\ UNCHANGED <<files, old, json, backups, sqlite, bak, served>>

-----------------------------------------------------------------------------
(* handleLegacySQLiteBackup.                                               *)

\* The first that is found is renamed, unless an earlier start did so too.
BackupSQLite ==
  /\ stage = "sqlite" /\ sqlite # {}
  /\ LET s == Min(sqlite) IN
       IF s \in bak
       THEN stage' = "refused" /\ UNCHANGED <<sqlite, bak>>
       ELSE sqlite' = sqlite \ {s} /\ bak' = bak \cup {s} /\ UNCHANGED stage
  /\ UNCHANGED <<files, old, json, backups, try, writing, served>>

NoSQLite ==
  /\ stage = "sqlite" /\ sqlite = {}
  /\ stage' = "files"
  /\ UNCHANGED <<files, old, json, backups, sqlite, bak, try, writing, served>>

-----------------------------------------------------------------------------
(* migrateLegacyDataFiles: the roots in order, the names in the random     *)
(* order of a Go map; a file moves only to a place that is free.           *)

MovableOver(root) == {o \in old : o.root = root}
Movable(root) == {o \in old : o.root = root /\ files[o.part] = Missing}

MoveOldFile ==
  /\ stage = "files"
  /\ \E o \in IF Movable("store") # {} THEN Movable("store") ELSE Movable("data") :
       /\ files' = [files EXCEPT ![o.part] = OfPlace(o)]
       /\ old' = old \ {o}
  /\ UNCHANGED <<json, backups, sqlite, bak, stage, try, writing, served>>

HasDataOnTop ==
  \/ \E o \in old : o.root = "store"
  \/ \E c \in InStoreDir : json[c] # "none"

\* Nothing to move is left: hasExistingDataFiles finds any .json file below
\* the store's directory, a gateway.json or a file not moved included.
HasData ==
  \/ \E p \in Parts : files[p] # Missing
  \/ \E o \in old : o.root = "store"
  \/ \E c \in InStoreDir : json[c] # "none"

LookForData ==
  /\ stage = "files"
  /\ Movable("store") = {} /\ Movable("data") = {}
  /\ stage' = IF HasData THEN "defaults" ELSE "import"
  /\ UNCHANGED <<files, old, json, backups, sqlite, bak, try, writing, served>>

-----------------------------------------------------------------------------
(* migrateLegacyJSONStore, candidate by candidate.                         *)

SkipCandidate ==
  /\ stage = "import" /\ try \in Candidates
  /\ json[try] \in {"none", "empty"}
  /\ try' = try + 1
  /\ UNCHANGED <<files, old, json, backups, sqlite, bak, stage, writing, served>>

RefuseCandidate ==
  /\ stage = "import" /\ try \in Candidates
  /\ json[try] = "invalid"
  /\ stage' = "refused"
  /\ UNCHANGED <<files, old, json, backups, sqlite, bak, try, writing, served>>

BeginWritingRenamed ==
  /\ stage = "import"
  /\ try \in Candidates => json[try] = "document"
  /\ json' = [c \in Candidates |-> IF c = try THEN "none" ELSE json[c]]
  /\ backups' = backups \cup (Candidates \cap {try})
  /\ stage' = "write" /\ writing' = 1
  /\ UNCHANGED <<files, old, sqlite, bak, try, served>>

\* A document is read, or all candidates are through: writeStoreUnlocked.
BeginWriting ==
  /\ stage = "import"
  /\ try \in Candidates => json[try] = "document"
  /\ stage' = "write" /\ writing' = 1
  /\ UNCHANGED <<files, old, json, backups, sqlite, bak, try, served>>

WriteFile ==
  /\ stage = "write"
  /\ files' = [files EXCEPT ![writing] =
                IF try \in Candidates THEN OfDocument(try) ELSE DefaultFile]
  /\ IF writing < NFiles
     THEN writing' = writing + 1 /\ stage' = stage
     ELSE writing' = writing /\ stage' = IF try \in Candidates THEN "backup" ELSE "defaults"
  /\ UNCHANGED <<old, json, backups, sqlite, bak, try, served>>

BackupDocument ==
  /\ stage = "backup"
  /\ json' = [json EXCEPT ![try] = "none"]
  /\ backups' = backups \cup {try}
  /\ stage' = "defaults"
  /\ UNCHANGED <<files, old, sqlite, bak, try, writing, served>>

-----------------------------------------------------------------------------
\* ensureDefaultFiles writes what is missing, one file at a time.
EnsureDefault ==
  /\ stage = "defaults"
  /\ \E p \in Parts :
       /\ files[p] = Missing /\ \A q \in 1 .. p - 1 : files[q] # Missing
       /\ files' = [files EXCEPT ![p] = DefaultFile]
  /\ UNCHANGED <<old, json, backups, sqlite, bak, stage, try, writing, served>>

\* Everything is there: ReadStore fills the cache, the gateway serves.
Serve ==
  /\ stage = "defaults" /\ \A p \in Parts : files[p] # Missing
  /\ stage' = "up" /\ served' = TRUE
  /\ UNCHANGED <<files, old, json, backups, sqlite, bak, try, writing>>

\* The process ends: at a file operation that fails, by log.Fatal, by a
\* crash, or stopped after it has served.
Die ==
  /\ stage # "down"
  /\ stage' = "down"
  /\ UNCHANGED <<files, old, json, backups, sqlite, bak, try, writing, served>>

LayoutNext ==
  \/ Start \/ BackupSQLite \/ NoSQLite \/ MoveOldFile \/ LookForData
  \/ SkipCandidate \/ RefuseCandidate \/ BeginWriting \/ WriteFile \/ BackupDocument
  \/ EnsureDefault \/ Serve \/ Die

LayoutSpec == LayoutInit /\ [][LayoutNext]_layoutVars

-----------------------------------------------------------------------------
(* Properties.                                                             *)

Content ==
  {[from |-> "store"], Missing, DefaultFile}
    \cup {OfDocument(c) : c \in Candidates} \cup {OfPlace(o) : o \in OldPlaces}

\* Type invariant of the data directory and of the start.
LayoutTypeOK ==
  /\ files \in [Parts -> Content]
  /\ old \subseteq OldPlaces
  /\ json \in [Candidates -> DocumentKinds \cup {"none"}]
  /\ backups \subseteq Candidates
  /\ sqlite \subseteq SQLitePlaces /\ bak \subseteq SQLitePlaces
  /\ stage \in {"down", "sqlite", "files", "import", "write", "backup", "defaults",
                "up", "refused"}
  /\ try \in 1 .. NCandidates + 1 /\ writing \in Parts
  /\ served \in BOOLEAN

\* What the files of this store, the old places and the documents hold.
Stored ==
  ({files[p] : p \in Parts} \ {Missing, DefaultFile})
    \cup {OfPlace(o) : o \in old}
    \cup {OfDocument(c) : c \in backups \cup {d \in Candidates : json[d] = "document"}}

\* However often and wherever starts are cut off, none of them destroys
\* data: neither by a default nor by an older copy (migrateLegacyDataFiles,
\* writeStoreUnlocked, backupMigratedLegacyFile).
StartsLoseNothing == [][Stored \subseteq Stored']_layoutVars

\* A document is renamed only when the store holds all of it, so that the
\* rest of an import that was cut off can still be found.
OnlyWholeImportsAreBackedUp ==
  \A c \in backups : \A p \in Parts : files[p] = OfDocument(c)

\* Once a store has served, no start of the gateway is refused because of
\* files of former versions.
ServedStoresStart == served => stage # "refused"
=============================================================================
