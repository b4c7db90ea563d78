SPECIFICATION Spec
CONSTANTS
  NFiles = 5
  Writers = {w1, w2}
  NoOne = NoOne
  Changes <- MCChanges
  Gone = Gone
  Blank = Blank
  NoDocument = NoDocument
  RenameMayFail = TRUE
  MaxUpdates = 3
  MaxCrashes = 2
INVARIANTS CacheIsOnDisk
PROPERTIES ImplementsContract
