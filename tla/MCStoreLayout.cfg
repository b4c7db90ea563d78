SPECIFICATION LayoutSpec
CONSTANTS
  NFiles = 3
  OldPlaces <- MCOldPlaces
  NCandidates = 3
  InStoreDir = {2}
  NSQLite = 1
  DocumentKinds = {"none", "empty", "invalid", "document"}
INVARIANTS OnlyWholeImportsAreBackedUp ServedStoresStart
PROPERTIES StartsLoseNothing
