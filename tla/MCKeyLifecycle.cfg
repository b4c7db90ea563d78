SPECIFICATION FairSpec
CONSTANTS
  Keys = {k1}
  Models = {}
  NoModel = NoModel
  Callers = {c1}
  NoKey = NoKey
  Limits = {1}
  Durations = {1}
  MaxTime = 3
  Background = {"prober", "refresher"}
  Admins = {a1}
  MaxAttempts = 2
  MaxOps = 1
  InitialStores <- MCStores
INVARIANTS CapacityRestored
PROPERTIES StaleKeysGoAway ServableKeysReturn RequestsFinish
