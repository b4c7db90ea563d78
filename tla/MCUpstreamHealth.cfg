SPECIFICATION Spec
CONSTANTS
  Keys = {k1}
  Models = {m1}
  Callers = {c1}
  NoKey = NoKey
  IllOutcomes = {"ok", "limited", "broken", "timeout", "rejected"}
  Threshold = 2
  BreakerWindow = 1
  BreakerCooldown = 2
  SampleWindow = 2
  MinSamples = 2
  LowBase = 2
  LowMax = 3
  Step5xx = 1
  Max5xx = 2
  RateCooling = 2
  ModelRateCooling = 3
  SameKeyRetries = 1
INVARIANTS LowKeysAreOut
PROPERTIES OutageEnds
