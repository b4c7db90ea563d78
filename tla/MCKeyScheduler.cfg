SPECIFICATION FairSpec
CONSTANTS
  Keys = {k1, k2}
  Models = {m1}
  NoModel = NoModel
  Callers = {c1, c2}
  NoKey = NoKey
  Limits = {1}
  Durations = {1}
  MaxTime = 3
  BaseWeights = {1}
  Multipliers = {5}
SYMMETRY Symmetry
INVARIANTS TypeOK WeightsConsistent NoStarvation
PROPERTIES CoolingOutlivesReset ImplementsPool GrantsWhatWasAsked
