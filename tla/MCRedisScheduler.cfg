SPECIFICATION RedisSpec
CONSTANTS
  Keys = {k1}
  Models = {m1}
  NoModel = NoModel
  Callers = {c1, c2}
  NoSlot = NoSlot
  Limit = 2
  LockTtl = 2
  Bases = {w1}
  Gone = Gone
  MaxOps = 1
  MaxFaults = 1
PROPERTIES LeakedSlotsComeBack StaleScoresGoAway
