SPECIFICATION Spec
CONSTANTS
  Requests = {r1, r2}
  Tokens = {t1, t2}
  NoKey = NoKey
  Quotas <- MCQuotas
  Costs = {2}
  Rpm = 1
  Tpm = 2
  WithRedis = TRUE
  MaxKeys = 2
  MaxAnswers = 3
SYMMETRY MCSymmetry
INVARIANTS TokensAreUnique ChargesReachTheirKey OverrunIsBounded
