SPECIFICATION ExecSpec
CONSTANTS
  Keys = {k1, k2}
  Models = {}
  NoModel = NoModel
  Callers = {c1, c2}
  NoKey = NoKey
  Limits = {1}
  Durations = {1}
  MaxTime = 2
  Requests = {c1}
  RequestKinds = {"chat", "sse", "compat", "responses", "embeddings", "models"}
  MaxRetries = 1
  ExtraAttempts = 0
  TransportRetries = 1
  SilentFallback = TRUE
INVARIANTS DeliveredIsCharged CancelStopsRequest NoPhantomSlot
PROPERTIES ImplementsContract RequestsEnd
