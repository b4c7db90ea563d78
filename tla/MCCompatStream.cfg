SPECIFICATION Spec
CONSTANTS
  Tools = {0, 1}
  Protocols = {"claude", "gemini", "responses"}
  Chunks <- SomeChunks
  MaxChunks = 2
  MaxAttempts = 2
  KeepAlive = TRUE
  MaxComments = 1
  SilentFallback = TRUE
INVARIANTS AnswerRelayed AnsweredStreamsEnd StoredIsWhatWasShown
PROPERTIES ImplementsClaudeProtocol ImplementsResponsesProtocol RequestReturns
