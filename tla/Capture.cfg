\* Three concurrent calls of a server with the Python or the JavaScript SDK.
SPECIFICATION MCSpec
CONSTANTS
  c1 = c1
  c2 = c2
  c3 = c3
  Parents = {c1, c2, c3}
  Events = {"e1", "e2"}
  MaxProgress = 1
  MaxTracked = 1
  MaxReports = 5
  Contexts <- MCContexts
  Outcomes <- MCOutcomes
  Transports = {"stdio", "streamable-http", "bogus"}
  CustomKeys = {"mcpobs.failure.kind"}
  Options <- MCOptions
SYMMETRY Symmetric
INVARIANTS
  FailuresAreTrue
  SamplesAreWholeCalls
  OnlyGuessesAreWrong
  StreamsAreTrue
CHECK_DEADLOCK FALSE
