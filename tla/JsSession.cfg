SPECIFICATION Spec
CONSTANTS
  DefaultTtl = 2
  MaxTtl = 3
  Leeway = 1
  Batches = {b1, b2}
  Flush = flush
  InFlight = 2
  MaxPending = 1
  MinRetry = 1
  MaxRetry = 3
  FetchTime = 1
  SendTime = 1
  SessionRequests <- MCSessionRequests
  SigningKeys <- MCSigningKeys
  MaxNow = 3
INVARIANTS
  NothingVanishes
  NeverLateToken
  NotPresentedAgain
  KeylessOnlyIfLost
PROPERTY ExportsAnswered
CHECK_DEADLOCK FALSE
