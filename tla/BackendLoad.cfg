\* Three concurrent requests of one caller, on a limiter that may fail, with windows that end apart
\* and one restart.
SPECIFICATION LoadSpec
CONSTANTS
  r1 = r1
  r2 = r2
  r3 = r3
  alice = alice
  nobody = nobody
  summarizer = summarizer
  unknown = unknown
  Requests = {r1, r2, r3}
  Calls <- PaidCalls
  Principals = {alice}
  Nobody = nobody
  Models = {summarizer}
  UnknownModel = unknown
  Grants <- AllGrants
  ReasonRequired = {summarizer}
  RateLimit <- TwoRequests
  TokenLimit <- TwoTokens
  DenialLimit = 1
  Faults = {"limiter", "malformed", "crash"}
  SharedLimiter = TRUE
  MaxCrashes = 1
SYMMETRY RequestSymmetry
INVARIANTS BackendWithinBudgets
CHECK_DEADLOCK FALSE
