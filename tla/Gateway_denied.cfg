\* A denied request spends nothing and blocks no other, says the README.
SPECIFICATION Spec
CONSTANTS
  r1 = r1
  r2 = r2
  r3 = r3
  alice = alice
  nobody = nobody
  summarizer = summarizer
  unknown = unknown
  Requests = {r1, r2, r3}
  Calls <- AllowedCalls
  Principals = {alice}
  Nobody = nobody
  Models = {summarizer}
  UnknownModel = unknown
  Grants <- AllGrants
  ReasonRequired = {summarizer}
  RateLimit <- TwoRequests
  TokenLimit <- TwoTokens
  DenialLimit = 1
  Faults = {}
  SharedLimiter = TRUE
  MaxCrashes = 0
SYMMETRY RequestSymmetry
PROPERTIES DenialsBlockNobody
CHECK_DEADLOCK FALSE
