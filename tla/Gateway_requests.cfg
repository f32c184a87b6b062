\* Three concurrent requests of every kind on a shared limiter, with every fault of theirs and one restart.
SPECIFICATION Spec
CONSTANTS
  r1 = r1
  r2 = r2
  r3 = r3
  alice = alice
  nobody = nobody
  summarizer = summarizer
  unknown = unknown
  Requests = {r1, r2, r3}
  Calls <- MixedCalls
  Principals = {alice}
  Nobody = nobody
  Models = {summarizer}
  UnknownModel = unknown
  Grants <- AllGrants
  ReasonRequired = {summarizer}
  RateLimit <- TwoRequests
  TokenLimit <- TwoTokens
  DenialLimit = 1
  Faults = {"limiter", "malformed", "audit", "trace", "crash"}
  SharedLimiter = TRUE
  MaxCrashes = 1
SYMMETRY RequestSymmetry
INVARIANTS AnswersAreAudited LogsAgree GapIsCounted 
PROPERTIES OnlyFloodsAreSuppressed CountedBeforeAudited
CHECK_DEADLOCK FALSE
