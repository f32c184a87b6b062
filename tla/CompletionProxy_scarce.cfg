\* Two threads and one connection for two streams and a plain completion.
SPECIFICATION FairSpec
CONSTANTS
  s1 = s1
  s2 = s2
  b1 = b1
  Requests = {s1, s2, b1}
  Streams = {s1, s2}
  Threads = 2
  MaxConnections = 1
  MaxChunks = 2
  EarlyLeavers = {s1, s2, b1}
INVARIANTS HeldWhileOpen RecordedOnceReleased BackendNeverOvercommitted
PROPERTY EveryCompletionEnds
CHECK_DEADLOCK FALSE
