\* Two threads and two connections, and clients that leave at any moment.
SPECIFICATION Spec
CONSTANTS
  s1 = s1
  s2 = s2
  b1 = b1
  Requests = {s1, s2, b1}
  Streams = {s1, s2}
  Threads = 2
  MaxConnections = 2
  MaxChunks = 2
  EarlyLeavers = {s1, s2, b1}
INVARIANTS OwnerCloses
CHECK_DEADLOCK FALSE
