\* The documented limit, with two threads opening one window.
SPECIFICATION HistorySpec
CONSTANTS
  t1 = t1
  t2 = t2
  alice = alice
  Threads = {t1, t2}
  Keys = {alice}
  Costs = {1, 2}
  Limit <- OneLimit
  WindowSeconds = 2
  Drifts <- EitherWay
  MaxClock = 3
  MaxCalls = 2
SYMMETRY ThreadSymmetry
INVARIANTS LimitedByKey
CHECK_DEADLOCK FALSE
