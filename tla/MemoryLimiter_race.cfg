\* Two threads race on one key; slow threads may hold a stale clock and window.
SPECIFICATION HistorySpec
CONSTANTS
  t1 = t1
  t2 = t2
  alice = alice
  Threads = {t1, t2}
  Keys = {alice}
  Costs = {1, 2, 3}
  Limit <- OneLimit
  WindowSeconds = 2
  Drifts <- EitherWay
  MaxClock = 2
  MaxCalls = 3
SYMMETRY ThreadSymmetry
INVARIANTS NoWindowOverfilled EveryAdmissionCounted OvershootBounded
PROPERTY ImplementsBudget
CHECK_DEADLOCK FALSE
