\* Two replicas, one clock ahead; scripts are delayed, replies lost, scripts resent.
SPECIFICATION Spec
CONSTANTS
  c1 = c1
  c2 = c2
  alice = alice
  Callers = {c1, c2}
  Keys = {alice}
  Costs = {1, 2}
  Limit <- OneLimit
  WindowSeconds = 3
  Skew <- AheadByOne
  MaxDelay = 1
  Resends = 1
  MaxClock = 5
  MaxCalls = 3
INVARIANTS WindowLimit CountersExpire GrantsArePaid
PROPERTY RefusalSpendsNothing
CHECK_DEADLOCK FALSE
