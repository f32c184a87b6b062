\* One token over a clock that is set while it lasts, above a denial budget of one in two ticks.
SPECIFICATION AuthSpec
CONSTANTS
  LimitPerMinute = 1
  WindowSeconds = 2
  MaxClock = 7
  Configurations <- ThreeConfigurations
  ClockSkew = 1
  MaxLifetime = 2
  MaxDrift = 1
  Shapes <- ManyShapes
  Absent = Absent
  MaxTurnedAway = 1
INVARIANTS AnyMinuteBounded AcceptedBriefly FreshTokensWork
PROPERTY ImplementsBudget
CHECK_DEADLOCK FALSE
