SPECIFICATION Spec
CONSTANTS
  Width = 2
  Lifetime = 1
  AccMax = 1
  AccCap = 2
  PeriodMin = 1
  PeriodMax = 4
  UpTime = 4
  DownTime = 8
  MaxBoost = 2
  Initials = {2}
  Autotune = TRUE
  MaxLate = 1
INVARIANT TypeOK
INVARIANT FindsOwnTransaction
INVARIANT ListIsBounded
INVARIANT PeriodInBounds
PROPERTY RecoversSpeed
