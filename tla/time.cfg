SPECIFICATION Spec
CONSTANTS
  Compare = 5
  CycleMod = 20
  PerMicro = 1
  PerMilli = 6
  FractUnit = 2
  FractMod = 8
  Waits <- MCWaits
  MaxNow = 32
INVARIANTS DelayInTime MillisHonest
CHECK_DEADLOCK FALSE
