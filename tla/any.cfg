SPECIFICATION Spec
CONSTANTS
  Commands = {"CMD0", "CMD17", "CMD24"}
  SplitErrors = TRUE
  LateBits = {"CMD", "DATA"}
  Idmac = TRUE
  MaxPoll = 1
INVARIANTS
  NoLostWakeup
CHECK_DEADLOCK FALSE
