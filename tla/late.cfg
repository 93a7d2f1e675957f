SPECIFICATION Spec
CONSTANTS
  Commands = {"CMD17"}
  SplitErrors = FALSE
  LateBits = {"DATA"}
  Idmac = FALSE
  MaxPoll = 3
INVARIANT SuccessMeansMoved
CHECK_DEADLOCK FALSE
