SPECIFICATION Spec
CONSTANTS
  Commands = {"CMD17"}
  SplitErrors = FALSE
  LateBits = {}
  Idmac = TRUE
  MaxPoll = 3
INVARIANT SuccessMeansMoved
CHECK_DEADLOCK FALSE
