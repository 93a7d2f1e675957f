SPECIFICATION FairSpec
CONSTANTS
  Commands = {"CMD13", "CMD17"}
  SplitErrors = TRUE
  LateBits = {}
  Idmac = FALSE
  MaxPoll = 3
PROPERTY WakeNeedsAnswer
CHECK_DEADLOCK FALSE
