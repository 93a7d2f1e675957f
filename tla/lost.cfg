SPECIFICATION FairSpec
CONSTANTS
  Commands = {"CMD24"}
  SplitErrors = FALSE
  LateBits = {"DATA"}
  Idmac = FALSE
  MaxPoll = 3
PROPERTY WaitEnds
CHECK_DEADLOCK FALSE
