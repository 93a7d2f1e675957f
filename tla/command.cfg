SPECIFICATION FairSpec
CONSTANTS
  Commands <- AllCommands
  SplitErrors = FALSE
  LateBits = {"CMD"}
  Idmac = FALSE
  MaxPoll = 3
INVARIANTS
  TypeOK
  SuccessMeansAnswered
  SuccessMeansMoved
  NoStaleWakeup
  NoLostWakeup
PROPERTIES
  WakeNeedsAnswer
  ServiceRefined
  CallReturns
