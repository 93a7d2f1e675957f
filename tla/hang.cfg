SPECIFICATION FairSpec
CONSTANTS
  Requests <- OneBlock
  NoOfDesc = 1
  Tries = 2
PROPERTIES
  CallReturns
CHECK_DEADLOCK FALSE
