SPECIFICATION FairSpec
CONSTANTS
  Requests <- AnyTransfer
  NoOfDesc = 2
  Tries = 2
INVARIANTS
  TypeOK
  SuccessMeansTransferred
  CardIsSelected
PROPERTIES
  SlaveCallReturns
CHECK_DEADLOCK FALSE
