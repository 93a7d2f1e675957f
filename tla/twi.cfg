SPECIFICATION FairSpec
CONSTANTS
  TWI_BUFFER_LENGTH = 2
  Overtaken = FALSE
INVARIANTS
  TypeOK
  WriteHonest
  ReadHonest
  BusGivenBack
PROPERTY CallReturns
CHECK_DEADLOCK FALSE
