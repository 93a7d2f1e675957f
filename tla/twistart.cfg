SPECIFICATION FairSpec
CONSTANTS
  TWI_BUFFER_LENGTH = 1
  Overtaken = FALSE
PROPERTY RepeatedStart
CHECK_DEADLOCK FALSE
