SPECIFICATION FairSpec
CONSTANTS
  Task <- MCTask
  Idle = "idle"
  Priority <- Equals
  EventList = {}
  Applications <- Sharing
  TickMod = 3
  OverflowMod = 1
  PendedMod = 4
  MaxPended = 1
  MaxNotified = 2
PROPERTIES SleeperRunsAgain
