SPECIFICATION Spec
CONSTANTS
  Task <- MCTask
  Idle = "idle"
  Priority <- MCPriority
  EventList = {}
  Applications <- HoldsLong
  TickMod = 4
  OverflowMod = 1
  PendedMod = 4
  MaxPended = 4
  MaxNotified = 2
INVARIANTS InTime
