SPECIFICATION Spec
CONSTANTS
  Task <- MCTask
  Idle = "idle"
  Priority <- MCPriority
  EventList = {}
  Applications <- MCApplications
  TickMod = 4
  OverflowMod = 1
  PendedMod = 4
  MaxPended = 2
  MaxNotified = 2
INVARIANTS TypeOK InTime NoLostNotification DeadStayDead
