SPECIFICATION Spec
CONSTANTS
  Task <- MCTask
  Idle = "idle"
  Priority <- MCPriority
  EventList <- MCEventList
  Applications <- MCApplications
  TickMod = 3
  OverflowMod = 2
  PendedMod = 4
  NoItem = "none"
  MaxPended = 1
  MaxLock = 1
INVARIANTS TypeOK SuspensionExclusive NobodyOversleeps NoLostWakeup NeverTooEarly SwitchPending
PROPERTIES KeepsPromise
