\* An event logged while the delivery worker finishes its last check.
CONSTANTS
  NSinks = 1
  SinkMinLevel <- MCSinkMinLevel
  EventLevels <- MCEventLevels
  MaxEvents = 2
  MaxFails <- MCNeverFails
  TickSeconds = 1000
  MaxTime = 0
  SpawnMayFail = FALSE
  LogDuringShutdown = TRUE
SPECIFICATION Spec
INVARIANT DrainedAtExit
CHECK_DEADLOCK FALSE
