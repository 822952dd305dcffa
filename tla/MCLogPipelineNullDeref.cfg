\* Two streams in retry mode when terminate() runs.
CONSTANTS
  NSinks = 2
  SinkMinLevel <- MCSinkMinLevel
  EventLevels <- MCEventLevels
  MaxEvents = 1
  MaxFails <- MCFailsOnce
  TickSeconds = 1000
  MaxTime = 0
  SpawnMayFail = FALSE
  LogDuringShutdown = FALSE
SPECIFICATION Spec
INVARIANT NoNullRetryDeref
CHECK_DEADLOCK FALSE
