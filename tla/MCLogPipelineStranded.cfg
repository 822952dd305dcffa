\* The check-then-act race between retry_thread::active() and enqueue:
\* terminate() never returns.
CONSTANTS
  NSinks = 1
  SinkMinLevel <- MCSinkMinLevel
  EventLevels <- MCEventLevels
  MaxEvents = 3
  MaxFails <- MCFailsOnce
  TickSeconds = 1000
  MaxTime = 0
  SpawnMayFail = FALSE
  LogDuringShutdown = FALSE
SPECIFICATION FairSpec
PROPERTY TerminateReturns
CHECK_DEADLOCK FALSE
