\* Three events, three milliseconds, two faults, a restart.
CONSTANTS
  NEvents = 3
  LineLen <- MCLineLen
  MaxSize = 80
  MaxTime = 2
  MaxFaults = 2
  MaxStarts = 2
SPECIFICATION Spec
INVARIANT AckedLineStored
CHECK_DEADLOCK FALSE
