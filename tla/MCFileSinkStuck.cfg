\* Same bounds, under the writer's fairness.
CONSTANTS
  NEvents = 3
  LineLen <- MCLineLen
  MaxSize = 80
  MaxTime = 2
  MaxFaults = 2
  MaxStarts = 2
SPECIFICATION FairSpec
PROPERTY EventuallyAllWritten
CHECK_DEADLOCK FALSE
