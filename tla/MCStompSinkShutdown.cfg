\* The sink deleted at exit: two events, two connections, no dropped connection.
CONSTANTS
  NEvents = 2
  MaxCalls = 4
  MaxConnects = 2
  MaxDrops = 0
  UseSSL = FALSE
SPECIFICATION Spec
INVARIANT NoThreadOutlivesSink
CHECK_DEADLOCK FALSE
