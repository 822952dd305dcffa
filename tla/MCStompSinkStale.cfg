\* Two events, up to three connections, one dropped connection.
CONSTANTS
  NEvents = 2
  MaxCalls = 5
  MaxConnects = 3
  MaxDrops = 1
  UseSSL = FALSE
SPECIFICATION Spec
PROPERTY TakenReplyIsCurrent
CHECK_DEADLOCK FALSE
