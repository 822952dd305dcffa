\* stomp+ssl: a handshake may fail after the TCP connection is made.  Two events, three connections, one dropped connection.
CONSTANTS
  NEvents = 2
  MaxCalls = 5
  MaxConnects = 3
  MaxDrops = 1
  UseSSL = TRUE
SPECIFICATION Spec
INVARIANT NoLeakedDescriptor
CHECK_DEADLOCK FALSE
