\* The STOMP connect handshake alone, over a conforming server's heart-beat
\* values and ones parse_heartbeat rightly rejects, against step 4 of the
\* spec's handshake.
CONSTANT Parts = {"handshake"}
CONSTANT HBValues <- StaleHBValues
SPECIFICATION Spec
INVARIANT HandshakeAsSpecified
CHECK_DEADLOCK FALSE
