--------------------------- MODULE MCLogPipeline ---------------------------
(* Instantiation of LogPipeline for TLC: two streams, one of which filters *)
(* below info, events of the two extreme expiry classes, a clock that      *)
(* moves once past the 900 s ceiling of a finest event.                    *)
EXTENDS LogPipeline

MCSinkMinLevel == [s \in Sinks |-> IF s = 1 THEN Finest ELSE Info]
MCEventLevels == {Finest, Severe}

(* Failure budgets: stream 1 can fail again inside its retry thread and    *)
(* re-enter retry mode; the others fail at most once.                      *)
MCFailsTwiceThenOnce == [s \in Sinks |-> IF s = 1 THEN 2 ELSE 1]
MCFailsTwice == [s \in Sinks |-> 2]
MCFailsOnce == [s \in Sinks |-> 1]
MCNeverFails == [s \in Sinks |-> 0]
=============================================================================
