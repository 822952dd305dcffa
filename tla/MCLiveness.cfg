\* Progress and refinement under the fairness of the library's threads: the delivery pipeline and the STOMP sink.
CONSTANT Parts = {"stomp", "pipeline"}
SPECIFICATION Spec
PROPERTY ConnectThreadEnds
PROPERTY EveryEventTaken
PROPERTY ImplementsStreamChannels
CHECK_DEADLOCK FALSE
