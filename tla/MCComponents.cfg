\* Every component, one per behaviour, with the bounds given in MCComponents.
CONSTANT Parts = {"file", "lines", "url", "stdout", "logger", "pipeline", "frames", "handshake", "qloglist", "format", "stomp"}
SPECIFICATION Spec
INVARIANT TypeOK
INVARIANT FifoPerSink
INVARIANT SinkWrittenByOneThread
INVARIANT NoSilentLoss
 
INVARIANT SplitterForwardsLines
INVARIANT FramesParsedAsSpecified
INVARIANT KeepsVisibleEntries
INVARIANT StringFormatReturnsText
INVARIANT URLParsedAsSpecified
INVARIANT PaletteAsSpecified
INVARIANT OneLogger
INVARIANT SuccessMeansPublished
CHECK_DEADLOCK FALSE
