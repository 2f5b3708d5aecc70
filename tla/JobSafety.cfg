SPECIFICATION Spec
CONSTANTS
  Streams = {TRUE, FALSE}
  Stubborn = {"leader"}
  Faults = {"stream", "shutdown", "cancel"}
  Timed = TRUE
  MaxChunks <- OneChunk
  PipeCap = 1
  ChanCap = 1
INVARIANT TypeOK
INVARIANT FinishedIsLast
INVARIANT SuccessIsComplete
INVARIANT StoppedIsGone
CHECK_DEADLOCK FALSE
