SPECIFICATION FairCallSpec
CONSTANTS
  Streams = {"stdout", "stderr"}
  PipeSize = 2
  MaxShown = 2
  MaxChunks = 4
INVARIANT OutputIsWhole
PROPERTIES PipesDrain ReturnsWhenClosed
CHECK_DEADLOCK FALSE
