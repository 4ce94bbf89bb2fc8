SPECIFICATION ReadingSpec
CONSTANTS
  Capacity = 3
  Stream <- FiveFrames
  NonBlocking = TRUE
\* When the MCU has sent everything and the device is gone, nothing is left.
CHECK_DEADLOCK FALSE
INVARIANTS FramesWhole
PROPERTIES Resyncs ReadEnds
