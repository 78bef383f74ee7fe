SPECIFICATION Spec
CONSTANTS
  k1 = k1
  k2 = k2
  k3 = k3
  Keys = {k1, k2, k3}
  V6Keys = {k2, k3}
  Frames <- AllFrames
  MaxDatagram = 6
  MaxInflight = 2
  MaxBuffered = 8
  MaxFrags = 4
  SweepFactor = 1
  MaxInput = 6
CONSTRAINT OneKind
INVARIANTS FirstWriterWins NothingFinishedIsHeld BufferedExact
INVARIANTS EveryFrameAccounted WithinCaps
PROPERTY EvictsOldest
\* finish consumes the reassembler: nothing follows it.
CHECK_DEADLOCK FALSE
