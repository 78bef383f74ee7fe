SPECIFICATION RTSpec
CONSTANTS
  k4 = k4
  k6 = k6
  Keys = {k4, k6}
  V6Keys = {k6}
  Frames <- Pieces
  Unit = 2
  MaxOffset = 3
  MaxDatagram = 7
  MaxExt = 2
  MaxInflight = 1
  MaxBuffered = 7
  MaxFrags = 4
  SweepFactor = 4
  MaxInput = 5
  V4Grams <- Grams4
  V6Grams <- Grams6
  Sizes = {1, 2, 4, 7, 9}
INVARIANTS RoundTrips PiecesDescribable
\* finish consumes the reassembler: nothing follows it.
CHECK_DEADLOCK FALSE
