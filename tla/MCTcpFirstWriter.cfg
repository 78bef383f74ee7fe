SPECIFICATION Spec
CONSTANTS
  SeqSpace = 16
  MaxStream = 8
  MaxHeldSegs = 3
  MaxHeldBytes = 5
  MaxAhead = 5
  OriginWindow = 2
  Segments <- MidStream
  Reach = 7
  MaxPackets = 4
INVARIANT FirstWriterWins
\* finish consumes the direction: nothing follows it.
CHECK_DEADLOCK FALSE
