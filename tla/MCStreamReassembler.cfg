SPECIFICATION Spec
CONSTANTS
  k1 = k1
  k2 = k2
  k3 = k3
  Keys = {k1, k2, k3}
  Frames <- AllFrames
  MaxStreams = 2
  MaxHeldTotal = 2
  SweepFactor = 1
  OriginWindow = 1
  MaxInput = 5
CONSTRAINT OneKind
INVARIANTS HeldExact EveryPacketInOneStream WithinBounds
PROPERTY EvictsLeastRecent
\* finish consumes the table: nothing follows it.
CHECK_DEADLOCK FALSE
