SPECIFICATION Spec
CONSTANTS
  SeqSpace = 16
  MaxStream = 5
  MaxHeldSegs = 2
  MaxHeldBytes = 3
  MaxAhead = 5
  OriginWindow = 2
  Segments <- AllSegments
  Reach = 7
  MaxPackets = 4
CONSTRAINT OneKind
INVARIANTS TypeOK PositionsTrue DeliveredInOrder FirstHolderWins NothingVanishes
INVARIANTS HeldExact Provenance
PROPERTY FrontierForward
\* finish consumes the direction: nothing follows it.
CHECK_DEADLOCK FALSE
