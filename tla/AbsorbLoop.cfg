SPECIFICATION Spec
CONSTANTS
  MaxDatagram = 5
  MaxClaims = 4
INVARIANT RangesMerged
PROPERTY ImplementsClaims
\* MaxClaims bounds the claims: a run ends with the last one.
CHECK_DEADLOCK FALSE
