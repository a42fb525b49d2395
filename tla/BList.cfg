SPECIFICATION Spec
CONSTANTS
  MaxLabel = 15
  NodeInterval = 5
  SublistSize = 4
  MaxNodes = 7
  Workers = {w1, w2, w3}
  Nobody = Nobody
SYMMETRY Symmetry
INVARIANT TypeOK
INVARIANT PrecedesIsOrder
INVARIANT FailsOnlyWhenFull
INVARIANT ListVerified
CHECK_DEADLOCK FALSE
