SPECIFICATION FairSpec
CONSTANTS
  Workers = {w1, w2, w3}
  Deques = {d1, d2, d3, d4, d5}
  NULL = NULL
  MaxFrames = 2
  Pushes = 2
  Suspends = 2
INVARIANTS
  TypeOK
  OnePlace
  PlacesKnown
  AssertionsHold
  WorkKept
PROPERTY
  Implements
  Resumes
CHECK_DEADLOCK FALSE
