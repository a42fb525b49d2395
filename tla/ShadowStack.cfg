SPECIFICATION Spec
CONSTANTS
  Workers = {w1, w2, w3}
  Budgets <- MCBudgets
SYMMETRY Symmetry
INVARIANTS
  TypeOK
  ShadowMatches
  FramesReady
  PrecedesSound
  SameFutureOrdered
  GetOrdered
  SearchExact
PROPERTY
  ListsFrozen
CHECK_DEADLOCK FALSE
