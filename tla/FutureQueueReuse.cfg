SPECIFICATION Spec
CONSTANTS
  Deques = {d1, d2}
  Futures = {f1, f2}
  Null = Null
  MaxGets = 2
INVARIANT ReadyAfterGet
SYMMETRY QueueSymmetry
