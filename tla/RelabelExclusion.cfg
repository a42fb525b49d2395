SPECIFICATION Spec
CONSTANTS
  P = 3
  Lists = {l1, l2}
  MaxGap = 2
  HeavyGap = 1
  MaxInserts = 5
  MaxQueries = 0
INVARIANTS
  TypeOK
  InsertsExcludeBatch
  UnlockedByHolder
  HeavyQueuedOnce
  SlowPathGetsRoom
SYMMETRY ListSymmetry
