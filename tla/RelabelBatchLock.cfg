SPECIFICATION Spec
CONSTANTS
  P = 2
  Lists = {l1, l2}
  MaxGap = 1
  HeavyGap = 0
  MaxInserts = 4
  MaxQueries = 0
INVARIANT BatchLockIsFree
