SPECIFICATION Spec
CONSTANTS
  Widths = {2, 3, 4, 16}
  MaxLeaves = 11
  MaxSplit = 3
  MaxHeavy = 2
INVARIANT TypeOK
INVARIANT LeavesOrdered
INVARIANT TreeVerified
