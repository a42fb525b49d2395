SPECIFICATION Spec
CONSTANTS
  N = 4
  MaxOps = 1
  Cases <- ReadersThenWriter
INVARIANT SeparateRaceFound
