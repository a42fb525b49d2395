SPECIFICATION FairSpec
CONSTANTS
  P = 2
  Lists = {l1}
  MaxGap = 1
  HeavyGap = 0
  MaxInserts = 4
  MaxQueries = 1
INVARIANT QueryCorrect
PROPERTIES
  LabelsChangeInBatch
  AllReturn
