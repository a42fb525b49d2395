SPECIFICATION FairSpec
CONSTANTS
  N = 3
  MaxOps = 2
  Cases <- OneReturns
INVARIANT TypeOK
INVARIANT ReportsAreRaces
INVARIANT WriteRaceFound
INVARIANT SequentialRaceFound
PROPERTY AllChecked
