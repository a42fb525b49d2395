SPECIFICATION FairSpec
CONSTANTS
  Deques = {d1, d2}
  Futures = {f1, f2}
  Null = Null
  MaxGets = 2
INVARIANTS
  TypeOK
  ReadyUnlessOverwritten
  ResumedOnce
PROPERTIES
  Implements
  Completes
