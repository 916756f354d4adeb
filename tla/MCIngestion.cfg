CONSTANTS
  s1 = s1
  w1 = w1
  w2 = w2
  None = None
  Sources <- MCSources
  Workers <- MCWorkers
  Pages <- MCPages
  MaxRecords = 2
  MaxPages = 2
  Batch = 2
  Retries = 1
  MaxFacts = 2
  MaxDisruptions = 1
SPECIFICATION FairSpec
CHECK_DEADLOCK FALSE
INVARIANTS
  RowsMatchCursor
  AttemptsAreSound
PROPERTIES
  DeliversInOrder
  TargetsAreServed
