CONSTANTS
  w1 = w1
  w2 = w2
  k1 = k1
  k2 = k2
  Feeder = Feeder
  NoKey = NoKey
  Workers <- MCWorkers
  Keys <- MCKeys
  Capacity = 1
  MaxItems = 2
  MaxRequeues = 1
SPECIFICATION FairSpec
INVARIANTS
  WakeUpsAreKept
PROPERTIES
  WorkGoesOn
  RuntimeReturns
