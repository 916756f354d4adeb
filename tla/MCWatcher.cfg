SPECIFICATION Spec
CONSTANTS
  s1 = s1
  s2 = s2
  Catalog <- TwoSources
  Callbacks = {c1}
  Elsewhere = elsewhere
  SignalCapacity = 1
  OutputCapacity = 1
  MaxPaths = 2
  StoresAreOrdered = FALSE
  MaxSize = 2
CHECK_DEADLOCK FALSE
INVARIANTS
  ChangesAreKnown
  AwaitedIsReconciled
PROPERTIES
  StartupMissesNothing
  GrowthBecomesLiveWork
  StopsWhenAsked
