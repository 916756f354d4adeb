SPECIFICATION Spec
CONSTANTS
  Recorded = {e1}
  Corrections = {c1}
  Window = 1
  MaxAttempts = 2
  MaxFailures = 2
  MaxCrashes = 1
  MaxForgets = 1
INVARIANTS
  StoresAgree
PROPERTIES
  NoBlobIsLeftBehind
  DeletionsSettle
