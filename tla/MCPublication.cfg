\* Two callers, a human correction and ingestion over one store.
CONSTANTS
  u1 = u1
  u2 = u2
  Projects <- MCProjects
  Publishers <- MCPublishers
  MaxEvents = 3
  PageSize = 2
  Tries = 2
  MaxCorrections = 1
  MaxForgets = 1
SPECIFICATION Spec
SYMMETRY MCSymmetry
INVARIANTS
  EveryEventIsReducedOnce
  ReadersSeeOneStory
  NoRevisionLosesMaterial
  ForgottenStaysForgotten
CHECK_DEADLOCK FALSE
