CONSTANTS
  None = None
  MaxRefs = 5
  MaxItems = 2
  MaxActive = 3
  Logs <- MCLogs
  PageSize = 3
  Works = {1, 2}
  Requests <- MCRequests
  Corrections <- MCCorrections
  MaxCorrections = 1
  Proposals <- MCProposals
  TimesReadBack = TRUE
  MaxRuns = 1
  MaxHashes = 2
  MaxCandidates = 2
SPECIFICATION Spec
CHECK_DEADLOCK FALSE
INVARIANTS
  ContractsAreTraceable
  StatusFollowsTheResults
  InstructionsAreHuman
  JoinsShareAnArtifact
PROPERTIES
  CompletionIsEarned
  RefinementLosesNothing
