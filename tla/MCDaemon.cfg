CONSTANTS
  d1 = d1
  d2 = d2
  h1 = h1
  h2 = h2
  codex = codex
  claude = claude
  Nobody = Nobody
  Stale = Stale
  Daemons <- MCDaemons
  Hooks <- MCHooks
  Sources <- MCSource
  Undated <- MCUndated
  Clock <- MCClock
  MaxSize = 2
  MaxEntries = 2
  MaxStarts = 2
  MaxDeaths = 1
SPECIFICATION FairSpec
CHECK_DEADLOCK FALSE
INVARIANTS
  SharedStateIsSound
PROPERTIES
  NothingIsTakenBack
  SignalsAreTaken
