SPECIFICATION Spec
CONSTANTS
  Names <- TheNames
  Path <- ThePath
  Strings <- TheStrings
  Numbers <- TheNumbers
  Literals <- TheLiterals
  Chosen <- TheChosen
  Limit = 2
  MaxRetained = 3
  MaxMatches = 2
  MaxDepth = 4
  MaxTokens = 12
  None = None
INVARIANTS
  SelectsExactlyThePath
  KeepsHonestPrefixes
CHECK_DEADLOCK FALSE
