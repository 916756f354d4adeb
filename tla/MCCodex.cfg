SPECIFICATION Spec
CONSTANTS
  Calls = {c1, c2}
  Agents = {a1, a2}
  MaxCalls = 2
  MaxCompleted = 1
  MaxLifecycles = 1
  MaxEvents = 2
  StateBound = 3
  MaxFiles = 3
  MaxLines = 4
  None = None
SYMMETRY Symmetry
INVARIANTS
  StateAndAnswersAreSound
PROPERTIES
  FinishesWhatIsOpen
  OrdinalsAreFresh
  AnswersAreNotHeldUp
CHECK_DEADLOCK FALSE
