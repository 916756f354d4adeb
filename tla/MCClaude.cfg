SPECIFICATION Spec
CONSTANTS
  Tools = {t1, t2}
  Agents = {a1, a2}
  Records = {r1, r2}
  Values = {x}
  MaxQueue = 1
  MaxTools = 2
  MaxBlocks = 2
  MaxEvents = 3
  StateBound = 3
  MaxOutput = 5
  MaxLines = 4
  None = None
SYMMETRY Symmetry
INVARIANTS
  StateAndEventsAreSound
PROPERTIES
  EventsFollowTheirCauses
CHECK_DEADLOCK FALSE
