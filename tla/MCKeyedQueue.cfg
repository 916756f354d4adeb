CONSTANTS
  k1 = k1
  k2 = k2
  k3 = k3
  k4 = k4
  None = None
  Capacity = 3
  Keys <- MCKeys
  Offsets <- MCOffsets
SPECIFICATION FairSpec
INVARIANTS
  QueueIsSound
PROPERTIES
  WorkNeverShrinks
  ServesOneStableLine
  LiveWorkIsTaken
