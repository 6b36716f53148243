CONSTANTS
  Loops = {l1, l2}
  Orphan = Orphan
  None = None
  MaxFaults = 2
SPECIFICATION FairSpec
PROPERTIES
  RetriesForever
CHECK_DEADLOCK FALSE
