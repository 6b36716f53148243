CONSTANTS
  Loops = {l1, l2}
  Orphan = Orphan
  None = None
  MaxFaults = 1
SPECIFICATION FairSpec
PROPERTIES
  LossNoticed
CHECK_DEADLOCK FALSE
