CONSTANTS
  Loops = {l1, l2, l3}
  Orphan = Orphan
  None = None
  MaxFaults = 1
SPECIFICATION LiveSpec
PROPERTIES
  EventuallyServed
  UninitEnds
  CurrentWaiterServed
CHECK_DEADLOCK FALSE
