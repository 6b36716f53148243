CONSTANTS
  Controllers = {c1}
  MaxNetworks = 2
  MaxTopology = 0
  MaxFaults = 0
SPECIFICATION Spec
INVARIANTS
  PairedFiles
CHECK_DEADLOCK FALSE
