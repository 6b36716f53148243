CONSTANTS
  Controllers = {c1, c2, c3}
  MaxNetworks = 2
  MaxTopology = 2
  MaxFaults = 1
SPECIFICATION FairSpec
PROPERTIES
  BackupCatchesUp
CHECK_DEADLOCK FALSE
