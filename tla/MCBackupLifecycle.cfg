CONSTANTS
  Controllers = {c1, c2, c3}
  MaxNetworks = 3
  MaxTopology = 1
  MaxFaults = 2
SPECIFICATION Spec
SYMMETRY Symmetry
INVARIANTS
  TypeOK
  PairedUnlessOverlap
  RunsStoredNetwork
PROPERTIES
  NetworkOnlyReset
  BackupOnlyImproves
  KeepsOneMoment
CHECK_DEADLOCK FALSE
