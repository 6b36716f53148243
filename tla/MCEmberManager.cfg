CONSTANTS
  Loops = {l1, l2, l3}
  Orphan = Orphan
  None = None
  MaxFaults = 2
SPECIFICATION Spec
SYMMETRY Symmetry
INVARIANTS
  TypeOK
  OnePort
  OneSupervisor
  ReadyIsServed
  RecoveryEndsPairing
  NobodyGivesUp
  WaitersHaveALoop
PROPERTIES
  ResolvedIsCurrent
CONSTRAINT NobodyWaits
CHECK_DEADLOCK FALSE
