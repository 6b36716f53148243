SPECIFICATION Spec
CONSTANTS
  Others <- MCOthers
  MaxRuns = 3
  MaxContainers = 3
  Amounts <- MCAmounts
  NoLimit = 3
INVARIANTS TypeOK OnlyPinnedIsChanged ImageIsWhole NoStateIsLost GuardIsNotMisled
CHECK_DEADLOCK FALSE
