SPECIFICATION Spec
CONSTANTS
  Others <- MCOthers
  MaxRuns = 1
  MaxContainers = 1
  Amounts <- MCAmounts
  NoLimit = 3
INVARIANT SwapIsClamped
CHECK_DEADLOCK FALSE
