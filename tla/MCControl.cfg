SPECIFICATION Spec
CONSTANTS
  MaxItems = 6
  MaxNest = 2
  Values = {1, 2}
CONSTRAINT Valid
INVARIANTS
  BreakLeavesInnermost
  ContinueStaysInLoop
  ValidAccepted
  FollowsC
CHECK_DEADLOCK FALSE
