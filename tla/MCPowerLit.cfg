SPECIFICATION PlanSpec
CONSTANTS
  Delays <- OnlyBlack
  MaxIdle = 1
  MaxOutside = 0
CHECK_DEADLOCK FALSE
INVARIANT LitWhileActive
