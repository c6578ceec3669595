SPECIFICATION PlanSpec
CONSTANTS
  Delays <- OneKind
  MaxIdle = 2
  MaxOutside = 1
CHECK_DEADLOCK FALSE
INVARIANTS IdleOffRestores NoLostTimer
