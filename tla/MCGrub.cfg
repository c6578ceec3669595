SPECIFICATION GrubSpec
CONSTANTS
  c1 = c1  c2 = c2  c3 = c3  c4 = c4  c5 = c5
  Call = {c1, c2, c3, c4, c5}
  Op <- Mixed
  MaxCrash = 2
  MaxWriteFail = 1
CHECK_DEADLOCK FALSE
INVARIANTS GrubCfgCurrent PropsMatchParams InhibitorGivenBack
PROPERTIES NoWriteDuringUpdate
