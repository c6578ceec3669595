SPECIFICATION GrubSpec
CONSTANTS
  c1 = c1  c2 = c2  c3 = c3  c4 = c4  c5 = c5
  Call = {c1, c2}
  Op <- TwoSets
  MaxCrash = 0
  MaxWriteFail = 0
CHECK_DEADLOCK FALSE
PROPERTY ShutdownLater
