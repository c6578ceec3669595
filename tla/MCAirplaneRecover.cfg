SPECIFICATION AirplaneSpec
CONSTANTS
  Device = {1, 2, 3}
  Type <- TwoBt
  MaxChange = 1
  MaxCrash = 1
  MaxFail = 0
CHECK_DEADLOCK FALSE
INVARIANT RecoverKeepsBlock
