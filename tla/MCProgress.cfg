SPECIFICATION ProgressSpec
CONSTANTS
  Name = {"a", "b", "c", "e", "x"}
  Module = {"a", "b", "c", "e"}
  Call = {"all", "again", "cycle", "missing", "skipped", "forced"}
  Dep <- MCDep
  Request <- MCRequest
  Disable <- MCDisable
  Flag <- MCFlag
  DebugLog <- MCDebug
  Item = {"abacus", "bank"}
  Targets <- MCTargets
  Key <- MCKey
  MaxSearches = 2
  MaxTask = 4
  Delays <- OnlyBlack
  MaxIdle = 1
  MaxOutside = 2
  Outgoing = {"s1"}
  Incoming = {"r1", "r2"}
  Canceller = {"c1"}
  MaxFile = 1
  MaxObexCalls = 3
  MaxClicks = 1
  Percent = {5, 100}
  Minutes <- MCMinutes
  Configs <- MCConfigs
  DefaultConfig <- MCDefaultConfig
  Ticker = {1, 2}
  MaxPower = 2
  MaxSettings = 1
CHECK_DEADLOCK FALSE
INVARIANTS
  DependenciesStartFirst
  LastDoneIsForKey
  TransportableAgain
  LevelCurrent CountdownFollowsLevel ConfigRepaired
PROPERTIES
  CallReturns ImplementsStartOrder
  SearchAnswered
  HandlersReturn
  PushAnswered
  ActionSuspends
