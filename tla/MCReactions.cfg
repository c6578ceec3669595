SPECIFICATION ReactionSpec
CONSTANTS
  Adapter = {"hci0", "hci1"}
  Device = {"mouse", "headset"}
  AdapterOf <- MCAdapterOf
  ByDevice = {"mouse"}
  MaxPerAdapter = 1
  DurationMax = 2
  Slot = {1, 2, 3}
  MaxCalls = 2
  MaxUpsets = 1
  App = {"editor", "game"}
  SubApp = {"game"}
  MaxFiles = 2
  MaxKills = 1
  MaxSaveFails = 1
  Name = {"dock", "screensaver", "power", "unknown"}
  Module = {"dock", "screensaver", "power"}
  Call = {"part1", "part2"}
  Dep <- PowerDep
  Part <- PowerPart
  InitConfig <- AllOn
  Request <- PartEnabled
  Disable <- PartDisabled
  Flag <- NoFlags
  DebugLog <- NoDebug
  MaxChanges = 2
  Client = {"c1", "c2"}
  Talk = {1, 2}
  MaxPrompts = 2
  MaxNoPid = 1
CHECK_DEADLOCK FALSE
INVARIANTS
  AutoConnectInOrder
  MapMatchesFiles RecordsKept
  NoChangeLost
  ChannelsInOrder
PROPERTIES
  NoDeviceForgotten
  StatusReachesFile
  SignalsHandled
  ConversationGoesOn
