SPECIFICATION AudioSpec
CONSTANTS
  Port = {"bt", "jack", "jack2", "usb"}
  PortType <- MCPortType
  OldFiles <- MCOldFiles
  TypeCount = 3
  Bluetooth = 0
  SwitchMax = 1
  MaxRuns = 2
  MaxPortChanges = 2
CHECK_DEADLOCK FALSE
INVARIANT LoadedSorted
