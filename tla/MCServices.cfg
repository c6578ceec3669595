SPECIFICATION ServicesSpec
CONSTANTS
  a = a  b = b  c = c  d = d
  MaxEdges = 4
  Node = {a, b, c, d}
  Edge <- SmallGraphs
  Sender = {s1, s2}
  Seconds = {300, 600, 40000, 65535, 66000}
  Intervals = {10, 20}
  MaxCookie = 3
  Device = {1, 2, 3}
  Type <- Types
  MaxChange = 3
  MaxCrash = 1
  MaxFail = 1
  Pid = {p1, p2}
  AreaId = {a, b}
  Fullscreen = fullscreen
  Point = {1, 2, 3}
  Covers <- MCCovers
  Flags <- MCFlags
  MaxMotion = 1
  Port = {"bt", "jack", "jack2", "usb"}
  PortType <- MCPortType
  OldFiles <- MCOldFiles
  TypeCount = 3
  Bluetooth = 0
  SwitchMax = 1
  MaxRuns = 2
  MaxPortChanges = 2
  Session = {"x11", "tty", "ssh"}
  Mine = {"x11", "tty"}
  OnSeat = {"x11", "ssh"}
  MaxSessionChanges = 3
  Uid = {"anna", "bob"}
  MaxConn = 2
  MaxEvents = 3
  MaxLid = 3
  MaxLight = 2
  MaxLightFail = 1
  Conn = {"home", "work"}
  Secret = {"psk", "pin"}
  Must = {"psk"}
  SecretFlags <- MCSecretFlags
  Request = {"r1", "r2"}
  MaxService = 1
CHECK_DEADLOCK FALSE
INVARIANTS
  TopologicalOrder
  InhibitedMeansOff SecondsRestored
  RadioStateKnown
  PrioritiesKept FirstPortUsed
  WatcherCurrent
  AgentsCurrent
  LidObeyed SensorClaimed
  
PROPERTIES
  IntoOutAlternate ImplementsRegistrations
