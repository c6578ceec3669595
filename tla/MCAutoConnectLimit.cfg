SPECIFICATION AutoSpec
CONSTANTS
  Adapter = {"hci0", "hci1"}
  Device = {"mouse", "keyboard", "headset"}
  AdapterOf <- MCAdapterOf
  ByDevice = {"mouse"}
  MaxPerAdapter = 1
  DurationMax = 1
  Slot = {1, 2, 3}
  MaxCalls = 2
  MaxUpsets = 1
CHECK_DEADLOCK FALSE
INVARIANT WorkersLimited
