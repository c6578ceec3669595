SPECIFICATION ObexSpec
CONSTANTS
  Outgoing = {"s1"}
  Incoming = {}
  Canceller = {"c1"}
  MaxFile = 1
  MaxObexCalls = 2
  MaxClicks = 0
CHECK_DEADLOCK FALSE
PROPERTY CancelReturns
