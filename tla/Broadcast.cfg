SPECIFICATION BroadcastSpec
CONSTANTS
  MaxMsgs = 2
  MaxFaults = 2
  Nodes = {n1, n2}
  MaxQueue = 1
  MaxAttempts = 1
  RateLimit = 1
  SendBuffer = 1
  StoreMayFail = TRUE
  Devices = {a, b1, b2}
  Users = {ann, bob}
  CallNodes = {n1, n2}
  Callers = {a}
  UserOf <- UserOfDevice
  NodeOf <- NodeOfDevice
  MaxCalls = 1
  MaxHangUps = 2
  MaxRejects = 2
  a = a
  b1 = b1
  b2 = b2
  ann = ann
  bob = bob
  n1 = n1
  n2 = n2
INVARIANTS NothingVanishes BroadcastOnce ConfirmedIsSaved EndsAgree
PROPERTIES EventuallySettled FirstDeviceWins
CHECK_DEADLOCK FALSE
