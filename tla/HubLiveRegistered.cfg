SPECIFICATION Spec
CONSTANTS
  c1 = c1
  c2 = c2
  c3 = c3
  u1 = u1
  d1 = d1
  d2 = d2
  Conns = {c1, c2, c3}
  Users = {u1}
  Devices = {d1, d2}
  NoDevice = NoDevice
  NoConn = NoConn
  Rooms = {r1}
  UserOf <- OneUser
  DeviceOf <- OneReconnects
  MaxActiveDevices = 2
INVARIANT LiveIsRegistered
CHECK_DEADLOCK FALSE
