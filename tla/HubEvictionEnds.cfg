SPECIFICATION FairSpec
CONSTANTS
  c1 = c1
  c2 = c2
  c3 = c3
  u1 = u1
  d1 = d1
  d2 = d2
  Conns = {c1, c2}
  Users = {u1}
  Devices = {d1}
  NoDevice = NoDevice
  NoConn = NoConn
  Rooms = {r1, r2}
  UserOf <- OneUser
  DeviceOf <- OneWithoutId
  MaxActiveDevices = 1
PROPERTY EvictionCompletes
CHECK_DEADLOCK FALSE
