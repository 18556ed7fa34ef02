SPECIFICATION PeopleSpec
CONSTANTS
  ann = ann
  bob = bob
  group = group
  topic = topic
  n1 = n1
  n2 = n2
  NoRoom = NoRoom
  Users = {ann, bob}
  Rooms = {group, topic}
  Nodes = {n1, n2}
  NodeOf <- TwoNodes
  ParentOf <- Parents
  Founders = {ann}
  MaxChanges = 2
  MaxMessages = 1
  Tasks = {t1, t2}
  Calls = {t1, t2}
  FirstDay = 4
  LastDay = 8
  Budgets <- GameCases
  NoDevice = NoDevice
  Devices = {d1, d2, d3}
  Handlers = {t1, t2}
  MaxActiveDevices = 1
  MaxTokens = 3
  MaxRequests = 4
  Pair = {u1, u2}
  PairNodes = {x1, x2}
  PairTasks = {t1, t2}
  MaxRows = 3
SYMMETRY Symmetric
INVARIANTS OutsidersNeverHear EveryMemberHears EjectedStaysOut DevicesWithinQuota FriendCacheIsCurrent StreakAsPlayed
PROPERTIES KeyStands BlockSticks
CHECK_DEADLOCK FALSE
