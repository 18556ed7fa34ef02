SPECIFICATION MessagesSpec
CONSTANTS
  Users = {alice, bob, carol}
  Rooms = {ab, ac}
  Msgs = {m1, m2}
  MemberOf <- Memberships
  RoomOf <- InAb
  AuthorOf <- Authors
  Members = {alice, bob}
  Sender = alice
  alice = alice
  bob = bob
  carol = carol
  ab = ab
  ac = ac
  m1 = m1
  m2 = m2
  Pinnable = {q1, q2, q3}
  Requests = {p1, p2}
  PinRequests = {p1, p2}
  MaxPins = 1
  Incoming = {m1, m2}
  MaxQueue = 4
  MaxBreaks = 2
  MaxActs = 3
INVARIANTS ToldAsItWas RowAsRequested PinsInOrder ReadMeansOpened
PROPERTIES SeenBecomesRead StatusNeverRegresses
CHECK_DEADLOCK FALSE
