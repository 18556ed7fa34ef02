SPECIFICATION PhoneSpec
CONSTANTS
  m1 = m1
  m2 = m2
  p1 = p1
  p2 = p2
  p3 = p3
  Written <- WrittenInOrder
  Coming <- ComingInOrder
  HistoryLimit = 2
  Encrypted = TRUE
  TimelineBudgets <- TimelineCases
  Sessions = 3
  SocketIds = {1, 2, 3, 4, 5}
  Budgets <- Cases
INVARIANTS ShownIsCurrent DiscardedStaysAway ConnectionIsTheSessions
PROPERTIES HistoryKeepsStored TimelineSettles EndedByItsOwn StaysConnected
CHECK_DEADLOCK FALSE
