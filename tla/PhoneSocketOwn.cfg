SPECIFICATION Spec
CONSTANTS
  Sessions = 2
  SocketIds = {1, 2, 3, 4, 5}
  Budgets <- Cases
INVARIANT SessionUsesItsOwn
CHECK_DEADLOCK FALSE
