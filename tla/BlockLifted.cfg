SPECIFICATION FriendsSpec
CONSTANTS
  Pair = {u1, u2}
  PairNodes = {n1}
  PairTasks = {t1}
  MaxRows = 3
PROPERTY OnlyOwnBlocksAreLifted
CHECK_DEADLOCK FALSE
