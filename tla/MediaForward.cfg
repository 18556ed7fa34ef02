SPECIFICATION Spec
CONSTANTS
  Msgs = {m1, m2}
  Files = {f1}
  Nodes = {n1}
  MaxAttempts = 2
  MaxFaults = 0
  MaxCrashes = 0
  MaxForwards = 1
  SweepOn = FALSE
INVARIANT ForwardsKeepTheirFile
CHECK_DEADLOCK FALSE
