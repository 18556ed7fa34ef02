SPECIFICATION FairSpec
CONSTANTS
  Msgs = {m1, m2}
  Files = {f1}
  Nodes = {n1}
  MaxAttempts = 3
  MaxFaults = 2
  MaxCrashes = 1
  MaxForwards = 1
  SweepOn = TRUE
INVARIANTS FilesFollowRetention
PROPERTY UploadsEnd
CHECK_DEADLOCK FALSE
