SPECIFICATION TopicsSpec
CONSTANTS
  Sweepers = {s1}
  Workers = {w1}
  Handlers = {h1, h2}
  MaxAttempts = 2
  MaxExtensions = 1
  MaxJobs = 2
  MaxEdits = 1
  MaxFaults = 1
  Requests = {r1, r2, r3}
  MaxRows = 3
INVARIANTS MemoryFollowsTopic AnswerInForce
PROPERTY EndsAndIsSummarized
CHECK_DEADLOCK FALSE
