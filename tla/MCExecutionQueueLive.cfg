SPECIFICATION FairSpec
CONSTANTS
  Executions = {e1, e2}
  Workers = {w1, w2}
  Mortal = {w1}
  TaskTypes = {"handled"}
  MaxAttempts = 2
  MaxFaults = 1
  NoWorker = NoWorker
  NoExec = NoExec
CHECK_DEADLOCK FALSE
PROPERTIES
  EventuallySettled
