SPECIFICATION FairSpec
CONSTANTS
  w1 = w1
  w2 = w2
  w3 = w3
  t1 = t1
  t2 = t2
  None = None
  Workers <- TwoWorkers
  Tasks <- TwoTasks
  Backend = "sqlite"
  WithLock = TRUE
  Faults <- AliveFaults
CHECK_DEADLOCK FALSE
PROPERTIES TasksComplete ReleaseIsOwn
