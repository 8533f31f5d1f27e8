SPECIFICATION Spec
CONSTANTS
  w1 = w1
  w2 = w2
  w3 = w3
  t1 = t1
  t2 = t2
  None = None
  Workers <- ThreeWorkers
  Tasks <- TwoTasks
  Backend = "sqlite"
  WithLock = TRUE
  Faults <- CrashFaults
CHECK_DEADLOCK FALSE
INVARIANTS LockInv NoSimultaneousExecution LockReleased
