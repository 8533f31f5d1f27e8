SPECIFICATION Spec
CONSTANTS
  w1 = w1
  w2 = w2
  w3 = w3
  t1 = t1
  t2 = t2
  None = None
  Workers <- ThreeWorkers
  Tasks <- TwoTasks
  Backend = "redis"
  WithLock = TRUE
  Faults <- FastFaults
CHECK_DEADLOCK FALSE
INVARIANT DeliveredOnce
PROPERTY OutcomeIsFinal
