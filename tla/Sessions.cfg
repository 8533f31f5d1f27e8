SPECIFICATION Spec
CONSTANTS
  c1 = c1
  c2 = c2
  k = k
  Clients <- TwoClients
  Keys <- OneKey
  Writers <- OneWriter
  Strategies <- AllStrategies
  RetryAttempts = 2
  MaxWrites = 3
  MaxRestarts = 1
CHECK_DEADLOCK FALSE
INVARIANT AckedIsKept
PROPERTIES Converges CopiesAdvance
