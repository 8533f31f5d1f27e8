SPECIFICATION Spec
CONSTANTS
  p1 = p1
  p2 = p2
  x = x
  y = y
  x1 = x1
  x2 = x2
  y1 = y1
  t1 = t1
  c2 = c2
  t2 = t2
  Processes <- TwoProcesses
  Apps <- TwoApps
  Migrations <- ThreeMigrations
  Objects <- ThreeObjects
  App <- AppOf
  Deps <- DependsOn
  Key <- SortKey
  Operations <- Creates
  Tables <- TheTables
  AtomicFlag <- NotTheFirst
  Databases <- AllDatabases
  Undisturbed <- WithoutALock
  Steady <- InOrder
  MaxFaults = 1
INVARIANTS RecordsMatchSchema WholeOrNothing
PROPERTIES ImplementsHistory CommandsReturn
