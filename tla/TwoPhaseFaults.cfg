SPECIFICATION FairSpec
CONSTANTS
  p1 = p1
  p2 = p2
  p3 = p3
  Participants <- ThreeDbs
  Adapter <- Mixed
  XidIsId <- MixedOwnId
  WithLog = TRUE
  Faults <- AllFaults
CHECK_DEADLOCK FALSE
INVARIANTS IInv AccountsAreTrue EndedHoldsNoSession
PROPERTIES CommittedIsWhole AbortedIsWhole ImplementsAtomicCommit OperationsReturn
