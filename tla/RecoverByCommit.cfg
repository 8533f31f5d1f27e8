SPECIFICATION FairRSpec
CONSTANTS
  p1 = p1
  p2 = p2
  p3 = p3
  Participants <- ThreeDbs
  Adapter <- ThreeMySql
  XidIsId <- NoOwnId
  WithLog = TRUE
  Faults <- NetworkFaults
  Policy = "commit"
  CallerAbandons = FALSE
CHECK_DEADLOCK FALSE
INVARIANTS AllOrNothing EntriesAreTrue
PROPERTY InDoubtResolved
