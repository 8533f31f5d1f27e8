------------------------- MODULE MCTwoPhaseRecovery -------------------------
(* Instances of TwoPhaseRecovery for TLC: three MySQL databases.             *)
EXTENDS TwoPhaseRecovery

CONSTANTS p1, p2, p3

ThreeDbs      == {p1, p2, p3}
ThreeMySql    == [p \in ThreeDbs |-> "mysql"]
NoOwnId       == {}
NetworkFaults == {"call", "cancel", "db"}
=============================================================================
