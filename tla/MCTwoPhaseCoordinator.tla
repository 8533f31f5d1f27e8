----------------------- MODULE MCTwoPhaseCoordinator -----------------------
(* Instances of TwoPhaseCoordinator for TLC: three databases and both kinds  *)
(* of adapter. p1 is PostgreSQL under the transaction's own id, p2 and p3    *)
(* are MySQL.                                                                *)
EXTENDS TwoPhaseCoordinator

CONSTANTS p1, p2, p3

ThreeDbs   == {p1, p2, p3}
Mixed      == [p \in ThreeDbs |-> IF p = p1 THEN "postgres" ELSE "mysql"]
MixedOwnId == {p1}
AllFaults  == {"call", "cancel", "db", "log", "tear"}
=============================================================================
