------------------------- MODULE MCMigrationExecutor -------------------------
(* Instances of MigrationExecutor for TLC. In app x, x2 depends on x1 though *)
(* its name comes first, and both on y1 of the other app in between, which has *)
(* no statements.                                                            *)
EXTENDS MigrationExecutor, TLC

CONSTANTS p1, p2, x, y, x1, x2, y1, t1, c2, t2

TwoProcesses    == {p1, p2}
TwoApps         == {x, y}
ThreeMigrations == {x1, x2, y1}
ThreeObjects    == {t1, c2, t2}
AppOf           == x1 :> x @@ x2 :> x @@ y1 :> y
DependsOn       == x1 :> {} @@ x2 :> {x1, y1} @@ y1 :> {x1}
SortKey         == x1 :> 2 @@ x2 :> 1 @@ y1 :> 3
Creates         == x1 :> <<t1>> @@ x2 :> <<c2, t2>> @@ y1 :> <<>>
TheTables       == {t1, t2}
NotTheFirst     == {x2, y1}
AllDatabases    == {"postgres", "mysql", "cockroachdb"}
WithoutALock    == {"postgres", "mysql"}
InOrder         == {"postgres", "mysql"}
=============================================================================
