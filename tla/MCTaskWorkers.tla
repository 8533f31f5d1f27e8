--------------------------- MODULE MCTaskWorkers ---------------------------
(* Instances of TaskWorkers for TLC: two or three workers, two tasks.        *)
EXTENDS TaskWorkers

CONSTANTS w1, w2, w3, t1, t2

TwoWorkers   == {w1, w2}
ThreeWorkers == {w1, w2, w3}
TwoTasks     == {t1, t2}

NoFaults    == {}
FastFaults  == {"data", "store", "status", "lock", "crash"}
CrashFaults == {"store", "status", "crash"}
AliveFaults == {"data", "store", "lock", "slow"}
=============================================================================
