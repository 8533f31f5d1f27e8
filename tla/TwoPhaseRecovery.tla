-------------------------- MODULE TwoPhaseRecovery --------------------------
(***************************************************************************)
(* A crash of the process that runs a coordinator, and the recovery that   *)
(* follows.  reinhardt-db has no recovery driver: it offers the log        *)
(* (find_by_state), the lists of prepared transactions, commit_by_xid,     *)
(* rollback_by_xid and cleanup_stale_transactions, and an operator puts    *)
(* them together.  Policy is what the operator does with an entry found in *)
(* Prepared; an entry in Active is always rolled back.                     *)
(***************************************************************************)
EXTENDS TwoPhaseCoordinator

CONSTANTS
    Policy,          \* "commit" or "rollback"
    CallerAbandons   \* the application may call rollback() after prepare()

ASSUME RecoveryAssumption == Policy \in {"commit", "rollback"} /\ CallerAbandons \in BOOLEAN

VARIABLE up   \* the process runs

rvars == <<vars, up>>

RInit == Init /\ up = TRUE

Run ==
    /\ up
    /\ Next
    /\ state = "Prepared" /\ op' = "rollback" => CallerAbandons
    /\ UNCHANGED up

\* What the log may hold when the process dies inside the operation: the write
\* and the delete that end it are two calls, each done or not.
EntriesAtCrash ==
    {log}
    \cup (IF Finished("prepare") THEN {Written("Prepared")} ELSE {})
    \cup (IF Finished("commit") /\ failures = {} THEN {Written("Committed"), NoEntry} ELSE {})
    \cup (IF (Finished("rollback") \/ Finished("undo")) /\ failures = {}
          THEN {Written("Aborted"), NoEntry} ELSE {})

\* The coordinator and the adapters are gone.  The databases see the connections
\* break and end the open branches; prepared branches stay.
Crash ==
    /\ up
    /\ up' = FALSE
    /\ log' \in EntriesAtCrash
    /\ branch' = [p \in Participants |-> IF branch[p] = "active" THEN "rolledback" ELSE branch[p]]
    /\ parts' = <<>> /\ state' = "NotStarted" /\ op' = "idle" /\ next' = 1 /\ failures' = {}
    /\ status' = [p \in Participants |-> "Active"]
    /\ session' = [p \in Participants |-> "none"]
    /\ misfiled' = {}

ByXid(p, decision) ==
    /\ ~up
    /\ branch[p] = "prepared" /\ p \in log.ids
    /\ branch' = [branch EXCEPT ![p] = decision]
    /\ UNCHANGED <<coordinator, adapters, log, up>>

RollbackByXid(p) ==
    /\ log.state = "Active" \/ (log.state = "Prepared" /\ Policy = "rollback")
    /\ ByXid(p, "rolledback")

CommitByXid(p) ==
    /\ log.state = "Prepared" /\ Policy = "commit"
    /\ ByXid(p, "committed")

Recover == \E p \in Participants : RollbackByXid(p) \/ CommitByXid(p)

RNext == Run \/ Crash \/ Recover

RSpec == RInit /\ [][RNext]_rvars

\* The operator goes on until no listed branch is in doubt.
FairRSpec == RSpec /\ WF_rvars(Recover)

\* After a crash every branch in doubt is decided: the entry that survived, whatever
\* failed before, leads the operator to it.
InDoubtResolved == ~up ~> \A p \in Participants : branch[p] # "prepared"
=============================================================================
