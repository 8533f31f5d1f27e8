---------------------------- MODULE AtomicCommit ----------------------------
(***************************************************************************)
(* What a distributed transaction promises, whatever protocol runs it: the *)
(* branches of one transaction on several databases end all alike.  A      *)
(* branch is idle until work starts on it, and once started it ends in     *)
(* "committed" or "aborted".                                               *)
(***************************************************************************)
CONSTANT Participants

VARIABLE outcome

Outcomes == {"idle", "working", "prepared", "committed", "aborted"}

TypeOK == outcome \in [Participants -> Outcomes]

Init == outcome = [p \in Participants |-> "idle"]

Move(p, from, to) ==
    /\ outcome[p] \in from
    /\ outcome' = [outcome EXCEPT ![p] = to]

NoneCommitted == \A q \in Participants : outcome[q] # "committed"

\* Work starts, votes and aborts happen only before the first commit.
Start(p)   == NoneCommitted /\ Move(p, {"idle"}, "working")
Prepare(p) == NoneCommitted /\ Move(p, {"working"}, "prepared")
Abort(p)   == NoneCommitted /\ Move(p, {"working", "prepared"}, "aborted")

\* A branch commits only when every branch that was started is prepared.
Commit(p) ==
    /\ \A q \in Participants : outcome[q] \in {"idle", "prepared", "committed"}
    /\ Move(p, {"prepared"}, "committed")

Next == \E p \in Participants : Start(p) \/ Prepare(p) \/ Abort(p) \/ Commit(p)

Spec == Init /\ [][Next]_outcome

\* The promise: a committed branch and an aborted one never coexist.
AllOrNothing ==
    \A p, q \in Participants : ~(outcome[p] = "committed" /\ outcome[q] = "aborted")
=============================================================================
