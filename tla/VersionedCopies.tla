---------------------------- MODULE VersionedCopies ----------------------------
(* What two copies of a set of keys promise whose writes are versioned: each *)
(* copy of a key holds a version that was issued, and moves forward only. It *)
(* may skip versions and lag for ever.                                       *)
EXTENDS Naturals

CONSTANT Keys

VARIABLES issued, first, second

copies == <<issued, first, second>>

Init ==
    /\ issued = [k \in Keys |-> 0]
    /\ first = [k \in Keys |-> 0]
    /\ second = [k \in Keys |-> 0]

Issue(k) ==
    /\ issued' = [issued EXCEPT ![k] = @ + 1]
    /\ UNCHANGED <<first, second>>

AdvanceFirst(k) ==
    /\ \E n \in (first[k] + 1)..issued[k] : first' = [first EXCEPT ![k] = n]
    /\ UNCHANGED <<issued, second>>

AdvanceSecond(k) ==
    /\ \E n \in (second[k] + 1)..issued[k] : second' = [second EXCEPT ![k] = n]
    /\ UNCHANGED <<issued, first>>

Next == \E k \in Keys : Issue(k) \/ AdvanceFirst(k) \/ AdvanceSecond(k)

Spec == Init /\ [][Next]_copies
=============================================================================
