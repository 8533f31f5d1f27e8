--------------------------- MODULE DependencyHistory ---------------------------
(* What a history of migrations promises: one is applied only after those it *)
(* needs and, if the history is kept in order, taken back only before those  *)
(* that need it.                                                             *)
CONSTANTS Migrations, Needs

VARIABLES
    applied,
    ordered     \* whether the order of what is applied is known

Init == applied = {} /\ ordered \in BOOLEAN

Apply(m) ==
    /\ m \notin applied /\ Needs[m] \subseteq applied
    /\ applied' = applied \cup {m}

Unapply(m) ==
    /\ m \in applied
    /\ ordered => \A n \in applied \ {m} : m \notin Needs[n]
    /\ applied' = applied \ {m}

Next == (\E m \in Migrations : Apply(m) \/ Unapply(m)) /\ UNCHANGED ordered

Spec == Init /\ [][Next]_<<applied, ordered>>
=============================================================================
