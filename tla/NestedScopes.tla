----------------------------- MODULE NestedScopes -----------------------------
(* What nested transactions promise: scopes open and close like brackets; the *)
(* end of a scope keeps or undoes all that was written since it opened, that  *)
(* of the scopes inside it included, and only the end of the outermost one    *)
(* publishes anything. The connection may be lost, and the whole with it; a   *)
(* refused commit may strand the outermost scope, and whoever begins next     *)
(* finds itself in it.                                                        *)
EXTENDS Sequences, Naturals

CONSTANT Values

VARIABLES
    call,           \* what was asked for last
    stranded,       \* whether a refused commit has left the outermost scope
    scopes,         \* what was there when each open scope opened
    data,           \* what the connection sees
    committed       \* what everybody sees

vars == <<call, stranded, scopes, data, committed>>

Calls     == {"none", "begin", "write", "undo", "commit", "rollback"}
Innermost == scopes[Len(scopes)]

Init ==
    /\ call = "none" /\ stranded = FALSE
    /\ scopes = <<>> /\ data = {} /\ committed = {}

Begin ==
    /\ ~stranded
    /\ call' = "begin" /\ scopes' = Append(scopes, data)
    /\ UNCHANGED <<stranded, data, committed>>

Write(v) ==
    /\ scopes # <<>> /\ ~stranded
    /\ call' = "write" /\ data' = data \cup {v}
    /\ UNCHANGED <<stranded, scopes, committed>>

Undo ==
    /\ scopes # <<>> /\ ~stranded
    /\ call' = "undo" /\ data' = Innermost
    /\ UNCHANGED <<stranded, scopes, committed>>

Close ==
    /\ scopes # <<>> /\ ~stranded
    /\ scopes' = SubSeq(scopes, 1, Len(scopes) - 1)
    /\ committed' = IF Len(scopes) = 1 THEN data' ELSE committed
    /\ UNCHANGED stranded

\* The outermost commit may be refused, which undoes everything or nothing.
Commit ==
    /\ Close /\ call' = "commit"
    /\ data' = data \/ (Len(scopes) = 1 /\ data' = committed)

Strand ==
    /\ Len(scopes) = 1 /\ ~stranded
    /\ call' = "commit" /\ stranded' = TRUE
    /\ UNCHANGED <<scopes, data, committed>>

Rejoin ==
    /\ stranded
    /\ call' = "begin" /\ stranded' = FALSE
    /\ UNCHANGED <<scopes, data, committed>>

Rollback == Close /\ call' = "rollback" /\ data' = Innermost

Lose ==
    /\ scopes # <<>> /\ scopes' = <<>> /\ data' = committed
    /\ stranded' = FALSE
    /\ UNCHANGED <<call, committed>>

\* Without a connection nothing has an effect.
Ignored(c) ==
    /\ scopes = <<>> /\ call' = c
    /\ UNCHANGED <<stranded, scopes, data, committed>>

Next ==
    \/ Begin \/ Undo \/ Commit \/ Strand \/ Rejoin \/ Rollback \/ Lose
    \/ \E v \in Values : Write(v)
    \/ \E c \in Calls : Ignored(c)

Spec == Init /\ [][Next]_vars
=============================================================================
