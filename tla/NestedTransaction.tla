--------------------------- MODULE NestedTransaction ---------------------------
(* orm::transaction::Transaction of reinhardt: begin, commit and rollback     *)
(* nest by savepoints, and the caller may set savepoints of its own. Every    *)
(* call changes the object and returns a statement, which the caller executes *)
(* on its connection at once. The database keeps a stack of savepoints of its *)
(* own, which is not that of the object: ROLLBACK TO leaves the savepoint     *)
(* where it is, and RELEASE takes all the later ones along.                   *)
EXTENDS Naturals, FiniteSets, SequencesExt

CONSTANTS
    Values,         \* what is written
    Names,          \* names of the caller's own savepoints
    Disciplined,    \* whether the caller uses those like brackets
    MaxSavepoints,  \* bound: savepoints of the object at a time
    MaxStack        \* bound: those of the database, which pile up

ASSUME TransactionAssumption ==
    /\ Names \cap Nat = {} /\ Disciplined \in BOOLEAN /\ {MaxSavepoints, MaxStack} \subseteq Nat

VARIABLES
    state, depth,   \* the object
    savepoints,     \* its savepoints: k for "sp_k", or a name
    database,       \* which one it is: "postgres" or "sqlite"
    call,           \* history: what the caller asked for last
    open,           \* whether the connection is in a transaction
    stack,          \* its savepoints: name, and the data at the time
    data, committed

object == <<state, depth, savepoints>>
db     == <<database, open, stack, data, committed>>
vars   == <<object, call, db>>

States == {"NotStarted", "Active", "Committed", "RolledBack"}
Frames == [name : Nat \cup Names, data : SUBSET Values]

Init ==
    /\ state = "NotStarted" /\ depth = 0 /\ savepoints = <<>>
    /\ database \in {"postgres", "sqlite"} /\ call = "none"
    /\ open = FALSE /\ stack = <<>> /\ data = {} /\ committed = {}
-----------------------------------------------------------------------------
(* The statements. Outside of a transaction, or with a name the database does *)
(* not know, they fail and change nothing.                                    *)

LastOf(s, n) == SelectLastInSeq(s, LAMBDA f : f.name = n)
Known(n)     == open /\ LastOf(stack, n) # 0

\* In a transaction BEGIN changes nothing: SQLite refuses it.
SqlBegin ==
    /\ open' = TRUE /\ stack' = IF open THEN stack ELSE <<>>
    /\ UNCHANGED <<database, data, committed>>

SqlEnd(kept) ==
    /\ open' = FALSE /\ stack' = <<>>
    /\ data' = kept /\ committed' = kept
    /\ UNCHANGED database

SqlRollback == SqlEnd(committed)

\* COMMIT may be refused, by a deferred constraint for one. That undoes the
\* transaction, but on SQLite it may leave it open, with all its savepoints.
SqlCommit ==
    \/ SqlEnd(IF open THEN data ELSE committed)
    \/ SqlRollback
    \/ database = "sqlite" /\ UNCHANGED db

SqlSavepoint(n) ==
    /\ stack' = IF open THEN Append(stack, [name |-> n, data |-> data]) ELSE stack
    /\ UNCHANGED <<database, open, data, committed>>

SqlRelease(n) ==
    /\ stack' = IF Known(n) THEN SubSeq(stack, 1, LastOf(stack, n) - 1) ELSE stack
    /\ UNCHANGED <<database, open, data, committed>>

SqlRollbackTo(n) ==
    /\ IF Known(n)
       THEN /\ stack' = SubSeq(stack, 1, LastOf(stack, n))
            /\ data' = stack[LastOf(stack, n)].data
       ELSE UNCHANGED <<stack, data>>
    /\ UNCHANGED <<database, open, committed>>
-----------------------------------------------------------------------------
(* The object.                                                               *)

Room == Len(savepoints) < MaxSavepoints /\ Len(stack) < MaxStack

Begin ==
    /\ call' = "begin"
    /\ state = "NotStarted"
    /\ state' = "Active" /\ depth' = 1
    /\ UNCHANGED savepoints
    /\ SqlBegin

MutBeginNested ==
    /\ call' = "begin"
    /\ state = "Active" /\ Room
    /\ depth' = depth + 1
    /\ savepoints' = Append(savepoints, 2)
    /\ UNCHANGED state
    /\ SqlSavepoint(2)

BeginNested ==
    /\ call' = "begin"
    /\ state = "Active" /\ Room
    /\ depth' = depth + 1
    /\ savepoints' = Append(savepoints, depth')
    /\ UNCHANGED state
    /\ SqlSavepoint(depth')

\* The end of a nested transaction takes the newest savepoint.
Pop ==
    /\ state = "Active" /\ depth > 1 /\ savepoints # <<>>
    /\ Disciplined => Last(savepoints) = depth
    /\ depth' = depth - 1
    /\ savepoints' = Front(savepoints)
    /\ UNCHANGED state

CommitNested   == Pop /\ call' = "commit" /\ SqlRelease(Last(savepoints))
MutRollbackNested == Pop /\ call' = "rollback" /\ SqlRelease(Last(savepoints))
RollbackNested == Pop /\ call' = "rollback" /\ SqlRollbackTo(Last(savepoints))

AtTop ==
    /\ state = "Active" /\ depth = 1
    /\ Disciplined => savepoints = <<>>

Commit ==
    /\ call' = "commit"
    /\ AtTop
    /\ state' = "Committed" /\ depth' = 0
    /\ UNCHANGED savepoints
    /\ SqlCommit

Rollback ==
    /\ call' = "rollback"
    /\ AtTop
    /\ state' = "RolledBack" /\ depth' = 0 /\ savepoints' = <<>>
    /\ SqlRollback

Savepoint(n) ==
    /\ call' = "begin"
    /\ state = "Active" /\ Room
    /\ Disciplined => n \notin ToSet(savepoints)
    /\ savepoints' = Append(savepoints, n)
    /\ UNCHANGED <<state, depth>>
    /\ SqlSavepoint(n)

Newest(n) == n \in ToSet(savepoints) /\ (Disciplined => n = Last(savepoints))

\* The first of the name is taken from the list, wherever it stands.
ReleaseSavepoint(n) ==
    /\ call' = "commit"
    /\ Newest(n)
    /\ savepoints' = RemoveFirst(savepoints, n)
    /\ UNCHANGED <<state, depth>>
    /\ SqlRelease(n)

RollbackToSavepoint(n) ==
    /\ call' = "undo"
    /\ Newest(n)
    /\ UNCHANGED object
    /\ SqlRollbackTo(n)

\* A transaction object that has ended is dropped, and another one made.
New ==
    /\ state \in {"Committed", "RolledBack"}
    /\ state' = "NotStarted" /\ savepoints' = <<>>
    /\ UNCHANGED <<depth, call, db>>

Write(v) ==
    /\ call' = "write"
    /\ state = "Active" /\ open
    /\ data' = data \cup {v}
    /\ UNCHANGED <<object, database, open, stack, committed>>

\* The connection is lost, and found again; the object knows nothing of it.
Lose ==
    /\ open
    /\ open' = FALSE /\ stack' = <<>> /\ data' = committed
    /\ UNCHANGED <<object, database, call, committed>>

Next ==
    \/ Begin \/ BeginNested \/ CommitNested \/ RollbackNested
    \/ Commit \/ Rollback \/ New \/ Lose
    \/ \E n \in Names : Savepoint(n) \/ ReleaseSavepoint(n) \/ RollbackToSavepoint(n)
    \/ \E v \in Values : Write(v)

Spec == Init /\ [][Next]_vars
-----------------------------------------------------------------------------
(* Properties.                                                               *)

Calls  == {"none", "begin", "write", "undo", "commit", "rollback"}
Nested == {i \in DOMAIN savepoints : savepoints[i] \in Nat}

TypeOK ==
    /\ state \in States /\ savepoints \in Seq(Nat \cup Names)
    /\ depth = IF state = "Active" THEN 1 + Cardinality(Nested) ELSE 0
    /\ call \in Calls
    /\ database \in {"postgres", "sqlite"} /\ open \in BOOLEAN /\ stack \in Seq(Frames)
    /\ data \subseteq Values /\ committed \subseteq Values

\* The database knows every savepoint of the object, and in its order, whatever
\* ROLLBACK TO has left on its stack: no statement names one that is gone or
\* one that another scope shadows.
SavepointsStand ==
    open => /\ \A i \in DOMAIN savepoints : LastOf(stack, savepoints[i]) # 0
            /\ \A i, j \in DOMAIN savepoints :
                   i < j => LastOf(stack, savepoints[i]) < LastOf(stack, savepoints[j])

\* A connection is in a transaction while an active object is, and sees what is
\* committed otherwise. The one exception: SQLite refused the object's COMMIT,
\* so it has ended and rollback() is an error, and no other object has begun.
NothingLeftOpen ==
    /\ open => \/ state = "Active"
               \/ database = "sqlite" /\ call = "commit"
    /\ ~open => data = committed

\* The object and its connection agree on what is open.
ConnectionInv == TypeOK /\ SavepointsStand /\ NothingLeftOpen

\* begin, commit and rollback, and the caller's savepoints, are nested scopes:
\* the end of one keeps or undoes what was written in it, no more and no less.
Scopes == INSTANCE NestedScopes WITH
    stranded <- open /\ state # "Active",
    scopes <- IF open
              THEN <<committed>> \o [i \in DOMAIN savepoints |->
                       stack[LastOf(stack, savepoints[i])].data]
              ELSE <<>>
ImplementsScopes == Scopes!Spec
=============================================================================
