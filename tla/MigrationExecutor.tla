--------------------------- MODULE MigrationExecutor ---------------------------
(* The migrate command and the migration executor of reinhardt                *)
(* (commands/builtin.rs, db/migrations/executor.rs, graph.rs, recorder.rs,    *)
(* schema_editor.rs) over a database. Several processes may run the command   *)
(* at once, as the instances of a deployment do when they start; any of them  *)
(* may fail or be killed between two statements. An action is one statement   *)
(* sent to the database, or one decision of the program.                      *)
(*                                                                            *)
(* An operation of a migration brings one object into the schema: a table     *)
(* (CREATE TABLE) or something else (a column, an index). Its reverse SQL     *)
(* takes the object out again. Each object belongs to one migration.          *)
EXTENDS Naturals, FiniteSets, SequencesExt

CONSTANTS
    Processes, Migrations, Apps, Objects,
    App, Deps,      \* app_label and dependencies of a migration
    Key,            \* its place in the order of (app_label, name)
    Operations,     \* the objects it creates, in order
    Tables,         \* the objects CREATE TABLE makes
    AtomicFlag,     \* migrations with the flag atomic
    Databases,      \* those of "postgres", "mysql", "cockroachdb" in use
    Undisturbed,    \* those where nobody else migrates during a rollback
    Steady,         \* those where every record falls in a second of its own,
                    \* on clocks that agree
    MaxFaults       \* bound: processes killed, or calls that fail

None == "none"

ASSUME MigrationsAssumption ==
    /\ App \in [Migrations -> Apps] /\ Deps \in [Migrations -> SUBSET Migrations]
    /\ Key \in [Migrations -> Nat] /\ IsInjective(Key) /\ IsFiniteSet(Migrations)
    /\ Tables \subseteq Objects
    /\ Operations \in [Migrations -> Seq(Objects)] /\ AtomicFlag \subseteq Migrations
    /\ \A m, n \in Migrations : \A i \in DOMAIN Operations[m], j \in DOMAIN Operations[n] :
           Operations[m][i] = Operations[n][j] => m = n /\ i = j
    /\ Databases \subseteq {"postgres", "mysql", "cockroachdb"} /\ Databases # {}
    /\ Undisturbed \subseteq Databases /\ Steady \subseteq Databases
    /\ MaxFaults \in Nat /\ None \notin Processes

VARIABLES
    database,       \* which of them it is
    schema,         \* the objects of the database, committed
    records,        \* the rows of reinhardt_migrations
    older,          \* <<m, n>>: m has an earlier second in "applied" than n
    lock,           \* whose sessions hold the migration lock: the advisory
                    \* lock, the named lock, CockroachDB's sentinel row
    at,             \* where a process is
    mode,           \* whether it applies or rolls back
    plan,           \* the migrations left to it; the head is the current one
    done,           \* operations of the current one it is past
    tx,             \* objects its open transaction has created or dropped
    interrupted,    \* history: migrations some process left half way
    faults

locals == <<mode, plan, done, tx>>
vars   == <<database, schema, records, older, lock, at, locals, interrupted, faults>>

Transactional == database # "mysql"
Locking       == database = "cockroachdb"
Atomic(m)     == Transactional /\ m \in AtomicFlag
Current(p)    == Head(plan[p])
Applies(p)    == mode[p] = "apply"
View(p)       == IF Applies(p) THEN schema \cup tx[p] ELSE schema \ tx[p]

Object(p) ==
    LET ops == Operations[Current(p)]
    IN  IF Applies(p) THEN ops[done[p] + 1] ELSE ops[Len(ops) - done[p]]

Init ==
    /\ database \in Databases
    /\ schema = {} /\ records = {} /\ older = {} /\ lock = None
    /\ at = [p \in Processes |-> "idle"]
    /\ mode = [p \in Processes |-> "apply"]
    /\ plan = [p \in Processes |-> <<>>]
    /\ done = [p \in Processes |-> 0]
    /\ tx = [p \in Processes |-> {}]
    /\ interrupted = {} /\ faults = 0
-----------------------------------------------------------------------------
(* MigrationGraph::topological_sort of the migrations in S: Kahn's algorithm *)
(* with a queue; what an output frees is queued in the order of the keys. A  *)
(* dependency outside S is taken to be applied. A cycle leaves the order     *)
(* shorter than S, and the command fails before it has changed anything.     *)

Ranked(S, rank) ==
    [i \in 1..Cardinality(S) |->
        CHOOSE m \in S : Cardinality({n \in S : rank[n] < rank[m]}) = i - 1]

ByKey(S) == Ranked(S, Key)

Freed(S, sorted) == {m \in S \ ToSet(sorted) : Deps[m] \cap S \subseteq ToSet(sorted)}

KahnPop(S, k) ==
    LET sorted == Append(k.sorted, Head(k.queue))
        fresh  == Freed(S, sorted) \ ToSet(k.queue)
    IN  [queue |-> Tail(k.queue) \o ByKey(fresh), sorted |-> sorted]

TopologicalSort ==
    [S \in SUBSET Migrations |->
        LET Kahn[i \in 0..Cardinality(S)] ==
                IF i = 0 THEN [queue |-> ByKey(Freed(S, <<>>)), sorted |-> <<>>]
                ELSE LET k == Kahn[i - 1]
                     IN  IF k.queue = <<>> THEN k ELSE KahnPop(S, k)
        IN  Kahn[Cardinality(S)].sorted]
-----------------------------------------------------------------------------
(* The migrate command: which migrations, and in which direction.            *)

\* Where rollbacks are undisturbed, nobody runs beside one.
Joins(p, m) ==
    database \in Undisturbed =>
        \A q \in Processes \ {p} : at[q] # "idle" => m = "apply" /\ mode[q] = "apply"

\* The end of a command: its transaction is rolled back and its sessions are
\* closed, with what they hold of the lock.
End(p) ==
    /\ at' = [at EXCEPT ![p] = "idle"]
    /\ plan' = [plan EXCEPT ![p] = <<>>]
    /\ done' = [done EXCEPT ![p] = 0]
    /\ tx' = [tx EXCEPT ![p] = {}]
    /\ mode' = [mode EXCEPT ![p] = "apply"]
    /\ lock' = IF lock = p THEN None ELSE lock

\* With nothing to do, the command is over.
Run(p, m, order) ==
    IF order = <<>>
    THEN End(p) /\ UNCHANGED <<database, schema, records, older, interrupted, faults>>
    ELSE /\ Joins(p, m)
         /\ mode' = [mode EXCEPT ![p] = m]
         /\ plan' = [plan EXCEPT ![p] = order]
         /\ at' = [at EXCEPT ![p] = "lock"]
         /\ UNCHANGED <<database, schema, records, older, lock, done, tx, interrupted, faults>>

\* A cycle of dependencies is an error before anything is applied.
Migrate(p, S) ==
    LET order == TopologicalSort[S]
    IN  Run(p, "apply", IF Len(order) = Cardinality(S) THEN order ELSE <<>>)

OfApp(a) == {m \in Migrations : App[m] = a}
SameAppDeps(m) == Deps[m] \cap OfApp(App[m])

\* The target and what it depends on within its app, directly or not.
Closed(S) == \A n \in S : SameAppDeps(n) \subseteq S

NeededFor ==
    [m \in Migrations |->
        {n \in Migrations : \A S \in SUBSET Migrations : m \in S /\ Closed(S) => n \in S}]

RecordsOf(a) == OfApp(a) \cap records

\* The rows of an app ORDER BY applied: those of one second in any order.
Listings(a) ==
    {l \in SetToSeqs(RecordsOf(a)) : \A i, j \in DOMAIN l : i < j => <<l[j], l[i]>> \notin older}

MutRollBack(p, rows) == Run(p, "rollback", rows)

\* The last one listed first.
RollBack(p, rows) == Run(p, "rollback", Reverse(rows))

\* A target that is recorded has the rows listed after it taken back.
MigrateTo(p, m) ==
    IF m \in records
    THEN \E l \in Listings(App[m]) : \E i \in DOMAIN l :
             l[i] = m /\ RollBack(p, SubSeq(l, i + 1, Len(l)))
    ELSE Migrate(p, NeededFor[m])

MigrateZero(p, a) == \E l \in Listings(a) : RollBack(p, l)

\* With a target: the table of the records is made first, in "probe", and read.
Target(p) ==
    /\ at[p] = "idle" /\ Joins(p, "apply")
    /\ at' = [at EXCEPT ![p] = "probe"]
    /\ UNCHANGED <<database, schema, records, older, lock, locals, interrupted, faults>>

\* Which target it was.
Decide(p) ==
    /\ at[p] = "decide"
    /\ \/ \E m \in Migrations : MigrateTo(p, m)
       \/ \E a \in Apps : MigrateZero(p, a)

\* Without: everything, or an app.
Start(p) ==
    \/ Target(p)
    \/ at[p] = "idle" /\ \E S \in {Migrations} \cup {OfApp(a) : a \in Apps} : Migrate(p, S)
-----------------------------------------------------------------------------
(* ensure_schema_table, by the command with a target and by the executor,    *)
(* makes the table under the migration lock. PostgreSQL takes the lock on    *)
(* one session of the pool and may give it back on another, which does not   *)
(* have it; MySQL does both on one; on CockroachDB the executor keeps it.    *)

Waits(p) == at[p] \in {"probe", "lock"}

Acquire(p) ==
    /\ Waits(p) /\ lock = None
    /\ lock' = p
    /\ at' = [at EXCEPT ![p] = IF @ = "probe" THEN "probed" ELSE "locked"]
    /\ UNCHANGED <<database, schema, records, older, locals, interrupted, faults>>

\* On the session that still has the lock from the first time: what this adds
\* it takes back, and the rest stays.
Reenter(p) ==
    /\ at[p] = "lock" /\ lock = p /\ ~Locking
    /\ at' = [at EXCEPT ![p] = "next"]
    /\ UNCHANGED <<database, schema, records, older, lock, locals, interrupted, faults>>

MutGivesBack(p) == IF database = "postgres" THEN {None, p} ELSE IF Locking THEN {p} ELSE {None}

\* What may be left of the lock.
GivesBack(p) ==
    IF database = "postgres" THEN {None, p}
    ELSE IF Locking /\ at[p] = "locked" THEN {p} ELSE {None}

PastEnsure(p) == [at EXCEPT ![p] = IF @ = "probed" THEN "decide" ELSE "next"]

Ensure(p) ==
    /\ at[p] \in {"probed", "locked"}
    /\ lock' \in GivesBack(p)
    /\ at' = PastEnsure(p)
    /\ UNCHANGED <<database, schema, records, older, locals, interrupted, faults>>

\* RELEASE_LOCK fails: a warning, and the session goes back to the pool with it.
Unreleased(p) ==
    /\ at[p] \in {"probed", "locked"} /\ database = "mysql" /\ faults < MaxFaults
    /\ faults' = faults + 1
    /\ at' = PastEnsure(p)
    /\ UNCHANGED <<database, schema, records, older, lock, locals, interrupted>>

\* The pool closes the session left idle with the lock, 10 s later.
Reap(p) ==
    /\ database = "postgres" /\ lock = p /\ at[p] \notin {"probed", "locked"}
    /\ lock' = None
    /\ UNCHANGED <<database, schema, records, older, at, locals, interrupted, faults>>
-----------------------------------------------------------------------------
(* The executor.                                                             *)

\* is_applied
Consider(p) ==
    /\ at[p] = "next" /\ plan[p] # <<>>
    /\ IF (Current(p) \in records) = Applies(p)
       THEN plan' = [plan EXCEPT ![p] = Tail(@)] /\ UNCHANGED <<at, done>>
       ELSE /\ at' = [at EXCEPT ![p] = "run"]
            /\ done' = [done EXCEPT ![p] = 0]
            /\ UNCHANGED plan
    /\ UNCHANGED <<database, schema, records, older, lock, mode, tx, interrupted, faults>>

MutMore(p)  == done[p] + 1 < Len(Operations[Current(p)])

More(p) == done[p] < Len(Operations[Current(p)])
Skips(p) == Applies(p) /\ Object(p) \in Tables

\* A table that exists is not created again; asked through the transaction.
CheckTable(p) ==
    /\ at[p] = "run" /\ More(p) /\ Skips(p)
    /\ IF Object(p) \in View(p)
       THEN done' = [done EXCEPT ![p] = @ + 1] /\ UNCHANGED at
       ELSE at' = [at EXCEPT ![p] = "execute"] /\ UNCHANGED done
    /\ UNCHANGED <<database, schema, records, older, lock, mode, plan, tx, interrupted, faults>>

Working(p) == at[p] \in {"run", "execute", "record"}

Abort(p) ==
    /\ End(p)
    /\ interrupted' = IF Working(p) THEN interrupted \cup {<<mode[p], Current(p)>>}
                      ELSE interrupted
    /\ UNCHANGED <<database, schema, records, older>>

\* GET_LOCK gives up after 10 s.
TimeOut(p) ==
    /\ database = "mysql" /\ Waits(p) /\ lock # None
    /\ Abort(p) /\ UNCHANGED faults

\* A statement waits for a transaction that has changed its object, and fails
\* if the object is there already, or is not there to be dropped.
MutExecute(p) ==
    /\ at[p] \in {"run", "execute"} /\ More(p)
    /\ at[p] = "run" => ~Skips(p)
    /\ IF (Object(p) \in View(p)) = Applies(p)
       THEN Abort(p) /\ UNCHANGED faults
       ELSE /\ schema' = IF Applies(p) THEN schema \cup {Object(p)}
                         ELSE schema \ {Object(p)}
            /\ done' = [done EXCEPT ![p] = @ + 1]
            /\ at' = [at EXCEPT ![p] = "run"]
            /\ UNCHANGED <<database, records, older, lock, mode, plan, tx, interrupted, faults>>

Execute(p) ==
    /\ at[p] \in {"run", "execute"} /\ More(p)
    /\ at[p] = "run" => ~Skips(p)
    /\ \A q \in Processes \ {p} : Object(p) \notin tx[q]
    /\ IF (Object(p) \in View(p)) = Applies(p)
       THEN Abort(p) /\ UNCHANGED faults
       ELSE /\ IF Atomic(Current(p))
               THEN tx' = [tx EXCEPT ![p] = @ \cup {Object(p)}] /\ UNCHANGED schema
               ELSE /\ schema' = IF Applies(p) THEN schema \cup {Object(p)}
                                 ELSE schema \ {Object(p)}
                    /\ UNCHANGED tx
            /\ done' = [done EXCEPT ![p] = @ + 1]
            /\ at' = [at EXCEPT ![p] = "run"]
            /\ UNCHANGED <<database, records, older, lock, mode, plan, interrupted, faults>>

\* SchemaEditor::finish commits.
Finish(p) ==
    /\ at[p] = "run" /\ ~More(p)
    /\ schema' = View(p)
    /\ tx' = [tx EXCEPT ![p] = {}]
    /\ at' = [at EXCEPT ![p] = "record"]
    /\ UNCHANGED <<database, records, older, lock, mode, plan, done, interrupted, faults>>

\* The rows older than some second. The clock of its process tells in which
\* second a new row falls: it is younger than E, of one second with F \ E, and
\* older than the rest.
Cuts == {E \in SUBSET records : E \X (records \ E) \subseteq older}

Insert(m) ==
    /\ records' = records \cup {m}
    /\ \E E \in Cuts : \E F \in Cuts :
           /\ E \subseteq F /\ (F \ E) \X (F \ E) \cap older = {}
           /\ database \in Steady => E = records
           /\ older' = older \cup E \X {m} \cup {m} \X (records \ F)

Delete(m) ==
    /\ records' = records \ {m}
    /\ older' = older \cap (records' \X records')

\* record_applied ignores a conflict; unapply deletes the row.
Record(p) ==
    /\ at[p] = "record"
    /\ IF ~Applies(p) THEN Delete(Current(p))
       ELSE IF Current(p) \in records THEN UNCHANGED <<records, older>>
       ELSE Insert(Current(p))
    /\ interrupted' = {x \in interrupted : x[2] # Current(p)}
    /\ plan' = [plan EXCEPT ![p] = Tail(@)]
    /\ done' = [done EXCEPT ![p] = 0]
    /\ at' = [at EXCEPT ![p] = "next"]
    /\ UNCHANGED <<database, schema, lock, mode, tx, faults>>

Done(p) ==
    /\ at[p] = "next" /\ plan[p] = <<>>
    /\ End(p)
    /\ UNCHANGED <<database, schema, records, older, interrupted, faults>>

\* The process is killed, or a call fails, its effect done or not.
Fault(p) ==
    /\ at[p] # "idle" /\ faults < MaxFaults
    /\ faults' = faults + 1
    /\ Abort(p)

Proceed(p) ==
    \/ Decide(p) \/ Ensure(p)
    \/ Consider(p) \/ CheckTable(p) \/ Execute(p) \/ Finish(p) \/ Record(p) \/ Done(p)

Next ==
    \E p \in Processes :
        \/ Start(p) \/ Acquire(p) \/ Reenter(p) \/ Reap(p) \/ TimeOut(p)
        \/ Proceed(p) \/ Unreleased(p) \/ Fault(p)

\* The database answers, and serves those who wait for the lock in turn. The
\* session its own process waits for is idle: the pool closes it.
Fairness ==
    \A p \in Processes :
        /\ WF_vars(Proceed(p)) /\ SF_vars(Acquire(p)) /\ WF_vars(TimeOut(p))
        /\ WF_vars(at[p] = "lock" /\ Reap(p))

Spec == Init /\ [][Next]_vars /\ Fairness
-----------------------------------------------------------------------------
(* Properties.                                                               *)

TypeOK ==
    /\ database \in Databases /\ schema \subseteq Objects
    /\ records \subseteq Migrations
    /\ older \subseteq records \X records /\ \A m \in records : <<m, m>> \notin older
    /\ lock \in Processes \cup {None}
    /\ at \in [Processes -> {"idle", "probe", "probed", "decide", "lock", "locked",
                             "next", "run", "execute", "record"}]
    /\ mode \in [Processes -> {"apply", "rollback"}]
    /\ plan \in [Processes -> Seq(Migrations)]
    /\ done \in [Processes -> Nat]
    /\ tx \in [Processes -> SUBSET Objects]
    /\ interrupted \subseteq {"apply", "rollback"} \X Migrations
    /\ faults \in 0..MaxFaults

ObjectsOf(m) == ToSet(Operations[m])
InProgress(m, how) ==
    \/ <<how, m>> \in interrupted
    \/ \E p \in Processes : Working(p) /\ Current(p) = m /\ mode[p] = how

\* What is recorded as applied is in the schema, unless a rollback is taking it
\* out or was interrupted between its statements and the delete of the row.
RecordedIsInSchema ==
    \A m \in records : ObjectsOf(m) \subseteq schema \/ InProgress(m, "rollback")

\* What is in the schema is recorded, unless its migration is being applied or
\* was interrupted before it was recorded: a rollback leaves nothing behind.
SchemaIsAccounted ==
    \A m \in Migrations \ records :
        ObjectsOf(m) \cap schema # {} => InProgress(m, "apply")

\* The records and the schema say the same, in both directions.
RecordsMatchSchema == TypeOK /\ RecordedIsInSchema /\ SchemaIsAccounted

\* An atomic migration is in the schema with all its objects or none, at every
\* moment, with several processes at it and any of them killed.
WholeOrNothing ==
    \A m \in Migrations : Atomic(m) =>
        ObjectsOf(m) \subseteq schema \/ ObjectsOf(m) \cap schema = {}

\* No migration is recorded before those of its app it depends on, in whatever
\* order the commands come; and none is taken back before those that depend on
\* it where a rollback is undisturbed and "applied" tells the order of the
\* records. What a rollback takes back is decided before the lock is taken, so
\* off Undisturbed the lock does not help; and rows of one second, or of clocks
\* that differ, are listed in another order than they were written in.
History == INSTANCE DependencyHistory WITH
    Needs   <- [m \in Migrations |-> SameAppDeps(m)],
    applied <- records,
    ordered <- database \in Undisturbed \cap Steady
ImplementsHistory == History!Spec

\* Every command returns, in success or error: nobody waits for ever on a
\* transaction or the migration lock, whoever was killed while holding it or
\* left it with an idle session, its own included.
CommandsReturn == \A p \in Processes : at[p] # "idle" ~> at[p] = "idle"
=============================================================================
