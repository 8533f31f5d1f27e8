------------------------ MODULE TwoPhaseCoordinator ------------------------
(***************************************************************************)
(* The asynchronous two-phase-commit coordinator of reinhardt-db,          *)
(* orm/two_phase_commit/core.rs, with the PostgreSQL and MySQL participant *)
(* adapters it drives and the transaction log it writes.                   *)
(*                                                                         *)
(* One coordinator runs one transaction.  Its operations take &mut self,   *)
(* so they never overlap; each is a sequence of awaits, one per            *)
(* participant, in the order of registration.  Between and during those    *)
(* awaits a database call may fail, with or without having taken effect,   *)
(* the caller may drop the future, and a database may abort a branch.      *)
(*                                                                         *)
(* An operator named Mut... is a plausible bug in the operator it precedes;*)
(* no specification uses it.                                               *)
(***************************************************************************)
EXTENDS Naturals, Sequences

CONSTANTS
    Participants,  \* the databases that may enlist
    Adapter,       \* which adapter drives a participant: "mysql" or "postgres"
    XidIsId,       \* the participants whose id equals the transaction id
    WithLog,       \* built by with_log (TRUE) or by new (FALSE)
    Faults         \* the kinds of fault the environment may produce

FaultKinds == {"call", "cancel", "db", "log", "tear"}

\* Ids are unique within a coordinator (add_participant), so at most one of
\* them is the transaction's own.
ASSUME CoordinatorAssumption ==
    /\ Adapter \in [Participants -> {"mysql", "postgres"}]
    /\ XidIsId \subseteq Participants
    /\ \A p, q \in XidIsId : p = q
    /\ WithLog \in BOOLEAN
    /\ Faults \subseteq FaultKinds

VARIABLES
    parts,     \* registered participants, in order
    state,     \* TransactionState
    status,    \* ParticipantStatus of each participant
    op,        \* the operation in progress, "idle" when none is
    next,      \* position in parts of the participant served next
    failures,  \* failed_participants of the operation
    session,   \* the session an adapter finds when it is called
    misfiled,  \* participants whose session was stored under another key
    branch,    \* the database's side of each participant's transaction
    log        \* the transaction's entry in the log

coordinator == <<parts, state, status, op, next, failures>>
adapters    == <<session, misfiled>>
vars        == <<coordinator, adapters, branch, log>>

TransactionState == {"NotStarted", "Active", "Preparing", "Prepared",
                     "Committing", "Committed", "Aborting", "Aborted"}
ParticipantStatus == {"Active", "Prepared", "Committed", "Aborted"}
Operations == {"idle", "begin", "prepare", "commit", "rollback", "undo"}
Sessions   == {"none", "started", "prepared"}
Branches   == {"none", "active", "prepared", "committed", "rolledback"}

Enlisted == {parts[i] : i \in 1..Len(parts)}

\* The log.  A torn entry is a file std::fs::write truncated and did not fill:
\* reading it is a deserialization error.
NoEntry      == [state |-> "none", ids |-> {}]
TornEntry    == [state |-> "torn", ids |-> {}]
Entry(s, ps) == [state |-> s, ids |-> ps]
Entries == [state : TransactionState \cup {"none", "torn"}, ids : SUBSET Participants]

TypeOK ==
    /\ parts \in Seq(Participants)
    /\ state \in TransactionState
    /\ status \in [Participants -> ParticipantStatus]
    /\ op \in Operations
    /\ next \in Nat \ {0}
    /\ failures \in SUBSET Participants
    /\ session \in [Participants -> Sessions]
    /\ misfiled \in SUBSET Participants
    /\ branch \in [Participants -> Branches]
    /\ log \in Entries

Init ==
    /\ parts = <<>>
    /\ state = "NotStarted"
    /\ status = [p \in Participants |-> "Active"]
    /\ op = "idle"
    /\ next = 1
    /\ failures = {}
    /\ session = [p \in Participants |-> "none"]
    /\ misfiled = {}
    /\ branch = [p \in Participants |-> "none"]
    /\ log = NoEntry

-----------------------------------------------------------------------------
(* What a call to a participant can do.  ...Ok(p) is the set of branch      *)
(* states a successful call leaves, ...Err(p) the set a failed one leaves:  *)
(* a call that finds no usable session fails without touching the database, *)
(* one that reaches the database may fail before or after it took effect.   *)

\* The PostgreSQL adapter stores its session under its own id and looks it up
\* under the transaction id; the MySQL adapter has a single slot.
Filed(p) == Adapter[p] = "mysql" \/ p \in XidIsId

Fails(outcomes) == IF "call" \in Faults THEN outcomes ELSE {}

BeginOk(p)  == {"active"}
BeginErr(p) == Fails({"none", "active"})

\* MySQL issues XA END and XA PREPARE, PostgreSQL PREPARE TRANSACTION.
Preparable(p) == session[p] = "started" /\ branch[p] = "active"
PrepareOk(p)  == IF Preparable(p) THEN {"prepared"} ELSE {}
PrepareErr(p) == IF Preparable(p) THEN Fails({"active", "prepared", "rolledback"})
                                  ELSE {branch[p]}

Committable(p) == session[p] = "prepared" /\ branch[p] = "prepared"
CommitOk(p)    == IF Committable(p) THEN {"committed"} ELSE {}
CommitErr(p)   == IF Committable(p) THEN Fails({"prepared", "committed"})
                                    ELSE {branch[p]}

\* PostgreSQL always issues ROLLBACK PREPARED, which fails on a session that
\* has only begun; MySQL has a rollback for each kind of session.
Revocable(p) ==
    \/ session[p] = "prepared" /\ branch[p] = "prepared"
    \/ session[p] = "started" /\ branch[p] = "active" /\ Adapter[p] = "mysql"
MutRollbackOk(p) == IF session[p] = "none" \/ Revocable(p) THEN {"rolledback", branch[p]} ELSE {}
RollbackOk(p)  == IF Revocable(p) THEN {"rolledback"} ELSE {}
RollbackErr(p) == IF Revocable(p) THEN Fails({branch[p], "rolledback"})
                                  ELSE {branch[p]}

\* Every failed call has already taken the session out of its slot, and so has
\* a commit or a rollback that succeeds.
MutSetSession(p, s) == session' = IF s = "none" THEN session ELSE [session EXCEPT ![p] = s]
SetSession(p, s) == session' = [session EXCEPT ![p] = s]
SetBranch(p, bs) == \E b \in bs : branch' = [branch EXCEPT ![p] = b]
SetStatus(p, s)  == status' = [status EXCEPT ![p] = s]

\* log_state: the entry replaces the previous one; a failed write leaves it, or
\* a truncated file.
Written(s) == IF WithLog THEN Entry(s, Enlisted) ELSE log
WriteErr ==
    IF ~WithLog THEN {}
    ELSE (IF "log" \in Faults THEN {log} ELSE {})
         \cup (IF "tear" \in Faults THEN {TornEntry} ELSE {})
\* log.delete, whose error is ignored, after the final state was written.
Deleted(s) == IF ~WithLog THEN {log}
              ELSE {NoEntry} \cup (IF "log" \in Faults THEN {Written(s)} ELSE {})

-----------------------------------------------------------------------------
(* The coordinator's operations.                                           *)

\* An operation called in a state it does not accept returns InvalidState and
\* changes nothing; so does registering an id twice.
AddParticipant(p) ==
    /\ op = "idle"
    /\ p \notin Enlisted
    /\ parts' = Append(parts, p)
    /\ UNCHANGED <<state, status, op, next, failures, adapters, branch, log>>

Enter(o, s) ==
    /\ op' = o
    /\ state' = s
    /\ next' = 1
    /\ failures' = {}

Leave(s) ==
    /\ op' = "idle"
    /\ state' = s
    /\ UNCHANGED <<parts, status, next, failures, adapters, branch>>

\* The participant being served while an operation is under way.
Serving(o, p) == op = o /\ next <= Len(parts) /\ p = parts[next]
Finished(o)   == op = o /\ next > Len(parts)
MutAdvance    == UNCHANGED next
Advance       == next' = next + 1

Begin ==
    /\ op = "idle" /\ state = "NotStarted"
    /\ log' = Written("Active")
    /\ Enter("begin", "Active")
    /\ UNCHANGED <<parts, status, adapters, branch>>

\* begin returns before it has begun any participant.
BeginUnlogged ==
    /\ op = "idle" /\ state = "NotStarted"
    /\ log' \in WriteErr
    /\ Leave("Active")

BeginOne(p) ==
    /\ Serving("begin", p)
    /\ \/ /\ SetBranch(p, BeginOk(p))
          /\ IF Filed(p) THEN SetSession(p, "started") /\ UNCHANGED misfiled
                         ELSE misfiled' = misfiled \cup {p} /\ UNCHANGED session
          /\ Advance
          /\ UNCHANGED op
       \/ /\ SetBranch(p, BeginErr(p))
          /\ op' = "idle"
          /\ UNCHANGED <<next, adapters>>
    /\ UNCHANGED <<parts, state, status, failures, log>>

BeginDone ==
    /\ Finished("begin")
    /\ Leave(state)
    /\ UNCHANGED log

MutPrepare ==
    /\ op = "idle" /\ state = "Active" /\ parts # <<>>
    /\ Enter("prepare", "Preparing")
    /\ log' = Written("Prepared")
    /\ UNCHANGED <<parts, status, adapters, branch>>

\* Without participants the error leaves the coordinator in Preparing.
Prepare ==
    /\ op = "idle" /\ state = "Active"
    /\ IF parts = <<>>
       THEN state' = "Preparing" /\ UNCHANGED <<op, next, failures>>
       ELSE Enter("prepare", "Preparing")
    /\ UNCHANGED <<parts, status, adapters, branch, log>>

\* The first failure enters rollback, over every participant, in state Aborting.
PrepareOne(p) ==
    /\ Serving("prepare", p)
    /\ \/ /\ SetBranch(p, PrepareOk(p))
          /\ SetSession(p, "prepared")
          /\ SetStatus(p, "Prepared")
          /\ Advance
          /\ UNCHANGED <<state, op, failures>>
       \/ /\ SetBranch(p, PrepareErr(p))
          /\ SetSession(p, "none")
          /\ Enter("undo", "Aborting")
          /\ UNCHANGED status
    /\ UNCHANGED <<parts, misfiled, log>>

MutPrepareDone == Finished("prepare") /\ Leave("Prepared") /\ UNCHANGED log

\* The state is Prepared even when the entry could not be written.
PrepareDone ==
    /\ Finished("prepare")
    /\ log' \in {Written("Prepared")} \cup WriteErr
    /\ Leave("Prepared")

Commit ==
    /\ op = "idle" /\ state = "Prepared"
    /\ Enter("commit", "Committing")
    /\ UNCHANGED <<parts, status, adapters, branch, log>>

CommitOne(p) ==
    /\ Serving("commit", p)
    /\ \/ /\ SetBranch(p, CommitOk(p))
          /\ SetStatus(p, "Committed")
          /\ UNCHANGED failures
       \/ /\ SetBranch(p, CommitErr(p))
          /\ failures' = failures \cup {p}
          /\ UNCHANGED status
    /\ SetSession(p, "none")
    /\ Advance
    /\ UNCHANGED <<parts, state, op, misfiled, log>>

MutCommitDone ==
    /\ Finished("commit")
    /\ log' \in Deleted("Committed") \cup WriteErr
    /\ Leave("Committed")

CommitDone ==
    /\ Finished("commit")
    /\ IF failures # {}
       THEN UNCHANGED log /\ Leave("Prepared")
       ELSE log' \in Deleted("Committed") \cup WriteErr /\ Leave("Committed")

Rollback ==
    /\ op = "idle" /\ state \in {"Active", "Prepared", "Preparing"}
    /\ Enter("rollback", "Aborting")
    /\ UNCHANGED <<parts, status, adapters, branch, log>>

MutRollbackOne(p) ==
    /\ Serving("rollback", p) \/ Serving("undo", p)
    /\ SetBranch(p, RollbackOk(p) \cup RollbackErr(p))
    /\ SetStatus(p, "Aborted")
    /\ SetSession(p, "none")
    /\ Advance
    /\ UNCHANGED <<parts, state, op, failures, misfiled, log>>

\* "rollback" was called by the application, "undo" by a failed prepare.
RollbackOne(p) ==
    /\ Serving("rollback", p) \/ Serving("undo", p)
    /\ \/ /\ SetBranch(p, RollbackOk(p))
          /\ SetStatus(p, "Aborted")
          /\ UNCHANGED failures
       \/ /\ SetBranch(p, RollbackErr(p))
          /\ failures' = failures \cup {p}
          /\ UNCHANGED status
    /\ SetSession(p, "none")
    /\ Advance
    /\ UNCHANGED <<parts, state, op, misfiled, log>>

MutRollbackDone ==
    /\ Finished("rollback") \/ Finished("undo")
    /\ log' \in Deleted("Aborted")
    /\ Leave(IF failures # {} THEN "Aborting" ELSE "Aborted")

RollbackDone ==
    /\ Finished("rollback") \/ Finished("undo")
    /\ IF failures # {}
       THEN UNCHANGED log /\ Leave("Aborting")
       ELSE log' \in Deleted("Aborted") \cup WriteErr /\ Leave("Aborted")
-----------------------------------------------------------------------------
(* The environment.                                                        *)

CallEffects(p) ==
    CASE op = "begin"              -> BeginOk(p) \cup BeginErr(p) \cup {branch[p]}
      [] op = "prepare"            -> PrepareOk(p) \cup PrepareErr(p) \cup {branch[p]}
      [] op = "commit"             -> CommitOk(p) \cup CommitErr(p) \cup {branch[p]}
      [] op \in {"rollback", "undo"} -> RollbackOk(p) \cup RollbackErr(p) \cup {branch[p]}

\* The caller drops the future of the operation while it awaits participant p:
\* a session taken from its slot is gone, the state stays as it is.
Cancel(p) ==
    /\ "cancel" \in Faults
    /\ op # "idle" /\ next <= Len(parts) /\ p = parts[next]
    /\ SetBranch(p, CallEffects(p))
    /\ IF op = "begin" THEN UNCHANGED session ELSE SetSession(p, "none")
    /\ op' = "idle"
    /\ UNCHANGED <<parts, state, status, next, failures, misfiled, log>>

\* A database ends a branch that is not prepared when its connection breaks.
DbAborts(p) ==
    /\ "db" \in Faults
    /\ branch[p] = "active"
    /\ branch' = [branch EXCEPT ![p] = "rolledback"]
    /\ UNCHANGED <<coordinator, adapters, log>>
-----------------------------------------------------------------------------
\* The rest of an operation once it is called: what the runtime drives on.
Continue ==
    \/ \E p \in Participants : BeginOne(p) \/ PrepareOne(p) \/ CommitOne(p) \/ RollbackOne(p)
    \/ BeginDone \/ PrepareDone \/ CommitDone \/ RollbackDone

Caller ==
    \/ \E p \in Participants : AddParticipant(p)
    \/ Begin \/ BeginUnlogged \/ Prepare \/ Commit \/ Rollback

Environment == \E p \in Participants : Cancel(p) \/ DbAborts(p)

Next == Caller \/ Continue \/ Environment

Spec == Init /\ [][Next]_vars

\* tokio polls a future that can make progress: an operation in progress goes on.
FairSpec == Spec /\ WF_vars(Continue)
-----------------------------------------------------------------------------
(* Properties of the coordinator's own steps.                              *)

\* How a branch looks to the abstract transaction.
OutcomeOf(b) == CASE b = "none"       -> "idle"
                  [] b = "active"     -> "working"
                  [] b = "prepared"   -> "prepared"
                  [] b = "committed"  -> "committed"
                  [] b = "rolledback" -> "aborted"

AC == INSTANCE AtomicCommit WITH outcome <- [p \in Participants |-> OutcomeOf(branch[p])]

\* Whatever fails, and whatever is called afterwards, the coordinator never
\* leaves one database committed and another rolled back: once one branch is
\* committed no session is left through which it could roll back another.
AllOrNothing ==
    \A p, q \in Participants : ~(branch[p] = "committed" /\ branch[q] = "rolledback")

\* Each step of the coordinator is a step of the atomic transaction, or none.
ImplementsAtomicCommit == AC!Spec

\* commit() reports success only when every participant registered by then is
\* committed, whichever failed earlier or joined late.
CommittedIsWhole ==
    [][state' = "Committed" /\ state # "Committed"
         => \A p \in Enlisted : branch[p] = "committed"]_vars

\* Likewise rollback(), alone or within prepare(): Aborted means every branch
\* was begun and is rolled back.
AbortedIsWhole ==
    [][state' = "Aborted" /\ state # "Aborted"
         => \A p \in Enlisted : branch[p] = "rolledback"]_vars

\* A branch in doubt (prepared and undecided) is listed by an entry that recovery
\* can read, even after calls that failed, were dropped or could not be logged,
\* unless a write cut short has destroyed the entry.
InDoubtIsLogged ==
    WithLog /\ log # TornEntry => \A p \in Participants :
        branch[p] = "prepared" => log.state \in {"Active", "Prepared"} /\ p \in log.ids

\* An entry still Active means that no database has committed, so recovery may
\* abort the transaction.
PresumedAbort ==
    log.state = "Active" => \A p \in Participants : branch[p] # "committed"

\* An entry in Prepared means that every participant it lists has voted, unless it
\* joined after begin(): no branch is still open.
PreparedEntryHasVotes ==
    log.state = "Prepared" => \A p \in log.ids : branch[p] # "active"

\* What an entry says of the branches, which is all recovery has to go by.
EntriesAreTrue == PresumedAbort /\ PreparedEntryHasVotes

\* A participant's status never claims more than its database has done.
StatusIsTruthful ==
    \A p \in Participants :
        /\ status[p] = "Committed" => branch[p] = "committed"
        /\ status[p] = "Aborted" => branch[p] = "rolledback"
        /\ status[p] = "Prepared" => branch[p] \in {"prepared", "committed", "rolledback"}

\* What the coordinator shows its caller and what it leaves to recovery are true
\* of the databases: no status claims what a database has not done, and no
\* branch in doubt is missing from the log.
AccountsAreTrue == StatusIsTruthful /\ InDoubtIsLogged

\* A transaction that ended pins no connection of any pool.
EndedHoldsNoSession ==
    state \in {"Committed", "Aborted"} /\ op = "idle" =>
        misfiled = {} /\ \A p \in Participants : session[p] = "none"

\* An operation once called returns to its caller.
OperationsReturn == op # "idle" ~> op = "idle"

-----------------------------------------------------------------------------
(* The inductive invariant behind AllOrNothing and the two action properties. *)

Remaining == {parts[i] : i \in next..Len(parts)}

SomeCommitted == \E p \in Participants : branch[p] = "committed"

\* Each operation runs in one state, and no id is registered twice.
Control ==
    /\ op = "begin" => state = "Active"
    /\ op = "prepare" => state = "Preparing"
    /\ op = "commit" => state = "Committing"
    /\ op \in {"rollback", "undo"} => state = "Aborting"
    /\ \A i, j \in 1..Len(parts) : parts[i] = parts[j] => i = j

\* A session in a slot stands for a branch the database still has, and a database
\* that was not registered has neither.
Attached ==
    \A p \in Participants :
        /\ session[p] = "prepared" => branch[p] = "prepared"
        /\ session[p] = "started" => branch[p] \in {"active", "rolledback"}
        /\ p \notin Enlisted => session[p] = "none" /\ branch[p] = "none"

\* How far the branches may be in each state, and in the middle of a loop.
Progress ==
    /\ state = "NotStarted" => \A p \in Participants : branch[p] = "none"
    /\ state \in {"Active", "Preparing"} => ~SomeCommitted
    /\ state \in {"Prepared", "Committing"} =>
          \A p \in Participants : branch[p] \in {"none", "prepared", "committed"}
    /\ op = "begin" => \A p \in Remaining : branch[p] = "none"
    /\ op = "prepare" => \A p \in Enlisted \ Remaining : branch[p] = "prepared"
    /\ op = "commit" /\ failures = {} => \A p \in Enlisted \ Remaining : branch[p] = "committed"
    /\ op \in {"rollback", "undo"} /\ failures = {} =>
          \A p \in Enlisted \ Remaining : branch[p] = "rolledback"

\* After the first commit no branch is open, and a session is left only in a
\* commit under way or dropped, which rollback() refuses to follow.
PointOfNoReturn ==
    /\ op = "commit" => \A p \in Participants : session[p] # "none" => p \in Remaining
    /\ SomeCommitted => \A p \in Participants :
          /\ branch[p] \in {"none", "prepared", "committed"}
          /\ session[p] # "none" => state = "Committing"

\* The conjunction is preserved by every step of the coordinator.
IInv == TypeOK /\ Control /\ Attached /\ Progress /\ PointOfNoReturn
=============================================================================
