--------------------- MODULE TwoPhaseCoordinatorProofs ---------------------
(***************************************************************************)
(* What the coordinator guarantees for any number of databases, any mix of *)
(* adapters and any faults: IInv is inductive, and all-or-nothing, the two *)
(* action properties and the implementation of AtomicCommit follow from it.*)
(* With it go what the coordinator tells its caller and leaves to recovery,*)
(* and a recovery that agrees with how the transaction was run.            *)
(***************************************************************************)
EXTENDS TwoPhaseRecovery, TLAPS

LEMMA TypeInit == Init => TypeOK
<1> SUFFICES ASSUME Init PROVE TypeOK
  OBVIOUS
<1>1. log \in Entries
  BY DEF Init, Entries, NoEntry
<1> QED
  BY <1>1 DEF Init, TypeOK, TransactionState, ParticipantStatus, Operations, Sessions, Branches

LEMMA TypeStep == TypeOK /\ [Next]_vars => TypeOK'
<1> SUFFICES ASSUME TypeOK, [Next]_vars PROVE TypeOK'
  OBVIOUS
<1> USE CoordinatorAssumption
    DEF TypeOK, TransactionState, ParticipantStatus, Operations, Sessions, Branches
<1>0. Enlisted \in SUBSET Participants
  BY DEF Enlisted
<1>w. /\ \A s \in TransactionState : Written(s) \in Entries
      /\ WriteErr \subseteq Entries
      /\ \A s \in TransactionState : Deleted(s) \subseteq Entries
  BY <1>0 DEF Written, Entry, Entries, WriteErr, TornEntry, NoEntry, Deleted
<1>1. ASSUME NEW p \in Participants, AddParticipant(p) PROVE TypeOK'
  BY <1>1 DEF AddParticipant, adapters
<1>2. CASE Begin
  BY <1>2, <1>w DEF Begin, Enter, adapters
<1>3. CASE BeginUnlogged
  BY <1>3, <1>w DEF BeginUnlogged, Leave, adapters
<1>4. ASSUME NEW p \in Participants, BeginOne(p) PROVE TypeOK'
  BY <1>4 DEF BeginOne, Serving, SetBranch, SetSession, BeginOk, BeginErr, Fails, Advance,
              adapters
<1>5. CASE BeginDone
  BY <1>5 DEF BeginDone, Leave, adapters
<1>6. CASE Prepare
  BY <1>6 DEF Prepare, Enter, adapters
<1>7. ASSUME NEW p \in Participants, PrepareOne(p) PROVE TypeOK'
  BY <1>7 DEF PrepareOne, Serving, SetBranch, SetSession, SetStatus, PrepareOk, PrepareErr,
              Fails, Advance, Enter
<1>8. CASE PrepareDone
  BY <1>8, <1>w DEF PrepareDone, Leave, adapters
<1>9. CASE Commit
  BY <1>9 DEF Commit, Enter, adapters
<1>10. ASSUME NEW p \in Participants, CommitOne(p) PROVE TypeOK'
  BY <1>10 DEF CommitOne, Serving, SetBranch, SetSession, SetStatus, CommitOk, CommitErr,
               Fails, Advance
<1>11. CASE CommitDone
  BY <1>11, <1>w DEF CommitDone, Leave, adapters
<1>12. CASE Rollback
  BY <1>12 DEF Rollback, Enter, adapters
<1>13. ASSUME NEW p \in Participants, RollbackOne(p) PROVE TypeOK'
  BY <1>13 DEF RollbackOne, Serving, SetBranch, SetSession, SetStatus, RollbackOk,
               RollbackErr, Fails, Advance
<1>14. CASE RollbackDone
  BY <1>14, <1>w DEF RollbackDone, Leave, adapters
<1>15. ASSUME NEW p \in Participants, Cancel(p) PROVE TypeOK'
  <2>1. CallEffects(p) \subseteq Branches
    BY <1>15 DEF Cancel, CallEffects, BeginOk, BeginErr, PrepareOk, PrepareErr, CommitOk,
                 CommitErr, RollbackOk, RollbackErr, Fails
  <2> QED
    BY <1>15, <2>1 DEF Cancel, SetBranch, SetSession
<1>16. ASSUME NEW p \in Participants, DbAborts(p) PROVE TypeOK'
  BY <1>16 DEF DbAborts, coordinator, adapters
<1>17. CASE UNCHANGED vars
  BY <1>17 DEF vars, coordinator, adapters
<1> QED
  BY <1>1, <1>2, <1>3, <1>4, <1>5, <1>6, <1>7, <1>8, <1>9, <1>10, <1>11, <1>12, <1>13,
     <1>14, <1>15, <1>16, <1>17 DEF Next, Caller, Continue, Environment

\* Type correctness: the model's variables keep the types of the coordinator's fields.
THEOREM TypeCorrect == Spec => []TypeOK
BY TypeInit, TypeStep, PTL DEF Spec


-----------------------------------------------------------------------------
(* The inductive invariant.                                                *)

\* While a participant is served, what is left is that participant and what is
\* left after it.
LEMMA Serve ==
    ASSUME TypeOK, Control, NEW p, next <= Len(parts), p = parts[next], parts' = parts
    PROVE  /\ p \in Remaining /\ Remaining \subseteq Enlisted
           /\ Enlisted' = Enlisted
           /\ next' = next + 1 => Remaining' = Remaining \ {p}
<1>1. p \in Remaining /\ Remaining \subseteq Enlisted /\ Enlisted' = Enlisted
  BY DEF TypeOK, Remaining, Enlisted
<1>2. ASSUME next' = next + 1 PROVE Remaining \ {p} \subseteq Remaining' /\ Remaining' \subseteq Remaining
  BY <1>2 DEF TypeOK, Remaining
<1>3. ASSUME next' = next + 1 PROVE p \notin Remaining'
  BY <1>3 DEF TypeOK, Remaining, Control
<1> QED
  BY <1>1, <1>2, <1>3

\* An operation called anew has every registered participant to serve; one with
\* no position left has none.
LEMMA Bounds ==
    ASSUME TypeOK, parts' = parts
    PROVE  /\ Enlisted' = Enlisted /\ Enlisted \subseteq Participants
           /\ next' = 1 => Remaining' = Enlisted
           /\ next > Len(parts) => Remaining = {}
BY DEF TypeOK, Remaining, Enlisted

LEMMA IInvInit == Init => IInv
BY TypeInit DEF Init, IInv, Control, Attached, Progress, PointOfNoReturn, Remaining, Enlisted,
                SomeCommitted

LEMMA IInvStep == IInv /\ [Next]_vars => IInv'
<1> SUFFICES ASSUME IInv, [Next]_vars PROVE IInv'
  OBVIOUS
<1>0. TypeOK /\ TypeOK' /\ Control
  BY TypeStep DEF IInv
<1> USE DEF IInv, Attached, Progress, PointOfNoReturn, SomeCommitted
<1>1. ASSUME NEW p \in Participants, AddParticipant(p) PROVE IInv'
  <2>1. Enlisted' = Enlisted \cup {p}
    BY <1>0, <1>1 DEF AddParticipant, Enlisted, TypeOK
  <2>2. Control'
    BY <1>0, <1>1 DEF AddParticipant, Control, Enlisted, TypeOK
  <2> QED
    BY <1>0, <1>1, <2>1, <2>2 DEF AddParticipant, adapters
<1>2. CASE Begin
  <2>0. /\ Enlisted' = Enlisted /\ Enlisted \subseteq Participants /\ parts' = parts
        /\ next' = 1 => Remaining' = Enlisted
        /\ next > Len(parts) => Remaining = {}
    BY <1>0, <1>2, Bounds DEF Begin, Enter
  <2>1. Control'
    BY <1>0, <1>2, <2>0 DEF Control, Begin, Enter, adapters, TypeOK
  <2>2. Attached'
    BY <1>0, <1>2, <2>0 DEF Control, Begin, Enter, adapters, TypeOK
  <2>3. Progress'
    BY <1>0, <1>2, <2>0 DEF Control, Begin, Enter, adapters, TypeOK
  <2>4. PointOfNoReturn'
    BY <1>0, <1>2, <2>0 DEF Control, Begin, Enter, adapters, TypeOK
  <2> QED
    BY <1>0, <2>1, <2>2, <2>3, <2>4
<1>3. CASE BeginUnlogged
  <2>0. /\ Enlisted' = Enlisted /\ Enlisted \subseteq Participants /\ parts' = parts
        /\ next' = 1 => Remaining' = Enlisted
        /\ next > Len(parts) => Remaining = {}
    BY <1>0, <1>3, Bounds DEF BeginUnlogged, Leave
  <2>1. Control'
    BY <1>0, <1>3, <2>0 DEF Control, BeginUnlogged, Leave, adapters, TypeOK
  <2>2. Attached'
    BY <1>0, <1>3, <2>0 DEF Control, BeginUnlogged, Leave, adapters, TypeOK
  <2>3. Progress'
    BY <1>0, <1>3, <2>0 DEF Control, BeginUnlogged, Leave, adapters, TypeOK
  <2>4. PointOfNoReturn'
    BY <1>0, <1>3, <2>0 DEF Control, BeginUnlogged, Leave, adapters, TypeOK
  <2> QED
    BY <1>0, <2>1, <2>2, <2>3, <2>4
<1>4. ASSUME NEW p \in Participants, BeginOne(p) PROVE IInv'
  <2>0. /\ p \in Remaining /\ Remaining \subseteq Enlisted /\ Enlisted' = Enlisted
        /\ Enlisted \subseteq Participants
        /\ next' = next + 1 => Remaining' = Remaining \ {p}
        /\ next' = 1 => Remaining' = Enlisted
        /\ parts' = parts
    BY <1>0, <1>4, Serve, Bounds DEF BeginOne, Serving
  <2>1. Control'
    BY <1>0, <1>4, <2>0 DEF Control, BeginOne, Serving, SetBranch, SetSession, BeginOk, BeginErr, Fails, Advance, adapters, TypeOK
  <2>2. Attached'
    BY <1>0, <1>4, <2>0 DEF Control, BeginOne, Serving, SetBranch, SetSession, BeginOk, BeginErr, Fails, Advance, adapters, TypeOK
  <2>3. Progress'
    BY <1>0, <1>4, <2>0 DEF Control, BeginOne, Serving, SetBranch, SetSession, BeginOk, BeginErr, Fails, Advance, adapters, TypeOK
  <2>4. PointOfNoReturn'
    BY <1>0, <1>4, <2>0 DEF Control, BeginOne, Serving, SetBranch, SetSession, BeginOk, BeginErr, Fails, Advance, adapters, TypeOK
  <2> QED
    BY <1>0, <2>1, <2>2, <2>3, <2>4
<1>5. CASE BeginDone
  <2>0. /\ Enlisted' = Enlisted /\ Enlisted \subseteq Participants /\ parts' = parts
        /\ next' = 1 => Remaining' = Enlisted
        /\ next > Len(parts) => Remaining = {}
    BY <1>0, <1>5, Bounds DEF BeginDone, Leave
  <2>1. Control'
    BY <1>0, <1>5, <2>0 DEF Control, BeginDone, Leave, adapters, TypeOK
  <2>2. Attached'
    BY <1>0, <1>5, <2>0 DEF Control, BeginDone, Leave, adapters, TypeOK
  <2>3. Progress'
    BY <1>0, <1>5, <2>0 DEF Control, BeginDone, Leave, adapters, TypeOK
  <2>4. PointOfNoReturn'
    BY <1>0, <1>5, <2>0 DEF Control, BeginDone, Leave, adapters, TypeOK
  <2> QED
    BY <1>0, <2>1, <2>2, <2>3, <2>4
<1>6. CASE Prepare
  <2>0. /\ Enlisted' = Enlisted /\ Enlisted \subseteq Participants /\ parts' = parts
        /\ next' = 1 => Remaining' = Enlisted
        /\ next > Len(parts) => Remaining = {}
    BY <1>0, <1>6, Bounds DEF Prepare, Enter
  <2>1. Control'
    BY <1>0, <1>6, <2>0 DEF Control, Prepare, Enter, adapters, TypeOK
  <2>2. Attached'
    BY <1>0, <1>6, <2>0 DEF Control, Prepare, Enter, adapters, TypeOK
  <2>3. Progress'
    BY <1>0, <1>6, <2>0 DEF Control, Prepare, Enter, adapters, TypeOK
  <2>4. PointOfNoReturn'
    BY <1>0, <1>6, <2>0 DEF Control, Prepare, Enter, adapters, TypeOK
  <2> QED
    BY <1>0, <2>1, <2>2, <2>3, <2>4
<1>7. ASSUME NEW p \in Participants, PrepareOne(p) PROVE IInv'
  <2>0. /\ p \in Remaining /\ Remaining \subseteq Enlisted /\ Enlisted' = Enlisted
        /\ Enlisted \subseteq Participants
        /\ next' = next + 1 => Remaining' = Remaining \ {p}
        /\ next' = 1 => Remaining' = Enlisted
        /\ parts' = parts
    BY <1>0, <1>7, Serve, Bounds DEF PrepareOne, Serving
  <2>1. Control'
    BY <1>0, <1>7, <2>0 DEF Control, PrepareOne, Serving, SetBranch, SetSession, SetStatus, PrepareOk, PrepareErr, Preparable, Fails, Advance, Enter, TypeOK
  <2>2. Attached'
    BY <1>0, <1>7, <2>0 DEF Control, PrepareOne, Serving, SetBranch, SetSession, SetStatus, PrepareOk, PrepareErr, Preparable, Fails, Advance, Enter, TypeOK
  <2>3. Progress'
    BY <1>0, <1>7, <2>0 DEF Control, PrepareOne, Serving, SetBranch, SetSession, SetStatus, PrepareOk, PrepareErr, Preparable, Fails, Advance, Enter, TypeOK
  <2>4. PointOfNoReturn'
    BY <1>0, <1>7, <2>0 DEF Control, PrepareOne, Serving, SetBranch, SetSession, SetStatus, PrepareOk, PrepareErr, Preparable, Fails, Advance, Enter, TypeOK
  <2> QED
    BY <1>0, <2>1, <2>2, <2>3, <2>4
<1>8. CASE PrepareDone
  <2>0. /\ Enlisted' = Enlisted /\ Enlisted \subseteq Participants /\ parts' = parts
        /\ next' = 1 => Remaining' = Enlisted
        /\ next > Len(parts) => Remaining = {}
    BY <1>0, <1>8, Bounds DEF PrepareDone, Leave
  <2>1. Control'
    BY <1>0, <1>8, <2>0 DEF Control, PrepareDone, Finished, Leave, adapters, TypeOK
  <2>2. Attached'
    BY <1>0, <1>8, <2>0 DEF Control, PrepareDone, Finished, Leave, adapters, TypeOK
  <2>3. Progress'
    BY <1>0, <1>8, <2>0 DEF Control, PrepareDone, Finished, Leave, adapters, TypeOK
  <2>4. PointOfNoReturn'
    BY <1>0, <1>8, <2>0 DEF Control, PrepareDone, Finished, Leave, adapters, TypeOK
  <2> QED
    BY <1>0, <2>1, <2>2, <2>3, <2>4
<1>9. CASE Commit
  <2>0. /\ Enlisted' = Enlisted /\ Enlisted \subseteq Participants /\ parts' = parts
        /\ next' = 1 => Remaining' = Enlisted
        /\ next > Len(parts) => Remaining = {}
    BY <1>0, <1>9, Bounds DEF Commit, Enter
  <2>1. Control'
    BY <1>0, <1>9, <2>0 DEF Control, Commit, Enter, adapters, TypeOK
  <2>2. Attached'
    BY <1>0, <1>9, <2>0 DEF Control, Commit, Enter, adapters, TypeOK
  <2>3. Progress'
    BY <1>0, <1>9, <2>0 DEF Control, Commit, Enter, adapters, TypeOK
  <2>4. PointOfNoReturn'
    BY <1>0, <1>9, <2>0 DEF Control, Commit, Enter, adapters, TypeOK
  <2> QED
    BY <1>0, <2>1, <2>2, <2>3, <2>4
<1>10. ASSUME NEW p \in Participants, CommitOne(p) PROVE IInv'
  <2>0. /\ p \in Remaining /\ Remaining \subseteq Enlisted /\ Enlisted' = Enlisted
        /\ Enlisted \subseteq Participants
        /\ next' = next + 1 => Remaining' = Remaining \ {p}
        /\ next' = 1 => Remaining' = Enlisted
        /\ parts' = parts
    BY <1>0, <1>10, Serve, Bounds DEF CommitOne, Serving
  <2>1. Control'
    BY <1>0, <1>10, <2>0 DEF Control, CommitOne, Serving, SetBranch, SetSession, SetStatus, CommitOk, CommitErr, Committable, Fails, Advance, TypeOK
  <2>2. Attached'
    BY <1>0, <1>10, <2>0 DEF Control, CommitOne, Serving, SetBranch, SetSession, SetStatus, CommitOk, CommitErr, Committable, Fails, Advance, TypeOK
  <2>3. Progress'
    <3>1. CASE SetBranch(p, CommitOk(p)) /\ UNCHANGED failures
      BY <1>0, <1>10, <2>0, <3>1 DEF Control, CommitOne, Serving, SetBranch, CommitOk, Committable, Advance, TypeOK
    <3>2. CASE SetBranch(p, CommitErr(p)) /\ failures' = failures \cup {p}
      <4>1. failures' # {}
        BY <3>2
      <4> QED
        BY <1>0, <1>10, <2>0, <3>2, <4>1 DEF Control, CommitOne, Serving, SetBranch, CommitErr, Committable, Fails,
           Advance, TypeOK
    <3> QED
      BY <1>10, <3>1, <3>2 DEF CommitOne
  <2>4. PointOfNoReturn'
    BY <1>0, <1>10, <2>0 DEF Control, CommitOne, Serving, SetBranch, SetSession, SetStatus, CommitOk, CommitErr, Committable, Fails, Advance, TypeOK
  <2> QED
    BY <1>0, <2>1, <2>2, <2>3, <2>4
<1>11. CASE CommitDone
  <2>0. /\ Enlisted' = Enlisted /\ Enlisted \subseteq Participants /\ parts' = parts
        /\ next' = 1 => Remaining' = Enlisted
        /\ next > Len(parts) => Remaining = {}
    BY <1>0, <1>11, Bounds DEF CommitDone, Leave
  <2>1. Control'
    BY <1>0, <1>11, <2>0 DEF Control, CommitDone, Finished, Leave, adapters, TypeOK
  <2>2. Attached'
    BY <1>0, <1>11, <2>0 DEF Control, CommitDone, Finished, Leave, adapters, TypeOK
  <2>3. Progress'
    BY <1>0, <1>11, <2>0 DEF Control, CommitDone, Finished, Leave, adapters, TypeOK
  <2>4. PointOfNoReturn'
    BY <1>0, <1>11, <2>0 DEF Control, CommitDone, Finished, Leave, adapters, TypeOK
  <2> QED
    BY <1>0, <2>1, <2>2, <2>3, <2>4
<1>12. CASE Rollback
  <2>0. /\ Enlisted' = Enlisted /\ Enlisted \subseteq Participants /\ parts' = parts
        /\ next' = 1 => Remaining' = Enlisted
        /\ next > Len(parts) => Remaining = {}
    BY <1>0, <1>12, Bounds DEF Rollback, Enter
  <2>1. Control'
    BY <1>0, <1>12, <2>0 DEF Control, Rollback, Enter, adapters, TypeOK
  <2>2. Attached'
    BY <1>0, <1>12, <2>0 DEF Control, Rollback, Enter, adapters, TypeOK
  <2>3. Progress'
    BY <1>0, <1>12, <2>0 DEF Control, Rollback, Enter, adapters, TypeOK
  <2>4. PointOfNoReturn'
    BY <1>0, <1>12, <2>0 DEF Control, Rollback, Enter, adapters, TypeOK
  <2> QED
    BY <1>0, <2>1, <2>2, <2>3, <2>4
<1>13. ASSUME NEW p \in Participants, RollbackOne(p) PROVE IInv'
  <2>0. /\ p \in Remaining /\ Remaining \subseteq Enlisted /\ Enlisted' = Enlisted
        /\ Enlisted \subseteq Participants
        /\ next' = next + 1 => Remaining' = Remaining \ {p}
        /\ next' = 1 => Remaining' = Enlisted
        /\ parts' = parts
    BY <1>0, <1>13, Serve, Bounds DEF RollbackOne, Serving
  <2>1. Control'
    BY <1>0, <1>13, <2>0 DEF Control, RollbackOne, Serving, SetBranch, SetSession, SetStatus, RollbackOk, RollbackErr, Revocable, Fails, Advance, TypeOK
  <2>2. Attached'
    BY <1>0, <1>13, <2>0 DEF Control, RollbackOne, Serving, SetBranch, SetSession, SetStatus, RollbackOk, RollbackErr, Revocable, Fails, Advance, TypeOK
  <2>3. Progress'
    <3>1. CASE SetBranch(p, RollbackOk(p)) /\ UNCHANGED failures
      BY <1>0, <1>13, <2>0, <3>1 DEF Control, RollbackOne, Serving, SetBranch, RollbackOk, Revocable, Advance, TypeOK
    <3>2. CASE SetBranch(p, RollbackErr(p)) /\ failures' = failures \cup {p}
      <4>1. failures' # {}
        BY <3>2
      <4> QED
        BY <1>0, <1>13, <2>0, <3>2, <4>1 DEF Control, RollbackOne, Serving, SetBranch, RollbackErr, Revocable, Fails,
           Advance, TypeOK
    <3> QED
      BY <1>13, <3>1, <3>2 DEF RollbackOne
  <2>4. PointOfNoReturn'
    BY <1>0, <1>13, <2>0 DEF Control, RollbackOne, Serving, SetBranch, SetSession, SetStatus, RollbackOk, RollbackErr, Revocable, Fails, Advance, TypeOK
  <2> QED
    BY <1>0, <2>1, <2>2, <2>3, <2>4
<1>14. CASE RollbackDone
  <2>0. /\ Enlisted' = Enlisted /\ Enlisted \subseteq Participants /\ parts' = parts
        /\ next' = 1 => Remaining' = Enlisted
        /\ next > Len(parts) => Remaining = {}
    BY <1>0, <1>14, Bounds DEF RollbackDone, Leave
  <2>1. Control'
    BY <1>0, <1>14, <2>0 DEF Control, RollbackDone, Finished, Leave, adapters, TypeOK
  <2>2. Attached'
    BY <1>0, <1>14, <2>0 DEF Control, RollbackDone, Finished, Leave, adapters, TypeOK
  <2>3. Progress'
    BY <1>0, <1>14, <2>0 DEF Control, RollbackDone, Finished, Leave, adapters, TypeOK
  <2>4. PointOfNoReturn'
    BY <1>0, <1>14, <2>0 DEF Control, RollbackDone, Finished, Leave, adapters, TypeOK
  <2> QED
    BY <1>0, <2>1, <2>2, <2>3, <2>4
<1>15. ASSUME NEW p \in Participants, Cancel(p) PROVE IInv'
  <2>0. /\ p \in Remaining /\ Remaining \subseteq Enlisted /\ Enlisted' = Enlisted
        /\ Enlisted \subseteq Participants
        /\ next' = next + 1 => Remaining' = Remaining \ {p}
        /\ next' = 1 => Remaining' = Enlisted
        /\ parts' = parts
    BY <1>0, <1>15, Serve, Bounds DEF Cancel, Serving
  <2>5. PICK b \in CallEffects(p) : branch' = [branch EXCEPT ![p] = b]
    BY <1>15 DEF Cancel, SetBranch
  <2>6. /\ op = "begin" => b \in {branch[p], "none", "active"}
        /\ op = "prepare" => b = branch[p] \/ (Preparable(p) /\ b \in {"prepared", "rolledback"})
        /\ op = "commit" => b = branch[p] \/ (Committable(p) /\ b = "committed")
        /\ op \in {"rollback", "undo"} => b = branch[p] \/ (Revocable(p) /\ b = "rolledback")
        /\ op \in {"begin", "prepare", "commit", "rollback", "undo"}
    <3>1. op \in {"begin", "prepare", "commit", "rollback", "undo"}
      BY <1>0, <1>15 DEF Cancel, TypeOK, Operations
    <3>2. CASE op = "begin"
      BY <2>5, <3>2 DEF CallEffects, BeginOk, BeginErr, Fails
    <3>3. CASE op = "prepare"
      <4>1. b \in PrepareOk(p) \cup PrepareErr(p) \cup {branch[p]}
        BY <2>5, <3>3 DEF CallEffects
      <4> QED
        BY <3>3, <4>1 DEF PrepareOk, PrepareErr, Preparable, Fails
    <3>4. CASE op = "commit"
      <4>1. b \in CommitOk(p) \cup CommitErr(p) \cup {branch[p]}
        BY <2>5, <3>4 DEF CallEffects
      <4> QED
        BY <3>4, <4>1 DEF CommitOk, CommitErr, Committable, Fails
    <3>5. CASE op \in {"rollback", "undo"}
      <4>1. b \in RollbackOk(p) \cup RollbackErr(p) \cup {branch[p]}
        BY <2>5, <3>5 DEF CallEffects
      <4> QED
        BY <3>5, <4>1 DEF RollbackOk, RollbackErr, Revocable, Fails
    <3> QED
      BY <3>1, <3>2, <3>3, <3>4, <3>5
  <2>1. Control'
    BY <1>0, <1>15, <2>0, <2>5, <2>6 DEF Control, Cancel, SetSession, Preparable, Committable, Revocable, TypeOK
  <2>2. Attached'
    BY <1>0, <1>15, <2>0, <2>5, <2>6 DEF Control, Cancel, SetSession, Preparable, Committable, Revocable, TypeOK
  <2>3. Progress'
    BY <1>0, <1>15, <2>0, <2>5, <2>6 DEF Control, Cancel, SetSession, Preparable, Committable, Revocable, TypeOK
  <2>4. PointOfNoReturn'
    BY <1>0, <1>15, <2>0, <2>5, <2>6 DEF Control, Cancel, SetSession, Preparable, Committable, Revocable, TypeOK
  <2> QED
    BY <1>0, <2>1, <2>2, <2>3, <2>4
<1>16. ASSUME NEW p \in Participants, DbAborts(p) PROVE IInv'
  <2>0. Enlisted' = Enlisted /\ Remaining' = Remaining /\ parts' = parts
    BY <1>16 DEF DbAborts, coordinator, Enlisted, Remaining
  <2>1. Control'
    BY <1>0, <1>16, <2>0 DEF Control, DbAborts, coordinator, adapters, TypeOK
  <2>2. Attached'
    BY <1>0, <1>16, <2>0 DEF Control, DbAborts, coordinator, adapters, TypeOK
  <2>3. Progress'
    BY <1>0, <1>16, <2>0 DEF Control, DbAborts, coordinator, adapters, TypeOK
  <2>4. PointOfNoReturn'
    BY <1>0, <1>16, <2>0 DEF Control, DbAborts, coordinator, adapters, TypeOK
  <2> QED
    BY <1>0, <2>1, <2>2, <2>3, <2>4
<1>17. CASE UNCHANGED vars
  BY <1>0, <1>17 DEF vars, coordinator, adapters, Remaining, Enlisted, Control
<1> QED
  BY <1>1, <1>2, <1>3, <1>4, <1>5, <1>6, <1>7, <1>8, <1>9, <1>10, <1>11, <1>12, <1>13, <1>14, <1>15, <1>16, <1>17 DEF Next, Caller, Continue, Environment

\* Whatever the databases do and the caller calls next (core.rs: begin, prepare,
\* commit, rollback), what a call has still to do agrees with the branches, and
\* after the first commit no branch is open.
THEOREM Invariance == Spec => []IInv
BY IInvInit, IInvStep, PTL DEF Spec

-----------------------------------------------------------------------------
(* What follows from it.                                                   *)

\* Whatever fails and whatever the application calls next, the coordinator never
\* leaves one database committed and another rolled back.
THEOREM Atomicity == Spec => []AllOrNothing
<1>1. IInv => AllOrNothing
  BY DEF IInv, PointOfNoReturn, SomeCommitted, AllOrNothing
<1> QED
  BY <1>1, Invariance, PTL

\* commit() turns the state to Committed only with every participant committed.
THEOREM CommitIsWhole == Spec => CommittedIsWhole
<1>1. ASSUME IInv, [Next]_vars, state' = "Committed", state # "Committed"
      PROVE  \A p \in Enlisted : branch[p] = "committed"
  <2>1. CASE CommitDone
    <3>1. op = "commit" /\ failures = {} /\ next > Len(parts)
      BY <1>1, <2>1 DEF CommitDone, Finished, Leave
    <3>2. Remaining = {}
      BY <1>1, <3>1 DEF Remaining, IInv, TypeOK
    <3> QED
      BY <1>1, <3>1, <3>2 DEF IInv, Progress
  <2>2. ~CommitDone => FALSE
    BY <1>1 DEF Next, Caller, Continue, Environment, vars, coordinator, adapters, IInv, Control,
       Progress, AddParticipant, Begin, BeginUnlogged, BeginOne, BeginDone, Prepare, PrepareOne,
       PrepareDone, Commit, CommitOne, Rollback, RollbackOne, RollbackDone, Cancel, DbAborts,
       Enter, Leave, Serving, Finished
  <2> QED
    BY <2>1, <2>2
<1> QED
  BY <1>1, Invariance, PTL DEF CommittedIsWhole, Spec

\* rollback() turns the state to Aborted only with every participant rolled back.
THEOREM AbortIsWhole == Spec => AbortedIsWhole
<1>1. ASSUME IInv, [Next]_vars, state' = "Aborted", state # "Aborted"
      PROVE  \A p \in Enlisted : branch[p] = "rolledback"
  <2>1. CASE RollbackDone
    <3>1. op \in {"rollback", "undo"} /\ failures = {} /\ next > Len(parts)
      BY <1>1, <2>1 DEF RollbackDone, Finished, Leave
    <3>2. Remaining = {}
      BY <1>1, <3>1 DEF Remaining, IInv, TypeOK
    <3> QED
      BY <1>1, <3>1, <3>2 DEF IInv, Progress
  <2>2. ~RollbackDone => FALSE
    BY <1>1 DEF Next, Caller, Continue, Environment, vars, coordinator, adapters, IInv, Control,
       Progress, AddParticipant, Begin, BeginUnlogged, BeginOne, BeginDone, Prepare, PrepareOne,
       PrepareDone, Commit, CommitOne, CommitDone, Rollback, RollbackOne, Cancel, DbAborts,
       Enter, Leave, Serving, Finished
  <2> QED
    BY <2>1, <2>2
<1> QED
  BY <1>1, Invariance, PTL DEF AbortedIsWhole, Spec

-----------------------------------------------------------------------------
(* The coordinator implements AtomicCommit.                                *)

\* Each step changes the branch of one participant at most, as the abstract
\* transaction allows.
LEMMA BranchStep ==
    ASSUME IInv, [Next]_vars, branch' # branch
    PROVE  \E p \in Participants : \E b \in Branches :
              /\ branch' = [branch EXCEPT ![p] = b]
              /\ \/ ~SomeCommitted /\ branch[p] = "none" /\ b = "active"
                 \/ ~SomeCommitted /\ branch[p] = "active" /\ b = "prepared"
                 \/ ~SomeCommitted /\ branch[p] \in {"active", "prepared"} /\ b = "rolledback"
                 \/ /\ \A q \in Participants : branch[q] \in {"none", "prepared", "committed"}
                    /\ branch[p] = "prepared" /\ b = "committed"
<1> DEFINE Allowed(p, b) ==
      \/ ~SomeCommitted /\ branch[p] = "none" /\ b = "active"
      \/ ~SomeCommitted /\ branch[p] = "active" /\ b = "prepared"
      \/ ~SomeCommitted /\ branch[p] \in {"active", "prepared"} /\ b = "rolledback"
      \/ /\ \A q \in Participants : branch[q] \in {"none", "prepared", "committed"}
         /\ branch[p] = "prepared" /\ b = "committed"
<1>0. TypeOK
  BY DEF IInv
<1>s. ASSUME NEW p \in Participants, NEW bs, bs \subseteq Branches, SetBranch(p, bs),
             \A b \in bs : b = branch[p] \/ Allowed(p, b)
      PROVE  \E b \in Branches : branch' = [branch EXCEPT ![p] = b] /\ Allowed(p, b)
  <2>1. PICK b \in bs : branch' = [branch EXCEPT ![p] = b]
    BY <1>s DEF SetBranch
  <2>2. b # branch[p]
    BY <1>0, <2>1 DEF TypeOK
  <2> HIDE DEF Allowed
  <2> QED
    BY <1>s, <2>1, <2>2
<1> USE DEF IInv, Control, Progress, Attached, PointOfNoReturn, SomeCommitted, Branches
<1>b. ASSUME NEW p \in Participants, op = "begin", next <= Len(parts), p = parts[next]
      PROVE  \A b \in BeginOk(p) \cup BeginErr(p) \cup {branch[p]} : b \in Branches /\ (b = branch[p] \/ Allowed(p, b))
  <2>1. p \in Remaining
    BY <1>0, <1>b DEF Remaining, TypeOK
  <2> QED
    BY <1>0, <1>b, <2>1 DEF BeginOk, BeginErr, Fails, TypeOK
<1>p. ASSUME NEW p \in Participants, op = "prepare"
      PROVE  \A b \in PrepareOk(p) \cup PrepareErr(p) \cup {branch[p]} : b \in Branches /\ (b = branch[p] \/ Allowed(p, b))
  BY <1>0, <1>p DEF PrepareOk, PrepareErr, Preparable, Fails, TypeOK
<1>c. ASSUME NEW p \in Participants, op = "commit"
      PROVE  \A b \in CommitOk(p) \cup CommitErr(p) \cup {branch[p]} : b \in Branches /\ (b = branch[p] \/ Allowed(p, b))
  BY <1>0, <1>c DEF CommitOk, CommitErr, Committable, Fails, TypeOK
<1>r. ASSUME NEW p \in Participants, op \in {"rollback", "undo"}
      PROVE  \A b \in RollbackOk(p) \cup RollbackErr(p) \cup {branch[p]} : b \in Branches /\ (b = branch[p] \/ Allowed(p, b))
  BY <1>0, <1>r DEF RollbackOk, RollbackErr, Revocable, Fails, TypeOK
<1> HIDE DEF Allowed, IInv, Control, Progress, Attached, PointOfNoReturn, SomeCommitted, Branches
<1>1. ASSUME NEW p \in Participants, BeginOne(p)
      PROVE  \E b \in Branches : branch' = [branch EXCEPT ![p] = b] /\ Allowed(p, b)
  BY <1>1, <1>b, <1>s DEF BeginOne, Serving
<1>2. ASSUME NEW p \in Participants, PrepareOne(p)
      PROVE  \E b \in Branches : branch' = [branch EXCEPT ![p] = b] /\ Allowed(p, b)
  BY <1>2, <1>p, <1>s DEF PrepareOne, Serving
<1>3. ASSUME NEW p \in Participants, CommitOne(p)
      PROVE  \E b \in Branches : branch' = [branch EXCEPT ![p] = b] /\ Allowed(p, b)
  BY <1>3, <1>c, <1>s DEF CommitOne, Serving
<1>4. ASSUME NEW p \in Participants, RollbackOne(p)
      PROVE  \E b \in Branches : branch' = [branch EXCEPT ![p] = b] /\ Allowed(p, b)
  BY <1>4, <1>r, <1>s DEF RollbackOne, Serving
<1>5. ASSUME NEW p \in Participants, Cancel(p)
      PROVE  \E b \in Branches : branch' = [branch EXCEPT ![p] = b] /\ Allowed(p, b)
  <2>1. op \in {"begin", "prepare", "commit", "rollback", "undo"} /\ SetBranch(p, CallEffects(p))
    BY <1>0, <1>5 DEF Cancel, TypeOK, Operations
  <2>2. \A b \in CallEffects(p) : b \in Branches /\ (b = branch[p] \/ Allowed(p, b))
    <3>1. CASE op = "begin"
      BY <1>5, <1>b, <3>1 DEF Cancel, CallEffects
    <3>2. CASE op = "prepare"
      BY <1>p, <3>2 DEF CallEffects
    <3>3. CASE op = "commit"
      BY <1>c, <3>3 DEF CallEffects
    <3>4. CASE op \in {"rollback", "undo"}
      BY <1>r, <3>4 DEF CallEffects
    <3> QED
      BY <2>1, <3>1, <3>2, <3>3, <3>4
  <2> QED
    BY <1>s, <2>1, <2>2
<1>6. ASSUME NEW p \in Participants, DbAborts(p)
      PROVE  \E b \in Branches : branch' = [branch EXCEPT ![p] = b] /\ Allowed(p, b)
  <2>1. branch[p] = "active" /\ branch' = [branch EXCEPT ![p] = "rolledback"]
    BY <1>6 DEF DbAborts
  <2>2. ~SomeCommitted
    BY <2>1 DEF IInv, PointOfNoReturn
  <2> QED
    BY <2>1, <2>2 DEF Allowed, Branches
<1>7. \E p \in Participants : BeginOne(p) \/ PrepareOne(p) \/ CommitOne(p) \/ RollbackOne(p)
                             \/ Cancel(p) \/ DbAborts(p)
  BY DEF Next, Caller, Continue, Environment, vars, adapters, coordinator, AddParticipant, Begin,
     BeginUnlogged, BeginDone, Prepare, PrepareDone, Commit, CommitDone, Rollback, RollbackDone,
     Leave
<1> QED
  BY <1>1, <1>2, <1>3, <1>4, <1>5, <1>6, <1>7 DEF Allowed

\* Every behaviour of the coordinator, faults included, is one of the abstract
\* atomic transaction.
THEOREM Refinement == Spec => ImplementsAtomicCommit
<1> DEFINE outcome == [p \in Participants |-> OutcomeOf(branch[p])]
<1>1. Init => AC!Init
  BY DEF Init, AC!Init, OutcomeOf
<1>2. IInv /\ [Next]_vars => [AC!Next]_outcome
  <2> SUFFICES ASSUME IInv, [Next]_vars, outcome' # outcome PROVE AC!Next
    OBVIOUS
  <2>c. branch' # branch
    OBVIOUS
  <2>0. TypeOK
    BY DEF IInv
  <2>1. PICK p \in Participants, b \in Branches :
           /\ branch' = [branch EXCEPT ![p] = b]
           /\ \/ ~SomeCommitted /\ branch[p] = "none" /\ b = "active"
              \/ ~SomeCommitted /\ branch[p] = "active" /\ b = "prepared"
              \/ ~SomeCommitted /\ branch[p] \in {"active", "prepared"} /\ b = "rolledback"
              \/ /\ \A q \in Participants : branch[q] \in {"none", "prepared", "committed"}
                 /\ branch[p] = "prepared" /\ b = "committed"
    BY <2>c, BranchStep
  <2>2. outcome' = [outcome EXCEPT ![p] = OutcomeOf(b)]
    BY <2>0, <2>1 DEF TypeOK
  <2>3. ~SomeCommitted => AC!NoneCommitted
    BY <2>0 DEF TypeOK, Branches, SomeCommitted, AC!NoneCommitted, OutcomeOf
  <2>4. CASE ~SomeCommitted /\ branch[p] = "none" /\ b = "active"
    BY <2>2, <2>3, <2>4 DEF AC!Next, AC!Start, AC!Move, OutcomeOf
  <2>5. CASE ~SomeCommitted /\ branch[p] = "active" /\ b = "prepared"
    BY <2>2, <2>3, <2>5 DEF AC!Next, AC!Prepare, AC!Move, OutcomeOf
  <2>6. CASE ~SomeCommitted /\ branch[p] \in {"active", "prepared"} /\ b = "rolledback"
    BY <2>2, <2>3, <2>6 DEF AC!Next, AC!Abort, AC!Move, OutcomeOf
  <2>7. CASE /\ \A q \in Participants : branch[q] \in {"none", "prepared", "committed"}
             /\ branch[p] = "prepared" /\ b = "committed"
    BY <2>2, <2>7 DEF AC!Next, AC!Commit, AC!Move, OutcomeOf
  <2> QED
    BY <2>1, <2>4, <2>5, <2>6, <2>7
<1> QED
  BY <1>1, <1>2, Invariance, PTL DEF Spec, ImplementsAtomicCommit, AC!Spec
-----------------------------------------------------------------------------
(* What the coordinator tells its caller and leaves to recovery.           *)

\* Begin logs whom it is about to begin, and whoever is begun and undecided is
\* listed as long as no write cut the entry short.
LogInv ==
    WithLog =>
        /\ op = "begin" => log = Entry("Active", Enlisted)
        /\ log # TornEntry => \A p \in Participants :
              branch[p] \in {"active", "prepared"} =>
                  log.state \in {"Active", "Prepared"} /\ p \in log.ids

\* A session filed where it is not looked for stops both ways to end, and a
\* rollback leaves no session of those it has been to.
HeldInv ==
    /\ \A p \in misfiled : session[p] = "none" /\ branch[p] \in {"active", "rolledback"}
    /\ op \in {"rollback", "undo"} => \A p \in Enlisted \ Remaining :
          session[p] = "none" /\ (failures = {} => p \notin misfiled)
    /\ state \in {"Committed", "Aborted"} =>
          op = "idle" /\ misfiled = {} /\ \A p \in Participants : session[p] = "none"

AccountInv == StatusIsTruthful /\ LogInv /\ HeldInv

\* Recovery as the run has it: the log is used and does not fail, what it lists
\* as Prepared is committed, and nobody rolls back what was prepared.
DurableLog == WithLog /\ "log" \notin Faults /\ "tear" \notin Faults
Agreed == DurableLog /\ Policy = "commit" /\ ~CallerAbandons

RInv ==
    /\ TypeOK /\ up \in BOOLEAN
    /\ up = TRUE => /\ IInv /\ AccountInv
                    /\ log.state = "Prepared" <=> state \in {"Prepared", "Committing"}
                    /\ PresumedAbort
    /\ up = FALSE => /\ AllOrNothing /\ InDoubtIsLogged
                     /\ \A p \in Participants :
                           /\ log.state = "Prepared" =>
                                  branch[p] \in {"none", "prepared", "committed"}
                           /\ log.state = "Active" =>
                                  branch[p] \in {"none", "prepared", "rolledback"}

\* A branch that is decided stays as it is, one that is prepared does not open
\* again, and one that is open or prepared was begun.
LEMMA BranchMoves ==
    ASSUME IInv, [Next]_vars, NEW p \in Participants
    PROVE  /\ branch[p] \in {"committed", "rolledback"} => branch'[p] = branch[p]
           /\ branch[p] = "prepared" => branch'[p] \in {"prepared", "committed", "rolledback"}
           /\ branch[p] = "none" => branch'[p] \in {"none", "active"}
<1>0. branch \in [Participants -> Branches]
  BY DEF IInv, TypeOK
<1>1. CASE branch' = branch
  BY <1>1
<1>2. CASE branch' # branch
  <2>1. PICK q \in Participants, b \in Branches :
           /\ branch' = [branch EXCEPT ![q] = b]
           /\ \/ branch[q] = "none" /\ b = "active"
              \/ branch[q] = "active" /\ b = "prepared"
              \/ branch[q] \in {"active", "prepared"} /\ b = "rolledback"
              \/ branch[q] = "prepared" /\ b = "committed"
    BY <1>2, BranchStep
  <2> QED
    BY <1>0, <2>1
<1> QED
  BY <1>1, <1>2

LEMMA StatusStep ==
    ASSUME IInv, StatusIsTruthful, [Next]_vars
    PROVE  StatusIsTruthful'
<1>0. /\ status \in [Participants -> ParticipantStatus]
      /\ branch \in [Participants -> Branches]
  BY DEF IInv, TypeOK
<1>1. CASE status' = status
  <2> SUFFICES ASSUME NEW p \in Participants
               PROVE  /\ status[p] = "Committed" => branch'[p] = "committed"
                      /\ status[p] = "Aborted" => branch'[p] = "rolledback"
                      /\ status[p] = "Prepared" => branch'[p] \in {"prepared", "committed", "rolledback"}
    BY <1>1 DEF StatusIsTruthful
  <2> QED
    BY BranchMoves DEF StatusIsTruthful
<1>2. ASSUME NEW p \in Participants, NEW s \in ParticipantStatus, status' = [status EXCEPT ![p] = s],
             s = "Committed" => branch'[p] = "committed",
             s = "Aborted" => branch'[p] = "rolledback",
             s = "Prepared" => branch'[p] = "prepared"
      PROVE  StatusIsTruthful'
  <2> SUFFICES ASSUME NEW q \in Participants
               PROVE  /\ status'[q] = "Committed" => branch'[q] = "committed"
                      /\ status'[q] = "Aborted" => branch'[q] = "rolledback"
                      /\ status'[q] = "Prepared" => branch'[q] \in {"prepared", "committed", "rolledback"}
    BY DEF StatusIsTruthful
  <2>1. CASE q = p
    BY <1>0, <1>2, <2>1
  <2>2. CASE q # p
    <3>1. status'[q] = status[q]
      BY <1>0, <1>2, <2>2
    <3> QED
      BY <3>1, BranchMoves DEF StatusIsTruthful
  <2> QED
    BY <2>1, <2>2
<1>3. ASSUME NEW p \in Participants, PrepareOne(p) PROVE StatusIsTruthful'
  <2>1. CASE status' = status
    BY <1>1, <2>1
  <2>2. CASE SetBranch(p, PrepareOk(p)) /\ SetStatus(p, "Prepared")
    <3>1. branch'[p] = "prepared"
      BY <1>0, <2>2 DEF SetBranch, PrepareOk
    <3> QED
      BY <1>2, <2>2, <3>1 DEF SetStatus, ParticipantStatus
  <2> QED
    BY <1>3, <2>1, <2>2 DEF PrepareOne
<1>4. ASSUME NEW p \in Participants, CommitOne(p) PROVE StatusIsTruthful'
  <2>1. CASE status' = status
    BY <1>1, <2>1
  <2>2. CASE SetBranch(p, CommitOk(p)) /\ SetStatus(p, "Committed")
    <3>1. branch'[p] = "committed"
      BY <1>0, <2>2 DEF SetBranch, CommitOk
    <3> QED
      BY <1>2, <2>2, <3>1 DEF SetStatus, ParticipantStatus
  <2> QED
    BY <1>4, <2>1, <2>2 DEF CommitOne
<1>5. ASSUME NEW p \in Participants, RollbackOne(p) PROVE StatusIsTruthful'
  <2>1. CASE status' = status
    BY <1>1, <2>1
  <2>2. CASE SetBranch(p, RollbackOk(p)) /\ SetStatus(p, "Aborted")
    <3>1. branch'[p] = "rolledback"
      BY <1>0, <2>2 DEF SetBranch, RollbackOk
    <3> QED
      BY <1>2, <2>2, <3>1 DEF SetStatus, ParticipantStatus
  <2> QED
    BY <1>5, <2>1, <2>2 DEF RollbackOne
<1> QED
  BY <1>1, <1>3, <1>4, <1>5 DEF Next, Caller, Continue, Environment, vars, coordinator,
     AddParticipant, Begin, BeginUnlogged, BeginOne, BeginDone, Prepare, PrepareDone, Commit,
     CommitDone, Rollback, RollbackDone, Cancel, DbAborts, Leave

\* What a finished loop leaves: every registered participant has been served.
LEMMA LoopDone ==
    ASSUME IInv, next > Len(parts)
    PROVE  /\ op = "prepare" => \A p \in Enlisted : branch[p] = "prepared"
           /\ op = "commit" /\ failures = {} => \A p \in Enlisted : branch[p] = "committed"
           /\ op \in {"rollback", "undo"} /\ failures = {} =>
                 \A p \in Enlisted : branch[p] = "rolledback"
           /\ \A p \in Participants : p \notin Enlisted => branch[p] = "none"
           /\ Enlisted \subseteq Participants /\ Remaining = {}
<1>1. Remaining = {} /\ Enlisted \subseteq Participants
  BY DEF IInv, TypeOK, Remaining, Enlisted
<1> QED
  BY <1>1 DEF IInv, Progress, Attached

LEMMA LogStep ==
    ASSUME IInv, IInv', LogInv, [Next]_vars
    PROVE  LogInv'
<1> SUFFICES ASSUME WithLog PROVE LogInv'
  BY DEF LogInv
<1> DEFINE Listed == \A p \in Participants :
              branch[p] \in {"active", "prepared"} =>
                  log.state \in {"Active", "Prepared"} /\ p \in log.ids
<1>0. /\ op = "begin" => log = Entry("Active", Enlisted)
      /\ log # TornEntry => Listed
      /\ branch \in [Participants -> Branches] /\ Enlisted \subseteq Participants
  BY DEF LogInv, IInv, TypeOK, Enlisted
<1>e. /\ \A ps : Entry("Active", ps).state = "Active" /\ Entry("Active", ps).ids = ps
      /\ \A ps : Entry("Prepared", ps).state = "Prepared" /\ Entry("Prepared", ps).ids = ps
      /\ \A ps : Entry("Active", ps) # TornEntry
  BY DEF Entry, TornEntry
\* Nothing is begun or prepared, and no operation is begun.
<1>1. ASSUME log' = log, \A p \in Participants : branch'[p] \in {"active", "prepared"} =>
                            branch[p] \in {"active", "prepared"},
             op' = "begin" => op = "begin" /\ Enlisted' = Enlisted
      PROVE  LogInv'
  BY <1>0, <1>1 DEF LogInv
<1>2. ASSUME op' # "begin", \A p \in Participants : branch'[p] \notin {"active", "prepared"}
      PROVE  LogInv'
  BY <1>2 DEF LogInv
<1>3. CASE Begin
  <2>1. log' = Entry("Active", Enlisted) /\ Enlisted' = Enlisted /\ branch' = branch
    BY <1>3 DEF Begin, Written, Enlisted
  <2>2. \A p \in Participants : branch[p] = "none"
    BY <1>3 DEF Begin, IInv, Progress
  <2> QED
    BY <2>1, <2>2 DEF LogInv
<1>4. CASE BeginUnlogged
  <2>1. \A p \in Participants : branch'[p] = "none"
    BY <1>4 DEF BeginUnlogged, Leave, IInv, Progress
  <2> QED
    BY <1>2, <1>4, <2>1 DEF BeginUnlogged, Leave
<1>5. ASSUME NEW p \in Participants, op = "begin", log' = log, op' \in {"begin", "idle"},
             p \in Enlisted, Enlisted' = Enlisted, \A q \in Participants \ {p} : branch'[q] = branch[q]
      PROVE  LogInv'
  <2>1. log = Entry("Active", Enlisted)
    BY <1>0, <1>5
  <2>2. ASSUME NEW q \in Participants, branch'[q] \in {"active", "prepared"}
        PROVE  q \in Enlisted
    <3>1. CASE q = p
      BY <1>5, <3>1
    <3>2. CASE q # p
      BY <1>0, <1>5, <1>e, <2>1, <2>2, <3>2
    <3> QED
      BY <3>1, <3>2
  <2> QED
    BY <1>5, <1>e, <2>1, <2>2 DEF LogInv
<1>6. ASSUME NEW p \in Participants, BeginOne(p) PROVE LogInv'
  <2>1. p \in Enlisted /\ Enlisted' = Enlisted /\ op = "begin" /\ log' = log /\ op' \in {"begin", "idle"}
    BY <1>6 DEF BeginOne, Serving, Enlisted, IInv, TypeOK
  <2>2. \A q \in Participants \ {p} : branch'[q] = branch[q]
    BY <1>0, <1>6 DEF BeginOne, SetBranch
  <2> QED
    BY <1>5, <2>1, <2>2
<1>7. ASSUME NEW p \in Participants, Cancel(p) PROVE LogInv'
  <2>1. p \in Enlisted /\ Enlisted' = Enlisted /\ log' = log /\ op' = "idle" /\ op \in Operations
    BY <1>7 DEF Cancel, Enlisted, IInv, TypeOK
  <2>2. \A q \in Participants \ {p} : branch'[q] = branch[q]
    BY <1>0, <1>7 DEF Cancel, SetBranch
  <2>3. CASE op = "begin"
    BY <1>5, <2>1, <2>2, <2>3
  <2>4. CASE op # "begin"
    <3>1. branch'[p] \in CallEffects(p)
      BY <1>0, <1>7 DEF Cancel, SetBranch
    <3>2. op \in {"prepare", "commit", "rollback", "undo"}
      BY <1>7, <2>1, <2>4 DEF Cancel, Operations
    <3>3. branch'[p] \in {"active", "prepared"} => branch[p] \in {"active", "prepared"}
      BY <3>1, <3>2 DEF CallEffects, PrepareOk, PrepareErr, Preparable, CommitOk, CommitErr,
         Committable, RollbackOk, RollbackErr, Revocable, Fails
    <3> QED
      BY <1>1, <2>1, <2>2, <3>3
  <2> QED
    BY <2>3, <2>4
<1>8. ASSUME NEW p \in Participants, PrepareOne(p) \/ CommitOne(p) \/ RollbackOne(p) \/ DbAborts(p)
      PROVE  LogInv'
  <2>1. branch'[p] \in {"active", "prepared"} => branch[p] \in {"active", "prepared"}
    BY <1>0, <1>8 DEF PrepareOne, CommitOne, RollbackOne, DbAborts, SetBranch, PrepareOk, PrepareErr,
       Preparable, CommitOk, CommitErr, Committable, RollbackOk, RollbackErr, Revocable, Fails
  <2>2. \A q \in Participants \ {p} : branch'[q] = branch[q]
    BY <1>0, <1>8 DEF PrepareOne, CommitOne, RollbackOne, DbAborts, SetBranch
  <2>3. log' = log /\ (op' = "begin" => op = "begin") /\ parts' = parts
    BY <1>8 DEF PrepareOne, CommitOne, RollbackOne, DbAborts, Enter, Serving, coordinator
  <2> QED
    BY <1>1, <2>1, <2>2, <2>3 DEF Enlisted
<1>9. CASE PrepareDone
  <2>1. branch' = branch /\ op' = "idle" /\ log' \in {Entry("Prepared", Enlisted), log, TornEntry}
    BY <1>9 DEF PrepareDone, Leave, Written, WriteErr
  <2>2. \A p \in Participants : branch[p] # "none" => p \in Enlisted
    BY DEF IInv, Attached
  <2> QED
    BY <1>0, <1>e, <2>1, <2>2 DEF LogInv
<1>10. CASE CommitDone \/ RollbackDone
  <2>1. branch' = branch /\ op' = "idle" /\ next > Len(parts) /\ op \in {"commit", "rollback", "undo"}
    BY <1>10 DEF CommitDone, RollbackDone, Finished, Leave
  <2>2. CASE failures # {}
    BY <1>1, <1>10, <2>1, <2>2 DEF CommitDone, RollbackDone
  <2>3. CASE failures = {}
    <3>1. \A p \in Participants : branch[p] \notin {"active", "prepared"}
      BY <2>1, <2>3, LoopDone
    <3> QED
      BY <1>2, <2>1, <3>1
  <2> QED
    BY <2>2, <2>3
<1>11. ASSUME NEW p \in Participants, AddParticipant(p) PROVE LogInv'
  BY <1>1, <1>11 DEF AddParticipant
<1>12. CASE BeginDone \/ Prepare \/ Commit \/ Rollback
  BY <1>1, <1>12 DEF BeginDone, Prepare, Commit, Rollback, Leave, Enter
<1>13. CASE UNCHANGED vars
  BY <1>1, <1>13 DEF vars, coordinator, Enlisted
<1> QED
  BY <1>3, <1>4, <1>6, <1>7, <1>8, <1>9, <1>10, <1>11, <1>12, <1>13
     DEF Next, Caller, Continue, Environment

LEMMA HeldStep ==
    ASSUME IInv, IInv', HeldInv, [Next]_vars
    PROVE  HeldInv'
<1>0. /\ session \in [Participants -> Sessions] /\ branch \in [Participants -> Branches]
      /\ misfiled \subseteq Participants /\ Enlisted \subseteq Participants
      /\ TypeOK /\ Control
  BY DEF IInv, TypeOK, Enlisted
<1> DEFINE Misfiled == \A p \in misfiled : session[p] = "none" /\ branch[p] \in {"active", "rolledback"}
           Ended == state \in {"Committed", "Aborted"} =>
               op = "idle" /\ misfiled = {} /\ \A p \in Participants : session[p] = "none"
           Gone == op \in {"rollback", "undo"} => \A p \in Enlisted \ Remaining :
               session[p] = "none" /\ (failures = {} => p \notin misfiled)
<1>h. HeldInv <=> Misfiled /\ Ended /\ Gone
  BY DEF HeldInv
<1>hn. HeldInv' <=> Misfiled' /\ Ended' /\ Gone'
  BY DEF HeldInv
<1>1. ASSUME misfiled' = misfiled, session' = session, branch' = branch,
             op' \notin {"rollback", "undo"} \/ Enlisted' \ Remaining' = {},
             state' \in {"Committed", "Aborted"} => state' = state /\ op' = op
      PROVE  HeldInv'
  BY <1>1, <1>h DEF HeldInv
<1>2. ASSUME NEW p \in Participants, AddParticipant(p) PROVE HeldInv'
  BY <1>1, <1>2 DEF AddParticipant, adapters
<1>3. CASE Begin \/ BeginUnlogged \/ Prepare \/ Commit \/ BeginDone \/ PrepareDone
  <2>1. op' \notin {"rollback", "undo"} /\ state' \notin {"Committed", "Aborted"}
    BY <1>0, <1>3 DEF Begin, BeginUnlogged, Prepare, Commit, BeginDone, PrepareDone, Enter, Leave,
       Finished, Control
  <2>2. misfiled' = misfiled /\ session' = session /\ branch' = branch
    BY <1>3 DEF Begin, BeginUnlogged, Prepare, Commit, BeginDone, PrepareDone, Leave, adapters
  <2> QED
    BY <1>1, <2>1, <2>2
<1>4. CASE Rollback
  <2>1. next' = 1 /\ parts' = parts /\ state' = "Aborting"
    BY <1>4 DEF Rollback, Enter
  <2>2. Enlisted' = Enlisted /\ Remaining' = Enlisted
    BY <1>0, <2>1, Bounds
  <2> QED
    BY <1>1, <1>4, <2>1, <2>2 DEF Rollback, adapters
<1>5. CASE CommitDone
  <2>1. /\ op = "commit" /\ next > Len(parts) /\ op' = "idle" /\ misfiled' = misfiled
        /\ session' = session /\ branch' = branch
        /\ state' = "Committed" => failures = {}
        /\ state' \in {"Prepared", "Committed"}
    BY <1>5 DEF CommitDone, Finished, Leave, adapters
  <2>2. CASE failures # {}
    BY <1>1, <2>1, <2>2
  <2>3. CASE failures = {}
    <3>1. \A p \in Participants : branch[p] \in {"none", "committed"}
      BY <2>1, <2>3, LoopDone
    <3>2. misfiled = {}
      BY <1>0, <1>h, <3>1
    <3>3. \A p \in Participants : session[p] = "none"
      BY <2>1, LoopDone DEF IInv, PointOfNoReturn
    <3> QED
      BY <2>1, <3>2, <3>3 DEF HeldInv
  <2> QED
    BY <2>2, <2>3
<1>6. CASE RollbackDone
  <2>1. /\ op \in {"rollback", "undo"} /\ next > Len(parts) /\ op' = "idle" /\ misfiled' = misfiled
        /\ session' = session /\ branch' = branch
        /\ state' = "Aborted" => failures = {}
        /\ state' \in {"Aborting", "Aborted"}
    BY <1>6 DEF RollbackDone, Finished, Leave, adapters
  <2>2. CASE failures # {}
    BY <1>1, <2>1, <2>2
  <2>3. CASE failures = {}
    <3>1. Remaining = {} /\ \A p \in Participants : p \notin Enlisted => branch[p] = "none"
      BY <2>1, LoopDone
    <3>2. \A p \in Enlisted : session[p] = "none" /\ p \notin misfiled
      BY <1>h, <2>1, <2>3, <3>1
    <3>3. misfiled = {}
      BY <1>0, <1>h, <3>1, <3>2
    <3>4. \A p \in Participants : session[p] = "none"
      BY <3>2 DEF IInv, Attached
    <3> QED
      BY <2>1, <3>3, <3>4 DEF HeldInv
  <2> QED
    BY <2>2, <2>3
<1>7. ASSUME NEW p \in Participants, BeginOne(p) PROVE HeldInv'
  <2>0. p \in Remaining /\ Remaining \subseteq Enlisted /\ op = "begin" /\ state = "Active"
    BY <1>0, <1>7, Serve DEF BeginOne, Serving, Control
  <2>1. branch[p] = "none" /\ session[p] = "none"
    BY <1>0, <2>0 DEF IInv, Progress, Attached, Sessions
  <2>2. p \notin misfiled
    BY <1>h, <2>1
  <2>3. \A q \in Participants \ {p} : branch'[q] = branch[q] /\ session'[q] = session[q]
    BY <1>0, <1>7 DEF BeginOne, SetBranch, SetSession, adapters
  <2>4. \/ misfiled' = misfiled
        \/ misfiled' = misfiled \cup {p} /\ session' = session /\ branch'[p] = "active"
    BY <1>0, <1>7 DEF BeginOne, SetBranch, BeginOk, adapters
  <2>5. op' \in {"begin", "idle"} /\ state' = "Active"
    BY <1>7, <2>0 DEF BeginOne
  <2>6. Misfiled'
    BY <1>0, <1>h, <2>1, <2>2, <2>3, <2>4
  <2> QED
    BY <1>hn, <2>5, <2>6
\* A call after begin: it takes the session, and only a session allows progress.
<1>8. ASSUME NEW p \in Participants, misfiled' = misfiled,
             \A q \in Participants \ {p} : branch'[q] = branch[q] /\ session'[q] = session[q],
             session[p] = "none" => branch'[p] = branch[p] /\ session'[p] = "none"
      PROVE  Misfiled'
  BY <1>0, <1>8, <1>h
<1>9. ASSUME NEW p \in Participants, PrepareOne(p) PROVE HeldInv'
  <2>1. \A q \in Participants \ {p} : branch'[q] = branch[q] /\ session'[q] = session[q]
    BY <1>0, <1>9 DEF PrepareOne, SetBranch, SetSession
  <2>2. session[p] = "none" => branch'[p] = branch[p] /\ session'[p] = "none"
    BY <1>0, <1>9 DEF PrepareOne, SetBranch, SetSession, PrepareOk, PrepareErr, Preparable
  <2>3. Misfiled'
    BY <1>8, <1>9, <2>1, <2>2 DEF PrepareOne
  <2>4. state' \in {"Preparing", "Aborting"}
    BY <1>0, <1>9 DEF PrepareOne, Serving, Enter, Control
  <2>5. op' \in {"rollback", "undo"} => next' = 1 /\ parts' = parts
    BY <1>9 DEF PrepareOne, Serving, Enter
  <2>6. op' \in {"rollback", "undo"} => Enlisted' \ Remaining' = {}
    BY <1>0, <2>5, Bounds
  <2> QED
    BY <1>hn, <2>3, <2>4, <2>6
<1>10. ASSUME NEW p \in Participants, CommitOne(p) PROVE HeldInv'
  <2>1. \A q \in Participants \ {p} : branch'[q] = branch[q] /\ session'[q] = session[q]
    BY <1>0, <1>10 DEF CommitOne, SetBranch, SetSession
  <2>2. session[p] = "none" => branch'[p] = branch[p] /\ session'[p] = "none"
    BY <1>0, <1>10 DEF CommitOne, SetBranch, SetSession, CommitOk, CommitErr, Committable
  <2>3. Misfiled'
    BY <1>8, <1>10, <2>1, <2>2 DEF CommitOne
  <2> QED
    BY <1>0, <1>10, <1>hn, <2>3 DEF CommitOne, Serving, Control
<1>11. ASSUME NEW p \in Participants, RollbackOne(p) PROVE HeldInv'
  <2>0. /\ p \in Remaining /\ Enlisted' = Enlisted /\ Remaining' = Remaining \ {p}
        /\ op \in {"rollback", "undo"} /\ op' = op /\ state' = "Aborting" /\ misfiled' = misfiled
    BY <1>0, <1>11, Serve DEF RollbackOne, Serving, Advance, Control
  <2>1. \A q \in Participants \ {p} : branch'[q] = branch[q] /\ session'[q] = session[q]
    BY <1>0, <1>11 DEF RollbackOne, SetBranch, SetSession
  <2>2. session[p] = "none" => branch'[p] = branch[p] /\ session'[p] = "none"
    BY <1>0, <1>11 DEF RollbackOne, SetBranch, SetSession, RollbackOk, RollbackErr, Revocable
  <2>3. Misfiled'
    BY <1>8, <2>0, <2>1, <2>2
  <2>4. session'[p] = "none"
    BY <1>0, <1>11 DEF RollbackOne, SetSession
  <2>5. failures' = {} => failures = {} /\ session[p] # "none"
    BY <1>11 DEF RollbackOne, SetBranch, RollbackOk, Revocable
  <2>6. Gone'
    BY <1>0, <1>h, <2>0, <2>1, <2>4, <2>5
  <2> QED
    BY <1>hn, <2>0, <2>3, <2>6
<1>12. ASSUME NEW p \in Participants, Cancel(p) PROVE HeldInv'
  <2>0. /\ op' = "idle" /\ op # "idle" /\ state' = state /\ misfiled' = misfiled /\ op \in Operations
        /\ p \in Remaining
    BY <1>0, <1>12, Serve DEF Cancel, TypeOK
  <2>1. \A q \in Participants \ {p} : branch'[q] = branch[q] /\ session'[q] = session[q]
    BY <1>0, <1>12 DEF Cancel, SetBranch, SetSession
  <2>2. branch'[p] \in CallEffects(p)
    BY <1>0, <1>12 DEF Cancel, SetBranch
  <2>3. Misfiled'
    <3>1. CASE op = "begin"
      <4>1. p \notin misfiled
        BY <1>h, <2>0, <3>1 DEF IInv, Progress
      <4> QED
        BY <1>0, <1>h, <2>0, <2>1, <4>1
    <3>2. CASE op # "begin"
      <4>1. session'[p] = "none"
        BY <1>0, <1>12, <3>2 DEF Cancel, SetSession
      <4>2. op \in {"prepare", "commit", "rollback", "undo"}
        BY <2>0, <3>2 DEF Operations
      <4>3. session[p] = "none" => branch'[p] = branch[p]
        BY <2>2, <4>2 DEF CallEffects, PrepareOk, PrepareErr, Preparable, CommitOk, CommitErr,
           Committable, RollbackOk, RollbackErr, Revocable
      <4> QED
        BY <1>8, <2>0, <2>1, <4>1, <4>3
    <3> QED
      BY <3>1, <3>2
  <2> QED
    BY <1>h, <1>hn, <2>0, <2>3
<1>13. ASSUME NEW p \in Participants, DbAborts(p) PROVE HeldInv'
  <2>1. /\ branch' = [branch EXCEPT ![p] = "rolledback"]
        /\ session' = session /\ misfiled' = misfiled /\ op' = op /\ state' = state
        /\ failures' = failures /\ next' = next /\ parts' = parts
    BY <1>13 DEF DbAborts, coordinator, adapters
  <2>2. Enlisted' = Enlisted /\ Remaining' = Remaining
    BY <2>1 DEF Enlisted, Remaining
  <2> QED
    BY <1>0, <1>h, <1>hn, <2>1, <2>2
<1>14. CASE UNCHANGED vars
  BY <1>14 DEF vars, coordinator, adapters, HeldInv, Enlisted, Remaining
<1> QED
  BY <1>2, <1>3, <1>4, <1>5, <1>6, <1>7, <1>9, <1>10, <1>11, <1>12, <1>13, <1>14
     DEF Next, Caller, Continue, Environment

LEMMA AccountInit == Init => AccountInv
BY DEF Init, AccountInv, StatusIsTruthful, LogInv, HeldInv

\* What a call has set, filed under a participant and logged so far, at every
\* point at which it can be dropped or refused by the log (core.rs).
THEOREM AccountInvariance == Spec => []AccountInv
<1>1. IInv /\ IInv' /\ AccountInv /\ [Next]_vars => AccountInv'
  BY StatusStep, LogStep, HeldStep DEF AccountInv
<1> QED
  BY AccountInit, <1>1, Invariance, PTL DEF Spec

\* Whatever call fails, is dropped or cannot be logged, no participant's status
\* claims more than its database has done, and recovery can find every branch
\* in doubt (core.rs, set_status and log_state).
THEOREM TrueAccounts == Spec => []AccountsAreTrue
<1>1. AccountInv => AccountsAreTrue
  BY DEF AccountInv, LogInv, AccountsAreTrue, InDoubtIsLogged
<1> QED
  BY <1>1, AccountInvariance, PTL

\* A transaction that ended has handed every connection back: a session that
\* was filed under the wrong key is a reason not to end.
THEOREM EndedIsFree == Spec => []EndedHoldsNoSession
<1>1. AccountInv => EndedHoldsNoSession
  BY DEF AccountInv, HeldInv, EndedHoldsNoSession
<1> QED
  BY <1>1, AccountInvariance, PTL

-----------------------------------------------------------------------------
(* Recovery after a crash.                                                 *)

LEMMA RecoveryInit == ASSUME Agreed PROVE RInit => RInv
<1> SUFFICES ASSUME RInit PROVE RInv
  OBVIOUS
<1>1. TypeOK /\ IInv /\ AccountInv
  BY TypeInit, IInvInit, AccountInit DEF RInit
<1>2. log.state = "none" /\ state = "NotStarted"
  BY DEF RInit, Init, NoEntry
<1> QED
  BY <1>1, <1>2 DEF RInit, RInv, PresumedAbort

\* While the process runs, the entry is Prepared exactly as long as the
\* coordinator goes for commit.
LEMMA EntryFollowsState ==
    ASSUME Agreed, IInv, Run, log.state = "Prepared" <=> state \in {"Prepared", "Committing"}
    PROVE  (log.state = "Prepared" <=> state \in {"Prepared", "Committing"})'
<1>0. /\ WriteErr = {}
      /\ \A s : Written(s).state = s
      /\ \A s : Deleted(s) = {NoEntry}
      /\ NoEntry.state = "none"
  BY DEF Agreed, DurableLog, WriteErr, Written, Deleted, Entry, NoEntry
<1>1. ASSUME log' = log, state' = state \/ {state, state'} \subseteq {"Prepared", "Committing"}
                         \/ {state, state'} \cap {"Prepared", "Committing"} = {}
      PROVE  (log.state = "Prepared" <=> state \in {"Prepared", "Committing"})'
  BY <1>1
<1>2. Control /\ Next
  BY DEF IInv, Run
<1>3. ASSUME NEW p \in Participants, AddParticipant(p) \/ BeginOne(p) \/ CommitOne(p) \/ RollbackOne(p)
                                     \/ Cancel(p) \/ DbAborts(p)
      PROVE  log' = log /\ state' = state
  BY <1>3 DEF AddParticipant, BeginOne, CommitOne, RollbackOne, Cancel, DbAborts, coordinator
<1>4. ASSUME NEW p \in Participants, PrepareOne(p)
      PROVE  log' = log /\ state = "Preparing" /\ state' \in {"Preparing", "Aborting"}
  BY <1>2, <1>4 DEF PrepareOne, Serving, Enter, Control
<1>5. Begin \/ BeginUnlogged => state = "NotStarted" /\ state' = "Active" /\ log'.state = "Active"
  BY <1>0 DEF Begin, BeginUnlogged, Enter, Leave
<1>6. BeginDone => log' = log /\ state' = state
  BY DEF BeginDone, Leave
<1>7. Prepare => log' = log /\ state = "Active" /\ state' = "Preparing"
  BY DEF Prepare, Enter
<1>8. PrepareDone => state' = "Prepared" /\ log'.state = "Prepared"
  BY <1>0 DEF PrepareDone, Leave
<1>9. Commit => log' = log /\ state = "Prepared" /\ state' = "Committing"
  BY DEF Commit, Enter
<1>10. CommitDone => \/ log' = log /\ state = "Committing" /\ state' = "Prepared"
                     \/ log'.state = "none" /\ state' = "Committed"
  BY <1>0, <1>2 DEF CommitDone, Finished, Leave, Control
<1>11. Rollback => log' = log /\ state \in {"Active", "Preparing"} /\ state' = "Aborting"
  BY DEF Rollback, Enter, Run, Agreed
<1>12. RollbackDone => \/ log' = log /\ state = "Aborting" /\ state' = "Aborting"
                       \/ log'.state = "none" /\ state' = "Aborted"
  BY <1>0, <1>2 DEF RollbackDone, Finished, Leave, Control
<1> QED
  BY <1>1, <1>2, <1>3, <1>4, <1>5, <1>6, <1>7, <1>8, <1>9, <1>10, <1>11, <1>12
     DEF Next, Caller, Continue, Environment

\* The first commit comes after the entry was written in Prepared.
LEMMA NoCommitBeforeVote ==
    ASSUME Agreed, IInv, IInv', [Next]_vars, PresumedAbort,
           log.state = "Prepared" <=> state \in {"Prepared", "Committing"}
    PROVE  PresumedAbort'
<1> SUFFICES ASSUME log'.state = "Active", NEW p \in Participants, branch'[p] = "committed"
             PROVE  FALSE
  BY DEF PresumedAbort
<1>0. /\ WriteErr = {} /\ (\A s : Written(s).state = s) /\ (\A s : Deleted(s) = {NoEntry})
      /\ NoEntry.state = "none" /\ branch \in [Participants -> Branches]
  BY DEF Agreed, DurableLog, WriteErr, Written, Deleted, Entry, NoEntry, IInv, TypeOK
<1>1. CASE log' = log
  <2>1. branch[p] # "committed" /\ branch' # branch
    BY <1>1 DEF PresumedAbort
  <2>2. PICK q \in Participants, b \in Branches :
           /\ branch' = [branch EXCEPT ![q] = b]
           /\ b = "committed" => branch[q] = "prepared"
    BY <2>1, BranchStep
  <2>3. op = "commit"
    <3>1. ASSUME NEW r \in Participants, PrepareOne(r) \/ BeginOne(r) \/ RollbackOne(r) \/ DbAborts(r)
          PROVE  branch'[p] # "committed"
      BY <1>0, <2>1, <3>1 DEF PrepareOne, BeginOne, RollbackOne, DbAborts, SetBranch, PrepareOk,
         PrepareErr, BeginOk, BeginErr, RollbackOk, RollbackErr, Fails
    <3>2. ASSUME NEW r \in Participants, Cancel(r), op # "commit" PROVE branch'[p] # "committed"
      <4>1. op \in {"begin", "prepare", "rollback", "undo"} /\ SetBranch(r, CallEffects(r))
        BY <3>2 DEF Cancel, IInv, TypeOK, Operations
      <4> QED
        BY <1>0, <2>1, <4>1 DEF SetBranch, CallEffects, PrepareOk, PrepareErr, BeginOk, BeginErr,
           RollbackOk, RollbackErr, Fails
    <3>3. \E r \in Participants : BeginOne(r) \/ PrepareOne(r) \/ CommitOne(r) \/ RollbackOne(r)
                                  \/ Cancel(r) \/ DbAborts(r)
      BY <2>1 DEF Next, Caller, Continue, Environment, vars, adapters, coordinator, AddParticipant,
         Begin, BeginUnlogged, BeginDone, Prepare, PrepareDone, Commit, CommitDone, Rollback,
         RollbackDone, Leave
    <3> QED
      BY <3>1, <3>2, <3>3 DEF CommitOne, Serving
  <2> QED
    BY <1>1, <2>3 DEF IInv, Control
<1>2. CASE log' # log
  <2>1. Begin \/ BeginUnlogged \/ PrepareDone \/ CommitDone \/ RollbackDone
    BY <1>2 DEF Next, Caller, Continue, Environment, vars, AddParticipant, BeginOne, BeginDone,
       Prepare, PrepareOne, Commit, CommitOne, Rollback, RollbackOne, Cancel, DbAborts
  <2>2. Begin
    BY <1>0, <1>2, <2>1 DEF BeginUnlogged, PrepareDone, CommitDone, RollbackDone
  <2> QED
    BY <2>2 DEF Begin, IInv, Progress
<1> QED
  BY <1>1, <1>2

LEMMA RecoveryStep == ASSUME Agreed, RInv, [RNext]_rvars PROVE RInv'
<1>1. CASE Run
  <2>1. up = TRUE /\ up' = TRUE /\ Next
    BY <1>1 DEF Run, RInv
  <2>2. /\ IInv /\ AccountInv /\ PresumedAbort /\ TypeOK
        /\ log.state = "Prepared" <=> state \in {"Prepared", "Committing"}
    BY <2>1 DEF RInv
  <2>3. IInv' /\ TypeOK'
    BY <2>1, <2>2, IInvStep, TypeStep
  <2>4. AccountInv'
    BY <2>1, <2>2, <2>3, StatusStep, LogStep, HeldStep DEF AccountInv
  <2>5. PresumedAbort'
    BY <2>1, <2>2, <2>3, NoCommitBeforeVote
  <2>6. (log.state = "Prepared" <=> state \in {"Prepared", "Committing"})'
    BY <1>1, <2>2, EntryFollowsState
  <2> QED
    BY <2>1, <2>3, <2>4, <2>5, <2>6 DEF RInv
<1>2. CASE Crash
  <2>1. /\ up' = FALSE /\ log' \in EntriesAtCrash
        /\ branch' = [p \in Participants |-> IF branch[p] = "active" THEN "rolledback" ELSE branch[p]]
        /\ IInv /\ AccountInv /\ PresumedAbort
        /\ log.state = "Prepared" <=> state \in {"Prepared", "Committing"}
    BY <1>2 DEF Crash, RInv
  <2>2. TypeOK /\ Control /\ Enlisted \subseteq Participants
    BY <2>1 DEF IInv, TypeOK, Enlisted
  <2>3. /\ \A s : Written(s) = Entry(s, Enlisted)
        /\ \A s, ps : Entry(s, ps).state = s /\ Entry(s, ps).ids = ps
        /\ NoEntry.state = "none"
    BY DEF Agreed, DurableLog, Written, Entry, NoEntry
  <2>4. \/ log' = log
        \/ op = "prepare" /\ next > Len(parts) /\ log' = Entry("Prepared", Enlisted)
        \/ /\ op \in {"commit", "rollback", "undo"} /\ next > Len(parts) /\ failures = {}
           /\ log' \in {Entry("Committed", Enlisted), Entry("Aborted", Enlisted), NoEntry}
    BY <2>1, <2>3 DEF EntriesAtCrash, Finished
  <2>5. TypeOK'
    <3>1. log' \in Entries
      BY <2>2, <2>4 DEF TypeOK, Entries, Entry, NoEntry, TransactionState
    <3> QED
      BY <1>2, <2>1, <2>2, <3>1 DEF Crash, TypeOK, TransactionState, ParticipantStatus, Operations,
         Sessions, Branches
  <2>6. AllOrNothing'
    BY <2>1 DEF AllOrNothing, IInv, PointOfNoReturn, SomeCommitted
  <2>7. CASE log' = log
    <3>1. InDoubtIsLogged'
      BY <2>1, <2>7 DEF InDoubtIsLogged, AccountInv, LogInv
    <3>2. log'.state = "Prepared" => \A p \in Participants : branch'[p] \in {"none", "prepared", "committed"}
      BY <2>1, <2>7 DEF IInv, Progress
    <3>3. log'.state = "Active" => \A p \in Participants : branch'[p] \in {"none", "prepared", "rolledback"}
      BY <2>1, <2>2, <2>7 DEF PresumedAbort, TypeOK, Branches
    <3> QED
      BY <2>1, <2>5, <2>6, <3>1, <3>2, <3>3 DEF RInv
  <2>8. CASE op = "prepare" /\ next > Len(parts) /\ log' = Entry("Prepared", Enlisted)
    <3>1. \A p \in Participants : branch[p] = "none" \/ (branch[p] = "prepared" /\ p \in Enlisted)
      <4>1. IInv /\ next > Len(parts) /\ op = "prepare"
        BY <2>1, <2>8
      <4>2. \A p \in Enlisted : branch[p] = "prepared"
        BY <4>1, LoopDone
      <4>3. \A p \in Participants : p \notin Enlisted => branch[p] = "none"
        BY <4>1, LoopDone
      <4> QED
        BY <4>2, <4>3
    <3>2. log'.state = "Prepared" /\ log'.ids = Enlisted
      BY <2>3, <2>8
    <3> QED
      BY <2>1, <2>5, <2>6, <3>1, <3>2 DEF RInv, InDoubtIsLogged
  <2>9. CASE /\ op \in {"commit", "rollback", "undo"} /\ next > Len(parts) /\ failures = {}
             /\ log' \in {Entry("Committed", Enlisted), Entry("Aborted", Enlisted), NoEntry}
    <3>1. \A p \in Participants : branch[p] # "prepared"
      BY <2>1, <2>9, LoopDone
    <3>2. log'.state \notin {"Active", "Prepared"}
      BY <2>3, <2>9
    <3> QED
      BY <2>1, <2>5, <2>6, <3>1, <3>2 DEF RInv, InDoubtIsLogged
  <2> QED
    BY <2>4, <2>7, <2>8, <2>9
<1>3. ASSUME NEW p \in Participants, RollbackByXid(p) \/ CommitByXid(p) PROVE RInv'
  <2>1. /\ up = FALSE /\ up' = FALSE /\ branch[p] = "prepared" /\ log' = log
        /\ UNCHANGED <<parts, state, status, op, next, failures, session, misfiled>>
        /\ \/ log.state = "Active" /\ branch' = [branch EXCEPT ![p] = "rolledback"]
           \/ log.state = "Prepared" /\ branch' = [branch EXCEPT ![p] = "committed"]
    BY <1>3 DEF RollbackByXid, CommitByXid, ByXid, coordinator, adapters, RInv, Agreed
  <2>2. /\ TypeOK /\ AllOrNothing /\ InDoubtIsLogged
        /\ \A q \in Participants :
              /\ log.state = "Prepared" => branch[q] \in {"none", "prepared", "committed"}
              /\ log.state = "Active" => branch[q] \in {"none", "prepared", "rolledback"}
    BY <2>1 DEF RInv
  <2>3. \A q \in Participants \ {p} : branch'[q] = branch[q]
    BY <2>1, <2>2 DEF TypeOK
  <2>4. branch'[p] = IF log.state = "Active" THEN "rolledback" ELSE "committed"
    BY <2>1, <2>2 DEF TypeOK
  <2>5. TypeOK'
    BY <2>1, <2>2 DEF TypeOK, Branches
  <2>6. AllOrNothing' /\ InDoubtIsLogged'
    BY <2>1, <2>2, <2>3, <2>4 DEF AllOrNothing, InDoubtIsLogged
  <2> QED
    BY <2>1, <2>2, <2>3, <2>4, <2>5, <2>6 DEF RInv
<1>4. CASE UNCHANGED rvars
  BY <1>4 DEF rvars, vars, coordinator, adapters, RInv, TypeOK, IInv, Control, Attached, Progress,
     PointOfNoReturn, SomeCommitted, Remaining, Enlisted, AccountInv, StatusIsTruthful, LogInv,
     HeldInv, PresumedAbort, AllOrNothing, InDoubtIsLogged
<1> QED
  BY <1>1, <1>2, <1>3, <1>4 DEF RNext, Recover

\* Through any number of crashes and restarts the log knows every branch that is
\* not decided, in the state the operator needs to decide it as the others were
\* (core.rs, log_state and recover).
THEOREM RecoveryInvariance == ASSUME Agreed PROVE RSpec => []RInv
<1>1. RInv /\ [RNext]_rvars => RInv'
  BY RecoveryStep
<1> QED
  BY RecoveryInit, <1>1, PTL DEF RSpec

\* A crash at any point, also between the log's write and its delete, and an
\* operator who commits what was Prepared and rolls back what was Active: no
\* database is committed while another is rolled back.
THEOREM RecoveryAtomicity == ASSUME Agreed PROVE RSpec => []AllOrNothing
<1>1. RInv => AllOrNothing
  BY DEF RInv, TypeOK, IInv, PointOfNoReturn, SomeCommitted, AllOrNothing
<1> QED
  BY <1>1, RecoveryInvariance, PTL

\* What recovery reads is true of the databases: an entry in Active has no
\* commit, one in Prepared no open branch (core.rs, begin and prepare).
THEOREM TrueEntries == ASSUME Agreed PROVE RSpec => []EntriesAreTrue
<1>1. ASSUME RInv PROVE EntriesAreTrue
  <2>1. CASE up = TRUE
    <3>1. log.ids \subseteq Participants
      BY <1>1 DEF RInv, TypeOK, Entries
    <3> QED
      BY <1>1, <2>1, <3>1 DEF RInv, EntriesAreTrue, PreparedEntryHasVotes, IInv, Progress
  <2>2. CASE up = FALSE
    <3>1. log.ids \subseteq Participants
      BY <1>1 DEF RInv, TypeOK, Entries
    <3> QED
      BY <1>1, <2>2, <3>1 DEF RInv, EntriesAreTrue, PreparedEntryHasVotes, PresumedAbort
  <2> QED
    BY <1>1, <2>1, <2>2 DEF RInv
<1> QED
  BY <1>1, RecoveryInvariance, PTL

=============================================================================
