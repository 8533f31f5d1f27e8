--------------------------- MODULE SessionReplication ---------------------------
(* The replicated session backend of reinhardt-auth (sessions/replication.rs):*)
(* a primary and a secondary store behind one interface, written one after    *)
(* the other, in parallel, or through a queue that a background worker        *)
(* empties into the secondary. The two stores are backends of any kind: a     *)
(* call of one may fail, and a failed call may have had its effect.           *)
(*                                                                            *)
(* The writes of a key are numbered; an entry is the number of the write that *)
(* left it and whether that was a save. Writers gives the clients that write  *)
(* a key; anyone may load it.                                                 *)
EXTENDS Naturals, Sequences

CONSTANTS
    Clients, Keys,
    Writers,        \* the clients that write a key
    Strategies,     \* those of "async", "sync", "acknowledged" in use
    RetryAttempts,  \* retry_attempts of the configuration
    MaxWrites,      \* bound: writes of one key
    MaxRestarts     \* bound: restarts of the process

Stores == {"primary", "secondary"}

ASSUME ReplicationAssumption ==
    /\ Keys # {} /\ Writers \in [Keys -> SUBSET Clients]
    /\ Strategies \subseteq {"async", "sync", "acknowledged"} /\ Strategies # {}
    /\ RetryAttempts \in Nat \ {0} /\ MaxWrites \in Nat /\ MaxRestarts \in Nat

VARIABLES
    strategy,       \* chosen when the backend is made
    store,          \* the entry of each key in each store
    queue,          \* the channel; its head is the event the worker is at
    attempts,       \* failed attempts at that event
    at,             \* where the call of each client is
    op,             \* the write it carries out, or the key it loads
    todo,           \* stores a write has not returned from
    failed,         \* whether one of them returned an error
    issued,         \* history: writes begun
    acked,          \* history: the last write that returned Ok
    lost,           \* history: writes for which no event will be replicated any more
    answer,         \* history: the entry a load returned, and what had been
                    \* acked when it began
    restarts

calls   == <<at, op, todo, failed>>
history == <<issued, acked, lost, answer>>
vars    == <<strategy, store, queue, attempts, calls, history, restarts>>

Entry(n, live) == [version |-> n, live |-> live]
Entries == [version : 0..MaxWrites, live : BOOLEAN]
Writes  == [key : Keys, entry : Entries]
NoWrite == [key |-> CHOOSE k \in Keys : TRUE, entry |-> Entry(0, FALSE)]

Init ==
    /\ strategy \in Strategies
    /\ store = [s \in Stores |-> [k \in Keys |-> Entry(0, FALSE)]]
    /\ queue = <<>> /\ attempts = 0
    /\ at = [c \in Clients |-> "idle"]
    /\ op = [c \in Clients |-> NoWrite]
    /\ todo = [c \in Clients |-> {}]
    /\ failed = [c \in Clients |-> FALSE]
    /\ issued = [k \in Keys |-> 0]
    /\ acked = [k \in Keys |-> 0]
    /\ lost = [k \in Keys |-> {}]
    /\ answer = [c \in Clients |-> [version |-> 0, floor |-> 0]]
    /\ restarts = 0

Key(c)   == op[c].key
OpVersion(c) == op[c].entry.version
Return(c) ==
    /\ at' = [at EXCEPT ![c] = "idle"]
    /\ op' = [op EXCEPT ![c] = NoWrite]
    /\ todo' = [todo EXCEPT ![c] = {}]
    /\ failed' = [failed EXCEPT ![c] = FALSE]
Ok(c) == acked' = [acked EXCEPT ![Key(c)] = OpVersion(c)]
Lose(k, n) == lost' = [lost EXCEPT ![k] = @ \cup {n}]
Put(s, w) == store' = [store EXCEPT ![s][w.key] = w.entry]
-----------------------------------------------------------------------------
(* save and delete.                                                          *)

StartWrite(c, k, live) ==
    /\ at[c] = "idle" /\ c \in Writers[k] /\ issued[k] < MaxWrites
    /\ issued' = [issued EXCEPT ![k] = @ + 1]
    /\ op' = [op EXCEPT ![c] = [key |-> k, entry |-> Entry(issued[k] + 1, live)]]
    /\ todo' = [todo EXCEPT ![c] =
                   IF strategy = "async" THEN {"primary"} ELSE Stores]
    /\ at' = [at EXCEPT ![c] = "write"]
    /\ UNCHANGED <<strategy, store, queue, attempts, failed, acked, lost, answer, restarts>>

\* The store whose call may return next: the two run in parallel under "sync".
MayReturn(c, s) ==
    /\ at[c] = "write" /\ s \in todo[c]
    /\ strategy = "sync" \/ s = "primary" \/ "primary" \notin todo[c]

Written(c, s) ==
    /\ MayReturn(c, s) /\ Put(s, op[c])
    /\ IF todo[c] # {s} THEN
          /\ todo' = [todo EXCEPT ![c] = @ \ {s}]
          /\ UNCHANGED <<at, op, failed, acked>>
       ELSE IF strategy = "async" THEN
          /\ at' = [at EXCEPT ![c] = "enqueue"]
          /\ UNCHANGED <<op, todo, failed, acked>>
       ELSE Return(c) /\ IF failed[c] THEN UNCHANGED acked ELSE Ok(c)
    /\ UNCHANGED <<strategy, queue, attempts, issued, lost, answer, restarts>>

MutNotWritten(c, s) ==
    /\ MayReturn(c, s) /\ UNCHANGED store
    /\ IF todo[c] # {s} THEN
          /\ todo' = [todo EXCEPT ![c] = @ \ {s}]
          /\ UNCHANGED <<at, op, failed, acked>>
       ELSE Return(c) /\ Ok(c)
    /\ UNCHANGED <<strategy, queue, attempts, issued, lost, answer, restarts>>

\* The store returns an error, its effect done or not. Only "sync" waits for
\* the other store.
NotWritten(c, s) ==
    /\ MayReturn(c, s)
    /\ \/ UNCHANGED <<store, lost>>
       \/ Put(s, op[c]) /\ Lose(Key(c), OpVersion(c))
    /\ IF strategy = "sync" /\ todo[c] # {s} THEN
          /\ todo' = [todo EXCEPT ![c] = @ \ {s}]
          /\ failed' = [failed EXCEPT ![c] = TRUE]
          /\ UNCHANGED <<at, op>>
       ELSE Return(c)
    /\ UNCHANGED <<strategy, queue, attempts, issued, acked, answer, restarts>>

MutEnqueue(c) ==
    /\ at[c] = "enqueue"
    /\ queue' = IF op[c].entry.live THEN Append(queue, op[c]) ELSE queue
    /\ Return(c) /\ Ok(c)
    /\ UNCHANGED <<strategy, store, attempts, issued, lost, answer, restarts>>

Enqueue(c) ==
    /\ at[c] = "enqueue"
    /\ queue' = Append(queue, op[c])
    /\ Return(c) /\ Ok(c)
    /\ UNCHANGED <<strategy, store, attempts, issued, lost, answer, restarts>>
-----------------------------------------------------------------------------
(* load: the primary, then the secondary if the primary has no session.      *)

Answer(c, s) ==
    answer' = [answer EXCEPT ![c].version = store[s][Key(c)].version]

StartLoad(c, k) ==
    /\ at[c] = "idle"
    /\ at' = [at EXCEPT ![c] = "load"]
    /\ op' = [op EXCEPT ![c] = [NoWrite EXCEPT !.key = k]]
    /\ answer' = [answer EXCEPT ![c] = [version |-> MaxWrites, floor |-> acked[k]]]
    /\ UNCHANGED <<strategy, store, queue, attempts, todo, failed, issued, acked, lost, restarts>>

LoadPrimary(c) ==
    /\ at[c] = "load"
    /\ IF store["primary"][Key(c)].live
       THEN Answer(c, "primary") /\ Return(c)
       ELSE /\ at' = [at EXCEPT ![c] = "fallback"]
            /\ UNCHANGED <<op, todo, failed, answer>>
    /\ UNCHANGED <<strategy, store, queue, attempts, issued, acked, lost, restarts>>

LoadSecondary(c) ==
    /\ at[c] = "fallback"
    /\ Answer(c, "secondary") /\ Return(c)
    /\ UNCHANGED <<strategy, store, queue, attempts, issued, acked, lost, restarts>>

\* The future of a call is dropped while it awaits a store, or a load fails.
Cancel(c) ==
    /\ at[c] \in {"write", "load", "fallback"}
    /\ Return(c)
    /\ UNCHANGED <<strategy, store, queue, attempts, history, restarts>>
-----------------------------------------------------------------------------
(* replication_worker.                                                       *)

Replicated ==
    /\ queue # <<>>
    /\ Put("secondary", Head(queue))
    /\ queue' = Tail(queue) /\ attempts' = 0
    /\ UNCHANGED <<strategy, calls, history, restarts>>

MutRequeue ==
    /\ queue # <<>> /\ UNCHANGED store
    /\ queue' = Append(Tail(queue), Head(queue)) /\ attempts' = 0
    /\ UNCHANGED <<strategy, calls, history, restarts>>

\* An attempt fails, its effect done or not. The last one drops the event.
NotReplicated ==
    /\ queue # <<>>
    /\ UNCHANGED store \/ Put("secondary", Head(queue))
    /\ IF attempts + 1 >= RetryAttempts
       THEN /\ queue' = Tail(queue) /\ attempts' = 0
            /\ Lose(Head(queue).key, Head(queue).entry.version)
       ELSE attempts' = attempts + 1 /\ UNCHANGED <<queue, lost>>
    /\ UNCHANGED <<strategy, calls, issued, acked, answer, restarts>>

\* The process restarts: calls and the queue are gone, the stores are not.
Restart ==
    /\ restarts < MaxRestarts /\ restarts' = restarts + 1
    /\ queue' = <<>> /\ attempts' = 0
    /\ at' = [c \in Clients |-> "idle"]
    /\ op' = [c \in Clients |-> NoWrite]
    /\ todo' = [c \in Clients |-> {}]
    /\ failed' = [c \in Clients |-> FALSE]
    /\ lost' = [k \in Keys |-> lost[k] \cup {store["primary"][k].version}]
    /\ UNCHANGED <<strategy, store, issued, acked, answer>>

Proceed(c) ==
    \/ \E s \in Stores : Written(c, s) \/ NotWritten(c, s)
    \/ Enqueue(c) \/ LoadPrimary(c) \/ LoadSecondary(c)
Worker == Replicated \/ NotReplicated

Next ==
    \/ \E c \in Clients :
          \/ \E k \in Keys, live \in BOOLEAN : StartWrite(c, k, live)
          \/ \E k \in Keys : StartLoad(c, k)
          \/ Proceed(c) \/ Cancel(c)
    \/ Worker \/ Restart

\* The stores answer, and the worker's task is polled.
Fairness == WF_vars(Worker) /\ \A c \in Clients : WF_vars(Proceed(c))

Spec == Init /\ [][Next]_vars /\ Fairness
-----------------------------------------------------------------------------
(* Properties.                                                               *)

Version(s, k) == store[s][k].version

TypeOK ==
    /\ strategy \in Strategies
    /\ store \in [Stores -> [Keys -> Entries]]
    /\ queue \in Seq(Writes) /\ attempts \in 0..(RetryAttempts - 1)
    /\ at \in [Clients -> {"idle", "write", "enqueue", "load", "fallback"}]
    /\ op \in [Clients -> Writes]
    /\ todo \in [Clients -> SUBSET Stores] /\ failed \in [Clients -> BOOLEAN]
    /\ issued \in [Keys -> 0..MaxWrites] /\ acked \in [Keys -> 0..MaxWrites]
    /\ lost \in [Keys -> SUBSET (0..MaxWrites)]
    /\ answer \in [Clients -> [version : 0..MaxWrites, floor : 0..MaxWrites]]
    /\ restarts \in 0..MaxRestarts

\* A save or delete that returned Ok is in the primary, and under "sync" or
\* "acknowledged" in both stores, through failures, dropped calls and restarts.
AckedInStores ==
    \A k \in Keys, s \in Stores :
        strategy # "async" \/ s = "primary" => Version(s, k) >= acked[k]

\* Under those two a load finds nothing older than what had returned Ok when it
\* began: a deleted session does not come back out of the secondary, though
\* the two stores are read at different times.
NoStaleLoads ==
    strategy # "async" => \A c \in Clients : answer[c].version >= answer[c].floor

\* Under "async" a write of the primary is in the secondary, or on its way, or
\* was given up: its call failed, the process restarted, or the worker dropped
\* it after its attempts. One writer of a key at a time.
NothingForgotten ==
    strategy = "async" => \A k \in Keys :
        LET n == Version("primary", k)
            Is(w) == w.key = k /\ w.entry.version = n
        IN  \/ n \in lost[k] \cup {Version("secondary", k)}
            \/ \E i \in DOMAIN queue : Is(queue[i])
            \/ \E c \in Clients : at[c] = "enqueue" /\ Is(op[c])

\* What has returned Ok is where the strategy says: in both stores for whoever
\* loads it, or in the primary and on its way to the second one.
AckedIsKept == TypeOK /\ AckedInStores /\ NoStaleLoads /\ NothingForgotten

\* "Replicate asynchronously (eventual consistency)" (replication.rs:66): when
\* the writes stop the secondary ends up with the primary's entry, unless that
\* very write was given up; an earlier one given up does no harm.
Converges ==
    <>[](strategy = "async" => \A k \in Keys :
             Version("primary", k) \in lost[k] \cup {Version("secondary", k)})

\* Neither store goes back to an older entry or invents one: a retry of an
\* event that was applied, and the worker between two writes, included.
Copies == INSTANCE VersionedCopies WITH
    first  <- [k \in Keys |-> Version("primary", k)],
    second <- [k \in Keys |-> Version("secondary", k)]
CopiesAdvance == Copies!Spec
=============================================================================
