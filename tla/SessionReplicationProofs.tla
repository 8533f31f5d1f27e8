------------------------ MODULE SessionReplicationProofs ------------------------
(***************************************************************************)
(* Proofs about SessionReplication, for any clients, keys, strategies and  *)
(* bounds, where a key has one writer at a time: a client that saves a     *)
(* session another client is saving may overtake it at one store only, and *)
(* then neither invariant is promised.                                     *)
(***************************************************************************)
EXTENDS SessionReplication, SequenceTheorems, TLAPS

OneWriterEach == \A k \in Keys : \A c, d \in Writers[k] : c = d

(***************************************************************************)
(* The inductive invariant: who writes a key has its last number; what the *)
(* queue holds of a key lies, in order, between the two copies; and the    *)
(* stores a write has returned from have it.                               *)
(***************************************************************************)
VersionInv ==
    \A k \in Keys :
        acked[k] <= issued[k] /\ \A s \in Stores : Version(s, k) <= issued[k]

CallInv(c) ==
    /\ at[c] \in {"write", "enqueue"} =>
           c \in Writers[Key(c)] /\ OpVersion(c) = issued[Key(c)]
    /\ at[c] = "write" /\ strategy = "async" => todo[c] = {"primary"}
    /\ at[c] = "write" /\ strategy # "async" /\ ~failed[c] =>
           \A s \in Stores \ todo[c] : Version(s, Key(c)) = OpVersion(c)
    /\ at[c] = "enqueue" =>
           strategy = "async" /\ Version("primary", Key(c)) = OpVersion(c)
    /\ at[c] \in {"load", "fallback"} => answer[c].floor <= acked[Key(c)]

QueueInv ==
    /\ queue # <<>> => strategy = "async"
    /\ \A i \in 1 .. Len(queue) :
          /\ queue[i].entry.version <= Version("primary", queue[i].key)
          /\ Version("secondary", queue[i].key) <= queue[i].entry.version
    /\ \A i, j \in 1 .. Len(queue) :
          i < j /\ queue[i].key = queue[j].key =>
              queue[i].entry.version <= queue[j].entry.version

IInv ==
    /\ AckedIsKept /\ VersionInv /\ QueueInv
    /\ \A c \in Clients : CallInv(c)

USE ReplicationAssumption DEF calls, history, Stores

\* The records of the model.
LEMMA Records ==
    /\ \A w \in Writes : w.key \in Keys /\ w.entry \in Entries
    /\ \A e \in Entries : e.version \in 0 .. MaxWrites /\ e.version \in Nat
    /\ \A n \in 0 .. MaxWrites, b \in BOOLEAN : Entry(n, b) \in Entries /\ Entry(n, b).version = n
    /\ \A k \in Keys, e \in Entries : [key |-> k, entry |-> e] \in Writes
  BY DEF Writes, Entries, Entry

\* The write of a key that was issued last is where NothingForgotten looks.
Kept(k) ==
    \/ Version("primary", k) \in lost[k] \cup {Version("secondary", k)}
    \/ \E i \in 1 .. Len(queue) :
          queue[i].key = k /\ queue[i].entry.version = Version("primary", k)
    \/ \E c \in Clients :
          at[c] = "enqueue" /\ Key(c) = k /\ OpVersion(c) = Version("primary", k)

LEMMA KeptIs ==
    ASSUME queue \in Seq(Writes)
    PROVE  NothingForgotten <=> (strategy = "async" => \A k \in Keys : Kept(k))
  <1>1. DOMAIN queue = 1 .. Len(queue)
    BY LenProperties
  <1> QED
    BY <1>1 DEF NothingForgotten, Kept, Key, OpVersion

LEMMA KeptNext ==
    ASSUME queue' \in Seq(Writes), strategy' = "async" => \A k \in Keys : Kept(k)'
    PROVE  NothingForgotten'
  <1>1. DOMAIN queue' = 1 .. Len(queue')
    BY LenProperties
  <1> QED
    BY <1>1 DEF NothingForgotten, Kept, Key, OpVersion

LEMMA NoWriteOK == NoWrite \in Writes /\ NoWrite.entry.version = 0
  <1>1. (CHOOSE k \in Keys : TRUE) \in Keys
    OBVIOUS
  <1> QED
    BY <1>1 DEF NoWrite, Writes, Entries, Entry

LEMMA PutOK ==
    ASSUME store \in [Stores -> [Keys -> Entries]], NEW s \in Stores, NEW w \in Writes, Put(s, w)
    PROVE  /\ store' \in [Stores -> [Keys -> Entries]]
           /\ \A t \in Stores, k \in Keys :
                 store'[t][k] = IF t = s /\ k = w.key THEN w.entry ELSE store[t][k]
  <1>1. w.key \in Keys /\ w.entry \in Entries
    BY Records
  <1> DEFINE f == [store[s] EXCEPT ![w.key] = w.entry]
  <1>2. store' = [store EXCEPT ![s] = f]
    BY DEF Put
  <1>3. f \in [Keys -> Entries] /\ \A k \in Keys : f[k] = IF k = w.key THEN w.entry ELSE store[s][k]
    BY <1>1
  <1> HIDE DEF f
  <1> QED
    BY <1>2, <1>3

LEMMA CallPuts ==
    ASSUME TypeOK, NEW c \in Clients, NEW s \in Stores, Put(s, op[c])
    PROVE  /\ store' \in [Stores -> [Keys -> Entries]]
           /\ \A t \in Stores, k \in Keys :
                 store'[t][k] = IF t = s /\ k = op[c].key THEN op[c].entry ELSE store[t][k]
  <1>1. store \in [Stores -> [Keys -> Entries]] /\ op[c] \in Writes
    BY DEF TypeOK
  <1>2. store' \in [Stores -> [Keys -> Entries]]
    BY <1>1, PutOK
  <1>3. \A t \in Stores, k \in Keys :
            store'[t][k] = IF t = s /\ k = op[c].key THEN op[c].entry ELSE store[t][k]
    BY <1>1, PutOK
  <1> QED
    BY <1>2, <1>3

LEMMA ReturnOK ==
    ASSUME TypeOK, NEW c \in Clients, Return(c)
    PROVE  /\ at' \in [Clients -> {"idle", "write", "enqueue", "load", "fallback"}]
           /\ op' \in [Clients -> Writes] /\ todo' \in [Clients -> SUBSET Stores]
           /\ failed' \in [Clients -> BOOLEAN] /\ at'[c] = "idle"
           /\ \A d \in Clients : d # c => at'[d] = at[d] /\ op'[d] = op[d]
                                          /\ todo'[d] = todo[d] /\ failed'[d] = failed[d]
  BY NoWriteOK DEF TypeOK, Return

\* What a store holds, an event and a call carry a number, never a larger one
\* than was issued.
LEMMA Numbers ==
    ASSUME TypeOK
    PROVE  /\ \A s \in Stores, k \in Keys : Version(s, k) \in Nat /\ store[s][k] \in Entries
           /\ \A k \in Keys : acked[k] \in Nat /\ issued[k] \in Nat
           /\ \A c \in Clients : Key(c) \in Keys /\ OpVersion(c) \in Nat /\ op[c] \in Writes
           /\ \A i \in 1 .. Len(queue) :
                 queue[i].key \in Keys /\ queue[i].entry.version \in Nat /\ queue[i] \in Writes
           /\ Len(queue) \in Nat
  <1>1. \A i \in 1 .. Len(queue) : queue[i] \in Writes
    BY ElementOfSeq DEF TypeOK
  <1>2. Len(queue) \in Nat
    BY LenProperties DEF TypeOK
  <1>3. \A s \in Stores, k \in Keys : store[s][k] \in Entries
    BY DEF TypeOK
  <1>4. \A k \in Keys : acked[k] \in 0 .. MaxWrites /\ issued[k] \in 0 .. MaxWrites
    BY DEF TypeOK
  <1>5. \A c \in Clients : op[c] \in Writes
    BY DEF TypeOK
  <1>6. \A s \in Stores, k \in Keys : Version(s, k) \in Nat
    BY <1>3, Records DEF Version
  <1>7. \A c \in Clients : Key(c) \in Keys /\ OpVersion(c) \in Nat
    BY <1>5, Records DEF Key, OpVersion
  <1> QED
    BY <1>1, <1>2, <1>3, <1>4, <1>5, <1>6, <1>7, Records
-----------------------------------------------------------------------------
(***************************************************************************)
(* One lemma per step.                                                     *)
(***************************************************************************)
LEMMA StartWriteStep ==
    ASSUME IInv, OneWriterEach, NEW c \in Clients, NEW k \in Keys, NEW live \in BOOLEAN,
           StartWrite(c, k, live)
    PROVE  IInv'
  <1>0. TypeOK /\ AckedInStores /\ NoStaleLoads /\ NothingForgotten /\ VersionInv /\ QueueInv
        /\ \A d \in Clients : CallInv(d)
    BY DEF IInv, AckedIsKept
  <1>1. /\ at[c] = "idle" /\ c \in Writers[k] /\ issued[k] < MaxWrites
        /\ issued' = [issued EXCEPT ![k] = @ + 1]
        /\ op' = [op EXCEPT ![c] = [key |-> k, entry |-> Entry(issued[k] + 1, live)]]
        /\ todo' = [todo EXCEPT ![c] = IF strategy = "async" THEN {"primary"} ELSE Stores]
        /\ at' = [at EXCEPT ![c] = "write"]
        /\ strategy' = strategy /\ store' = store /\ queue' = queue /\ attempts' = attempts
        /\ failed' = failed /\ acked' = acked /\ lost' = lost /\ answer' = answer
        /\ restarts' = restarts
    BY DEF StartWrite
  <1>2. TypeOK'
    <2>1. /\ issued[k] \in Nat /\ issued[k] + 1 \in 0 .. MaxWrites
          /\ op \in [Clients -> Writes] /\ todo \in [Clients -> SUBSET Stores]
          /\ issued \in [Keys -> 0 .. MaxWrites]
      BY <1>0, <1>1 DEF TypeOK
    <2>2. [key |-> k, entry |-> Entry(issued[k] + 1, live)] \in Writes
      BY <2>1, Records
    <2>3. op' \in [Clients -> Writes] /\ issued' \in [Keys -> 0 .. MaxWrites]
      BY <1>1, <2>1, <2>2
    <2>4. todo' \in [Clients -> SUBSET Stores]
      BY <1>1, <2>1
    <2> QED
      BY <1>0, <1>1, <2>3, <2>4 DEF TypeOK
  <1>3. \A d \in Clients : d # c => at'[d] = at[d] /\ op'[d] = op[d] /\ todo'[d] = todo[d]
    BY <1>0, <1>1 DEF TypeOK
  <1>4. VersionInv'
    <2>1. \A j \in Keys : issued'[j] = IF j = k THEN issued[k] + 1 ELSE issued[j]
      BY <1>0, <1>1 DEF TypeOK
    <2>2. \A j \in Keys : /\ acked[j] \in Nat /\ issued[j] \in Nat
                          /\ \A s \in Stores : Version(s, j) \in Nat
      BY <1>0, Numbers
    <2>3. \A j \in Keys, s \in Stores : Version(s, j)' = Version(s, j)
      BY <1>1 DEF Version
    <2> QED
      BY <1>0, <1>1, <2>1, <2>2, <2>3 DEF VersionInv
  <1>5. QueueInv'
    BY <1>0, <1>1 DEF QueueInv, Version
  <1>6. ASSUME NEW d \in Clients PROVE CallInv(d)'
    <2>1. CASE d = c
      <3>1. /\ at'[c] = "write" /\ op'[c].key = k /\ op'[c].entry.version = issued'[k]
            /\ todo'[c] = IF strategy = "async" THEN {"primary"} ELSE Stores
        <4>1. /\ issued[k] + 1 \in 0 .. MaxWrites /\ issued'[k] = issued[k] + 1
              /\ DOMAIN at = Clients /\ DOMAIN op = Clients /\ DOMAIN todo = Clients
          <5>1. /\ issued \in [Keys -> 0 .. MaxWrites]
                /\ DOMAIN at = Clients /\ DOMAIN op = Clients /\ DOMAIN todo = Clients
            BY <1>0 DEF TypeOK
          <5>2. issued[k] < MaxWrites /\ issued' = [issued EXCEPT ![k] = issued[k] + 1] /\ MaxWrites \in Nat
            BY <1>1
          <5> QED
            BY ONLY <5>1, <5>2, k \in Keys
        <4> QED
          BY <1>1, <4>1, Records
      <3> QED
        BY <1>1, <2>1, <3>1 DEF CallInv, Key, OpVersion
    <2>2. CASE d # c /\ at[d] \in {"write", "enqueue"}
      <3>1. op[d].key # k
        BY <1>0, <1>1, <2>2 DEF CallInv, OneWriterEach, Key
      <3>2. op[d].key \in Keys /\ issued'[op[d].key] = issued[op[d].key]
        BY <1>0, <1>1, <3>1, Numbers DEF TypeOK, Key
      <3> QED
        BY <1>0, <1>1, <1>3, <2>2, <3>2 DEF CallInv, Key, OpVersion, Version
    <2>3. CASE d # c /\ at[d] \notin {"write", "enqueue"}
      BY <1>0, <1>1, <1>3, <2>3 DEF CallInv, Key
    <2> QED
      BY <2>1, <2>2, <2>3
  <1>7. AckedInStores' /\ NoStaleLoads'
    BY <1>0, <1>1 DEF AckedInStores, NoStaleLoads, Version
  <1>8. ASSUME strategy' = "async", NEW j \in Keys PROVE Kept(j)'
    <2>1. Kept(j)
      BY <1>0, <1>1, <1>8, KeptIs DEF TypeOK
    <2>2. \A d \in Clients : at[d] = "enqueue" => at'[d] = "enqueue" /\ op'[d] = op[d]
      BY <1>1, <1>3
    <2> QED
      BY <1>1, <2>1, <2>2 DEF Kept, Version, Key, OpVersion
  <1> QED
    BY <1>2, <1>4, <1>5, <1>6, <1>7, <1>8, KeptNext DEF IInv, AckedIsKept, TypeOK

\* A step of one client that moves no entry.
LEMMA QuietStep ==
    ASSUME IInv, TypeOK', NEW c \in Clients, CallInv(c)', at[c] # "enqueue",
           strategy' = strategy, store' = store, queue' = queue, issued' = issued,
           acked' = acked, lost' = lost,
           \A d \in Clients : d # c => /\ at'[d] = at[d] /\ op'[d] = op[d] /\ todo'[d] = todo[d]
                                       /\ failed'[d] = failed[d] /\ answer'[d] = answer[d],
           strategy # "async" => answer'[c].version >= answer'[c].floor
    PROVE  IInv'
  <1>0. TypeOK /\ AckedInStores /\ NoStaleLoads /\ NothingForgotten /\ VersionInv /\ QueueInv
        /\ \A d \in Clients : CallInv(d)
    BY DEF IInv, AckedIsKept
  <1>1. \A s, k : Version(s, k)' = Version(s, k)
    BY DEF Version
  <1>2. VersionInv' /\ AckedInStores'
    BY <1>0, <1>1 DEF VersionInv, AckedInStores
  <1>3. QueueInv'
    BY <1>0 DEF QueueInv, Version
  <1>4. ASSUME NEW d \in Clients, d # c PROVE CallInv(d)'
    BY <1>0, <1>4 DEF CallInv, Key, OpVersion, Version
  <1>5. NoStaleLoads'
    <2>1. \A d \in Clients : strategy # "async" => answer'[d].version >= answer'[d].floor
      BY <1>0 DEF NoStaleLoads
    <2> QED
      BY <2>1 DEF NoStaleLoads
  <1>6. ASSUME strategy' = "async", NEW j \in Keys PROVE Kept(j)'
    <2>1. Kept(j)
      BY <1>0, <1>6, KeptIs DEF TypeOK
    <2>2. \A d \in Clients : at[d] = "enqueue" => at'[d] = "enqueue" /\ op'[d] = op[d]
      OBVIOUS
    <2> QED
      BY <2>1, <2>2 DEF Kept, Version, Key, OpVersion
  <1> QED
    BY <1>2, <1>3, <1>4, <1>5, <1>6, KeptNext DEF IInv, AckedIsKept, TypeOK

LEMMA StartLoadStep ==
    ASSUME IInv, NEW c \in Clients, NEW k \in Keys, StartLoad(c, k)
    PROVE  IInv'
  <1>0. TypeOK /\ VersionInv /\ acked[k] \in 0 .. MaxWrites
    BY DEF IInv, AckedIsKept, TypeOK
  <1>1. /\ at[c] = "idle" /\ at' = [at EXCEPT ![c] = "load"]
        /\ op' = [op EXCEPT ![c] = [NoWrite EXCEPT !.key = k]]
        /\ answer' = [answer EXCEPT ![c] = [version |-> MaxWrites, floor |-> acked[k]]]
        /\ strategy' = strategy /\ store' = store /\ queue' = queue /\ attempts' = attempts
        /\ todo' = todo /\ failed' = failed /\ issued' = issued /\ acked' = acked
        /\ lost' = lost /\ restarts' = restarts
    BY DEF StartLoad
  <1>2. [NoWrite EXCEPT !.key = k] \in Writes /\ [NoWrite EXCEPT !.key = k].key = k
    BY NoWriteOK DEF Writes
  <1>3. /\ op' \in [Clients -> Writes] /\ op'[c].key = k
        /\ answer' \in [Clients -> [version : 0 .. MaxWrites, floor : 0 .. MaxWrites]]
        /\ answer'[c] = [version |-> MaxWrites, floor |-> acked[k]] /\ at'[c] = "load"
        /\ \A d \in Clients : d # c => at'[d] = at[d] /\ op'[d] = op[d] /\ answer'[d] = answer[d]
    <2> DEFINE answers == [version : 0 .. MaxWrites, floor : 0 .. MaxWrites]
               start == [version |-> MaxWrites, floor |-> acked[k]]
               write == [NoWrite EXCEPT !.key = k]
    <2>1. /\ op \in [Clients -> Writes] /\ answer \in [Clients -> answers]
          /\ acked[k] \in 0 .. MaxWrites /\ DOMAIN at = Clients
      BY <1>0 DEF TypeOK
    <2>2. start \in answers
      BY <2>1
    <2>3. /\ at' = [at EXCEPT ![c] = "load"] /\ op' = [op EXCEPT ![c] = write]
          /\ answer' = [answer EXCEPT ![c] = start] /\ write \in Writes /\ write.key = k
      BY <1>1, <1>2
    <2> HIDE DEF answers, start, write
    <2>4. /\ op' \in [Clients -> Writes] /\ op'[c].key = k /\ answer' \in [Clients -> answers]
          /\ answer'[c] = start /\ at'[c] = "load"
          /\ \A d \in Clients : d # c => at'[d] = at[d] /\ op'[d] = op[d] /\ answer'[d] = answer[d]
      BY ONLY <2>1, <2>2, <2>3, c \in Clients
    <2> QED
      BY <2>4 DEF answers, start
  <1>4. TypeOK'
    BY <1>0, <1>1, <1>3 DEF TypeOK
  <1>5. CallInv(c)'
    BY <1>0, <1>1, <1>3 DEF CallInv, Key
  <1>6. answer'[c].version >= answer'[c].floor
    BY <1>0, <1>3
  <1> QED
    BY <1>1, <1>3, <1>4, <1>5, <1>6, QuietStep

LEMMA IdleInv == ASSUME NEW c \in Clients, at'[c] = "idle" PROVE CallInv(c)'
  BY DEF CallInv

LEMMA AnsweredStep ==
    ASSUME IInv, NEW c \in Clients, NEW s \in Stores, at[c] \in {"load", "fallback"},
           Answer(c, s), Return(c),
           strategy' = strategy, store' = store, queue' = queue, attempts' = attempts,
           issued' = issued, acked' = acked, lost' = lost, restarts' = restarts
    PROVE  IInv'
  <1>0. TypeOK /\ CallInv(c) /\ AckedInStores /\ NoStaleLoads
    BY DEF IInv, AckedIsKept
  <1> DEFINE n == Version(s, Key(c))
  <1>1. Key(c) \in Keys /\ store[s][Key(c)] \in Entries /\ n \in 0 .. MaxWrites
    <2>1. Key(c) \in Keys /\ store[s][Key(c)] \in Entries
      BY <1>0, Numbers
    <2> QED
      BY <2>1, Records DEF Version
  <1>2. answer' = [answer EXCEPT ![c].version = n]
    BY DEF Answer, Version
  <1>3. answer \in [Clients -> [version : 0 .. MaxWrites, floor : 0 .. MaxWrites]]
    BY <1>0 DEF TypeOK
  <1> HIDE DEF n
  <1>4. /\ answer' \in [Clients -> [version : 0 .. MaxWrites, floor : 0 .. MaxWrites]]
        /\ answer'[c].version = n /\ answer'[c].floor = answer[c].floor
        /\ \A d \in Clients : d # c => answer'[d] = answer[d]
    BY <1>1, <1>2, <1>3
  <1>5. ASSUME strategy # "async" PROVE n >= answer[c].floor
    <2>1. n >= acked[Key(c)] /\ answer[c].floor <= acked[Key(c)] /\ acked[Key(c)] \in Nat
      BY <1>0, <1>1, <1>5, Numbers DEF AckedInStores, CallInv, n
    <2> QED
      BY <1>1, <1>3, <2>1
  <1>6. TypeOK'
    BY <1>0, <1>4, ReturnOK DEF TypeOK
  <1>7. CallInv(c)'
    BY <1>0, ReturnOK, IdleInv
  <1> QED
    BY <1>0, <1>4, <1>5, <1>6, <1>7, ReturnOK, QuietStep

LEMMA LoadPrimaryStep ==
    ASSUME IInv, NEW c \in Clients, LoadPrimary(c)
    PROVE  IInv'
  <1>0. TypeOK /\ CallInv(c) /\ NoStaleLoads
    BY DEF IInv, AckedIsKept
  <1>1. /\ at[c] = "load"
        /\ strategy' = strategy /\ store' = store /\ queue' = queue /\ attempts' = attempts
        /\ issued' = issued /\ acked' = acked /\ lost' = lost /\ restarts' = restarts
    BY DEF LoadPrimary
  <1>2. CASE store["primary"][Key(c)].live
    BY <1>1, <1>2, AnsweredStep DEF LoadPrimary
  <1>3. CASE ~store["primary"][Key(c)].live
    <2>1. /\ at' = [at EXCEPT ![c] = "fallback"]
          /\ op' = op /\ todo' = todo /\ failed' = failed /\ answer' = answer
      BY <1>3 DEF LoadPrimary
    <2>2. at'[c] = "fallback" /\ \A d \in Clients : d # c => at'[d] = at[d]
      BY <1>0, <2>1 DEF TypeOK
    <2>3. TypeOK'
      BY <1>0, <1>1, <2>1 DEF TypeOK
    <2>4. CallInv(c)'
      BY <1>0, <1>1, <2>1, <2>2 DEF CallInv, Key
    <2> QED
      BY <1>0, <1>1, <2>1, <2>2, <2>3, <2>4, QuietStep DEF NoStaleLoads
  <1> QED
    BY <1>2, <1>3

LEMMA LoadSecondaryStep ==
    ASSUME IInv, NEW c \in Clients, LoadSecondary(c)
    PROVE  IInv'
  <1>1. /\ at[c] = "fallback" /\ Answer(c, "secondary") /\ Return(c)
        /\ strategy' = strategy /\ store' = store /\ queue' = queue /\ attempts' = attempts
        /\ issued' = issued /\ acked' = acked /\ lost' = lost /\ restarts' = restarts
    BY DEF LoadSecondary
  <1> QED
    BY <1>1, AnsweredStep

LEMMA CancelStep ==
    ASSUME IInv, NEW c \in Clients, Cancel(c)
    PROVE  IInv'
  <1>0. TypeOK /\ NoStaleLoads
    BY DEF IInv, AckedIsKept
  <1>1. /\ at[c] \in {"write", "load", "fallback"} /\ Return(c)
        /\ strategy' = strategy /\ store' = store /\ queue' = queue /\ attempts' = attempts
        /\ issued' = issued /\ acked' = acked /\ lost' = lost /\ answer' = answer
        /\ restarts' = restarts
    BY DEF Cancel
  <1>2. TypeOK'
    BY <1>0, <1>1, ReturnOK DEF TypeOK
  <1>3. CallInv(c)'
    BY <1>0, <1>1, ReturnOK, IdleInv
  <1> QED
    BY <1>0, <1>1, <1>2, <1>3, ReturnOK, QuietStep DEF NoStaleLoads

\* A write reaches a store: nobody else writes its key, and nothing newer has
\* been issued of it.
OthersStand(c) ==
    \A d \in Clients : d # c => /\ at'[d] = at[d] /\ op'[d] = op[d] /\ todo'[d] = todo[d]
                                /\ failed'[d] = failed[d] /\ answer'[d] = answer[d]
MayAck(c) == acked' = acked \/ acked' = [acked EXCEPT ![Key(c)] = OpVersion(c)]

PutDone(c, s) ==
    /\ store' \in [Stores -> [Keys -> Entries]]
    /\ acked' \in [Keys -> 0 .. MaxWrites]
    /\ store'[s][Key(c)].version = OpVersion(c)
    /\ \A t \in Stores, k \in Keys : t # s \/ k # Key(c) => store'[t][k] = store[t][k]
    /\ \A t \in Stores, k \in Keys : store'[t][k].version >= Version(t, k)
    /\ VersionInv' /\ QueueInv' /\ \A d \in Clients : d # c => CallInv(d)'
    /\ OpVersion(c) \in 0 .. MaxWrites /\ Key(c) \in Keys

LEMMA PutStep ==
    ASSUME IInv, OneWriterEach, NEW c \in Clients, NEW s \in Stores, at[c] = "write",
           s \in todo[c], Put(s, op[c]), strategy' = strategy, queue' = queue, issued' = issued,
           MayAck(c), OthersStand(c)
    PROVE  PutDone(c, s)
  <1>0. TypeOK /\ VersionInv /\ QueueInv /\ \A d \in Clients : CallInv(d)
    BY DEF IInv, AckedIsKept
  <1>a. /\ store' \in [Stores -> [Keys -> Entries]]
         /\ \A t \in Stores, j \in Keys :
               store'[t][j] = IF t = s /\ j = op[c].key THEN op[c].entry ELSE store[t][j]
    BY ONLY <1>0, Put(s, op[c]), CallPuts
  <1> DEFINE k == Key(c)
             n == OpVersion(c)
  <1>1. /\ k \in Keys /\ op[c] \in Writes /\ op[c].entry \in Entries /\ n \in 0 .. MaxWrites
        /\ n \in Nat
    <2>1. op[c] \in Writes
      BY <1>0 DEF TypeOK
    <2> QED
      BY <2>1, Records DEF Key, OpVersion
  <1>2. c \in Writers[k] /\ n = issued[k]
    BY <1>0 DEF CallInv
  <1>3. /\ store' \in [Stores -> [Keys -> Entries]]
        /\ \A t \in Stores, j \in Keys :
              store'[t][j] = IF t = s /\ j = k THEN op[c].entry ELSE store[t][j]
    BY <1>a DEF k, Key
  <1>4. /\ store'[s][k].version = n
        /\ \A t \in Stores, j \in Keys : t # s \/ j # k => store'[t][j] = store[t][j]
    BY <1>1, <1>3 DEF OpVersion
  <1> HIDE DEF k, n
  <1>5. /\ \A j \in Keys, t \in Stores : /\ Version(t, j) \in Nat /\ acked[j] \in Nat
                                         /\ issued[j] \in Nat
                                         /\ Version(t, j) <= issued[j] /\ acked[j] <= issued[j]
        /\ Len(queue) \in Nat
        /\ \A i \in 1 .. Len(queue) : queue[i].key \in Keys /\ queue[i].entry.version \in Nat
        /\ \A d \in Clients : Key(d) \in Keys
    BY <1>0, Numbers DEF VersionInv
  <1>6. \A t \in Stores, j \in Keys : /\ store'[t][j].version >= Version(t, j)
                                      /\ store'[t][j].version <= issued[j]
    <2> TAKE t \in Stores, j \in Keys
    <2>1. CASE t = s /\ j = k
      BY <1>1, <1>2, <1>4, <1>5, <2>1
    <2>2. CASE t # s \/ j # k
      BY <1>4, <1>5, <2>2 DEF Version
    <2> QED
      BY <2>1, <2>2
  <1>7. acked' \in [Keys -> 0 .. MaxWrites]
        /\ \A j \in Keys : acked'[j] = acked[j] \/ (j = k /\ acked'[j] = n)
    <2>1. acked \in [Keys -> 0 .. MaxWrites]
      BY <1>0 DEF TypeOK
    <2>2. acked' = acked \/ acked' = [acked EXCEPT ![k] = n]
      BY DEF MayAck, k, n
    <2> QED
      BY ONLY <1>1, <2>1, <2>2
  <1>8. VersionInv'
    BY <1>2, <1>5, <1>6, <1>7 DEF VersionInv, Version
  <1>9. QueueInv'
    <2>1. CASE queue = <<>>
      BY <2>1 DEF QueueInv
    <2>2. CASE queue # <<>>
      <3>1. strategy = "async" /\ s = "primary"
        BY <1>0, <2>2 DEF QueueInv, CallInv
      <3>2. ASSUME NEW i \in 1 .. Len(queue)
            PROVE  /\ queue[i].entry.version <= store'["primary"][queue[i].key].version
                   /\ store'["secondary"][queue[i].key].version <= queue[i].entry.version
        <4>1. /\ queue[i].entry.version <= Version("primary", queue[i].key)
              /\ Version("secondary", queue[i].key) <= queue[i].entry.version
          BY <1>0 DEF QueueInv
        <4>2. store'["secondary"][queue[i].key].version = Version("secondary", queue[i].key)
          BY <1>4, <1>5, <3>1 DEF Version
        <4>3. store'["primary"][queue[i].key].version >= Version("primary", queue[i].key)
              /\ store'["primary"][queue[i].key].version \in Nat
          <5>1. store'["primary"][queue[i].key] \in Entries
            BY <1>3, <1>5
          <5>2. store'["primary"][queue[i].key].version \in Nat
            BY ONLY <5>1, Records
          <5>3. queue[i].key \in Keys
            BY ONLY i \in 1 .. Len(queue), <1>5
          <5> QED
            BY ONLY <1>6, <5>2, <5>3
        <4> QED
          BY <1>5, <4>1, <4>2, <4>3
      <3> QED
        BY <1>0, <3>1, <3>2 DEF QueueInv, Version
    <2> QED
      BY <2>1, <2>2
  <1>10. ASSUME NEW d \in Clients, d # c PROVE CallInv(d)'
    <2>0. /\ at'[d] = at[d] /\ op'[d] = op[d] /\ todo'[d] = todo[d]
          /\ failed'[d] = failed[d] /\ answer'[d] = answer[d]
      BY <1>10 DEF OthersStand
    <2>1. CASE at[d] \in {"write", "enqueue"}
      <3>1. Key(d) # k /\ Key(d) \in Keys
        BY <1>0, <1>2, <1>5, <1>10, <2>1 DEF CallInv, OneWriterEach
      <3>2. \A t \in Stores : Version(t, Key(d))' = Version(t, Key(d))
        BY <1>4, <2>0, <3>1 DEF Version, Key
      <3>3. CallInv(d) /\ Key(d)' = Key(d) /\ OpVersion(d)' = OpVersion(d)
        BY <1>0, <2>0 DEF Key, OpVersion
      <3>4. /\ Key(d)' \in Keys
            /\ at'[d] \in {"write", "enqueue"} =>
                   d \in Writers[Key(d)] /\ OpVersion(d) = issued[Key(d)]
            /\ at'[d] = "write" /\ strategy' = "async" => todo'[d] = {"primary"}
            /\ at'[d] \notin {"load", "fallback"}
        BY ONLY <2>0, <2>1, <3>1, <3>3, strategy' = strategy DEF CallInv
      <3>5. at'[d] = "write" /\ strategy' # "async" /\ ~failed'[d] =>
                \A t \in Stores \ todo'[d] : Version(t, Key(d))' = OpVersion(d)'
        <4>1. at'[d] = "write" /\ strategy' # "async" /\ ~failed'[d] =>
                  \A t \in Stores \ todo'[d] : Version(t, Key(d)) = OpVersion(d)
          BY ONLY <2>0, <3>3, strategy' = strategy DEF CallInv
        <4> QED
          BY ONLY <3>2, <3>3, <4>1
      <3>6. at'[d] = "enqueue" =>
                strategy' = "async" /\ Version("primary", Key(d))' = OpVersion(d)'
        <4>1. at'[d] = "enqueue" =>
                  strategy' = "async" /\ Version("primary", Key(d)) = OpVersion(d)
          BY ONLY <2>0, <3>3, strategy' = strategy DEF CallInv
        <4> QED
          BY ONLY <3>2, <3>3, <4>1 DEF Stores
      <3>7. at'[d] \in {"write", "enqueue"} =>
                d \in Writers[Key(d)'] /\ OpVersion(d)' = issued'[Key(d)']
        BY ONLY <3>3, <3>4, issued' = issued
      <3> HIDE DEF Stores
      <3> QED
        BY ONLY <3>4, <3>5, <3>6, <3>7 DEF CallInv
    <2>2. CASE at[d] \notin {"write", "enqueue"}
      <3>1. at[d] \in {"load", "fallback"} =>
                answer[d].floor <= acked[Key(d)] /\ answer[d].floor \in Nat
        BY <1>0 DEF CallInv, TypeOK
      <3>2. /\ acked'[Key(d)] >= acked[Key(d)] /\ acked'[Key(d)] \in Nat
            /\ acked[Key(d)] \in Nat
        <4>1. Key(d) \in Keys /\ acked[Key(d)] \in Nat
          BY ONLY d \in Clients, <1>5
        <4>2. acked[k] \in Nat /\ issued[k] \in Nat /\ acked[k] <= issued[k]
          BY ONLY <1>1, <1>5, Stores # {}
        <4>3. acked'[Key(d)] = acked[Key(d)] \/ (Key(d) = k /\ acked'[Key(d)] = n)
          BY ONLY <1>7, <4>1
        <4> QED
          BY ONLY <1>1, <1>2, <4>1, <4>2, <4>3
      <3>3. Key(d)' = Key(d)
        BY ONLY <2>0 DEF Key
      <3>4. at'[d] \in {"load", "fallback"} => answer'[d].floor <= acked'[Key(d)]
        BY ONLY <2>0, <3>1, <3>2, <3>3
      <3> QED
        BY ONLY <2>0, <2>2, <3>3, <3>4 DEF CallInv
    <2> QED
      BY <2>1, <2>2
  <1> QED
    BY <1>1, <1>3, <1>4, <1>6, <1>7, <1>8, <1>9, <1>10 DEF PutDone, Version, k, n, Key

\* With them: the stores have what was acknowledged, if the step acknowledges
\* nothing, and no load is disturbed.
LEMMA StillAcked ==
    ASSUME AckedInStores, TypeOK, TypeOK', strategy' = strategy, acked' = acked,
           \A t \in Stores, k \in Keys : store'[t][k].version >= Version(t, k)
    PROVE  AckedInStores'
  <1> SUFFICES ASSUME NEW k \in Keys, NEW t \in Stores,
                      strategy # "async" \/ t = "primary"
               PROVE  store'[t][k].version >= acked[k]
    BY DEF AckedInStores, Version
  <1>1. Version(t, k) \in Nat /\ acked[k] \in Nat /\ Version(t, k) >= acked[k]
    BY Numbers DEF AckedInStores
  <1>2. store'[t][k].version \in Nat
    BY Records DEF TypeOK
  <1>3. store'[t][k].version >= Version(t, k)
    OBVIOUS
  <1> QED
    BY <1>1, <1>2, <1>3

\* What is kept of the keys of others.
LEMMA StillKept ==
    ASSUME NEW k \in Keys, Kept(k), lost[k] \subseteq lost'[k], queue' = queue,
           \A s \in Stores : store'[s][k] = store[s][k],
           \A d \in Clients : at[d] = "enqueue" => at'[d] = "enqueue" /\ op'[d] = op[d]
    PROVE  Kept(k)'
  BY DEF Kept, Version, Key, OpVersion

LEMMA WrittenStep ==
    ASSUME IInv, OneWriterEach, NEW c \in Clients, NEW s \in Stores, Written(c, s)
    PROVE  IInv'
  <1>0. TypeOK /\ AckedInStores /\ NoStaleLoads /\ NothingForgotten /\ CallInv(c)
    BY DEF IInv, AckedIsKept
  <1>1. /\ at[c] = "write" /\ s \in todo[c] /\ Put(s, op[c])
        /\ strategy' = strategy /\ queue' = queue /\ attempts' = attempts
        /\ issued' = issued /\ lost' = lost /\ answer' = answer /\ restarts' = restarts
    BY DEF Written, MayReturn
  <1>2. /\ at' \in [Clients -> {"idle", "write", "enqueue", "load", "fallback"}]
        /\ op' \in [Clients -> Writes] /\ todo' \in [Clients -> SUBSET Stores]
        /\ failed' \in [Clients -> BOOLEAN]
        /\ acked' = acked \/ acked' = [acked EXCEPT ![Key(c)] = OpVersion(c)]
        /\ \A d \in Clients : d # c => /\ at'[d] = at[d] /\ op'[d] = op[d] /\ todo'[d] = todo[d]
                                       /\ failed'[d] = failed[d]
    <2>1. CASE todo[c] # {s}
      <3>1. todo' = [todo EXCEPT ![c] = @ \ {s}] /\ UNCHANGED <<at, op, failed, acked>>
        BY <2>1 DEF Written
      <3>2. todo \in [Clients -> SUBSET Stores] /\ todo[c] \ {s} \in SUBSET Stores
        BY <1>0 DEF TypeOK
      <3>3. todo' \in [Clients -> SUBSET Stores]
        BY <3>1, <3>2
      <3> QED
        BY <1>0, <3>1, <3>2, <3>3 DEF TypeOK
    <2>2. CASE todo[c] = {s} /\ strategy = "async"
      BY <1>0, <2>2 DEF Written, TypeOK
    <2>3. CASE todo[c] = {s} /\ strategy # "async"
      BY <1>0, <2>3, ReturnOK DEF Written, Ok
    <2> QED
      BY <2>1, <2>2, <2>3
  <1>3. \A d \in Clients : d # c => answer'[d] = answer[d]
    BY <1>1
  <1>4. /\ store' \in [Stores -> [Keys -> Entries]]
        /\ acked' \in [Keys -> 0 .. MaxWrites]
        /\ store'[s][Key(c)].version = OpVersion(c)
        /\ \A t \in Stores, k \in Keys :
              t # s \/ k # Key(c) => store'[t][k] = store[t][k]
        /\ \A t \in Stores, k \in Keys : store'[t][k].version >= Version(t, k)
        /\ VersionInv' /\ QueueInv' /\ \A d \in Clients : d # c => CallInv(d)'
        /\ OpVersion(c) \in 0 .. MaxWrites /\ Key(c) \in Keys
    <2>1. OthersStand(c) /\ MayAck(c)
      BY <1>2, <1>3 DEF OthersStand, MayAck
    <2>2. PutDone(c, s)
      BY ONLY IInv, OneWriterEach, <1>1, <2>1, PutStep
    <2> QED
      BY <2>2 DEF PutDone
  <1>5. TypeOK'
    BY <1>0, <1>1, <1>2, <1>4 DEF TypeOK
  <1>6. NoStaleLoads'
    BY <1>0, <1>1 DEF NoStaleLoads
  <1> DEFINE k == Key(c)
             n == OpVersion(c)
  <1>7. store'[s][k].version = n
    BY <1>4
  <1>8. CASE todo[c] # {s}
    <2>1. todo' = [todo EXCEPT ![c] = @ \ {s}] /\ UNCHANGED <<at, op, failed, acked>>
      BY <1>8 DEF Written
    <2>2. strategy # "async"
      BY <1>0, <1>1, <1>8 DEF CallInv
    <2>3. todo'[c] = todo[c] \ {s}
      BY <1>0, <2>1 DEF TypeOK
    <2>4. ASSUME ~failed[c], NEW t \in Stores \ todo'[c] PROVE store'[t][k].version = n
      BY <1>0, <1>1, <1>4, <1>7, <2>2, <2>3, <2>4 DEF CallInv, Version
    <2>5. CallInv(c)'
      BY <1>0, <1>1, <2>1, <2>2, <2>4 DEF CallInv, Key, OpVersion, Version
    <2>6. AckedInStores'
      BY <1>0, <1>1, <1>4, <1>5, <2>1, StillAcked
    <2> QED
      BY <1>1, <1>4, <1>5, <1>6, <2>2, <2>5, <2>6 DEF IInv, AckedIsKept, NothingForgotten
  <1>9. CASE todo[c] = {s} /\ strategy = "async"
    <2>1. at' = [at EXCEPT ![c] = "enqueue"] /\ UNCHANGED <<op, todo, failed, acked>>
      BY <1>9 DEF Written
    <2>2. s = "primary"
      BY <1>0, <1>1, <1>9 DEF CallInv
    <2>3. at'[c] = "enqueue"
      BY <1>0, <2>1 DEF TypeOK
    <2>4. CallInv(c)'
      BY <1>0, <1>1, <1>7, <1>9, <2>1, <2>2, <2>3 DEF CallInv, Key, OpVersion, Version
    <2>5. AckedInStores'
      BY <1>0, <1>1, <1>4, <1>5, <2>1, StillAcked
    <2>6. ASSUME NEW j \in Keys PROVE Kept(j)'
      <3>1. CASE j = k
        BY <1>7, <2>1, <2>2, <2>3, <3>1 DEF Kept, Version, Key, OpVersion
      <3>2. CASE j # k
        <4>1. Kept(j)
          BY <1>0, <1>9, KeptIs DEF TypeOK
        <4>2. \A d \in Clients : at[d] = "enqueue" => at'[d] = "enqueue" /\ op'[d] = op[d]
          BY <1>1, <1>2
        <4>3. \A t \in Stores : store'[t][j] = store[t][j]
          BY <1>4, <3>2
        <4> QED
          BY <1>1, <4>1, <4>2, <4>3, StillKept
      <3> QED
        BY <3>1, <3>2
    <2> QED
      BY <1>4, <1>5, <1>6, <2>4, <2>5, <2>6, KeptNext DEF IInv, AckedIsKept, TypeOK
  <1>10. CASE todo[c] = {s} /\ strategy # "async"
    <2>1. Return(c) /\ IF failed[c] THEN UNCHANGED acked ELSE Ok(c)
      BY <1>10 DEF Written
    <2>2. CallInv(c)'
      BY <1>0, <2>1, ReturnOK, IdleInv
    <2>3. AckedInStores'
      <3>1. CASE failed[c]
        BY <1>0, <1>1, <1>4, <1>5, <2>1, <3>1, StillAcked
      <3>2. CASE ~failed[c]
        <4>1. acked' = [acked EXCEPT ![k] = n]
          BY <2>1, <3>2 DEF Ok
        <4>2. \A t \in Stores : store'[t][k].version = n
          <5>1. \A t \in Stores \ {s} : store[t][k].version = n
            BY <1>0, <1>1, <1>10, <3>2 DEF CallInv, Version
          <5> QED
            BY <1>4, <1>7, <5>1
        <4>3. ASSUME NEW j \in Keys, j # k, NEW t \in Stores
              PROVE  store'[t][j].version >= acked[j]
          BY <1>0, <1>4, <1>10, <4>3 DEF AckedInStores, Version
        <4>4. \A j \in Keys : acked'[j] = IF j = k THEN n ELSE acked[j]
          BY <1>0, <4>1 DEF TypeOK
        <4> HIDE DEF k, n
        <4>5. n >= n
          BY <1>4 DEF n
        <4> QED
          BY <4>2, <4>3, <4>4, <4>5 DEF AckedInStores, Version
      <3> QED
        BY <3>1, <3>2
    <2> QED
      BY <1>1, <1>4, <1>5, <1>6, <1>10, <2>2, <2>3 DEF IInv, AckedIsKept, NothingForgotten
  <1> QED
    BY <1>8, <1>9, <1>10

LEMMA NotWrittenStep ==
    ASSUME IInv, OneWriterEach, NEW c \in Clients, NEW s \in Stores, NotWritten(c, s)
    PROVE  IInv'
  <1>0. TypeOK /\ AckedInStores /\ NoStaleLoads /\ NothingForgotten /\ CallInv(c)
    BY DEF IInv, AckedIsKept
  <1>1. /\ at[c] = "write" /\ s \in todo[c]
        /\ strategy' = strategy /\ queue' = queue /\ attempts' = attempts
        /\ issued' = issued /\ acked' = acked /\ answer' = answer /\ restarts' = restarts
    BY DEF NotWritten, MayReturn
  <1>2. /\ at' \in [Clients -> {"idle", "write", "enqueue", "load", "fallback"}]
        /\ op' \in [Clients -> Writes] /\ todo' \in [Clients -> SUBSET Stores]
        /\ failed' \in [Clients -> BOOLEAN]
        /\ \A d \in Clients : d # c => /\ at'[d] = at[d] /\ op'[d] = op[d] /\ todo'[d] = todo[d]
                                       /\ failed'[d] = failed[d]
        /\ CallInv(c)'
    <2>1. CASE strategy = "sync" /\ todo[c] # {s}
      <3>1. /\ todo' = [todo EXCEPT ![c] = @ \ {s}] /\ failed' = [failed EXCEPT ![c] = TRUE]
            /\ at' = at /\ op' = op
        BY <2>1 DEF NotWritten
      <3>2. todo \in [Clients -> SUBSET Stores] /\ todo[c] \ {s} \in SUBSET Stores
        BY <1>0 DEF TypeOK
      <3>3. todo' \in [Clients -> SUBSET Stores] /\ \A d \in Clients : d # c => todo'[d] = todo[d]
        BY <3>1, <3>2
      <3>4. /\ failed' \in [Clients -> BOOLEAN] /\ failed'[c] = TRUE
            /\ \A d \in Clients : d # c => failed'[d] = failed[d]
        BY <1>0, <3>1 DEF TypeOK
      <3>5. CallInv(c)'
        BY <1>0, <1>1, <2>1, <3>1, <3>4 DEF CallInv, Key, OpVersion
      <3> QED
        BY <1>0, <3>1, <3>3, <3>4, <3>5 DEF TypeOK
    <2>2. CASE ~(strategy = "sync" /\ todo[c] # {s})
      <3>1. Return(c)
        BY <2>2 DEF NotWritten
      <3> QED
        BY <1>0, <3>1, ReturnOK, IdleInv
    <2> QED
      BY <2>1, <2>2
  <1>3. \A d \in Clients : at[d] = "enqueue" => at'[d] = "enqueue" /\ op'[d] = op[d]
    BY <1>1, <1>2
  <1>4. CASE UNCHANGED <<store, lost>>
    <2>1. TypeOK'
      BY <1>0, <1>1, <1>2, <1>4 DEF TypeOK
    <2> QED
      BY <1>0, <1>1, <1>2, <1>4, <2>1, QuietStep DEF NoStaleLoads
  <1>5. CASE Put(s, op[c]) /\ Lose(Key(c), OpVersion(c))
    <2>1. \A d \in Clients : d # c => answer'[d] = answer[d]
      BY <1>1
    <2>2. /\ store' \in [Stores -> [Keys -> Entries]]
          /\ acked' \in [Keys -> 0 .. MaxWrites]
          /\ store'[s][Key(c)].version = OpVersion(c)
          /\ \A t \in Stores, k \in Keys :
                t # s \/ k # Key(c) => store'[t][k] = store[t][k]
          /\ \A t \in Stores, k \in Keys : store'[t][k].version >= Version(t, k)
          /\ VersionInv' /\ QueueInv' /\ \A d \in Clients : d # c => CallInv(d)'
          /\ OpVersion(c) \in 0 .. MaxWrites /\ Key(c) \in Keys
      <3>1. OthersStand(c) /\ MayAck(c)
        BY <1>1, <1>2, <1>5 DEF OthersStand, MayAck
      <3>2. PutDone(c, s)
        BY ONLY IInv, OneWriterEach, <1>1, <1>5, <3>1, PutStep
      <3> QED
        BY <3>2 DEF PutDone
    <2>3. PICK k \in Keys : k = Key(c)
      BY <2>2
    <2>4. /\ lost' \in [Keys -> SUBSET (0 .. MaxWrites)]
          /\ \A j \in Keys : lost[j] \subseteq lost'[j]
          /\ OpVersion(c) \in lost'[k]
      <3>1. lost \in [Keys -> SUBSET (0 .. MaxWrites)]
        BY <1>0 DEF TypeOK
      <3>2. lost' = [lost EXCEPT ![k] = @ \cup {OpVersion(c)}]
        BY <1>5, <2>3 DEF Lose
      <3> QED
        BY ONLY <2>2, <2>3, <3>1, <3>2
    <2>5. TypeOK'
      BY <1>0, <1>1, <1>2, <2>2, <2>4 DEF TypeOK
    <2>6. NoStaleLoads' /\ AckedInStores'
      BY <1>0, <1>1, <2>2, <2>5, StillAcked DEF NoStaleLoads
    <2>7. ASSUME strategy' = "async", NEW j \in Keys PROVE Kept(j)'
      <3>1. CASE j = k
        <4>1. s = "primary"
          BY <1>0, <1>1, <2>7 DEF CallInv
        <4> QED
          BY <2>2, <2>3, <2>4, <3>1, <4>1 DEF Kept, Version
      <3>2. CASE j # k
        <4>1. Kept(j)
          BY <1>0, <1>1, <2>7, KeptIs DEF TypeOK
        <4> QED
          BY <1>1, <1>3, <2>2, <2>3, <2>4, <3>2, <4>1, StillKept
      <3> QED
        BY <3>1, <3>2
    <2> QED
      BY <1>2, <2>2, <2>5, <2>6, <2>7, KeptNext DEF IInv, AckedIsKept, TypeOK
  <1> QED
    BY <1>4, <1>5 DEF NotWritten

LEMMA EnqueueStep ==
    ASSUME IInv, OneWriterEach, NEW c \in Clients, Enqueue(c)
    PROVE  IInv'
  <1>0. TypeOK /\ AckedInStores /\ NoStaleLoads /\ NothingForgotten /\ VersionInv /\ QueueInv
        /\ \A d \in Clients : CallInv(d)
    BY DEF IInv, AckedIsKept
  <1>1. /\ at[c] = "enqueue" /\ queue' = Append(queue, op[c]) /\ Return(c) /\ Ok(c)
        /\ strategy' = strategy /\ store' = store /\ attempts' = attempts /\ issued' = issued
        /\ lost' = lost /\ answer' = answer /\ restarts' = restarts
    BY DEF Enqueue
  <1> DEFINE k == Key(c)
             n == OpVersion(c)
             m == Len(queue)
  <1>2. /\ op[c] \in Writes /\ k \in Keys /\ n \in 0 .. MaxWrites /\ k = op[c].key
        /\ n = op[c].entry.version
    <2>1. op[c] \in Writes
      BY <1>0 DEF TypeOK
    <2> QED
      BY <2>1, Records DEF Key, OpVersion
  <1>3. /\ strategy = "async" /\ n = issued[k] /\ n = Version("primary", k)
    BY <1>0, <1>1 DEF CallInv
  <1>4. /\ queue' \in Seq(Writes) /\ Len(queue') = m + 1 /\ m \in Nat
        /\ \A i \in 1 .. m : queue'[i] = queue[i]
        /\ queue'[m + 1] = op[c]
    <2>1. queue \in Seq(Writes)
      BY <1>0 DEF TypeOK
    <2> QED
      BY <1>1, <1>2, <2>1, AppendProperties, LenProperties
  <1> HIDE DEF k, n, m
  <1>5. /\ acked' \in [Keys -> 0 .. MaxWrites]
        /\ \A j \in Keys : acked'[j] = IF j = k THEN n ELSE acked[j]
    BY <1>0, <1>1, <1>2 DEF TypeOK, Ok, k, n
  <1>6. TypeOK'
    BY <1>0, <1>1, <1>4, <1>5, ReturnOK DEF TypeOK
  <1>7. /\ \A j \in Keys, t \in Stores : /\ Version(t, j) \in Nat /\ acked[j] \in Nat
                                         /\ issued[j] \in Nat
                                         /\ Version(t, j) <= issued[j] /\ acked[j] <= issued[j]
        /\ \A i \in 1 .. m : queue[i].key \in Keys /\ queue[i].entry.version \in Nat
        /\ \A d \in Clients : Key(d) \in Keys
    BY <1>0, Numbers DEF VersionInv, m
  <1>8. VersionInv'
    BY <1>1, <1>2, <1>3, <1>5, <1>7 DEF VersionInv, Version
  <1>9. QueueInv'
    <2>1. \A i \in 1 .. m : /\ queue[i].entry.version <= Version("primary", queue[i].key)
                            /\ Version("secondary", queue[i].key) <= queue[i].entry.version
      BY <1>0 DEF QueueInv, m
    <2>2. \A i \in 1 .. m + 1 : i \in 1 .. m \/ i = m + 1
      BY <1>4
    <2>3. ASSUME NEW i \in 1 .. m + 1
          PROVE  /\ queue'[i].entry.version <= Version("primary", queue'[i].key)
                 /\ Version("secondary", queue'[i].key) <= queue'[i].entry.version
      <3>1. CASE i \in 1 .. m
        BY <1>4, <2>1, <3>1
      <3>2. CASE i = m + 1
        BY <1>2, <1>3, <1>4, <1>7, <3>2
      <3> QED
        BY <2>2, <3>1, <3>2
    <2>4. ASSUME NEW i \in 1 .. m + 1, NEW j \in 1 .. m + 1, i < j, queue'[i].key = queue'[j].key
          PROVE  queue'[i].entry.version <= queue'[j].entry.version
      <3>1. i \in 1 .. m
        BY <1>4, <2>4
      <3>2. CASE j \in 1 .. m
        BY <1>0, <1>4, <2>4, <3>1, <3>2 DEF QueueInv, m
      <3>3. CASE j = m + 1
        <4>1. queue[i].key = k /\ queue'[j].entry.version = n /\ queue'[i] = queue[i]
          BY <1>2, <1>4, <2>4, <3>1, <3>3
        <4> QED
          BY <1>3, <2>1, <3>1, <4>1
      <3> QED
        BY <2>2, <3>2, <3>3
    <2>5. store' = store /\ strategy' = strategy
      BY <1>1
    <2>6. 1 .. Len(queue') = 1 .. m + 1
      BY ONLY <1>4
    <2>7. \A i \in 1 .. Len(queue') :
              /\ queue'[i].entry.version <= store'["primary"][queue'[i].key].version
              /\ store'["secondary"][queue'[i].key].version <= queue'[i].entry.version
      <3>1. \A i \in 1 .. m + 1 :
                /\ queue'[i].entry.version <= Version("primary", queue'[i].key)
                /\ Version("secondary", queue'[i].key) <= queue'[i].entry.version
        BY ONLY <2>3
      <3> QED
        BY ONLY <2>5, <2>6, <3>1 DEF Version
    <2>8. \A i, j \in 1 .. Len(queue') :
              i < j /\ queue'[i].key = queue'[j].key =>
                  queue'[i].entry.version <= queue'[j].entry.version
      <3>1. \A i, j \in 1 .. m + 1 :
                i < j /\ queue'[i].key = queue'[j].key =>
                    queue'[i].entry.version <= queue'[j].entry.version
        BY ONLY <2>4
      <3> QED
        BY ONLY <2>6, <3>1
    <2> QED
      BY ONLY <1>3, <2>5, <2>7, <2>8 DEF QueueInv, Version
  <1>10. ASSUME NEW d \in Clients PROVE CallInv(d)'
    <2>1. CASE d = c
      BY <1>0, <1>1, <2>1, ReturnOK, IdleInv
    <2>2. CASE d # c
      <3>1. at'[d] = at[d] /\ op'[d] = op[d] /\ todo'[d] = todo[d] /\ failed'[d] = failed[d]
        BY <1>0, <1>1, <2>2, ReturnOK
      <3>2. at[d] \in {"load", "fallback"} =>
                answer[d].floor <= acked[Key(d)] /\ answer[d].floor \in Nat
        BY <1>0 DEF CallInv, TypeOK
      <3>3. acked'[Key(d)] >= acked[Key(d)] /\ acked'[Key(d)] \in Nat
        <4>1. PICK j \in Keys : j = Key(d)
          BY <1>7
        <4>2. acked[j] \in Nat /\ acked[k] \in Nat /\ acked[k] <= n /\ n \in Nat
          BY <1>2, <1>3, <1>7
        <4>3. acked'[j] = IF j = k THEN n ELSE acked[j]
          BY <1>5
        <4>4. acked'[j] >= acked[j] /\ acked'[j] \in Nat
          BY <4>2, <4>3
        <4> QED
          BY <4>1, <4>4
      <3>4. at[d] \in {"load", "fallback"} => answer[d].floor <= acked'[Key(d)]
        BY <1>7, <3>2, <3>3
      <3> QED
        BY <1>0, <1>1, <3>1, <3>4 DEF CallInv, Key, OpVersion, Version
    <2> QED
      BY <2>1, <2>2
  <1>11. AckedInStores' /\ NoStaleLoads'
    <2>1. ASSUME NEW j \in Keys PROVE store'["primary"][j].version >= acked'[j]
      BY <1>0, <1>1, <1>3, <1>5, <1>7 DEF AckedInStores, Version
    <2> QED
      BY <1>1, <1>3, <2>1 DEF AckedInStores, NoStaleLoads, Version
  <1>12. ASSUME NEW j \in Keys PROVE Kept(j)'
    <2>1. Kept(j)
      BY <1>0, <1>3, KeptIs DEF TypeOK
    <2>2. \A t \in Stores : Version(t, j)' = Version(t, j)
      BY <1>1 DEF Version
    <2>3. CASE Version("primary", j) \in lost[j] \cup {Version("secondary", j)}
      BY <1>1, <2>2, <2>3 DEF Kept
    <2>4. ASSUME NEW i \in 1 .. m, queue[i].key = j,
                 queue[i].entry.version = Version("primary", j)
          PROVE  Kept(j)'
      <3>1. i \in 1 .. Len(queue') /\ queue'[i] = queue[i]
        BY <1>4
      <3> QED
        BY <2>2, <2>4, <3>1 DEF Kept
    <2>5. ASSUME NEW d \in Clients, at[d] = "enqueue", Key(d) = j,
                 OpVersion(d) = Version("primary", j)
          PROVE  Kept(j)'
      <3>1. CASE d = c
        <4>1. m + 1 \in 1 .. Len(queue') /\ queue'[m + 1] = op[c]
          BY <1>4
        <4>2. op[c].key = j /\ op[c].entry.version = Version("primary", j)
          BY <2>5, <3>1 DEF Key, OpVersion
        <4>3. Version("primary", j)' = Version("primary", j)
          BY <2>2
        <4> QED
          BY <4>1, <4>2, <4>3 DEF Kept
      <3>2. CASE d # c
        <4>1. at'[d] = at[d] /\ op'[d] = op[d]
          BY <1>0, <1>1, <3>2, ReturnOK
        <4> QED
          BY <2>2, <2>5, <4>1 DEF Kept, Key, OpVersion
      <3> QED
        BY <3>1, <3>2
    <2> QED
      BY <2>1, <2>3, <2>4, <2>5 DEF Kept, m
  <1> QED
    BY <1>6, <1>8, <1>9, <1>10, <1>11, <1>12, KeptNext DEF IInv, AckedIsKept, TypeOK

\* The worker is at an event of the queue.
LEMMA AtEvent ==
    ASSUME IInv, queue # <<>>
    PROVE  /\ strategy = "async" /\ Head(queue) \in Writes /\ Head(queue) = queue[1]
           /\ Len(queue) \in Nat \ {0} /\ Tail(queue) \in Seq(Writes)
           /\ Len(Tail(queue)) = Len(queue) - 1
           /\ \A i \in 1 .. Len(queue) - 1 : Tail(queue)[i] = queue[i + 1]
  <1>1. queue \in Seq(Writes) /\ strategy = "async"
    BY DEF IInv, AckedIsKept, TypeOK, QueueInv
  <1>2. Len(queue) \in Nat \ {0}
    BY <1>1, EmptySeq
  <1>3. /\ Head(queue) \in Writes /\ Tail(queue) \in Seq(Writes)
        /\ Len(Tail(queue)) = Len(queue) - 1
        /\ \A i \in 1 .. Len(Tail(queue)) : Tail(queue)[i] = queue[i + 1]
    BY <1>1, HeadTailProperties
  <1>4. Head(queue) = queue[1]
    BY <1>1
  <1> QED
    BY <1>1, <1>2, <1>3, <1>4

\* An attempt at the event, its effect done or not: it moves the secondary on,
\* to what the queue holds next of its key.
LEMMA AttemptStep ==
    ASSUME IInv, queue # <<>>, UNCHANGED store \/ Put("secondary", Head(queue)),
           strategy' = strategy, issued' = issued, acked' = acked, answer' = answer,
           UNCHANGED calls, restarts' = restarts, attempts' \in 0 .. RetryAttempts - 1,
           lost' \in [Keys -> SUBSET (0 .. MaxWrites)],
           \A k \in Keys : lost[k] \subseteq lost'[k],
           \/ queue' = queue
           \/ /\ queue' = Tail(queue)
              /\ \/ Put("secondary", Head(queue))
                 \/ Head(queue).entry.version \in lost'[Head(queue).key]
    PROVE  IInv'
  <1>0. TypeOK /\ AckedInStores /\ NoStaleLoads /\ NothingForgotten /\ VersionInv /\ QueueInv
        /\ \A d \in Clients : CallInv(d)
    BY DEF IInv, AckedIsKept
  <1>1. PICK w \in Writes : w = Head(queue) /\ w = queue[1]
    BY AtEvent
  <1> DEFINE m == Len(queue)
  <1>2. /\ m \in Nat \ {0} /\ strategy = "async"
        /\ Tail(queue) \in Seq(Writes) /\ Len(Tail(queue)) = m - 1
        /\ \A i \in 1 .. m - 1 : Tail(queue)[i] = queue[i + 1]
    BY AtEvent
  <1>3. at' = at /\ op' = op /\ todo' = todo /\ failed' = failed
    OBVIOUS
  <1>4. /\ store' \in [Stores -> [Keys -> Entries]]
        /\ \A k \in Keys : store'["primary"][k] = store["primary"][k]
        /\ \A k \in Keys : k # w.key => store'["secondary"][k] = store["secondary"][k]
        /\ store'["secondary"][w.key] = store["secondary"][w.key]
              \/ store'["secondary"][w.key] = w.entry
        /\ Put("secondary", w) => store'["secondary"][w.key] = w.entry
        /\ w.key \in Keys /\ w.entry.version \in Nat
    <2>1. w.key \in Keys /\ w.entry.version \in Nat
      BY Records
    <2>2. CASE UNCHANGED store
      <3>1. Put("secondary", w) => store'["secondary"][w.key] = w.entry
        BY <1>0, <2>1, PutOK DEF TypeOK
      <3> QED
        BY <1>0, <2>1, <2>2, <3>1 DEF TypeOK
    <2>3. CASE Put("secondary", w)
      <3>1. store' \in [Stores -> [Keys -> Entries]]
        BY <1>0, <2>3, PutOK DEF TypeOK
      <3>2. \A t \in Stores, k \in Keys :
                store'[t][k] = IF t = "secondary" /\ k = w.key THEN w.entry ELSE store[t][k]
        BY <1>0, <2>3, PutOK DEF TypeOK
      <3> QED
        BY <2>1, <3>1, <3>2
    <2> QED
      BY <1>1, <2>2, <2>3
  <1> HIDE DEF m
  <1>5. /\ \A j \in Keys : /\ Version("primary", j) \in Nat /\ Version("secondary", j) \in Nat
                           /\ issued[j] \in Nat /\ Version("primary", j) <= issued[j]
                           /\ Version("secondary", j) <= issued[j]
        /\ \A i \in 1 .. m : queue[i].key \in Keys /\ queue[i].entry.version \in Nat
    BY <1>0, Numbers DEF VersionInv, m
  <1>6. \A i \in 1 .. m : /\ queue[i].entry.version <= Version("primary", queue[i].key)
                          /\ Version("secondary", queue[i].key) <= queue[i].entry.version
    BY <1>0 DEF QueueInv, m
  <1>7. /\ w.entry.version <= Version("primary", w.key)
        /\ Version("secondary", w.key) <= w.entry.version
        /\ \A i \in 1 .. m : queue[i].key = w.key => w.entry.version <= queue[i].entry.version
    <2>1. 1 \in 1 .. m /\ \A i \in 1 .. m : i = 1 \/ 1 < i
      BY <1>2
    <2>2. w.entry.version <= w.entry.version
      BY <1>4
    <2> QED
      BY <1>0, <1>1, <1>6, <2>1, <2>2 DEF QueueInv, m
  \* What the secondary holds now, between what it held and the event.
  <1>8. \A j \in Keys : /\ store'["secondary"][j].version \in Nat
                        /\ \/ store'["secondary"][j].version = Version("secondary", j)
                           \/ j = w.key /\ store'["secondary"][j].version = w.entry.version
    BY <1>4, <1>5 DEF Version
  <1>9. TypeOK'
    <2>1. queue' \in Seq(Writes)
      BY <1>0, <1>2 DEF TypeOK
    <2> QED
      BY <1>0, <1>3, <1>4, <2>1 DEF TypeOK
  <1>10. VersionInv'
    <2>1. \A j \in Keys : store'["secondary"][j].version <= issued[j]
      BY <1>4, <1>5, <1>7, <1>8
    <2>2. \A j \in Keys : store'["primary"][j].version <= issued[j]
      BY <1>4, <1>5 DEF Version
    <2> QED
      BY <1>0, <2>1, <2>2 DEF VersionInv, Version
  <1>11. /\ Len(queue') \in Nat
         /\ \A i \in 1 .. Len(queue') : \E j \in 1 .. m : queue'[i] = queue[j]
         /\ \A i, j \in 1 .. Len(queue') : i < j =>
               \E g, h \in 1 .. m : g < h /\ queue'[i] = queue[g] /\ queue'[j] = queue[h]
    <2>1. CASE queue' = queue
      BY <1>2, <2>1 DEF m
    <2>2. CASE queue' = Tail(queue)
      <3>1. \A i \in 1 .. m - 1 : i + 1 \in 1 .. m /\ queue'[i] = queue[i + 1]
        BY <1>2, <2>2
      <3>2. \A i, j \in 1 .. m - 1 : i < j => i + 1 < j + 1
        BY <1>2
      <3> QED
        BY <1>2, <2>2, <3>1, <3>2
    <2> QED
      BY <2>1, <2>2
  <1>12. QueueInv'
    <2>1. ASSUME NEW i \in 1 .. Len(queue')
          PROVE  /\ queue'[i].entry.version <= store'["primary"][queue'[i].key].version
                 /\ store'["secondary"][queue'[i].key].version <= queue'[i].entry.version
      <3>1. PICK j \in 1 .. m : queue'[i] = queue[j]
        BY <1>11
      <3>2. store'["primary"][queue[j].key].version = Version("primary", queue[j].key)
        BY <1>4, <1>5 DEF Version
      <3>3. store'["secondary"][queue[j].key].version <= queue[j].entry.version
        BY <1>5, <1>6, <1>7, <1>8
      <3> QED
        BY <1>6, <3>1, <3>2, <3>3
    <2>2. ASSUME NEW i \in 1 .. Len(queue'), NEW j \in 1 .. Len(queue'), i < j,
                 queue'[i].key = queue'[j].key
          PROVE  queue'[i].entry.version <= queue'[j].entry.version
      <3>1. PICK g, h \in 1 .. m : g < h /\ queue'[i] = queue[g] /\ queue'[j] = queue[h]
        BY <1>11, <2>2
      <3> QED
        BY <1>0, <2>2, <3>1 DEF QueueInv, m
    <2> QED
      BY <1>2, <2>1, <2>2 DEF QueueInv, Version
  <1>13. ASSUME NEW d \in Clients PROVE CallInv(d)'
    <2>1. Key(d) \in Keys
      BY <1>0, Numbers
    <2>2. store'["primary"][Key(d)] = store["primary"][Key(d)]
      BY <1>4, <2>1
    <2> QED
      BY <1>0, <1>2, <1>3, <2>2 DEF CallInv, Key, OpVersion, Version
  <1>14. AckedInStores' /\ NoStaleLoads'
    <2>1. ASSUME NEW j \in Keys PROVE store'["primary"][j].version >= acked'[j]
      BY <1>0, <1>4 DEF AckedInStores, Version
    <2> QED
      BY <1>2, <2>1 DEF AckedInStores, NoStaleLoads, Version
  <1>15. ASSUME NEW j \in Keys PROVE Kept(j)'
    <2> DEFINE n == Version("primary", j)
    <2>1. Kept(j) /\ store'["primary"][j].version = n
      BY <1>0, <1>2, <1>4, KeptIs DEF TypeOK, Version
    <2>2. CASE n \in lost[j]
      BY <2>1, <2>2 DEF Kept, Version
    <2>3. CASE n = Version("secondary", j)
      <3>1. store'["secondary"][j].version = n
        BY <1>4, <1>5, <1>7, <1>8, <2>3
      <3> QED
        BY <2>1, <3>1 DEF Kept, Version
    <2>4. ASSUME NEW i \in 1 .. m, queue[i].key = j, queue[i].entry.version = n
          PROVE  Kept(j)'
      <3>1. CASE queue' = queue
        BY <2>1, <2>4, <3>1 DEF Kept, Version, m
      <3>2. CASE queue' = Tail(queue) /\ i # 1
        <4>1. i - 1 \in 1 .. m - 1 /\ queue'[i - 1] = queue[i] /\ Len(queue') = m - 1
          <5>1. i - 1 \in 1 .. m - 1 /\ i - 1 + 1 = i
            BY <1>2, <3>2
          <5> QED
            BY <1>2, <3>2, <5>1
        <4> QED
          BY <2>1, <2>4, <4>1 DEF Kept, Version
      <3>3. CASE queue' = Tail(queue) /\ queue' # queue /\ i = 1
        <4>1. w.key = j /\ w.entry.version = n
          BY <1>1, <2>4, <3>3
        <4>2. Put("secondary", w) \/ w.entry.version \in lost'[w.key]
          BY <1>1, <3>3
        <4>3. CASE Put("secondary", w)
          BY <1>4, <2>1, <4>1, <4>3 DEF Kept, Version
        <4>4. CASE w.entry.version \in lost'[w.key]
          BY <2>1, <4>1, <4>4 DEF Kept, Version
        <4> QED
          BY <4>2, <4>3, <4>4
      <3> QED
        BY <3>1, <3>2, <3>3
    <2>5. ASSUME NEW d \in Clients, at[d] = "enqueue", Key(d) = j, OpVersion(d) = n
          PROVE  Kept(j)'
      BY <1>3, <2>1, <2>5 DEF Kept, Version, Key, OpVersion
    <2> QED
      BY <2>1, <2>2, <2>3, <2>4, <2>5 DEF Kept, m
  <1> QED
    BY <1>9, <1>10, <1>12, <1>13, <1>14, <1>15, KeptNext DEF IInv, AckedIsKept, TypeOK
LEMMA ReplicatedStep ==
    ASSUME IInv, Replicated
    PROVE  IInv'
  <1>1. TypeOK
    BY DEF IInv, AckedIsKept
  <1>2. /\ queue # <<>> /\ Put("secondary", Head(queue)) /\ queue' = Tail(queue)
        /\ attempts' \in 0 .. RetryAttempts - 1
        /\ UNCHANGED <<strategy, calls, history, restarts>>
    BY DEF Replicated
  <1>3. lost' \in [Keys -> SUBSET (0 .. MaxWrites)] /\ \A k \in Keys : lost[k] \subseteq lost'[k]
    BY <1>1, <1>2 DEF TypeOK
  <1> QED
    BY <1>2, <1>3, AttemptStep

LEMMA NotReplicatedStep ==
    ASSUME IInv, NotReplicated
    PROVE  IInv'
  <1>1. TypeOK
    BY DEF IInv, AckedIsKept
  <1>2. /\ queue # <<>> /\ (UNCHANGED store \/ Put("secondary", Head(queue)))
        /\ UNCHANGED <<strategy, calls, issued, acked, answer, restarts>>
    BY DEF NotReplicated
  <1>3. CASE attempts + 1 >= RetryAttempts
    <2>1. /\ queue' = Tail(queue) /\ attempts' = 0
          /\ Lose(Head(queue).key, Head(queue).entry.version)
      BY <1>3 DEF NotReplicated
    <2>2. PICK w \in Writes : w = Head(queue)
      BY <1>2, AtEvent
    <2>3. w.key \in Keys /\ w.entry.version \in 0 .. MaxWrites
      BY Records
    <2>4. lost' = [lost EXCEPT ![w.key] = @ \cup {w.entry.version}]
      BY <2>1, <2>2 DEF Lose
    <2>5. lost \in [Keys -> SUBSET (0 .. MaxWrites)]
      BY <1>1 DEF TypeOK
    <2>6. /\ lost' \in [Keys -> SUBSET (0 .. MaxWrites)]
          /\ \A k \in Keys : lost[k] \subseteq lost'[k]
          /\ w.entry.version \in lost'[w.key]
      BY <2>3, <2>4, <2>5
    <2>7. attempts' \in 0 .. RetryAttempts - 1
      BY <2>1
    <2> QED
      BY <1>2, <2>1, <2>2, <2>6, <2>7, AttemptStep
  <1>4. CASE ~(attempts + 1 >= RetryAttempts)
    <2>1. attempts' = attempts + 1 /\ UNCHANGED <<queue, lost>>
      BY <1>4 DEF NotReplicated
    <2>2. attempts' \in 0 .. RetryAttempts - 1
      BY <1>1, <1>4, <2>1 DEF TypeOK
    <2>3. /\ lost' \in [Keys -> SUBSET (0 .. MaxWrites)]
          /\ \A k \in Keys : lost[k] \subseteq lost'[k]
      BY <1>1, <2>1 DEF TypeOK
    <2> QED
      BY <1>2, <2>1, <2>2, <2>3, AttemptStep
  <1> QED
    BY <1>3, <1>4

LEMMA RestartStep ==
    ASSUME IInv, Restart
    PROVE  IInv'
  <1>0. TypeOK /\ AckedInStores /\ NoStaleLoads /\ VersionInv
    BY DEF IInv, AckedIsKept
  <1>1. /\ restarts < MaxRestarts /\ restarts' = restarts + 1 /\ queue' = <<>> /\ attempts' = 0
        /\ at' = [c \in Clients |-> "idle"] /\ op' = [c \in Clients |-> NoWrite]
        /\ todo' = [c \in Clients |-> {}] /\ failed' = [c \in Clients |-> FALSE]
        /\ lost' = [k \in Keys |-> lost[k] \cup {store["primary"][k].version}]
        /\ strategy' = strategy /\ store' = store /\ issued' = issued /\ acked' = acked
        /\ answer' = answer
    BY DEF Restart
  <1>2. \A k \in Keys : store["primary"][k].version \in 0 .. MaxWrites
    BY <1>0, Records DEF TypeOK
  <1>3. lost' \in [Keys -> SUBSET (0 .. MaxWrites)]
    BY <1>0, <1>1, <1>2 DEF TypeOK
  <1>4. /\ queue' \in Seq(Writes) /\ Len(queue') = 0
        /\ attempts' \in 0 .. RetryAttempts - 1 /\ restarts' \in 0 .. MaxRestarts
    <2>1. queue' \in Seq(Writes) /\ Len(queue') = 0
      BY <1>1
    <2>2. attempts' \in 0 .. RetryAttempts - 1 /\ restarts' \in 0 .. MaxRestarts
      BY <1>0, <1>1 DEF TypeOK
    <2> QED
      BY <2>1, <2>2
  <1>5. /\ at' \in [Clients -> {"idle", "write", "enqueue", "load", "fallback"}]
        /\ op' \in [Clients -> Writes] /\ todo' \in [Clients -> SUBSET Stores]
        /\ failed' \in [Clients -> BOOLEAN]
    BY <1>1, NoWriteOK
  <1>6. TypeOK'
    BY <1>0, <1>1, <1>3, <1>4, <1>5 DEF TypeOK
  <1>7. AckedInStores' /\ NoStaleLoads' /\ VersionInv'
    BY <1>0, <1>1 DEF AckedInStores, NoStaleLoads, VersionInv, Version
  <1>8. QueueInv'
    BY <1>1, <1>4 DEF QueueInv
  <1>9. \A c \in Clients : CallInv(c)'
    BY <1>1 DEF CallInv
  <1>10. \A k \in Keys : Kept(k)'
    BY <1>1 DEF Kept, Version
  <1> QED
    BY <1>6, <1>7, <1>8, <1>9, <1>10, KeptNext DEF IInv, AckedIsKept, TypeOK

LEMMA InvInit ==
    ASSUME Init
    PROVE  IInv
  <1>1. Entry(0, FALSE) \in Entries /\ Entry(0, FALSE).version = 0
    BY DEF Entry, Entries
  <1>2. TypeOK
    <2>1. queue \in Seq(Writes)
      BY DEF Init
    <2>2. attempts \in 0 .. RetryAttempts - 1 /\ restarts \in 0 .. MaxRestarts
      BY DEF Init
    <2>3. /\ issued \in [Keys -> 0 .. MaxWrites] /\ acked \in [Keys -> 0 .. MaxWrites]
          /\ lost \in [Keys -> SUBSET (0 .. MaxWrites)]
      BY DEF Init
    <2>4. [version |-> 0, floor |-> 0] \in [version : 0 .. MaxWrites, floor : 0 .. MaxWrites]
      OBVIOUS
    <2>5. answer \in [Clients -> [version : 0 .. MaxWrites, floor : 0 .. MaxWrites]]
      BY <2>4 DEF Init
    <2>6. store \in [Stores -> [Keys -> Entries]]
      BY <1>1 DEF Init
    <2>7. op \in [Clients -> Writes]
      BY NoWriteOK DEF Init
    <2>8. /\ strategy \in Strategies
          /\ at \in [Clients -> {"idle", "write", "enqueue", "load", "fallback"}]
          /\ todo \in [Clients -> SUBSET Stores] /\ failed \in [Clients -> BOOLEAN]
      BY DEF Init
    <2> QED
      BY <2>1, <2>2, <2>3, <2>5, <2>6, <2>7, <2>8 DEF TypeOK
  <1>3. \A s \in Stores, k \in Keys : Version(s, k) = 0
    BY <1>1 DEF Init, Version
  <1>4. AckedInStores /\ VersionInv
    BY <1>3 DEF Init, AckedInStores, VersionInv
  <1>5. NoStaleLoads
    <2> SUFFICES ASSUME NEW c \in Clients PROVE answer[c].version >= answer[c].floor
      BY DEF NoStaleLoads
    <2>1. answer[c].version = 0 /\ answer[c].floor = 0
      BY DEF Init
    <2>2. 0 >= 0
      OBVIOUS
    <2> QED
      BY <2>1, <2>2
  <1>6. \A k \in Keys : Kept(k)
    BY <1>3 DEF Kept
  <1>7. QueueInv /\ \A c \in Clients : CallInv(c)
    BY DEF Init, QueueInv, CallInv
  <1> QED
    BY <1>2, <1>4, <1>5, <1>6, <1>7, KeptIs DEF IInv, AckedIsKept, TypeOK

LEMMA StutterStep ==
    ASSUME IInv, UNCHANGED vars
    PROVE  IInv'
  BY DEF vars, IInv, AckedIsKept, TypeOK, AckedInStores, NoStaleLoads, NothingForgotten,
         VersionInv, QueueInv, CallInv, Key, OpVersion, Version

LEMMA InvStep ==
    ASSUME IInv, OneWriterEach, [Next]_vars
    PROVE  IInv'
  <1>1. ASSUME NEW c \in Clients, NEW k \in Keys, NEW live \in BOOLEAN, StartWrite(c, k, live)
        PROVE  IInv'
    BY <1>1, StartWriteStep
  <1>2. ASSUME NEW c \in Clients, NEW k \in Keys, StartLoad(c, k) PROVE IInv'
    BY <1>2, StartLoadStep
  <1>3. ASSUME NEW c \in Clients, NEW s \in Stores, Written(c, s) PROVE IInv'
    BY <1>3, WrittenStep
  <1>4. ASSUME NEW c \in Clients, NEW s \in Stores, NotWritten(c, s) PROVE IInv'
    BY <1>4, NotWrittenStep
  <1>5. ASSUME NEW c \in Clients, Enqueue(c) PROVE IInv'
    BY <1>5, EnqueueStep
  <1>6. ASSUME NEW c \in Clients, LoadPrimary(c) PROVE IInv'
    BY <1>6, LoadPrimaryStep
  <1>7. ASSUME NEW c \in Clients, LoadSecondary(c) PROVE IInv'
    BY <1>7, LoadSecondaryStep
  <1>8. ASSUME NEW c \in Clients, Cancel(c) PROVE IInv'
    BY <1>8, CancelStep
  <1> QED
    BY <1>1, <1>2, <1>3, <1>4, <1>5, <1>6, <1>7, <1>8, ReplicatedStep, NotReplicatedStep,
       RestartStep, StutterStep DEF Next, Proceed, Worker

\* Where a client writes a session at a time, the state is always consistent.
THEOREM Invariance == ASSUME OneWriterEach PROVE Spec => []IInv
  <1>1. IInv /\ [Next]_vars => IInv'
    BY InvStep
  <1> QED
    BY InvInit, <1>1, PTL DEF Spec

\* Through failures that had their effect, dropped calls, retries and restarts
\* of the process, what a save or delete answered Ok for is where the strategy
\* says (replication.rs): under "sync" and "acknowledged" both stores have it
\* and no load finds less; under "async" the primary has it, and what the
\* primary has is in the secondary, on its way, or was given up.
THEOREM AckedKept == ASSUME OneWriterEach PROVE Spec => []AckedIsKept
  <1>1. IInv => AckedIsKept
    BY DEF IInv
  <1> QED
    BY Invariance, <1>1, PTL

LEMMA CopiesInit ==
    ASSUME Init
    PROVE  Copies!Init
  <1>1. \A s \in Stores, k \in Keys : Version(s, k) = 0
    BY DEF Init, Version, Entry
  <1> QED
    BY <1>1 DEF Init, Copies!Init

\* A store that takes a write at least as new as what it has moves forward.
LEMMA PutAdvances ==
    ASSUME TypeOK, NEW s \in Stores, NEW w \in Writes, Put(s, w), issued' = issued,
           Version(s, w.key) <= w.entry.version, w.entry.version <= issued[w.key]
    PROVE  [Copies!Next]_(Copies!copies)
  <1>1. /\ store' \in [Stores -> [Keys -> Entries]]
        /\ \A t \in Stores, k \in Keys :
              store'[t][k] = IF t = s /\ k = w.key THEN w.entry ELSE store[t][k]
    <2>1. store \in [Stores -> [Keys -> Entries]]
      BY DEF TypeOK
    <2>2. store' \in [Stores -> [Keys -> Entries]]
      BY <2>1, PutOK
    <2>3. \A t \in Stores, k \in Keys :
              store'[t][k] = IF t = s /\ k = w.key THEN w.entry ELSE store[t][k]
      BY <2>1, PutOK
    <2> QED
      BY <2>2, <2>3
  <1>2. w.key \in Keys
    BY Records
  <1>3. PICK k \in Keys, n \in Nat : k = w.key /\ n = w.entry.version
    BY Records
  <1>4. \A t \in Stores, j \in Keys : Version(t, j) \in Nat
    BY Numbers
  <1>5. \A t \in Stores, j \in Keys :
            store'[t][j].version = IF t = s /\ j = k THEN n ELSE Version(t, j)
    BY <1>1, <1>3 DEF Version
  <1>6. issued[k] \in Nat
    BY Numbers
  <1> DEFINE copy(t) == [j \in Keys |-> Version(t, j)]
             next(t) == [j \in Keys |-> store'[t][j].version]
  <1>7. \A t \in Stores : t # s => next(t) = copy(t)
    BY <1>5
  <1>8. next(s) = [copy(s) EXCEPT ![k] = n]
    BY <1>5
  <1>9. CASE n = Version(s, k)
    <2>1. \A t \in Stores : next(t) = copy(t)
      BY <1>5, <1>9
    <2> QED
      BY <2>1 DEF Copies!copies, Version
  <1>10. CASE n # Version(s, k)
    <2>1. n \in (copy(s)[k] + 1) .. issued[k]
      BY <1>3, <1>4, <1>6, <1>10
    <2> HIDE DEF copy, next
    <2>2. CASE s = "primary"
      BY <1>7, <1>8, <2>1, <2>2 DEF Copies!Next, Copies!AdvanceFirst, copy, next, Version
    <2>3. CASE s = "secondary"
      BY <1>7, <1>8, <2>1, <2>3 DEF Copies!Next, Copies!AdvanceSecond, copy, next, Version
    <2> QED
      BY <2>2, <2>3
  <1> QED
    BY <1>9, <1>10

LEMMA CopiesStep ==
    ASSUME IInv, [Next]_vars
    PROVE  [Copies!Next]_(Copies!copies)
  <1>0. TypeOK /\ VersionInv /\ QueueInv /\ \A c \in Clients : CallInv(c)
    BY DEF IInv, AckedIsKept
  <1>1. store' = store /\ issued' = issued => UNCHANGED Copies!copies
    BY DEF Copies!copies, Version
  <1>2. ASSUME NEW c \in Clients, NEW k \in Keys, NEW live \in BOOLEAN, StartWrite(c, k, live)
        PROVE  Copies!Next
    <2>1. store' = store /\ issued' = [issued EXCEPT ![k] = @ + 1]
      BY <1>2 DEF StartWrite
    <2>2. Copies!Issue(k)
      BY <2>1 DEF Copies!Issue, Version
    <2> QED
      BY <2>2 DEF Copies!Next
  <1>3. ASSUME NEW c \in Clients, NEW s \in Stores, MayReturn(c, s), Put(s, op[c]), issued' = issued
        PROVE  [Copies!Next]_(Copies!copies)
    <2>1. op[c] \in Writes /\ Key(c) \in Keys
      BY <1>0, Numbers
    <2>2. OpVersion(c) = issued[Key(c)]
      BY <1>0, <1>3 DEF CallInv, MayReturn
    <2>3. Version(s, Key(c)) <= issued[Key(c)] /\ issued[Key(c)] \in Nat
      BY <1>0, <2>1, Numbers DEF VersionInv
    <2>4. Version(s, op[c].key) <= op[c].entry.version /\ op[c].entry.version <= issued[op[c].key]
      BY <2>2, <2>3 DEF Key, OpVersion
    <2> QED
      BY <1>0, <1>3, <2>1, <2>4, PutAdvances
  <1>4. ASSUME queue # <<>>, Put("secondary", Head(queue)), issued' = issued
        PROVE  [Copies!Next]_(Copies!copies)
    <2>1. PICK w \in Writes : w = Head(queue) /\ w = queue[1]
      BY <1>4, AtEvent
    <2>2. Len(queue) \in Nat \ {0}
      BY <1>4, AtEvent
    <2>3. 1 \in 1 .. Len(queue)
      BY <2>2
    <2>4. w.entry.version <= Version("primary", w.key) /\ Version("secondary", w.key) <= w.entry.version
      BY <1>0, <2>1, <2>3 DEF QueueInv
    <2>5. w.key \in Keys /\ w.entry.version \in Nat
      BY Records
    <2>6. Version("primary", w.key) <= issued[w.key]
      BY <1>0, <2>5 DEF VersionInv
    <2>7. Version("primary", w.key) \in Nat /\ issued[w.key] \in Nat
      BY <1>0, <2>5, Numbers
    <2>8. w.entry.version <= issued[w.key]
      BY <2>4, <2>5, <2>6, <2>7
    <2> QED
      BY <1>0, <1>4, <2>1, <2>4, <2>8, PutAdvances
  <1>5. ASSUME NEW c \in Clients, NEW s \in Stores, Written(c, s)
        PROVE  [Copies!Next]_(Copies!copies)
    BY <1>3, <1>5 DEF Written
  <1>6. ASSUME NEW c \in Clients, NEW s \in Stores, NotWritten(c, s)
        PROVE  [Copies!Next]_(Copies!copies)
    BY <1>1, <1>3, <1>6 DEF NotWritten
  <1>7. ASSUME Worker PROVE [Copies!Next]_(Copies!copies)
    BY <1>1, <1>4, <1>7 DEF Worker, Replicated, NotReplicated
  <1>8. ASSUME NEW c \in Clients, \/ \E k \in Keys : StartLoad(c, k)
                                 \/ Enqueue(c) \/ LoadPrimary(c) \/ LoadSecondary(c) \/ Cancel(c)
        PROVE  store' = store /\ issued' = issued
    BY <1>8 DEF StartLoad, Enqueue, LoadPrimary, LoadSecondary, Cancel
  <1>9. Restart \/ UNCHANGED vars => store' = store /\ issued' = issued
    BY DEF Restart, vars
  <1> QED
    BY <1>1, <1>2, <1>5, <1>6, <1>7, <1>8, <1>9 DEF Next, Proceed

\* Each store of the backend is a copy whose entries move forward only, and
\* only to what was written: a retry of an event that was applied, and a
\* failure that had its effect, included.
THEOREM CopiesRefinement == ASSUME OneWriterEach PROVE Spec => CopiesAdvance
  <1>1. IInv /\ [Next]_vars => [Copies!Next]_(Copies!copies)
    BY CopiesStep
  <1> QED
    BY CopiesInit, Invariance, <1>1, PTL DEF Spec, CopiesAdvance, Copies!Spec

=============================================================================
