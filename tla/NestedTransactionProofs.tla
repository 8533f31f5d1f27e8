------------------------ MODULE NestedTransactionProofs ------------------------
(***************************************************************************)
(* Proofs about NestedTransaction, for any values, names and bounds, and   *)
(* both ways of databases to refuse a COMMIT.                              *)
(* They take a caller that uses savepoints of its own like brackets: one   *)
(* that does not has commit() release the wrong one.                       *)
(***************************************************************************)
EXTENDS NestedTransaction, FiniteSetTheorems, SequenceTheorems, WellFoundedInduction, TLAPS

(***************************************************************************)
(* Numbers: a bounded set of them that is not empty has a greatest one.    *)
(***************************************************************************)
LEMMA Least ==
    ASSUME NEW S, S \subseteq Nat, S # {}
    PROVE  \E n \in S : \A m \in S : n <= m
<1> DEFINE R == {ss \in Nat \X Nat : ss[1] < ss[2]}
<1>1. IsWellFoundedOn(R, Nat)
  <2>1. R = OpToRel(<, Nat)
    BY DEF OpToRel
  <2> QED BY <2>1, NatLessThanWellFounded
<1>2. \A x, y \in Nat : <<y, x>> \in R <=> y < x
  OBVIOUS
<1> HIDE DEF R
<1>3. PICK x \in S : \A y \in S : ~(<<y, x>> \in R)
  BY <1>1, WFMin
<1>4. \A y \in S : ~(y < x)
  BY <1>2, <1>3
<1>5. \A y \in S : x <= y
  BY <1>4
<1> QED
  BY <1>5

LEMMA Greatest ==
    ASSUME NEW n \in Nat, NEW S, S \subseteq 1..n, S # {}
    PROVE  Max(S) \in S /\ \A m \in S : m <= Max(S)
<1> DEFINE T == {n - m : m \in S}
<1>1. T \subseteq Nat /\ T # {}
  <2>1. \A m \in S : n - m \in Nat
    OBVIOUS
  <2> QED BY <2>1
<1>2. PICK t \in T : \A u \in T : t <= u
  BY <1>1, Least
<1>3. PICK x \in S : t = n - x
  BY <1>2
<1>4. \A m \in S : n - x <= n - m
  BY <1>2, <1>3
<1>5. \A m \in S : x >= m
  BY <1>4
<1> QED
  BY <1>5 DEF Max

(***************************************************************************)
(* The database's savepoint of a name is the newest one.                   *)
(***************************************************************************)
LEMMA LastOfSpec ==
    ASSUME NEW s \in Seq(Frames), NEW n
    PROVE  /\ LastOf(s, n) \in 0..Len(s)
           /\ LastOf(s, n) # 0 =>
                  /\ s[LastOf(s, n)].name = n
                  /\ \A i \in 1..Len(s) : s[i].name = n => i <= LastOf(s, n)
           /\ LastOf(s, n) = 0 => \A i \in 1..Len(s) : s[i].name # n
<1> DEFINE I == {i \in 1..Len(s) : s[i].name = n}
<1>1. LastOf(s, n) = IF I # {} THEN Max(I) ELSE 0
  BY DEF LastOf, SelectLastInSeq
<1>2. I \subseteq 1..Len(s) /\ Len(s) \in Nat
  OBVIOUS
<1>3. CASE I # {}
  <2>1. Max(I) \in I /\ \A m \in I : m <= Max(I)
    <3> HIDE DEF I
    <3> QED BY <1>2, <1>3, Greatest
  <2> QED BY <1>1, <1>3, <2>1
<1>4. CASE I = {}
  BY <1>1, <1>4
<1> QED
  BY <1>3, <1>4

LEMMA LastOfIs ==
    ASSUME NEW s \in Seq(Frames), NEW n, NEW p \in 1..Len(s),
           s[p].name = n, \A j \in 1..Len(s) : s[j].name = n => j <= p
    PROVE  LastOf(s, n) = p
BY LastOfSpec

LEMMA LastOfNone ==
    ASSUME NEW s \in Seq(Frames), NEW n, \A j \in 1..Len(s) : s[j].name # n
    PROVE  LastOf(s, n) = 0
BY LastOfSpec

LEMMA LastOfAppend ==
    ASSUME NEW s \in Seq(Frames), NEW f \in Frames, NEW n
    PROVE  LastOf(Append(s, f), n) = IF n = f.name THEN Len(s) + 1 ELSE LastOf(s, n)
<1> DEFINE t == Append(s, f)
<1>1. /\ t \in Seq(Frames) /\ Len(t) = Len(s) + 1 /\ t[Len(s) + 1] = f
      /\ \A i \in 1..Len(s) : t[i] = s[i]
  BY AppendProperties
<1> HIDE DEF t
<1>2. CASE n = f.name
  <2>1. LastOf(t, n) = Len(s) + 1
    BY <1>1, <1>2, LastOfIs
  <2> QED BY <1>2, <2>1 DEF t
<1>3. CASE n # f.name /\ LastOf(s, n) # 0
  <2> DEFINE p == LastOf(s, n)
  <2>1. p \in 1..Len(s) /\ s[p].name = n /\ \A i \in 1..Len(s) : s[i].name = n => i <= p
    BY <1>3, LastOfSpec
  <2> HIDE DEF p
  <2>2. p \in 1..Len(t) /\ t[p].name = n
    BY <1>1, <2>1
  <2>3. \A j \in 1..Len(t) : t[j].name = n => j <= p
    BY <1>1, <1>3, <2>1
  <2>4. LastOf(t, n) = p
    BY <1>1, <2>2, <2>3, LastOfIs
  <2> QED BY <1>3, <2>4 DEF p, t
<1>4. CASE n # f.name /\ LastOf(s, n) = 0
  <2>1. \A i \in 1..Len(s) : s[i].name # n
    BY <1>4, LastOfSpec
  <2>2. \A j \in 1..Len(t) : t[j].name # n
    BY <1>1, <1>4, <2>1
  <2>3. LastOf(t, n) = 0
    BY <1>1, <2>2, LastOfNone
  <2> QED BY <1>4, <2>3 DEF t
<1> QED
  BY <1>2, <1>3, <1>4

LEMMA LastOfPrefix ==
    ASSUME NEW s \in Seq(Frames), NEW p \in 0..Len(s), NEW n, LastOf(s, n) <= p
    PROVE  LastOf(SubSeq(s, 1, p), n) = LastOf(s, n)
<1> DEFINE t == SubSeq(s, 1, p)
<1>1. t \in Seq(Frames) /\ Len(t) = p /\ \A i \in 1..p : t[i] = s[i]
  BY SubSeqProperties
<1> HIDE DEF t
<1> DEFINE q == LastOf(s, n)
<1>2. q \in 0..Len(s)
  BY LastOfSpec
<1>3. CASE q # 0
  <2>1. s[q].name = n /\ \A i \in 1..Len(s) : s[i].name = n => i <= q
    BY <1>3, LastOfSpec
  <2>2. q \in 1..Len(t) /\ q \in 1..p
    BY <1>1, <1>2, <1>3
  <2> HIDE DEF q
  <2>3. t[q].name = n /\ \A i \in 1..Len(t) : t[i].name = n => i <= q
    BY <1>1, <2>1, <2>2
  <2>4. LastOf(t, n) = q
    BY <1>1, <2>2, <2>3, LastOfIs
  <2> QED BY <2>4 DEF q, t
<1>4. CASE q = 0
  <2>1. \A i \in 1..Len(s) : s[i].name # n
    BY <1>4, LastOfSpec
  <2>2. \A i \in 1..Len(t) : t[i].name # n
    BY <1>1, <2>1
  <2>3. LastOf(t, n) = 0
    BY <1>1, <2>2, LastOfNone
  <2> QED BY <1>4, <2>3 DEF t
<1> QED
  BY <1>3, <1>4

LEMMA RemoveAtProperties ==
    ASSUME NEW S, NEW s \in Seq(S), NEW p \in 1..Len(s)
    PROVE  /\ RemoveAt(s, p) \in Seq(S)
           /\ Len(RemoveAt(s, p)) = Len(s) - 1
           /\ \A i \in 1..(Len(s) - 1) :
                  RemoveAt(s, p)[i] = IF i < p THEN s[i] ELSE s[i + 1]
<1> DEFINE l == SubSeq(s, 1, p - 1)
           r == SubSeq(s, p + 1, Len(s))
<1>1. l \in Seq(S) /\ Len(l) = p - 1 /\ \A i \in 1..(p - 1) : l[i] = s[i]
  BY SubSeqProperties
<1>2. /\ r \in Seq(S) /\ Len(r) = Len(s) - p
      /\ \A i \in 1..(Len(s) - p) : r[i] = s[p + i]
  <2>1. CASE p = Len(s)
    BY <2>1, SubSeqProperties
  <2>2. CASE p < Len(s)
    <3>1. p + 1 \in 1..(Len(s) + 1) /\ Len(s) \in p..Len(s) /\ \A i \in (p + 1)..Len(s) : i \in 1..Len(s)
      BY <2>2
    <3>2. r \in Seq(S) /\ Len(r) = Len(s) - (p + 1) + 1
      BY <2>2, <3>1, SubSeqProperties
    <3>3. \A i \in 1..(Len(s) - p) : r[i] = s[(p + 1) + i - 1]
      BY <2>2, <3>1, SubSeqProperties
    <3> QED BY <3>2, <3>3
  <2> QED BY <2>1, <2>2
<1>3. RemoveAt(s, p) = l \o r
  BY DEF RemoveAt
<1> HIDE DEF l, r
<1>4. /\ l \o r \in Seq(S) /\ Len(l \o r) = Len(l) + Len(r)
      /\ \A i \in 1..(Len(l) + Len(r)) :
             (l \o r)[i] = IF i <= Len(l) THEN l[i] ELSE r[i - Len(l)]
  BY <1>1, <1>2, ConcatProperties
<1>5. \A i \in 1..(Len(s) - 1) : (l \o r)[i] = IF i < p THEN s[i] ELSE s[i + 1]
  <2> TAKE i \in 1..(Len(s) - 1)
  <2>1. CASE i < p
    BY <1>1, <1>2, <1>4, <2>1
  <2>2. CASE ~(i < p)
    <3>1. i - (p - 1) \in 1..(Len(s) - p) /\ p + (i - (p - 1)) = i + 1
      BY <2>2
    <3>2. r[i - (p - 1)] = s[i + 1]
      BY <1>2, <3>1
    <3> QED BY <1>1, <1>2, <1>4, <2>2, <3>2
  <2> QED BY <2>1, <2>2
<1> QED
  BY <1>1, <1>2, <1>3, <1>4, <1>5

(***************************************************************************)
(* The savepoints sp of an object in the stack s of its connection: they   *)
(* stand there in their order, each with what was there when it was set.   *)
(***************************************************************************)
Stand(s, sp) ==
    /\ \A i \in DOMAIN sp : LastOf(s, sp[i]) # 0
    /\ \A i, j \in DOMAIN sp : i < j => LastOf(s, sp[i]) < LastOf(s, sp[j])

Saved(s, sp) == [i \in DOMAIN sp |-> s[LastOf(s, sp[i])].data]

Distinct(sp) == \A i, j \in DOMAIN sp : i < j => sp[i] # sp[j]

Levels(sp) == {i \in DOMAIN sp : sp[i] \in Nat}

LEMMA FrontProperties ==
    ASSUME NEW S, NEW sp \in Seq(S), sp # <<>>
    PROVE  /\ Len(sp) \in Nat \ {0} /\ Last(sp) = sp[Len(sp)] /\ Last(sp) \in S
           /\ Front(sp) \in Seq(S) /\ Len(Front(sp)) = Len(sp) - 1
           /\ \A i \in 1..(Len(sp) - 1) : Front(sp)[i] = sp[i]
<1>1. Len(sp) \in Nat \ {0}
  BY EmptySeq
<1>2. Last(sp) = sp[Len(sp)] /\ Last(sp) \in S
  BY <1>1, ElementOfSeq DEF Last
<1>3. /\ Front(sp) \in Seq(S) /\ Len(Front(sp)) = Len(sp) - 1
      /\ \A i \in 1..(Len(sp) - 1) : Front(sp)[i] = sp[i]
  <2>1. 1 \in 1..(Len(sp) + 1) /\ Len(sp) - 1 \in 0..Len(sp) /\ 1 - 1 = 0
    BY <1>1
  <2> DEFINE e == Len(sp) - 1
  <2>2. e \in 0..Len(sp) /\ e - 1 + 1 = e
    BY <2>1
  <2> HIDE DEF e
  <2>3. /\ SubSeq(sp, 1, e) \in Seq(S) /\ Len(SubSeq(sp, 1, e)) = e
        /\ \A i \in 1..e : SubSeq(sp, 1, e)[i] = sp[i]
    BY <2>2, SubSeqProperties
  <2> QED BY <2>3 DEF e, Front
<1> QED
  BY <1>1, <1>2, <1>3

\* SAVEPOINT of a name the object does not have, though the stack may.
LEMMA SetSavepoint ==
    ASSUME NEW s \in Seq(Frames), NEW sp \in Seq(Nat \cup Names), Stand(s, sp),
           NEW n \in Nat \cup Names, \A i \in DOMAIN sp : sp[i] # n,
           NEW d \in SUBSET Values
    PROVE  LET u == Append(s, [name |-> n, data |-> d])
           IN  /\ u \in Seq(Frames)
               /\ Stand(u, Append(sp, n))
               /\ Saved(u, Append(sp, n)) = Append(Saved(s, sp), d)
<1> DEFINE f == [name |-> n, data |-> d]
           u == Append(s, f)
           np == Append(sp, n)
<1>f. f \in Frames /\ f.name = n /\ f.data = d
  BY DEF Frames
<1> HIDE DEF f
<1>1. /\ \A i \in DOMAIN sp : LastOf(s, sp[i]) # 0
      /\ \A i, j \in DOMAIN sp : i < j => LastOf(s, sp[i]) < LastOf(s, sp[j])
  BY DEF Stand
<1>2. /\ u \in Seq(Frames) /\ Len(u) = Len(s) + 1 /\ u[Len(s) + 1] = f
      /\ \A i \in 1..Len(s) : u[i] = s[i]
  BY <1>1, <1>f, AppendProperties
<1>3. /\ np \in Seq(Nat \cup Names) /\ Len(np) = Len(sp) + 1 /\ np[Len(sp) + 1] = n
      /\ \A i \in 1..Len(sp) : np[i] = sp[i]
  BY AppendProperties
<1>4. LastOf(u, n) = Len(s) + 1
  BY <1>1, <1>f, LastOfAppend
<1>5. ASSUME NEW i \in DOMAIN sp
      PROVE  /\ LastOf(u, sp[i]) = LastOf(s, sp[i]) /\ LastOf(s, sp[i]) \in 1..Len(s)
             /\ u[LastOf(u, sp[i])] = s[LastOf(s, sp[i])]
  <2>1. LastOf(u, sp[i]) = LastOf(s, sp[i])
    BY <1>1, <1>f, LastOfAppend
  <2>2. LastOf(s, sp[i]) \in 1..Len(s)
    BY <1>1, LastOfSpec
  <2> QED BY <1>1, <1>2, <2>1, <2>2
<1>d. DOMAIN sp = 1..Len(sp) /\ DOMAIN np = 1..(Len(sp) + 1) /\ Len(sp) \in Nat
  BY <1>3
<1> HIDE DEF u, np
<1>6. Stand(u, np)
  <2>1. \A i \in DOMAIN np : LastOf(u, np[i]) # 0
    <3> SUFFICES ASSUME NEW i \in DOMAIN np PROVE LastOf(u, np[i]) # 0
      OBVIOUS
    <3>1. CASE i \in DOMAIN sp
      BY <1>1, <1>3, <1>5, <1>d, <3>1
    <3>2. CASE i = Len(sp) + 1
      <4>1. Len(s) \in Nat
        BY <1>1
      <4> QED BY <1>3, <1>4, <3>2, <4>1
    <3> QED BY <1>d, <3>1, <3>2
  <2>2. ASSUME NEW i \in DOMAIN np, NEW j \in DOMAIN np, i < j
        PROVE  LastOf(u, np[i]) < LastOf(u, np[j])
    <3>1. i \in DOMAIN sp /\ np[i] = sp[i]
      BY <1>3, <1>d, <2>2
    <3>2. CASE j \in DOMAIN sp
      BY <1>1, <1>3, <1>5, <1>d, <2>2, <3>1, <3>2
    <3>3. CASE j = Len(sp) + 1
      <4>1. LastOf(u, np[i]) \in 1..Len(s) /\ Len(s) \in Nat
        BY <1>1, <1>5, <3>1
      <4>2. LastOf(u, np[j]) = Len(s) + 1
        BY <1>3, <1>4, <3>3
      <4> QED BY <4>1, <4>2
    <3> QED BY <1>d, <3>2, <3>3
  <2> QED BY <2>1, <2>2 DEF Stand
<1>7. Saved(u, np) = Append(Saved(s, sp), d)
  <2> DEFINE v == Saved(s, sp)
             w == Saved(u, np)
             D == {s[LastOf(s, sp[i])].data : i \in DOMAIN sp}
  <2>1. v \in Seq(D) /\ Len(v) = Len(sp)
        /\ \A i \in 1..Len(sp) : v[i] = s[LastOf(s, sp[i])].data
    BY <1>d DEF Saved
  <2>2. w = [i \in 1..(Len(sp) + 1) |-> u[LastOf(u, np[i])].data]
    BY <1>d DEF Saved
  <2> HIDE DEF v, w, D
  <2>3. Append(v, d) = [i \in 1..(Len(sp) + 1) |-> IF i = Len(sp) + 1 THEN d ELSE v[i]]
    <3> DEFINE E == D \cup {d}
               x == Append(v, d)
    <3>1. v \in Seq(E)
      BY <1>d, <2>1
    <3>2. x \in Seq(E) /\ Len(x) = Len(sp) + 1 /\ x[Len(sp) + 1] = d
          /\ \A i \in 1..Len(sp) : x[i] = v[i]
      <4> HIDE DEF E
      <4>1. d \in E
        BY DEF E
      <4> QED BY <2>1, <3>1, <4>1, AppendProperties
    <3> HIDE DEF x, E
    <3>3. x = [i \in 1..(Len(sp) + 1) |-> x[i]]
      BY <3>2
    <3>4. \A i \in 1..(Len(sp) + 1) : x[i] = IF i = Len(sp) + 1 THEN d ELSE v[i]
      BY <3>2, <1>d
    <3>5. x = [i \in 1..(Len(sp) + 1) |-> IF i = Len(sp) + 1 THEN d ELSE v[i]]
      BY <3>3, <3>4
    <3> QED BY <3>5 DEF x
  <2>4. ASSUME NEW i \in 1..(Len(sp) + 1)
        PROVE  u[LastOf(u, np[i])].data = IF i = Len(sp) + 1 THEN d ELSE v[i]
    <3>1. CASE i = Len(sp) + 1
      BY <1>2, <1>3, <1>4, <1>f, <3>1
    <3>2. CASE i # Len(sp) + 1
      <4>1. i \in DOMAIN sp /\ i \in 1..Len(sp) /\ np[i] = sp[i]
        BY <1>3, <1>d, <3>2
      <4> QED BY <1>5, <2>1, <3>2, <4>1
    <3> QED BY <3>1, <3>2
  <2> QED BY <2>2, <2>3, <2>4 DEF v, w
<1> QED
  BY <1>2, <1>6, <1>7 DEF u, np, f

\* ROLLBACK TO and RELEASE of the newest savepoint leave the older ones.
LEMMA CutStack ==
    ASSUME NEW s \in Seq(Frames), NEW sp \in Seq(Nat \cup Names), Stand(s, sp),
           NEW p \in 0..Len(s), NEW k \in 0..Len(sp),
           \A i \in 1..k : LastOf(s, sp[i]) <= p
    PROVE  LET t == SubSeq(s, 1, p)
               kp == SubSeq(sp, 1, k)
           IN  /\ t \in Seq(Frames)
               /\ Stand(t, kp)
               /\ Saved(t, kp) = SubSeq(Saved(s, sp), 1, k)
<1> DEFINE t == SubSeq(s, 1, p)
           kp == SubSeq(sp, 1, k)
<1>1. t \in Seq(Frames) /\ Len(t) = p /\ \A i \in 1..p : t[i] = s[i]
  BY SubSeqProperties
<1>2. /\ kp \in Seq(Nat \cup Names) /\ Len(kp) = k /\ \A i \in 1..k : kp[i] = sp[i]
      /\ DOMAIN kp = 1..k /\ \A i \in 1..k : i \in DOMAIN sp
  BY SubSeqProperties
<1>3. ASSUME NEW i \in 1..k
      PROVE  /\ LastOf(t, kp[i]) = LastOf(s, sp[i])
             /\ t[LastOf(t, kp[i])] = s[LastOf(s, sp[i])]
  <2>1. LastOf(t, sp[i]) = LastOf(s, sp[i])
    BY LastOfPrefix
  <2>2. LastOf(s, sp[i]) \in 0..Len(s) /\ LastOf(s, sp[i]) # 0
    BY <1>2, LastOfSpec DEF Stand
  <2>3. LastOf(s, sp[i]) \in 1..p
    BY <2>2
  <2> QED BY <1>1, <1>2, <2>1, <2>3
<1> HIDE DEF t, kp
<1>4. Stand(t, kp)
  <2>1. \A i \in 1..k : LastOf(t, kp[i]) # 0
    BY <1>2, <1>3 DEF Stand
  <2>2. \A i, j \in 1..k : i < j => LastOf(t, kp[i]) < LastOf(t, kp[j])
    BY <1>2, <1>3 DEF Stand
  <2> QED BY <1>2, <2>1, <2>2 DEF Stand
<1>5. Saved(t, kp) = SubSeq(Saved(s, sp), 1, k)
  <2> DEFINE v == Saved(s, sp)
             D == {s[LastOf(s, sp[i])].data : i \in DOMAIN sp}
  <2>1. v \in Seq(D) /\ Len(v) = Len(sp)
        /\ \A i \in 1..Len(sp) : v[i] = s[LastOf(s, sp[i])].data
    BY DEF Saved
  <2>2. Saved(t, kp) = [i \in 1..k |-> t[LastOf(t, kp[i])].data]
    BY <1>2 DEF Saved
  <2> HIDE DEF v, D
  <2>3. SubSeq(v, 1, k) = [i \in 1..k |-> v[i]]
    BY <2>1
  <2>4. \A i \in 1..k : t[LastOf(t, kp[i])].data = v[i]
    BY <1>3, <2>1
  <2> QED BY <2>2, <2>3, <2>4 DEF v
<1> QED
  BY <1>1, <1>4, <1>5 DEF t, kp

(***************************************************************************)
(* Levels: how many of the object's savepoints are nested transactions.    *)
(***************************************************************************)
LEMMA LevelsFinite ==
    ASSUME NEW sp \in Seq(Nat \cup Names)
    PROVE  IsFiniteSet(Levels(sp)) /\ Cardinality(Levels(sp)) \in Nat
<1>1. Len(sp) \in Nat /\ DOMAIN sp = 1..Len(sp)
  OBVIOUS
<1>2. IsFiniteSet(1..Len(sp))
  BY <1>1, FS_Interval
<1>3. Levels(sp) \subseteq 1..Len(sp)
  BY <1>1 DEF Levels
<1>4. IsFiniteSet(Levels(sp))
  BY <1>2, <1>3, FS_Subset
<1> QED
  BY <1>4, FS_CardinalityType

LEMMA LevelsAppend ==
    ASSUME NEW sp \in Seq(Nat \cup Names), NEW n \in Nat \cup Names
    PROVE  Cardinality(Levels(Append(sp, n))) =
               IF n \in Nat THEN Cardinality(Levels(sp)) + 1 ELSE Cardinality(Levels(sp))
<1> DEFINE np == Append(sp, n)
<1>1. /\ np \in Seq(Nat \cup Names) /\ Len(np) = Len(sp) + 1 /\ np[Len(sp) + 1] = n
      /\ \A i \in 1..Len(sp) : np[i] = sp[i]
  BY AppendProperties
<1> HIDE DEF np
<1>2. /\ DOMAIN sp = 1..Len(sp) /\ DOMAIN np = 1..(Len(sp) + 1) /\ Len(sp) \in Nat
      /\ Len(sp) + 1 \notin 1..Len(sp)
  BY <1>1
<1>3. CASE n \in Nat
  <2>1. Levels(np) = Levels(sp) \cup {Len(sp) + 1}
    <3>1. \A i \in 1..Len(sp) : i \in Levels(np) <=> i \in Levels(sp)
      BY <1>1, <1>2 DEF Levels
    <3>2. Len(sp) + 1 \in Levels(np)
      BY <1>1, <1>2, <1>3 DEF Levels
    <3>3. \A i \in Levels(np) : i \in 1..Len(sp) \/ i = Len(sp) + 1
      BY <1>2 DEF Levels
    <3>4. \A i \in Levels(sp) : i \in 1..Len(sp)
      BY <1>2 DEF Levels
    <3> QED BY <3>1, <3>2, <3>3, <3>4
  <2>2. Len(sp) + 1 \notin Levels(sp)
    BY <1>2 DEF Levels
  <2>3. Cardinality(Levels(sp) \cup {Len(sp) + 1}) = Cardinality(Levels(sp)) + 1
    BY <2>2, LevelsFinite, FS_AddElement
  <2> QED BY <1>3, <2>1, <2>3 DEF np
<1>4. CASE n \notin Nat
  <2>1. Levels(np) = Levels(sp)
    <3>1. \A i \in 1..Len(sp) : i \in Levels(np) <=> i \in Levels(sp)
      BY <1>1, <1>2 DEF Levels
    <3>2. Len(sp) + 1 \notin Levels(np)
      BY <1>1, <1>4 DEF Levels
    <3>3. \A i \in Levels(np) : i \in 1..Len(sp) \/ i = Len(sp) + 1
      BY <1>2 DEF Levels
    <3>4. \A i \in Levels(sp) : i \in 1..Len(sp)
      BY <1>2 DEF Levels
    <3> QED BY <3>1, <3>2, <3>3, <3>4
  <2> QED BY <1>4, <2>1 DEF np
<1> QED
  BY <1>3, <1>4

LEMMA FrontAppend ==
    ASSUME NEW sp \in Seq(Nat \cup Names), sp # <<>>
    PROVE  sp = Append(Front(sp), Last(sp))
<1> DEFINE t == Append(Front(sp), Last(sp))
<1>1. /\ Len(sp) \in Nat \ {0} /\ Last(sp) = sp[Len(sp)] /\ Last(sp) \in Nat \cup Names
      /\ Front(sp) \in Seq(Nat \cup Names) /\ Len(Front(sp)) = Len(sp) - 1
      /\ \A i \in 1..(Len(sp) - 1) : Front(sp)[i] = sp[i]
  BY FrontProperties
<1>2. /\ t \in Seq(Nat \cup Names) /\ Len(t) = Len(Front(sp)) + 1
      /\ t[Len(Front(sp)) + 1] = Last(sp)
      /\ \A i \in 1..Len(Front(sp)) : t[i] = Front(sp)[i]
  BY <1>1, AppendProperties
<1> HIDE DEF t
<1>3. Len(t) = Len(sp) /\ t[Len(sp)] = sp[Len(sp)]
  BY <1>1, <1>2
<1>4. \A i \in 1..(Len(sp) - 1) : t[i] = sp[i]
  BY <1>1, <1>2
<1>5. \A i \in 1..Len(sp) : t[i] = sp[i]
  BY <1>1, <1>3, <1>4
<1>6. t = sp
  BY <1>2, <1>3, <1>5, SeqEqual
<1> QED
  BY <1>6 DEF t

LEMMA LevelsFront ==
    ASSUME NEW sp \in Seq(Nat \cup Names), sp # <<>>
    PROVE  Cardinality(Levels(Front(sp))) =
               IF Last(sp) \in Nat THEN Cardinality(Levels(sp)) - 1
               ELSE Cardinality(Levels(sp))
<1>1. Front(sp) \in Seq(Nat \cup Names) /\ Last(sp) \in Nat \cup Names
  BY FrontProperties
<1>2. Cardinality(Levels(Front(sp))) \in Nat
  BY <1>1, LevelsFinite
<1>3. Cardinality(Levels(Append(Front(sp), Last(sp)))) =
          IF Last(sp) \in Nat THEN Cardinality(Levels(Front(sp))) + 1
          ELSE Cardinality(Levels(Front(sp)))
  BY <1>1, LevelsAppend
<1>4. Append(Front(sp), Last(sp)) = sp
  BY FrontAppend
<1> QED
  BY <1>2, <1>3, <1>4

LEMMA LevelsEmpty == Cardinality(Levels(<<>>)) = 0
<1>1. Levels(<<>>) = {}
  BY DEF Levels
<1> QED
  BY <1>1, FS_EmptySet

\* The first savepoint of the name is the newest, as there is no other.
LEMMA RemoveFirstIsFront ==
    ASSUME NEW sp \in Seq(Nat \cup Names), sp # <<>>, Distinct(sp)
    PROVE  RemoveFirst(sp, Last(sp)) = Front(sp)
<1> DEFINE k == Len(sp)
           n == Last(sp)
           I == {i \in 1..Len(sp) : sp[i] = n}
<1>1. k \in Nat \ {0} /\ n = sp[k] /\ Front(sp) \in Seq(Nat \cup Names)
      /\ Len(Front(sp)) = k - 1 /\ \A i \in 1..(k - 1) : Front(sp)[i] = sp[i]
  BY FrontProperties
<1>2. I = {k}
  <2>1. k \in I
    BY <1>1
  <2>2. \A i \in I : i = k
    BY <1>1 DEF Distinct
  <2> QED BY <2>1, <2>2
<1>3. SelectInSeq(sp, LAMBDA v : v = n) = IF I # {} THEN Min(I) ELSE 0
  BY DEF SelectInSeq
<1>4. Min({k}) = k
  BY <1>1 DEF Min
<1> HIDE DEF I, n
<1>5. SelectInSeq(sp, LAMBDA v : v = n) = k
  BY <1>2, <1>3, <1>4
<1>6. RemoveFirst(sp, n) = RemoveAt(sp, k)
  <2>1. \E i \in 1..Len(sp) : sp[i] = n
    BY <1>1
  <2>2. RemoveFirst(sp, n) = IF \E i \in 1..Len(sp) : sp[i] = n
                            THEN RemoveAt(sp, SelectInSeq(sp, LAMBDA v : v = n)) ELSE sp
    BY DEF RemoveFirst
  <2> QED BY <1>5, <2>1, <2>2
<1>7. /\ RemoveAt(sp, k) \in Seq(Nat \cup Names) /\ Len(RemoveAt(sp, k)) = k - 1
      /\ \A i \in 1..(k - 1) : RemoveAt(sp, k)[i] = IF i < k THEN sp[i] ELSE sp[i + 1]
  BY <1>1, RemoveAtProperties
<1>8. \A i \in 1..(k - 1) : RemoveAt(sp, k)[i] = Front(sp)[i]
  BY <1>1, <1>7
<1>9. RemoveAt(sp, k) = Front(sp)
  BY <1>1, <1>7, <1>8, SeqEqual
<1> QED
  BY <1>6, <1>9 DEF n

(***************************************************************************)
(* The inductive invariant. ConnectionInv alone does not say that a name   *)
(* the object uses next is new to it: no two of its savepoints have the    *)
(* same one, and a nested transaction has a number up to the depth.        *)
(***************************************************************************)
Numbered ==
    /\ state # "Active" => savepoints = <<>>
    /\ Distinct(savepoints)
    /\ \A i \in DOMAIN savepoints : savepoints[i] \in Nat => savepoints[i] <= depth

IInv == ConnectionInv /\ Numbered

LEMMA InvTypes ==
    ASSUME IInv
    PROVE  /\ savepoints \in Seq(Nat \cup Names) /\ stack \in Seq(Frames)
           /\ data \in SUBSET Values /\ open \in BOOLEAN
           /\ open => Stand(stack, savepoints)
           /\ Distinct(savepoints) /\ depth \in Nat
           /\ depth = IF state = "Active" THEN 1 + Cardinality(Levels(savepoints)) ELSE 0
           /\ Cardinality(Levels(savepoints)) \in Nat
<1>1. savepoints \in Seq(Nat \cup Names)
  BY DEF IInv, ConnectionInv, TypeOK
<1>2. Cardinality(Levels(savepoints)) \in Nat
  BY <1>1, LevelsFinite
<1>3. depth = IF state = "Active" THEN 1 + Cardinality(Levels(savepoints)) ELSE 0
  BY DEF IInv, ConnectionInv, TypeOK, Nested, Levels
<1> QED
  BY <1>1, <1>2, <1>3
     DEF IInv, ConnectionInv, TypeOK, SavepointsStand, Stand, Numbered

\* A savepoint of a new name, on the object and on its connection.
LEMMA Setting ==
    ASSUME IInv, NEW n \in Nat \cup Names, \A i \in DOMAIN savepoints : savepoints[i] # n,
           savepoints' = Append(savepoints, n), SqlSavepoint(n)
    PROVE  /\ savepoints' \in Seq(Nat \cup Names) /\ stack' \in Seq(Frames)
           /\ Distinct(savepoints')
           /\ \A i \in DOMAIN savepoints' : \/ i \in DOMAIN savepoints /\ savepoints'[i] = savepoints[i]
                                           \/ savepoints'[i] = n
           /\ open => /\ Stand(stack', savepoints')
                      /\ Saved(stack', savepoints') = Append(Saved(stack, savepoints), data)
<1>1. savepoints \in Seq(Nat \cup Names) /\ stack \in Seq(Frames) /\ data \in SUBSET Values
      /\ Distinct(savepoints) /\ (open => Stand(stack, savepoints))
  BY InvTypes
<1>2. /\ savepoints' \in Seq(Nat \cup Names) /\ Len(savepoints') = Len(savepoints) + 1
      /\ savepoints'[Len(savepoints) + 1] = n
      /\ \A i \in 1..Len(savepoints) : savepoints'[i] = savepoints[i]
  BY <1>1, AppendProperties
<1>3. /\ DOMAIN savepoints = 1..Len(savepoints) /\ Len(savepoints) \in Nat
      /\ DOMAIN savepoints' = 1..(Len(savepoints) + 1)
  BY <1>1, <1>2
<1>4. \A i \in DOMAIN savepoints' : \/ i \in DOMAIN savepoints /\ savepoints'[i] = savepoints[i]
                                    \/ i = Len(savepoints) + 1 /\ savepoints'[i] = n
  BY <1>2, <1>3
<1>5. Distinct(savepoints')
  BY <1>1, <1>3, <1>4 DEF Distinct
<1>6. CASE open
  <2>2. stack' = Append(stack, [name |-> n, data |-> data])
    BY <1>6 DEF SqlSavepoint
  <2>3. /\ Append(stack, [name |-> n, data |-> data]) \in Seq(Frames)
        /\ Stand(Append(stack, [name |-> n, data |-> data]), Append(savepoints, n))
        /\ Saved(Append(stack, [name |-> n, data |-> data]), Append(savepoints, n))
               = Append(Saved(stack, savepoints), data)
    <3>1. /\ stack \in Seq(Frames) /\ savepoints \in Seq(Nat \cup Names) /\ Stand(stack, savepoints)
          /\ n \in Nat \cup Names /\ (\A i \in DOMAIN savepoints : savepoints[i] # n)
          /\ data \in SUBSET Values
      BY <1>1, <1>6
    <3> QED BY ONLY <3>1, SetSavepoint
  <2> QED BY <1>2, <1>4, <1>5, <2>2, <2>3
<1>7. CASE ~open
  BY <1>1, <1>2, <1>4, <1>5, <1>7 DEF SqlSavepoint
<1> QED
  BY <1>6, <1>7

\* The newest savepoint, where it stands on the connection.
LEMMA NewestStands ==
    ASSUME IInv, savepoints # <<>>, open
    PROVE  LET p == LastOf(stack, Last(savepoints))
           IN  /\ p \in 1..Len(stack) /\ Known(Last(savepoints))
               /\ \A i \in 1..(Len(savepoints) - 1) : LastOf(stack, savepoints[i]) <= p - 1
               /\ Saved(stack, savepoints)[Len(savepoints)] = stack[p].data
<1>1. savepoints \in Seq(Nat \cup Names) /\ stack \in Seq(Frames) /\ Stand(stack, savepoints)
  BY InvTypes
<1>2. Len(savepoints) \in Nat \ {0} /\ Last(savepoints) = savepoints[Len(savepoints)]
      /\ DOMAIN savepoints = 1..Len(savepoints)
  <2>1. Len(savepoints) \in Nat \ {0} /\ Last(savepoints) = savepoints[Len(savepoints)]
    BY <1>1, FrontProperties
  <2> QED BY <1>1, <2>1
<1>3. Len(savepoints) \in DOMAIN savepoints
  BY <1>2
<1>4. LastOf(stack, Last(savepoints)) # 0
  BY <1>1, <1>2, <1>3 DEF Stand
<1>5. LastOf(stack, Last(savepoints)) \in 1..Len(stack)
  BY <1>1, <1>4, LastOfSpec
<1>6. ASSUME NEW i \in 1..(Len(savepoints) - 1)
      PROVE  LastOf(stack, savepoints[i]) <= LastOf(stack, Last(savepoints)) - 1
  <2>1. i \in DOMAIN savepoints /\ i < Len(savepoints)
    BY <1>2
  <2>2. LastOf(stack, savepoints[i]) < LastOf(stack, Last(savepoints))
    BY <1>1, <1>2, <1>3, <2>1 DEF Stand
  <2>3. LastOf(stack, savepoints[i]) \in Nat
    BY <1>1, LastOfSpec
  <2> QED BY <1>5, <2>2, <2>3
<1>7. Saved(stack, savepoints)[Len(savepoints)] = stack[LastOf(stack, Last(savepoints))].data
  BY <1>2, <1>3 DEF Saved
<1>8. Known(Last(savepoints))
  BY <1>4 DEF Known
<1> DEFINE p == LastOf(stack, Last(savepoints))
<1>9. /\ p \in 1..Len(stack)
      /\ \A i \in 1..(Len(savepoints) - 1) : LastOf(stack, savepoints[i]) <= p - 1
      /\ Saved(stack, savepoints)[Len(savepoints)] = stack[p].data
  BY <1>5, <1>6, <1>7
<1> QED
  BY <1>8, <1>9

\* What happens to the object when its newest savepoint is taken from it.
LEMMA Dropping ==
    ASSUME IInv, savepoints # <<>>
    PROVE  /\ Front(savepoints) \in Seq(Nat \cup Names)
           /\ Distinct(Front(savepoints))
           /\ Len(savepoints) \in DOMAIN savepoints /\ Last(savepoints) = savepoints[Len(savepoints)]
           /\ \A i \in DOMAIN Front(savepoints) :
                  /\ i \in DOMAIN savepoints /\ Front(savepoints)[i] = savepoints[i]
                  /\ savepoints[i] # Last(savepoints)
<1>1. savepoints \in Seq(Nat \cup Names) /\ Distinct(savepoints)
  BY InvTypes
<1>2. /\ Len(savepoints) \in Nat \ {0} /\ Last(savepoints) = savepoints[Len(savepoints)]
      /\ Front(savepoints) \in Seq(Nat \cup Names)
      /\ Len(Front(savepoints)) = Len(savepoints) - 1
      /\ \A i \in 1..(Len(savepoints) - 1) : Front(savepoints)[i] = savepoints[i]
  BY <1>1, FrontProperties
<1>3. /\ DOMAIN savepoints = 1..Len(savepoints)
      /\ DOMAIN Front(savepoints) = 1..(Len(savepoints) - 1)
  BY <1>1, <1>2
<1>4. \A i \in DOMAIN Front(savepoints) :
          /\ i \in DOMAIN savepoints /\ i < Len(savepoints)
          /\ Front(savepoints)[i] = savepoints[i]
  BY <1>2, <1>3
<1>5. Len(savepoints) \in DOMAIN savepoints
  BY <1>2, <1>3
<1>6. Distinct(Front(savepoints))
  BY <1>1, <1>4 DEF Distinct
<1>7. \A i \in DOMAIN Front(savepoints) : savepoints[i] # Last(savepoints)
  BY <1>1, <1>2, <1>4, <1>5 DEF Distinct
<1> QED
  BY <1>2, <1>4, <1>5, <1>6, <1>7

\* RELEASE of the newest savepoint takes along what rollbacks left above it.
LEMMA Releasing ==
    ASSUME IInv, savepoints # <<>>, savepoints' = Front(savepoints),
           SqlRelease(Last(savepoints))
    PROVE  /\ stack' \in Seq(Frames)
           /\ open => /\ Stand(stack', savepoints')
                      /\ Saved(stack', savepoints') =
                             SubSeq(Saved(stack, savepoints), 1, Len(savepoints) - 1)
<1>1. savepoints \in Seq(Nat \cup Names) /\ stack \in Seq(Frames)
      /\ (open => Stand(stack, savepoints))
  BY InvTypes
<1>2. CASE open
  <2> DEFINE p == LastOf(stack, Last(savepoints))
             k == Len(savepoints) - 1
  <2>1. /\ p \in 1..Len(stack) /\ Known(Last(savepoints))
        /\ \A i \in 1..k : LastOf(stack, savepoints[i]) <= p - 1
    BY <1>2, NewestStands
  <2>2. stack' = SubSeq(stack, 1, p - 1)
    BY <2>1 DEF SqlRelease
  <2>3. k \in 0..Len(savepoints) /\ Len(savepoints) \in Nat
    BY <1>1, FrontProperties
  <2>4. savepoints' = SubSeq(savepoints, 1, k)
    BY DEF Front
  <2> DEFINE q == p - 1
  <2>5. q \in 0..Len(stack) /\ \A i \in 1..k : LastOf(stack, savepoints[i]) <= q
    BY <2>1
  <2> HIDE DEF p, k, q
  <2>6. /\ SubSeq(stack, 1, q) \in Seq(Frames)
        /\ Stand(SubSeq(stack, 1, q), SubSeq(savepoints, 1, k))
        /\ Saved(SubSeq(stack, 1, q), SubSeq(savepoints, 1, k)) =
               SubSeq(Saved(stack, savepoints), 1, k)
    BY <1>1, <1>2, <2>3, <2>5, CutStack
  <2>7. stack' = SubSeq(stack, 1, q)
    BY <2>2 DEF q
  <2> QED BY <2>4, <2>6, <2>7 DEF k
<1>3. CASE ~open
  BY <1>1, <1>3 DEF SqlRelease, Known
<1> QED
  BY <1>2, <1>3

\* ROLLBACK TO the newest savepoint restores what was there when it was set,
\* whether the object keeps it or not.
LEMMA Returning ==
    ASSUME IInv, savepoints # <<>>, SqlRollbackTo(Last(savepoints)),
           savepoints' \in {Front(savepoints), savepoints}
    PROVE  /\ stack' \in Seq(Frames)
           /\ data' \subseteq Values
           /\ open => /\ Stand(stack', savepoints')
                      /\ Saved(stack', savepoints') =
                             IF savepoints' = savepoints THEN Saved(stack, savepoints)
                             ELSE SubSeq(Saved(stack, savepoints), 1, Len(savepoints) - 1)
                      /\ data' = Saved(stack, savepoints)[Len(savepoints)]
<1>1. savepoints \in Seq(Nat \cup Names) /\ stack \in Seq(Frames) /\ data \in SUBSET Values
      /\ (open => Stand(stack, savepoints))
  BY InvTypes
<1>2. CASE open
  <2> DEFINE p == LastOf(stack, Last(savepoints))
             n == Len(savepoints)
  <2>1. /\ p \in 1..Len(stack) /\ Known(Last(savepoints))
        /\ \A i \in 1..(n - 1) : LastOf(stack, savepoints[i]) <= p - 1
        /\ Saved(stack, savepoints)[n] = stack[p].data
    BY <1>2, NewestStands
  <2>2. stack' = SubSeq(stack, 1, p) /\ data' = stack[p].data
    BY <2>1 DEF SqlRollbackTo
  <2>3. n \in Nat \ {0} /\ Last(savepoints) = savepoints[n]
    BY <1>1, FrontProperties
  <2>4. \A i \in 1..(n - 1) : LastOf(stack, savepoints[i]) \in Nat
    BY <1>1, LastOfSpec
  <2>5. \A i \in 1..(n - 1) : LastOf(stack, savepoints[i]) <= p
    BY <2>1, <2>4
  <2>6. \A i \in 1..n : LastOf(stack, savepoints[i]) <= p
    <3>1. \A i \in 1..n : i \in 1..(n - 1) \/ i = n
      BY <2>3
    <3>2. LastOf(stack, savepoints[n]) <= p
      BY <2>1, <2>3
    <3> QED BY <2>5, <3>1, <3>2
  <2>7. data' \subseteq Values
    <3>1. stack[p] \in Frames
      BY <1>1, <2>1, ElementOfSeq
    <3> QED BY <2>2, <3>1 DEF Frames
  <2>8. ASSUME NEW k \in {n - 1, n}
        PROVE  /\ stack' \in Seq(Frames) /\ Stand(stack', SubSeq(savepoints, 1, k))
               /\ Saved(stack', SubSeq(savepoints, 1, k)) =
                      SubSeq(Saved(stack, savepoints), 1, k)
    <3>1. k \in 0..n /\ p \in 0..Len(stack)
      BY <2>1, <2>3, <2>8
    <3>2. \A i \in 1..k : LastOf(stack, savepoints[i]) <= p
      <4>1. \A i \in 1..k : i \in 1..n
        BY <2>3, <2>8
      <4> QED BY <2>6, <4>1
    <3> HIDE DEF p
    <3> QED BY <1>1, <1>2, <2>2, <3>1, <3>2, CutStack
  <2>9. CASE savepoints' = savepoints
    <3> DEFINE v == Saved(stack, savepoints)
    <3>1. SubSeq(savepoints, 1, n) = savepoints
      BY <1>1, <2>3, SubSeqFull
    <3>2. SubSeq(v, 1, n) = v
      <4>1. v \in Seq({v[i] : i \in DOMAIN savepoints}) /\ Len(v) = n
        BY <1>1 DEF Saved
      <4> HIDE DEF v
      <4> QED BY <4>1, SubSeqFull
    <3>3. /\ stack' \in Seq(Frames) /\ Stand(stack', SubSeq(savepoints, 1, n))
          /\ Saved(stack', SubSeq(savepoints, 1, n)) = SubSeq(Saved(stack, savepoints), 1, n)
      BY <2>8
    <3> QED BY <2>1, <2>2, <2>7, <2>9, <3>1, <3>2, <3>3
  <2>10. CASE savepoints' = Front(savepoints) /\ savepoints' # savepoints
    <3>1. savepoints' = SubSeq(savepoints, 1, n - 1)
      BY <2>10 DEF Front
    <3>2. /\ stack' \in Seq(Frames) /\ Stand(stack', SubSeq(savepoints, 1, n - 1))
          /\ Saved(stack', SubSeq(savepoints, 1, n - 1)) =
                 SubSeq(Saved(stack, savepoints), 1, n - 1)
      BY <2>8
    <3> QED BY <2>1, <2>2, <2>7, <2>10, <3>1, <3>2
  <2> QED BY <2>9, <2>10
<1>3. CASE ~open
  BY <1>1, <1>3 DEF SqlRollbackTo, Known
<1> QED
  BY <1>2, <1>3

LEMMA InvInit ==
    ASSUME Init
    PROVE  IInv
<1>1. TypeOK
  <2>1. Nested = Levels(<<>>)
    BY DEF Init, Nested, Levels
  <2>2. Cardinality(Nested) = 0
    BY <2>1, LevelsEmpty
  <2>3. stack \in Seq(Frames) /\ savepoints \in Seq(Nat \cup Names)
    BY DEF Init
  <2> QED BY <2>2, <2>3 DEF Init, TypeOK, States, Calls
<1>2. SavepointsStand /\ NothingLeftOpen /\ Numbered
  BY DEF Init, SavepointsStand, NothingLeftOpen, Numbered, Distinct
<1> QED
  BY <1>1, <1>2 DEF IInv, ConnectionInv

\* The parts of the invariant, as the steps below establish them.
LEMMA InvParts ==
    ASSUME state' \in States, call' \in Calls, database' \in {"postgres", "sqlite"}, open' \in BOOLEAN,
           data' \subseteq Values, committed' \subseteq Values,
           savepoints' \in Seq(Nat \cup Names), stack' \in Seq(Frames),
           depth' = IF state' = "Active" THEN 1 + Cardinality(Levels(savepoints')) ELSE 0,
           open' => Stand(stack', savepoints'),
           open' => (state' = "Active" \/ (database' = "sqlite" /\ call' = "commit")),
           ~open' => data' = committed',
           state' # "Active" => savepoints' = <<>>,
           Distinct(savepoints'),
           \A i \in DOMAIN savepoints' : savepoints'[i] \in Nat => savepoints'[i] <= depth'
    PROVE  IInv'
<1>1. TypeOK'
  BY DEF TypeOK, Nested, Levels
<1>2. SavepointsStand' /\ NothingLeftOpen' /\ Numbered'
  BY DEF SavepointsStand, NothingLeftOpen, Numbered, Stand
<1> QED
  BY <1>1, <1>2 DEF IInv, ConnectionInv

\* A new level or a savepoint of the caller's.
LEMMA SettingKeepsInv ==
    ASSUME IInv, state = "Active", UNCHANGED state, call' \in Calls,
           NEW n \in Nat \cup Names, \A i \in DOMAIN savepoints : savepoints[i] # n,
           savepoints' = Append(savepoints, n), SqlSavepoint(n),
           depth' = IF n \in Nat THEN depth + 1 ELSE depth,
           n \in Nat => n = depth'
    PROVE  IInv'
<1>1. /\ savepoints \in Seq(Nat \cup Names) /\ depth \in Nat
      /\ depth = 1 + Cardinality(Levels(savepoints))
      /\ Cardinality(Levels(savepoints)) \in Nat
  BY InvTypes
<1>2. /\ savepoints' \in Seq(Nat \cup Names) /\ stack' \in Seq(Frames)
      /\ Distinct(savepoints')
      /\ open => Stand(stack', savepoints')
  BY Setting
<1>3. \A i \in DOMAIN savepoints' : \/ i \in DOMAIN savepoints /\ savepoints'[i] = savepoints[i]
                                    \/ savepoints'[i] = n
  BY Setting
<1>4. depth' = 1 + Cardinality(Levels(savepoints'))
  BY <1>1, LevelsAppend
<1>5. \A i \in DOMAIN savepoints' : savepoints'[i] \in Nat => savepoints'[i] <= depth'
  <2> SUFFICES ASSUME NEW i \in DOMAIN savepoints', savepoints'[i] \in Nat
               PROVE  savepoints'[i] <= depth'
    OBVIOUS
  <2>1. CASE i \in DOMAIN savepoints /\ savepoints'[i] = savepoints[i]
    BY <1>1, <2>1 DEF IInv, Numbered
  <2>2. CASE savepoints'[i] = n
    BY <1>1, <2>2
  <2> QED BY <1>3, <2>1, <2>2
<1>6. /\ state' \in States /\ database' \in {"postgres", "sqlite"} /\ open' \in BOOLEAN /\ open' = open
      /\ data' \subseteq Values /\ committed' \subseteq Values /\ state' = "Active"
      /\ ~open' => data' = committed'
  BY DEF SqlSavepoint, IInv, ConnectionInv, TypeOK, NothingLeftOpen
<1>7. /\ depth' = IF state' = "Active" THEN 1 + Cardinality(Levels(savepoints')) ELSE 0
      /\ open' => Stand(stack', savepoints')
      /\ ~open' => data' = committed'
      /\ state' # "Active" => savepoints' = <<>>
  BY <1>2, <1>4, <1>5, <1>6
<1> QED
  BY <1>2, <1>3, <1>5, <1>6, <1>7, InvParts

\* The end of a level or of a savepoint of the caller's.
LEMMA DroppingKeepsInv ==
    ASSUME IInv, state = "Active", UNCHANGED state, call' \in Calls,
           savepoints # <<>>, savepoints' = Front(savepoints),
           depth' = IF Last(savepoints) \in Nat THEN depth - 1 ELSE depth,
           Last(savepoints) \in Nat => Last(savepoints) = depth,
           \/ SqlRelease(Last(savepoints))
           \/ SqlRollbackTo(Last(savepoints))
    PROVE  IInv'
<1>1. /\ savepoints \in Seq(Nat \cup Names) /\ depth \in Nat
      /\ depth = 1 + Cardinality(Levels(savepoints))
      /\ Cardinality(Levels(savepoints)) \in Nat
  BY InvTypes
<1>2. /\ savepoints' \in Seq(Nat \cup Names)
      /\ Distinct(savepoints')
      /\ \A i \in DOMAIN savepoints' :
             /\ i \in DOMAIN savepoints /\ savepoints'[i] = savepoints[i]
             /\ savepoints[i] # Last(savepoints)
  BY Dropping
<1>3. /\ stack' \in Seq(Frames) /\ (open => Stand(stack', savepoints'))
      /\ data' \subseteq Values
  <2>1. CASE SqlRelease(Last(savepoints))
    <3>1. stack' \in Seq(Frames) /\ (open => Stand(stack', savepoints'))
      BY <2>1, Releasing
    <3>2. data' \subseteq Values
      BY <2>1 DEF SqlRelease, IInv, ConnectionInv, TypeOK
    <3> QED BY <3>1, <3>2
  <2>2. CASE SqlRollbackTo(Last(savepoints))
    BY <2>2, Returning
  <2> QED BY <2>1, <2>2
<1>4. depth' = 1 + Cardinality(Levels(savepoints'))
  BY <1>1, LevelsFront
<1>5. \A i \in DOMAIN savepoints' : savepoints'[i] \in Nat => savepoints'[i] <= depth'
  <2> SUFFICES ASSUME NEW i \in DOMAIN savepoints', savepoints'[i] \in Nat
               PROVE  savepoints'[i] <= depth'
    OBVIOUS
  <2>1. savepoints'[i] <= depth /\ savepoints'[i] # Last(savepoints)
    BY <1>2 DEF IInv, Numbered
  <2>2. CASE Last(savepoints) \in Nat
    BY <1>1, <2>1, <2>2
  <2>3. CASE Last(savepoints) \notin Nat
    BY <2>1, <2>3
  <2> QED BY <2>2, <2>3
<1>6. /\ state' \in States /\ database' \in {"postgres", "sqlite"} /\ open' \in BOOLEAN /\ open' = open
      /\ committed' \subseteq Values /\ state' = "Active"
      /\ ~open' => data' = committed'
  BY DEF SqlRelease, SqlRollbackTo, Known, IInv, ConnectionInv, TypeOK, NothingLeftOpen
<1>7. /\ depth' = IF state' = "Active" THEN 1 + Cardinality(Levels(savepoints')) ELSE 0
      /\ open' => Stand(stack', savepoints')
      /\ ~open' => data' = committed'
      /\ state' # "Active" => savepoints' = <<>>
  BY <1>2, <1>3, <1>4, <1>5, <1>6
<1> QED
  BY <1>2, <1>3, <1>5, <1>6, <1>7, InvParts

LEMMA InvStep ==
    ASSUME Disciplined, IInv, [Next]_vars
    PROVE  IInv'
<1>0. /\ savepoints \in Seq(Nat \cup Names) /\ stack \in Seq(Frames)
      /\ data \in SUBSET Values /\ open \in BOOLEAN
      /\ open => Stand(stack, savepoints)
      /\ Distinct(savepoints) /\ depth \in Nat
      /\ depth = IF state = "Active" THEN 1 + Cardinality(Levels(savepoints)) ELSE 0
      /\ Cardinality(Levels(savepoints)) \in Nat
  BY InvTypes
<1>a. /\ state \in States /\ call \in Calls /\ database \in {"postgres", "sqlite"}
      /\ committed \subseteq Values
      /\ open => (state = "Active" \/ (database = "sqlite" /\ call = "commit"))
      /\ ~open => data = committed
      /\ state # "Active" => savepoints = <<>>
      /\ \A i \in DOMAIN savepoints : savepoints[i] \in Nat => savepoints[i] <= depth
  BY DEF IInv, ConnectionInv, TypeOK, NothingLeftOpen, Numbered
<1>e. /\ <<>> \in Seq(Frames) /\ <<>> \in Seq(Nat \cup Names)
      /\ Stand(<<>>, <<>>) /\ Distinct(<<>>) /\ Cardinality(Levels(<<>>)) = 0
      /\ DOMAIN <<>> = {}
  BY LevelsEmpty DEF Stand, Distinct
<1>b. {"begin", "write", "undo", "commit", "rollback"} \subseteq Calls
      /\ {"NotStarted", "Active", "Committed", "RolledBack"} \subseteq States
  BY DEF Calls, States
<1>1. CASE Begin
  <2>1. savepoints = <<>>
    BY <1>1, <1>a DEF Begin
  <2>2. /\ state' = "Active" /\ call' = "begin" /\ depth' = 1 /\ savepoints' = <<>>
        /\ open' = TRUE /\ stack' \in {stack, <<>>} /\ UNCHANGED <<database, data, committed>>
    BY <1>1, <2>1 DEF Begin, SqlBegin
  <2>5. Stand(stack', savepoints')
    BY <1>e, <2>2 DEF Stand
  <2>3. \A i \in DOMAIN savepoints' : savepoints'[i] \in Nat => savepoints'[i] <= depth'
    BY <1>e, <2>2
  <2>4. depth' = IF state' = "Active" THEN 1 + Cardinality(Levels(savepoints')) ELSE 0
    BY <1>e, <2>2
  <2> QED BY <1>0, <1>a, <1>b, <1>e, <2>2, <2>3, <2>4, <2>5, InvParts
<1>2. CASE BeginNested
  <2>1. /\ state = "Active" /\ UNCHANGED state /\ call' = "begin"
        /\ depth' = depth + 1 /\ savepoints' = Append(savepoints, depth')
        /\ SqlSavepoint(depth')
    BY <1>2 DEF BeginNested
  <2>2. PICK n \in Nat : n = depth'
    BY <1>0, <2>1
  <2>3. \A i \in DOMAIN savepoints : savepoints[i] # n
    BY <1>0, <1>a, <2>1, <2>2
  <2>4. savepoints' = Append(savepoints, n) /\ SqlSavepoint(n)
    BY <2>1, <2>2
  <2> QED BY <1>0, <1>b, <2>1, <2>2, <2>3, <2>4, SettingKeepsInv
<1>3. ASSUME NEW n \in Names, Savepoint(n)
      PROVE  IInv'
  <2>1. /\ state = "Active" /\ UNCHANGED state /\ call' = "begin"
        /\ depth' = depth /\ savepoints' = Append(savepoints, n)
        /\ SqlSavepoint(n) /\ \A i \in DOMAIN savepoints : savepoints[i] # n
    BY <1>3 DEF Savepoint, ToSet
  <2>2. n \notin Nat
    BY TransactionAssumption DEF TransactionAssumption
  <2> QED BY <1>b, <2>1, <2>2, SettingKeepsInv
<1>4. CASE CommitNested
  <2>1. /\ state = "Active" /\ UNCHANGED state /\ call' = "commit"
        /\ savepoints # <<>> /\ Last(savepoints) = depth
        /\ depth' = depth - 1 /\ savepoints' = Front(savepoints)
        /\ SqlRelease(Last(savepoints))
    BY <1>4 DEF CommitNested, Pop
  <2> QED BY <1>0, <1>b, <2>1, DroppingKeepsInv
<1>5. CASE RollbackNested
  <2>1. /\ state = "Active" /\ UNCHANGED state /\ call' = "rollback"
        /\ savepoints # <<>> /\ Last(savepoints) = depth
        /\ depth' = depth - 1 /\ savepoints' = Front(savepoints)
        /\ SqlRollbackTo(Last(savepoints))
    BY <1>5 DEF RollbackNested, Pop
  <2> QED BY <1>0, <1>b, <2>1, DroppingKeepsInv
<1>6. ASSUME NEW n \in Names, ReleaseSavepoint(n)
      PROVE  IInv'
  <2>1. savepoints # <<>> /\ n = Last(savepoints)
    BY <1>6, <1>e DEF ReleaseSavepoint, Newest, ToSet
  <2>2. /\ UNCHANGED <<state, depth>> /\ call' = "commit" /\ SqlRelease(Last(savepoints))
        /\ savepoints' = RemoveFirst(savepoints, Last(savepoints))
    BY <1>6, <2>1 DEF ReleaseSavepoint
  <2>3. savepoints' = Front(savepoints)
    BY <1>0, <2>1, <2>2, RemoveFirstIsFront
  <2>4. Last(savepoints) \notin Nat
    BY <2>1, TransactionAssumption DEF TransactionAssumption
  <2>5. state = "Active"
    BY <1>a, <2>1
  <2> QED BY <1>b, <2>1, <2>2, <2>3, <2>4, <2>5, DroppingKeepsInv
<1>7. ASSUME NEW n \in Names, RollbackToSavepoint(n)
      PROVE  IInv'
  <2>1. savepoints # <<>> /\ n = Last(savepoints)
    BY <1>7, <1>e DEF RollbackToSavepoint, Newest, ToSet
  <2>2. /\ UNCHANGED <<state, depth, savepoints>> /\ call' = "undo"
        /\ SqlRollbackTo(Last(savepoints))
    BY <1>7, <2>1 DEF RollbackToSavepoint, object
  <2>3. /\ stack' \in Seq(Frames) /\ data' \subseteq Values
        /\ open => Stand(stack', savepoints')
    BY <2>1, <2>2, Returning
  <2>4. UNCHANGED <<database, open, committed>> /\ (~open => data' = data)
    BY <2>2 DEF SqlRollbackTo, Known
  <2>5. state = "Active"
    BY <1>a, <2>1
  <2> QED BY <1>0, <1>a, <1>b, <2>2, <2>3, <2>4, <2>5, InvParts
<1>8. CASE Commit \/ Rollback
  <2>1. /\ state' \in {"Committed", "RolledBack"} /\ depth' = 0 /\ savepoints' = <<>>
        /\ call' \in {"commit", "rollback"}
        /\ (call' = "commit" /\ SqlCommit) \/ SqlRollback
    BY <1>8 DEF Commit, Rollback, AtTop
  <2>2. \/ /\ open' = FALSE /\ stack' = <<>> /\ data' \in {committed, data}
           /\ committed' = data' /\ UNCHANGED database
        \/ /\ database = "sqlite" /\ call' = "commit"
           /\ UNCHANGED <<database, open, stack, data, committed>>
    BY <2>1 DEF SqlCommit, SqlRollback, SqlEnd, db
  <2>3. \A i \in DOMAIN savepoints' : savepoints'[i] \in Nat => savepoints'[i] <= depth'
    BY <1>e, <2>1
  <2>4. depth' = IF state' = "Active" THEN 1 + Cardinality(Levels(savepoints')) ELSE 0
    BY <2>1
  <2>5. /\ state' \in States /\ call' \in Calls /\ data' \subseteq Values
        /\ committed' \subseteq Values /\ stack' \in Seq(Frames) /\ open' \in BOOLEAN
        /\ database' \in {"postgres", "sqlite"} /\ (~open' => data' = committed')
        /\ open' => (database' = "sqlite" /\ call' = "commit")
    BY <1>0, <1>a, <1>b, <1>e, <2>1, <2>2
  <2>6. Stand(stack', savepoints') /\ Distinct(savepoints') /\ savepoints' \in Seq(Nat \cup Names)
    BY <1>e, <2>1 DEF Stand
  <2> QED BY <2>1, <2>3, <2>4, <2>5, <2>6, InvParts
<1>9. CASE New
  <2>1. /\ state' = "NotStarted" /\ savepoints' = <<>> /\ savepoints = <<>> /\ state # "Active"
        /\ UNCHANGED <<depth, call, database, open, stack, data, committed>> /\ depth = 0
    BY <1>9, <1>0, <1>a DEF New, db
  <2>2. \A i \in DOMAIN savepoints' : savepoints'[i] \in Nat => savepoints'[i] <= depth'
    BY <1>e, <2>1
  <2> QED BY <1>0, <1>a, <1>b, <1>e, <2>1, <2>2, InvParts
<1>10. ASSUME NEW v \in Values, Write(v)
       PROVE  IInv'
  <2>1. /\ call' = "write" /\ data' = data \cup {v} /\ open /\ state = "Active"
        /\ UNCHANGED <<state, depth, savepoints, database, open, stack, committed>>
    BY <1>10 DEF Write, object
  <2> QED BY <1>0, <1>a, <1>b, <2>1, InvParts
<1>11. CASE Lose
  <2>1. /\ open' = FALSE /\ stack' = <<>> /\ data' = committed
        /\ UNCHANGED <<state, depth, savepoints, database, call, committed>>
    BY <1>11 DEF Lose, object
  <2> QED BY <1>0, <1>a, <1>e, <2>1, InvParts
<1>12. CASE UNCHANGED vars
  <2>1. UNCHANGED <<state, depth, savepoints, database, call, open, stack, data, committed>>
    BY <1>12 DEF vars, object, db
  <2> QED BY <1>0, <1>a, <2>1, InvParts
<1> QED
  BY <1>1, <1>2, <1>3, <1>4, <1>5, <1>6, <1>7, <1>8, <1>9, <1>10, <1>11, <1>12 DEF Next

\* The inductive invariant holds of every reachable state.
THEOREM Invariance == ASSUME Disciplined PROVE Spec => []IInv
<1>1. IInv /\ [Next]_vars => IInv'
  BY InvStep
<1> QED
  BY <1>1, InvInit, PTL DEF Spec

\* For a caller that uses savepoints like brackets: through lost connections,
\* refused commits and whatever rollbacks left on the stack, every statement the
\* object sends names the savepoint that it means, and nothing stays open after
\* its end but a transaction whose COMMIT SQLite has refused (transaction.rs,
\* begin to rollback_to_savepoint).
THEOREM ObjectAndConnection == ASSUME Disciplined PROVE Spec => []ConnectionInv
<1>1. IInv => ConnectionInv
  BY DEF IInv
<1> QED
  BY <1>1, Invariance, PTL

(***************************************************************************)
(* Refinement: the scopes that are open are the transaction and what its   *)
(* savepoints saved.                                                       *)
(***************************************************************************)
OpenScopes == IF open
              THEN <<committed>> \o [i \in DOMAIN savepoints |->
                       stack[LastOf(stack, savepoints[i])].data]
              ELSE <<>>

Stranded == open /\ state # "Active"

LEMMA SavedIsSeq ==
    ASSUME NEW s, NEW sp \in Seq(Nat \cup Names)
    PROVE  \E D : Saved(s, sp) \in Seq(D) /\ Len(Saved(s, sp)) = Len(sp)
<1> DEFINE D == {s[LastOf(s, sp[i])].data : i \in DOMAIN sp}
<1>1. Saved(s, sp) \in Seq(D) /\ Len(Saved(s, sp)) = Len(sp)
  BY DEF Saved
<1> QED
  BY <1>1

\* The outermost scope below the others.
LEMMA Nesting ==
    ASSUME NEW c, NEW d, NEW D, NEW v \in Seq(D)
    PROVE  /\ <<c>> \o v # <<>> /\ Len(<<c>> \o v) = Len(v) + 1
           /\ <<c>> \o Append(v, d) = Append(<<c>> \o v, d)
           /\ v = <<>> => <<c>> \o v = <<c>>
           /\ v # <<>> => /\ (<<c>> \o v)[Len(<<c>> \o v)] = v[Len(v)]
                          /\ SubSeq(<<c>> \o v, 1, Len(<<c>> \o v) - 1)
                                 = <<c>> \o SubSeq(v, 1, Len(v) - 1)
<1> DEFINE E == D \cup {c, d}
<1>1. v \in Seq(E) /\ <<c>> \in Seq(E) /\ d \in E /\ Len(<<c>>) = 1 /\ <<c>>[1] = c
      /\ Len(v) \in Nat
  OBVIOUS
<1> HIDE DEF E
<1> DEFINE w == <<c>> \o v
<1>2. /\ w \in Seq(E) /\ Len(w) = Len(v) + 1 /\ w[1] = c
      /\ \A i \in 1..Len(v) : w[i + 1] = v[i]
  <2>1. /\ w \in Seq(E) /\ Len(w) = 1 + Len(v)
        /\ \A i \in 1..(1 + Len(v)) : w[i] = IF i <= 1 THEN <<c>>[i] ELSE v[i - 1]
    BY <1>1, ConcatProperties
  <2> HIDE DEF w
  <2>2. w[1] = c
    BY <1>1, <2>1
  <2>3. \A i \in 1..Len(v) : w[i + 1] = v[i]
    <3> SUFFICES ASSUME NEW i \in 1..Len(v) PROVE w[i + 1] = v[i]
      OBVIOUS
    <3>1. i + 1 \in 1..(1 + Len(v)) /\ ~(i + 1 <= 1) /\ i + 1 - 1 = i
      BY <1>1
    <3> QED BY <2>1, <3>1
  <2> QED BY <1>1, <2>1, <2>2, <2>3
<1>3. <<c>> \o Append(v, d) = Append(w, d)
  <2>1. Append(v, d) = v \o <<d>> /\ <<d>> \in Seq(E)
    BY <1>1, AppendIsConcat
  <2>2. Append(w, d) = w \o <<d>>
    BY <1>1, <1>2, AppendIsConcat
  <2>3. <<c>> \o (v \o <<d>>) = (<<c>> \o v) \o <<d>>
    BY <1>1, <2>1, ConcatAssociative
  <2> QED BY <2>1, <2>2, <2>3
<1>4. v = <<>> => w = <<c>>
  BY <1>1, ConcatEmptySeq
<1>5. CASE v # <<>>
  <2> DEFINE n == Len(v)
             l == SubSeq(w, 1, n)
             r == <<c>> \o SubSeq(v, 1, n - 1)
  <2>1. n \in Nat \ {0} /\ 1 \in 1..(n + 1) /\ n - 1 \in 0..n /\ n \in 0..(n + 1)
    BY <1>1, <1>5, EmptySeq
  <2>2. l \in Seq(E) /\ Len(l) = n /\ \A i \in 1..n : l[i] = w[i]
    <3>1. n \in 0..Len(w) /\ n - 1 + 1 = n
      BY <1>2, <2>1
    <3>2. w \in Seq(E)
      BY <1>2
    <3> HIDE DEF w, n
    <3>3. /\ SubSeq(w, 1, n) \in Seq(E) /\ Len(SubSeq(w, 1, n)) = n
          /\ \A i \in 1..n : SubSeq(w, 1, n)[i] = w[i]
      BY <3>1, <3>2, SubSeqProperties
    <3> QED BY <3>3
  <2> DEFINE f == SubSeq(v, 1, n - 1)
  <2>3. f \in Seq(E) /\ Len(f) = n - 1 /\ \A i \in 1..(n - 1) : f[i] = v[i]
    <3> DEFINE k == n - 1
    <3>1. k \in 0..Len(v) /\ k - 1 + 1 = k
      BY <2>1
    <3> HIDE DEF k, n
    <3>2. SubSeq(v, 1, k) \in Seq(E) /\ Len(SubSeq(v, 1, k)) = k
          /\ \A i \in 1..k : SubSeq(v, 1, k)[i] = v[i]
      BY <1>1, <3>1, SubSeqProperties
    <3> QED BY <3>2 DEF k
  <2> HIDE DEF f
  <2>4. /\ r \in Seq(E) /\ Len(r) = 1 + (n - 1)
        /\ \A i \in 1..(1 + (n - 1)) : r[i] = IF i <= 1 THEN <<c>>[i] ELSE f[i - 1]
    <3>1. r = <<c>> \o f
      BY DEF f
    <3> QED BY <1>1, <2>3, <3>1, ConcatProperties
  <2> HIDE DEF l, r
  <2>5. ASSUME NEW i \in 1..n
        PROVE  l[i] = r[i]
    <3>1. CASE i = 1
      <4> HIDE DEF w, n
      <4>1. l[1] = c
        BY <1>2, <2>1, <2>2
      <4>2. 1 \in 1..(1 + (n - 1)) /\ 1 <= 1
        BY <2>1
      <4>3. r[1] = <<c>>[1]
        BY <2>4, <4>2
      <4> QED BY <1>1, <3>1, <4>1, <4>3
    <3>2. CASE i # 1
      <4> DEFINE j == i - 1
      <4>1. j \in 1..(n - 1) /\ j \in 1..n /\ i = j + 1 /\ ~(i <= 1)
        BY <2>1, <3>2
      <4>2. r[i] = f[j]
        BY <2>1, <2>4, <4>1
      <4>3. f[j] = v[j]
        BY <2>3, <4>1
      <4>4. w[j + 1] = v[j]
        BY <1>2, <4>1
      <4> HIDE DEF j
      <4> QED BY <2>2, <4>1, <4>2, <4>3, <4>4
    <3> QED BY <3>1, <3>2
  <2>6. l = r
    <3>1. Len(l) = Len(r)
      BY <2>1, <2>2, <2>4
    <3> QED BY <2>2, <2>4, <2>5, <3>1, SeqEqual
  <2>7. Len(w) - 1 = n
    BY <1>2, <2>1
  <2>8. w[Len(w)] = v[n]
    BY <1>2, <2>1
  <2> QED BY <1>2, <1>3, <1>5, <2>1, <2>6, <2>7, <2>8 DEF l, r
<1>6. w # <<>>
  BY <1>1, <1>2
<1> QED
  BY <1>2, <1>3, <1>4, <1>5, <1>6

LEMMA ScopesInit ==
    ASSUME Init
    PROVE  Scopes!Init
BY DEF Init, Scopes!Init

\* A scope is opened on top of the others, a scope is closed or undone.
LEMMA SettingOpens ==
    ASSUME IInv, state = "Active", UNCHANGED state, call' = "begin",
           NEW n \in Nat \cup Names, \A i \in DOMAIN savepoints : savepoints[i] # n,
           savepoints' = Append(savepoints, n), SqlSavepoint(n)
    PROVE  Scopes!Next
<1>0. savepoints \in Seq(Nat \cup Names) /\ UNCHANGED <<open, data, committed>>
  BY InvTypes DEF SqlSavepoint
<1>1. CASE open
  <2>1. Saved(stack', savepoints') = Append(Saved(stack, savepoints), data)
    BY <1>1, Setting
  <2>2. OpenScopes = <<committed>> \o Saved(stack, savepoints)
    BY <1>1 DEF OpenScopes, Saved
  <2>3. OpenScopes' = <<committed>> \o Saved(stack', savepoints')
    BY <1>0, <1>1 DEF OpenScopes, Saved
  <2>4. PICK D : Saved(stack, savepoints) \in Seq(D)
    BY <1>0, SavedIsSeq
  <2> DEFINE v == Saved(stack, savepoints)
  <2>5. <<committed>> \o Append(v, data) = Append(<<committed>> \o v, data)
    <3> HIDE DEF v
    <3>1. v \in Seq(D)
      BY <2>4 DEF v
    <3> QED BY <3>1, Nesting
  <2>6. OpenScopes' = Append(OpenScopes, data)
    BY <2>1, <2>2, <2>3, <2>5
  <2>7. Scopes!Begin
    BY <1>0, <2>6, Zenon DEF Scopes!Begin, OpenScopes
  <2> QED BY <2>7 DEF Scopes!Next
<1>2. CASE ~open
  <2>1. OpenScopes = <<>> /\ OpenScopes' = <<>>
    BY <1>0, <1>2, Zenon DEF OpenScopes
  <2>2. Scopes!Ignored("begin")
    BY <1>0, <2>1 DEF Scopes!Ignored, OpenScopes
  <2> QED BY <2>2 DEF Scopes!Next, Scopes!Calls
<1> QED
  BY <1>1, <1>2 DEF IInv, ConnectionInv, TypeOK

LEMMA DroppingCloses ==
    ASSUME IInv, state = "Active", UNCHANGED state,
           savepoints # <<>>, savepoints' = Front(savepoints),
           \/ call' = "commit" /\ SqlRelease(Last(savepoints))
           \/ call' = "rollback" /\ SqlRollbackTo(Last(savepoints))
    PROVE  Scopes!Next
<1>0. /\ savepoints \in Seq(Nat \cup Names) /\ UNCHANGED <<open, committed>>
      /\ call' \in {"commit", "rollback"} /\ (~open => data' = data)
  BY InvTypes DEF SqlRelease, SqlRollbackTo, Known
<1>1. CASE open
  <2> DEFINE v == Saved(stack, savepoints)
  <2>1. PICK D : v \in Seq(D) /\ Len(v) = Len(savepoints)
    BY <1>0, SavedIsSeq
  <2>2. Len(savepoints) \in Nat \ {0}
    BY <1>0, FrontProperties
  <2>3. v # <<>>
    <3>1. Len(v) # 0
      BY <2>1, <2>2
    <3> QED BY <3>1, <2>1, EmptySeq
  <2>4. Saved(stack', savepoints') = SubSeq(v, 1, Len(savepoints) - 1)
    <3>1. CASE call' = "commit" /\ SqlRelease(Last(savepoints))
      BY <1>1, <3>1, Releasing
    <3>2. CASE call' = "rollback" /\ SqlRollbackTo(Last(savepoints))
      <4>1. savepoints' # savepoints
        <5>1. Len(Front(savepoints)) = Len(savepoints) - 1
          BY <1>0, FrontProperties
        <5> QED BY <2>2, <5>1
      <4> QED BY <1>1, <3>2, <4>1, Returning
    <3> QED BY <3>1, <3>2
  <2>5. OpenScopes = <<committed>> \o v
    BY <1>1 DEF OpenScopes, Saved
  <2>6. OpenScopes' = <<committed>> \o Saved(stack', savepoints')
    BY <1>0, <1>1 DEF OpenScopes, Saved
  <2>7. /\ <<committed>> \o v # <<>> /\ Len(<<committed>> \o v) = Len(v) + 1
        /\ (<<committed>> \o v)[Len(<<committed>> \o v)] = v[Len(v)]
        /\ SubSeq(<<committed>> \o v, 1, Len(<<committed>> \o v) - 1)
               = <<committed>> \o SubSeq(v, 1, Len(v) - 1)
    <3> HIDE DEF v
    <3> QED BY <2>1, <2>3, Nesting
  <2>8. /\ OpenScopes # <<>> /\ OpenScopes' = SubSeq(OpenScopes, 1, Len(OpenScopes) - 1)
        /\ Len(OpenScopes) # 1
    BY <2>1, <2>2, <2>4, <2>5, <2>6, <2>7
  <2>9. Scopes!Close
    BY <1>0, <2>8 DEF Scopes!Close, OpenScopes
  <2>10. CASE call' = "commit" /\ SqlRelease(Last(savepoints))
    <3>1. Scopes!Commit
      BY <2>9, <2>10 DEF Scopes!Commit, SqlRelease
    <3> QED BY <3>1 DEF Scopes!Next
  <2>11. CASE call' = "rollback" /\ SqlRollbackTo(Last(savepoints))
    <3>1. data' = v[Len(savepoints)]
      BY <1>1, <2>11, Returning
    <3>2. data' = OpenScopes[Len(OpenScopes)]
      BY <2>1, <2>5, <2>7, <3>1
    <3>3. Scopes!Rollback
      BY <2>9, <2>11, <3>2 DEF Scopes!Rollback, Scopes!Innermost, OpenScopes
    <3> QED BY <3>3 DEF Scopes!Next
  <2> QED BY <2>10, <2>11
<1>2. CASE ~open
  <2>1. OpenScopes = <<>> /\ OpenScopes' = <<>>
    BY <1>0, <1>2 DEF OpenScopes
  <2>2. Scopes!Ignored(call')
    BY <1>0, <1>2, <2>1 DEF Scopes!Ignored, OpenScopes
  <2> QED BY <1>0, <2>2 DEF Scopes!Next, Scopes!Calls
<1> QED
  BY <1>1, <1>2 DEF IInv, ConnectionInv, TypeOK

LEMMA ScopesStep ==
    ASSUME Disciplined, IInv, [Next]_vars
    PROVE  Scopes!Next \/ UNCHANGED <<call, Stranded, OpenScopes, data, committed>>
<1>0. /\ savepoints \in Seq(Nat \cup Names) /\ depth \in Nat /\ open \in BOOLEAN
      /\ Distinct(savepoints)
      /\ open => (state = "Active" \/ (database = "sqlite" /\ call = "commit"))
      /\ ~open => data = committed
      /\ state # "Active" => savepoints = <<>>
      /\ \A i \in DOMAIN savepoints : savepoints[i] \in Nat => savepoints[i] <= depth
  BY InvTypes DEF IInv, ConnectionInv, NothingLeftOpen, Numbered
<1>e. /\ Saved(stack, <<>>) = <<>> /\ Saved(stack', <<>>) = <<>>
      /\ \A c : <<c>> \o <<>> = <<c>>
  <2>1. Saved(stack, <<>>) = <<>> /\ Saved(stack', <<>>) = <<>>
    BY DEF Saved
  <2>2. ASSUME NEW c
        PROVE  <<c>> \o <<>> = <<c>>
    BY Nesting
  <2> QED BY <2>1, <2>2
<1>1. CASE Begin /\ ~open
  <2>1. savepoints = <<>> /\ savepoints' = <<>> /\ ~open /\ open' = TRUE /\ call' = "begin"
        /\ UNCHANGED <<data, committed>> /\ state' = "Active"
    BY <1>0, <1>1 DEF Begin, SqlBegin
  <2>2. OpenScopes = <<>> /\ OpenScopes' = <<committed>> \o Saved(stack', savepoints')
    BY <2>1 DEF OpenScopes, Saved
  <2>3. OpenScopes' = Append(OpenScopes, data)
    <3>1. OpenScopes' = <<committed>>
      BY <1>e, <2>1, <2>2
    <3>2. Append(<<>>, data) = <<committed>>
      BY <1>0, <2>1
    <3> QED BY <2>2, <3>1, <3>2
  <2>4. Scopes!Begin
    BY <2>1, <2>3 DEF Scopes!Begin, OpenScopes
  <2> QED BY <2>4 DEF Scopes!Next
<1>1b. CASE Begin /\ open
  <2>1. /\ savepoints = <<>> /\ savepoints' = <<>> /\ open' = TRUE /\ call' = "begin"
        /\ UNCHANGED <<data, committed>> /\ state # "Active" /\ state' = "Active"
    BY <1>0, <1>1b DEF Begin, SqlBegin
  <2>2. OpenScopes = <<committed>> \o Saved(stack, savepoints)
    BY <1>1b DEF OpenScopes, Saved
  <2>3. OpenScopes' = <<committed>> \o Saved(stack', savepoints')
    BY <2>1 DEF OpenScopes, Saved
  <2>4. OpenScopes' = OpenScopes
    BY <1>e, <2>1, <2>2, <2>3
  <2>5. Scopes!Rejoin
    BY <1>1b, <2>1, <2>4 DEF Scopes!Rejoin, OpenScopes
  <2> QED BY <2>5 DEF Scopes!Next
<1>2. CASE BeginNested
  <2>1. /\ state = "Active" /\ UNCHANGED state /\ call' = "begin"
        /\ depth' = depth + 1 /\ savepoints' = Append(savepoints, depth')
        /\ SqlSavepoint(depth')
    BY <1>2 DEF BeginNested
  <2>2. PICK n \in Nat : n = depth'
    BY <1>0, <2>1
  <2>3. \A i \in DOMAIN savepoints : savepoints[i] # n
    BY <1>0, <2>1, <2>2
  <2>4. savepoints' = Append(savepoints, n) /\ SqlSavepoint(n)
    BY <2>1, <2>2
  <2> QED BY <2>1, <2>3, <2>4, SettingOpens
<1>3. ASSUME NEW n \in Names, Savepoint(n)
      PROVE  Scopes!Next
  <2>1. /\ state = "Active" /\ UNCHANGED state /\ call' = "begin"
        /\ savepoints' = Append(savepoints, n)
        /\ SqlSavepoint(n) /\ \A i \in DOMAIN savepoints : savepoints[i] # n
    BY <1>3 DEF Savepoint, ToSet
  <2> QED BY <2>1, SettingOpens
<1>4. CASE CommitNested
  <2>1. /\ savepoints # <<>> /\ savepoints' = Front(savepoints)
        /\ state = "Active" /\ UNCHANGED state /\ call' = "commit"
        /\ SqlRelease(Last(savepoints))
    BY <1>4 DEF CommitNested, Pop
  <2> QED BY <2>1, DroppingCloses
<1>5. CASE RollbackNested
  <2>1. /\ savepoints # <<>> /\ savepoints' = Front(savepoints)
        /\ state = "Active" /\ UNCHANGED state /\ call' = "rollback"
        /\ SqlRollbackTo(Last(savepoints))
    BY <1>5 DEF RollbackNested, Pop
  <2> QED BY <2>1, DroppingCloses
<1>6. ASSUME NEW n \in Names, ReleaseSavepoint(n)
      PROVE  Scopes!Next
  <2>1. savepoints # <<>> /\ n = Last(savepoints)
    BY <1>6 DEF ReleaseSavepoint, Newest, ToSet
  <2>2. /\ call' = "commit" /\ UNCHANGED state /\ SqlRelease(Last(savepoints))
        /\ savepoints' = RemoveFirst(savepoints, Last(savepoints))
    BY <1>6, <2>1 DEF ReleaseSavepoint
  <2>3. savepoints' = Front(savepoints)
    BY <1>0, <2>1, <2>2, RemoveFirstIsFront
  <2>4. state = "Active"
    BY <1>0, <2>1
  <2> QED BY <2>1, <2>2, <2>3, <2>4, DroppingCloses
<1>7. ASSUME NEW n \in Names, RollbackToSavepoint(n)
      PROVE  Scopes!Next
  <2>1. savepoints # <<>> /\ n = Last(savepoints)
    BY <1>7 DEF RollbackToSavepoint, Newest, ToSet
  <2>2. /\ UNCHANGED savepoints /\ call' = "undo" /\ SqlRollbackTo(Last(savepoints))
        /\ UNCHANGED <<state, open, committed>> /\ (~open => data' = data)
    BY <1>7, <2>1 DEF RollbackToSavepoint, object, SqlRollbackTo, Known
  <2>5. state = "Active"
    BY <1>0, <2>1
  <2>3. CASE open
    <3> DEFINE v == Saved(stack, savepoints)
    <3>1. Saved(stack', savepoints') = v /\ data' = v[Len(savepoints)]
      BY <2>1, <2>2, <2>3, Returning
    <3>2. OpenScopes = <<committed>> \o v
      BY <2>3 DEF OpenScopes, Saved
    <3>3. OpenScopes' = <<committed>> \o Saved(stack', savepoints')
      BY <2>2, <2>3 DEF OpenScopes, Saved
    <3>4. PICK D : v \in Seq(D) /\ Len(v) = Len(savepoints)
      BY <1>0, SavedIsSeq
    <3>5. v # <<>>
      <4>1. Len(savepoints) \in Nat \ {0}
        BY <1>0, <2>1, FrontProperties
      <4> QED BY <3>4, <4>1, EmptySeq
    <3>6. /\ <<committed>> \o v # <<>>
          /\ (<<committed>> \o v)[Len(<<committed>> \o v)] = v[Len(v)]
      <4> HIDE DEF v
      <4> QED BY <3>4, <3>5, Nesting
    <3>7. /\ OpenScopes # <<>> /\ OpenScopes' = OpenScopes
          /\ data' = OpenScopes[Len(OpenScopes)]
      BY <2>2, <3>1, <3>2, <3>3, <3>4, <3>6
    <3>8. Scopes!Undo
      BY <2>2, <2>5, <3>7 DEF Scopes!Undo, Scopes!Innermost, OpenScopes
    <3> QED BY <3>8 DEF Scopes!Next
  <2>4. CASE ~open
    <3>1. OpenScopes = <<>> /\ OpenScopes' = <<>>
      BY <2>2, <2>4 DEF OpenScopes
    <3>2. Scopes!Ignored("undo")
      BY <2>2, <2>4, <3>1 DEF Scopes!Ignored, OpenScopes
    <3> QED BY <3>2 DEF Scopes!Next, Scopes!Calls
  <2> QED BY <2>3, <2>4
<1>8. CASE Commit \/ Rollback
  <2>1. /\ savepoints = <<>> /\ savepoints' = <<>> /\ state = "Active" /\ state' # "Active"
        /\ \/ call' = "commit" /\ SqlCommit
           \/ call' = "rollback" /\ SqlRollback
    BY <1>8 DEF Commit, Rollback, AtTop
  <2>2. CASE ~open
    <3>1. UNCHANGED <<data, committed>> /\ open' = FALSE
      BY <1>0, <2>1, <2>2 DEF SqlCommit, SqlRollback, SqlEnd, db
    <3>2. OpenScopes = <<>> /\ OpenScopes' = <<>>
      BY <2>2, <3>1 DEF OpenScopes
    <3>3. Scopes!Ignored(call')
      BY <2>2, <3>1, <3>2 DEF Scopes!Ignored, OpenScopes
    <3> QED BY <2>1, <3>3 DEF Scopes!Next, Scopes!Calls
  <2>3. CASE open
    <3>1. OpenScopes = <<committed>>
      <4>1. OpenScopes = <<committed>> \o Saved(stack, savepoints)
        BY <2>3 DEF OpenScopes, Saved
      <4> QED BY <1>e, <2>1, <4>1
    <3>2. CASE ~open'
      <4>1. /\ committed' = data' /\ data' \in {committed, data}
            /\ call' = "rollback" => data' = committed
        BY <2>1, <2>3, <3>2 DEF SqlCommit, SqlRollback, SqlEnd, db
      <4>2. OpenScopes' = <<>>
        BY <3>2 DEF OpenScopes
      <4>3. /\ OpenScopes # <<>> /\ Len(OpenScopes) = 1 /\ OpenScopes[1] = committed
            /\ OpenScopes' = SubSeq(OpenScopes, 1, Len(OpenScopes) - 1)
        BY <3>1, <4>2
      <4>4. Scopes!Close
        BY <2>1, <3>2, <4>1, <4>3 DEF Scopes!Close, OpenScopes
      <4>5. CASE call' = "commit"
        <5>1. Scopes!Commit
          BY <4>1, <4>3, <4>4, <4>5 DEF Scopes!Commit, OpenScopes
        <5> QED BY <5>1 DEF Scopes!Next
      <4>6. CASE call' = "rollback"
        <5>1. Scopes!Rollback
          BY <4>1, <4>3, <4>4, <4>6 DEF Scopes!Rollback, Scopes!Innermost, OpenScopes
        <5> QED BY <5>1 DEF Scopes!Next
      <4> QED BY <2>1, <4>5, <4>6
    <3>3. CASE open'
      <4>1. call' = "commit" /\ UNCHANGED <<open, stack, data, committed>>
        BY <2>1, <3>3 DEF SqlCommit, SqlRollback, SqlEnd, db
      <4>2. OpenScopes' = <<committed>> \o Saved(stack', savepoints')
        BY <3>3, <4>1 DEF OpenScopes, Saved
      <4>3. OpenScopes' = OpenScopes /\ Len(OpenScopes) = 1
        BY <1>e, <2>1, <3>1, <4>2
      <4>4. Scopes!Strand
        BY <2>1, <3>3, <4>1, <4>3 DEF Scopes!Strand, OpenScopes
      <4> QED BY <4>4 DEF Scopes!Next
    <3> QED BY <3>2, <3>3
  <2> QED BY <2>2, <2>3
<1>9. CASE New
  <2>1. /\ UNCHANGED <<call, open, stack, data, committed>>
        /\ savepoints = <<>> /\ savepoints' = <<>> /\ state # "Active" /\ state' # "Active"
    BY <1>9, <1>0 DEF New, db
  <2>2. UNCHANGED Stranded
    BY <2>1 DEF Stranded
  <2>3. UNCHANGED OpenScopes
    BY <2>1 DEF OpenScopes
  <2> QED BY <2>1, <2>2, <2>3
<1>10. ASSUME NEW v \in Values, Write(v)
       PROVE  Scopes!Next
  <2>1. /\ call' = "write" /\ data' = data \cup {v} /\ open /\ state = "Active"
        /\ UNCHANGED <<state, savepoints, open, stack, committed>>
    BY <1>10 DEF Write, object
  <2>2. OpenScopes = <<committed>> \o Saved(stack, savepoints) /\ OpenScopes' = OpenScopes
    BY <2>1 DEF OpenScopes, Saved
  <2>3. PICK D : Saved(stack, savepoints) \in Seq(D)
    BY <1>0, SavedIsSeq
  <2>4. OpenScopes # <<>>
    BY <2>2, <2>3, Nesting
  <2>5. Scopes!Write(v)
    BY <2>1, <2>2, <2>4 DEF Scopes!Write, OpenScopes
  <2> QED BY <2>5 DEF Scopes!Next
<1>11. CASE Lose
  <2>1. /\ open /\ open' = FALSE /\ data' = committed /\ UNCHANGED <<call, committed>>
    BY <1>11 DEF Lose
  <2>2. OpenScopes = <<committed>> \o Saved(stack, savepoints) /\ OpenScopes' = <<>>
    BY <2>1 DEF OpenScopes, Saved
  <2>3. PICK D : Saved(stack, savepoints) \in Seq(D)
    BY <1>0, SavedIsSeq
  <2>4. OpenScopes # <<>>
    BY <2>2, <2>3, Nesting
  <2>5. Scopes!Lose
    BY <2>1, <2>2, <2>4 DEF Scopes!Lose, OpenScopes
  <2> QED BY <2>5 DEF Scopes!Next
<1>12. CASE UNCHANGED vars
  <2>1. UNCHANGED <<state, savepoints, call, open, stack, data, committed>>
    BY <1>12 DEF vars, object, db
  <2> QED BY <2>1 DEF OpenScopes, Stranded
<1> QED
  BY <1>1, <1>1b, <1>2, <1>3, <1>4, <1>5, <1>6, <1>7, <1>8, <1>9, <1>10, <1>11, <1>12 DEF Next

\* For a caller that uses savepoints like brackets, begin, commit and rollback
\* and the caller's savepoints are scopes that do so too, on databases that undo
\* a transaction whose COMMIT they refuse and on those that strand it
\* (transaction.rs; database.rs sends the statements).
THEOREM ScopesRefinement == ASSUME Disciplined PROVE Spec => ImplementsScopes
<1>1. IInv /\ [Next]_vars => [Scopes!Next]_(Scopes!vars)
  BY ScopesStep DEF Scopes!vars, OpenScopes, Stranded
<1> QED
  BY <1>1, Invariance, ScopesInit, PTL DEF Spec, ImplementsScopes, Scopes!Spec
=============================================================================
