----------------------- MODULE MigrationExecutorProofs -----------------------
(***************************************************************************)
(* Proofs about MigrationExecutor, for any migrations, operations, numbers *)
(* of processes and databases.                                             *)
(***************************************************************************)
EXTENDS MigrationExecutor, FiniteSetTheorems, SequenceTheorems, WellFoundedInduction, TLAPS

(***************************************************************************)
(* Induction on the natural numbers, on the set of those a fact holds for, *)
(* and the functions it defines.                                           *)
(***************************************************************************)
LEMMA Least ==
    ASSUME NEW S, S \subseteq Nat, S # {}
    PROVE  \E n \in S : \A m \in S : n <= m
<1> DEFINE R == {ss \in Nat \X Nat : ss[1] < ss[2]}
<1>1. IsWellFoundedOn(R, Nat)
  <2>1. R = OpToRel(<, Nat)
    BY DEF OpToRel
  <2> QED BY <2>1, NatLessThanWellFounded
<1>2. \A x, y \in Nat : <<y, x>> \in R <=> y < x
  OBVIOUS
<1> HIDE DEF R
<1>3. PICK x \in S : \A y \in S : ~(<<y, x>> \in R)
  BY <1>1, WFMin
<1>4. \A y \in S : ~(y < x)
  BY <1>2, <1>3
<1>5. \A y \in S : x <= y
  BY <1>4
<1> QED
  BY <1>5

LEMMA Induction ==
    ASSUME NEW S, S \subseteq Nat, 0 \in S, \A n \in S : n + 1 \in S
    PROVE  S = Nat
<1> SUFFICES ASSUME Nat \ S # {} PROVE FALSE
  OBVIOUS
<1>1. PICK n \in Nat \ S : \A m \in Nat \ S : n <= m
  BY Least
<1>2. n # 0 /\ n - 1 \in Nat
  BY <1>1
<1>3. n - 1 \in S
  BY <1>1, <1>2
<1>4. n - 1 + 1 \in S
  BY <1>3
<1> QED
  BY <1>1, <1>2, <1>4

Iterates(D, a, step, n) ==
    {f \in [0..n -> D] : f[0] = a /\ \A i \in 1..n : f[i] = step[f[i - 1]]}

LEMMA Recursion ==
    ASSUME NEW D, NEW a \in D, NEW step \in [D -> D], NEW n \in Nat
    PROVE  Iterates(D, a, step, n) # {}
<1> DEFINE S == {k \in Nat : \E f \in [0..k -> D] :
                     f[0] = a /\ \A i \in 1..k : f[i] = step[f[i - 1]]}
<1>1. 0 \in S
  <2> DEFINE g == [i \in 0..0 |-> a]
  <2>1. g \in [0..0 -> D] /\ g[0] = a /\ \A i \in 1..0 : g[i] = step[g[i - 1]]
    OBVIOUS
  <2> QED BY <2>1
<1>2. ASSUME NEW k \in S
      PROVE  k + 1 \in S
  <2>1. PICK f \in [0..k -> D] : f[0] = a /\ \A i \in 1..k : f[i] = step[f[i - 1]]
    OBVIOUS
  <2> DEFINE g == [i \in 0..(k + 1) |-> IF i = k + 1 THEN step[f[k]] ELSE f[i]]
  <2>2. g \in [0..(k + 1) -> D]
    <3>1. k \in 0..k /\ \A i \in 0..(k + 1) : i # k + 1 => i \in 0..k
      OBVIOUS
    <3> QED BY <3>1
  <2>3. g[0] = a
    BY <2>1
  <2>4. ASSUME NEW i \in 1..(k + 1)
        PROVE  g[i] = step[g[i - 1]]
    <3>1. CASE i = k + 1
      <4>1. i - 1 = k /\ g[k] = f[k] /\ g[k + 1] = step[f[k]]
        BY <3>1
      <4> QED BY <3>1, <4>1
    <3>2. CASE i # k + 1
      <4>1. i \in 1..k /\ i - 1 \in 0..(k + 1) /\ i - 1 # k + 1
        BY <3>2
      <4>2. g[i] = f[i] /\ g[i - 1] = f[i - 1]
        BY <3>2, <4>1
      <4> QED BY <2>1, <4>1, <4>2
    <3> QED BY <3>1, <3>2
  <2> HIDE DEF g
  <2>5. k + 1 \in Nat
    OBVIOUS
  <2> QED BY <2>2, <2>3, <2>4, <2>5
<1>3. S \subseteq Nat
  OBVIOUS
<1>4. S = Nat
  <2> HIDE DEF S
  <2> QED BY <1>1, <1>2, <1>3, Induction
<1> QED
  BY <1>4 DEF Iterates

(***************************************************************************)
(* The elements of a finite set in the order of their ranks.               *)
(***************************************************************************)
LEMMA RankedProperties ==
    ASSUME NEW S, IsFiniteSet(S), NEW rank,
           \A m \in S : rank[m] \in Nat,
           \A m, n \in S : rank[m] = rank[n] => m = n
    PROVE  /\ Ranked(S, rank) \in Seq(S)
           /\ Len(Ranked(S, rank)) = Cardinality(S)
           /\ \A i, j \in 1..Cardinality(S) :
                  i < j => rank[Ranked(S, rank)[i]] < rank[Ranked(S, rank)[j]]
           /\ \A m \in S : \E i \in 1..Cardinality(S) : Ranked(S, rank)[i] = m
<1> DEFINE c == Cardinality(S)
           below == [m \in S |-> {n \in S : rank[n] < rank[m]}]
           place == [m \in S |-> Cardinality(below[m])]
<1>1. c \in Nat
  BY FS_CardinalityType
<1>2. ASSUME NEW m \in S
      PROVE  /\ IsFiniteSet(below[m]) /\ place[m] \in Nat
             /\ IsFiniteSet(below[m] \cup {m}) /\ Cardinality(below[m] \cup {m}) = place[m] + 1
             /\ place[m] + 1 <= c
  <2>1. IsFiniteSet(below[m])
    BY FS_Subset
  <2>2. place[m] \in Nat
    BY <2>1, FS_CardinalityType
  <2>3. m \notin below[m]
    OBVIOUS
  <2>4. IsFiniteSet(below[m] \cup {m}) /\ Cardinality(below[m] \cup {m}) = place[m] + 1
    <3> HIDE DEF below
    <3> QED BY <2>1, <2>3, FS_AddElement
  <2>5. below[m] \cup {m} \in SUBSET S
    OBVIOUS
  <2>6. Cardinality(below[m] \cup {m}) <= c
    <3> HIDE DEF below
    <3> QED BY <2>5, FS_Subset
  <2> QED BY <2>1, <2>2, <2>4, <2>6
<1>3. ASSUME NEW m \in S, NEW n \in S, rank[m] < rank[n]
      PROVE  place[m] < place[n]
  <2>1. below[m] \cup {m} \in SUBSET below[n]
    BY <1>3
  <2>2. Cardinality(below[m] \cup {m}) <= Cardinality(below[n])
    <3>1. IsFiniteSet(below[n])
      BY <1>2
    <3> HIDE DEF below
    <3> QED BY <2>1, <3>1, FS_Subset
  <2>3. place[m] + 1 <= place[n] /\ place[m] \in Nat /\ place[n] \in Nat
    BY <1>2, <2>2
  <2> QED BY <2>3
<1>4. \A m, n \in S : place[m] = place[n] => m = n
  <2> SUFFICES ASSUME NEW m \in S, NEW n \in S, m # n PROVE place[m] # place[n]
    OBVIOUS
  <2>1. rank[m] < rank[n] \/ rank[n] < rank[m]
    OBVIOUS
  <2>2. place[m] < place[n] \/ place[n] < place[m]
    BY <1>3, <2>1
  <2>3. place[m] \in Nat /\ place[n] \in Nat
    BY <1>2
  <2> QED BY <2>2, <2>3
<1> DEFINE T == 0..(c - 1)
<1>5. place \in [S -> T]
  <2>1. \A m \in S : place[m] \in T
    <3>1. \A m \in S : place[m] \in Nat /\ place[m] + 1 <= c
      BY <1>2
    <3> HIDE DEF place, c
    <3> QED BY <1>1, <3>1
  <2> QED BY <2>1
<1>6. IsFiniteSet(T) /\ Cardinality(T) = c
  <2>1. 0 \in Int /\ c - 1 \in Int
    BY <1>1
  <2>2. IsFiniteSet(T) /\ Cardinality(T) = IF 0 > c - 1 THEN 0 ELSE c - 1 - 0 + 1
    BY <2>1, FS_Interval
  <2> QED BY <1>1, <2>2
<1>7. place \in Injection(S, T)
  BY <1>4, <1>5 DEF Injection, IsInjective
<1>8. place \in Surjection(S, T)
  <2> HIDE DEF place, T
  <2> QED BY <1>6, <1>7, FS_Injection
<1>9. \A k \in T : \E m \in S : place[m] = k
  BY <1>8 DEF Surjection
<1>10. ASSUME NEW i \in 1..c
       PROVE  Ranked(S, rank)[i] \in S /\ place[Ranked(S, rank)[i]] = i - 1
  <2>1. i - 1 \in T
    BY <1>1
  <2>2. PICK m \in S : place[m] = i - 1
    BY <1>9, <2>1
  <2>3. Cardinality({n \in S : rank[n] < rank[m]}) = i - 1
    BY <2>2
  <2> DEFINE x == CHOOSE y \in S : Cardinality({n \in S : rank[n] < rank[y]}) = i - 1
  <2>4. x \in S /\ Cardinality({n \in S : rank[n] < rank[x]}) = i - 1
    BY <2>3
  <2>5. Ranked(S, rank)[i] = x
    BY DEF Ranked
  <2> QED BY <2>4, <2>5
<1>11. Ranked(S, rank) \in [1..c -> S]
  <2>1. \A i \in 1..c : (CHOOSE m \in S : Cardinality({n \in S : rank[n] < rank[m]}) = i - 1) \in S
    BY <1>10 DEF Ranked
  <2> QED BY <2>1 DEF Ranked
<1> DEFINE r == Ranked(S, rank)
<1> HIDE DEF r, place, below, T
<1>12. r \in Seq(S) /\ Len(r) = c
  BY <1>1, <1>10, <1>11 DEF r
<1>13. ASSUME NEW i \in 1..c, NEW j \in 1..c, i < j
       PROVE  rank[r[i]] < rank[r[j]]
  <2>1. r[i] \in S /\ r[j] \in S /\ place[r[i]] = i - 1 /\ place[r[j]] = j - 1
    BY <1>10 DEF r
  <2>2. CASE rank[r[j]] < rank[r[i]]
    BY <1>3, <1>13, <2>1, <2>2
  <2>3. CASE rank[r[j]] = rank[r[i]]
    BY <1>13, <2>1, <2>3
  <2> QED BY <2>1, <2>2, <2>3
<1>14. ASSUME NEW m \in S
       PROVE  \E i \in 1..c : r[i] = m
  <2> DEFINE i == place[m] + 1
  <2>1. i \in 1..c /\ i - 1 = place[m]
    <3>1. place[m] \in Nat /\ place[m] + 1 <= c
      BY <1>2
    <3> HIDE DEF c
    <3> QED BY <1>1, <3>1
  <2>2. r[i] \in S /\ place[r[i]] = i - 1
    BY <1>10, <2>1 DEF r
  <2>3. r[i] = m
    BY <1>4, <2>1, <2>2
  <2> QED BY <2>1, <2>3
<1> QED
  BY <1>12, <1>13, <1>14 DEF r

(***************************************************************************)
(* Kahn's algorithm: what is sorted is in order, what is queued is free.   *)
(***************************************************************************)
Kahns == [queue : Seq(Migrations), sorted : Seq(Migrations)]

Elements(s, S) == s \in Seq(Migrations) /\ \A i \in 1..Len(s) : s[i] \in S
Distinct(s) == \A i, j \in 1..Len(s) : s[i] = s[j] => i = j

InOrder(S, s) ==
    \A i \in 1..Len(s) : \A d \in Deps[s[i]] \cap S :
        \E j \in 1..Len(s) : j < i /\ s[j] = d

KahnInv(S, k) ==
    /\ k \in Kahns /\ Elements(k.sorted, S) /\ Elements(k.queue, S)
    /\ Distinct(k.sorted) /\ Distinct(k.queue)
    /\ \A i \in 1..Len(k.sorted), j \in 1..Len(k.queue) : k.sorted[i] # k.queue[j]
    /\ InOrder(S, k.sorted)
    /\ \A j \in 1..Len(k.queue) : Deps[k.queue[j]] \cap S \subseteq ToSet(k.sorted)

LEMMA Members ==
    ASSUME NEW s \in Seq(Migrations)
    PROVE  ToSet(s) = {s[i] : i \in 1..Len(s)} /\ Len(s) \in Nat
BY DEF ToSet

LEMMA ByKeyProperties ==
    ASSUME NEW S \in SUBSET Migrations
    PROVE  /\ ByKey(S) \in Seq(Migrations)
           /\ Elements(ByKey(S), S) /\ Distinct(ByKey(S))
<1>1. IsFiniteSet(S)
  BY MigrationsAssumption, FS_Subset DEF MigrationsAssumption
<1>2. \A m \in S : Key[m] \in Nat
  BY MigrationsAssumption DEF MigrationsAssumption
<1>3. \A m, n \in S : Key[m] = Key[n] => m = n
  BY MigrationsAssumption DEF MigrationsAssumption, IsInjective
<1> DEFINE r == Ranked(S, Key)
<1>4. /\ r \in Seq(S) /\ Len(r) = Cardinality(S)
      /\ \A i, j \in 1..Cardinality(S) : i < j => Key[r[i]] < Key[r[j]]
  BY <1>1, <1>2, <1>3, RankedProperties
<1> HIDE DEF r
<1>5. \A i \in 1..Len(r) : r[i] \in S /\ Key[r[i]] \in Nat
  BY <1>2, <1>4
<1>6. Distinct(r)
  <2> SUFFICES ASSUME NEW i \in 1..Len(r), NEW j \in 1..Len(r), r[i] = r[j], i # j
               PROVE  FALSE
    BY DEF Distinct
  <2>1. i < j \/ j < i
    BY <1>4
  <2>2. Key[r[i]] < Key[r[j]] \/ Key[r[j]] < Key[r[i]]
    BY <1>4, <2>1
  <2> QED BY <1>5, <2>2
<1>7. r \in Seq(Migrations)
  BY <1>4
<1> QED
  BY <1>5, <1>6, <1>7 DEF ByKey, r, Elements

LEMMA KahnInit ==
    ASSUME NEW S \in SUBSET Migrations
    PROVE  KahnInv(S, [queue |-> ByKey(Freed(S, <<>>)), sorted |-> <<>>])
<1> DEFINE F == Freed(S, <<>>)
           k == [queue |-> ByKey(F), sorted |-> <<>>]
<1>1. F \in SUBSET Migrations /\ F \subseteq S /\ \A m \in F : Deps[m] \cap S \subseteq ToSet(<<>>)
  BY DEF Freed
<1>2. ByKey(F) \in Seq(Migrations) /\ Elements(ByKey(F), F) /\ Distinct(ByKey(F))
  BY <1>1, ByKeyProperties
<1> HIDE DEF F
<1>3. k \in Kahns /\ k.sorted = <<>> /\ k.queue = ByKey(F)
  BY <1>2 DEF Kahns
<1>4. Elements(k.sorted, S) /\ Distinct(k.sorted) /\ InOrder(S, k.sorted) /\ Len(k.sorted) = 0
  BY <1>3 DEF Elements, Distinct, InOrder
<1>5. Elements(k.queue, S)
  BY <1>1, <1>2, <1>3 DEF Elements
<1>6. \A j \in 1..Len(k.queue) : Deps[k.queue[j]] \cap S \subseteq ToSet(k.sorted)
  BY <1>1, <1>2, <1>3 DEF Elements
<1> HIDE DEF k
<1>7. KahnInv(S, k)
  BY <1>2, <1>3, <1>4, <1>5, <1>6 DEF KahnInv
<1> QED
  BY <1>7 DEF k, F

LEMMA KahnStep ==
    ASSUME NEW S \in SUBSET Migrations, NEW k, KahnInv(S, k), k.queue # <<>>
    PROVE  KahnInv(S, KahnPop(S, k))
<1> DEFINE q == k.queue
           s == k.sorted
           t == Append(s, Head(q))
           F == Freed(S, t) \ ToSet(q)
           n == ByKey(F)
           u == Tail(q) \o n
<1>0. KahnPop(S, k) = [queue |-> u, sorted |-> t]
  BY DEF KahnPop
<1>1. /\ q \in Seq(Migrations) /\ s \in Seq(Migrations) /\ q # <<>>
      /\ \A i \in 1..Len(s) : s[i] \in S
      /\ \A i \in 1..Len(q) : q[i] \in S
      /\ Distinct(s) /\ Distinct(q)
      /\ \A i \in 1..Len(s), j \in 1..Len(q) : s[i] # q[j]
      /\ InOrder(S, s)
      /\ \A j \in 1..Len(q) : Deps[q[j]] \cap S \subseteq ToSet(s)
  BY DEF KahnInv, Elements
<1> HIDE DEF q, s
<1>2. /\ Len(q) \in Nat \ {0} /\ Head(q) = q[1] /\ Head(q) \in Migrations /\ Len(s) \in Nat
      /\ Tail(q) \in Seq(Migrations) /\ Len(Tail(q)) = Len(q) - 1
      /\ \A i \in 1..(Len(q) - 1) : Tail(q)[i] = q[i + 1]
  BY <1>1, HeadTailProperties, EmptySeq
<1>3. /\ t \in Seq(Migrations) /\ Len(t) = Len(s) + 1 /\ t[Len(s) + 1] = q[1]
      /\ \A i \in 1..Len(s) : t[i] = s[i]
  BY <1>1, <1>2, AppendProperties
<1> HIDE DEF t
<1>4. F \in SUBSET Migrations /\ F \subseteq S
      /\ \A m \in F : /\ Deps[m] \cap S \subseteq ToSet(t) /\ m \notin ToSet(t) /\ m \notin ToSet(q)
  BY DEF Freed
<1> HIDE DEF F
<1>5. n \in Seq(Migrations) /\ Distinct(n) /\ \A i \in 1..Len(n) : n[i] \in F
  BY <1>4, ByKeyProperties DEF Elements
<1> HIDE DEF n
<1> DEFINE w == Tail(q)
<1>6. /\ w \in Seq(Migrations) /\ Len(w) = Len(q) - 1 /\ Len(w) \in Nat
      /\ \A i \in 1..Len(w) : w[i] = q[i + 1]
  BY <1>2
<1> HIDE DEF w
<1>7. /\ u \in Seq(Migrations) /\ Len(u) = Len(w) + Len(n) /\ Len(n) \in Nat
      /\ \A i \in 1..(Len(w) + Len(n)) : u[i] = IF i <= Len(w) THEN w[i] ELSE n[i - Len(w)]
  <2>1. u = w \o n
    BY DEF w
  <2>2. w \o n \in Seq(Migrations) /\ Len(w \o n) = Len(w) + Len(n)
    BY <1>5, <1>6, ConcatProperties
  <2>3. \A i \in 1..(Len(w) + Len(n)) : (w \o n)[i] = IF i <= Len(w) THEN w[i] ELSE n[i - Len(w)]
    BY <1>5, <1>6, ConcatProperties
  <2> HIDE DEF u
  <2> QED BY <1>5, <2>1, <2>2, <2>3
<1> HIDE DEF u
\* Where an element of the new queue comes from.
<1>8. ASSUME NEW i \in 1..Len(u)
      PROVE  \/ i \in 1..Len(w) /\ i + 1 \in 1..Len(q) /\ u[i] = q[i + 1]
             \/ i > Len(w) /\ i - Len(w) \in 1..Len(n) /\ u[i] = n[i - Len(w)] /\ u[i] \in F
  <2>1. CASE i <= Len(w)
    BY <1>2, <1>6, <1>7, <2>1
  <2>2. CASE ~(i <= Len(w))
    <3>1. i > Len(w) /\ i - Len(w) \in 1..Len(n)
      BY <1>6, <1>7, <2>2
    <3>2. u[i] = n[i - Len(w)]
      BY <1>7, <2>2
    <3> QED BY <1>5, <3>1, <3>2
  <2> QED BY <2>1, <2>2
<1>9. ToSet(t) = ToSet(s) \cup {q[1]}
  <2>1. ToSet(t) = {t[i] : i \in 1..Len(t)} /\ ToSet(s) = {s[i] : i \in 1..Len(s)}
    BY <1>1, <1>3, Members
  <2>2. \A i \in 1..Len(t) : i \in 1..Len(s) \/ i = Len(s) + 1
    BY <1>2, <1>3
  <2>3. \A i \in 1..Len(s) : i \in 1..Len(t)
    BY <1>2, <1>3
  <2>4. Len(s) + 1 \in 1..Len(t)
    BY <1>2, <1>3
  <2> QED BY <1>3, <2>1, <2>2, <2>3, <2>4
<1>10. \A j \in 1..Len(q) : q[j] \in ToSet(q)
  BY <1>1, Members
<1>11. \A i \in 1..Len(t) : t[i] \in ToSet(t)
  BY <1>3, Members
<1>12. Elements(t, S) /\ Elements(u, S)
  <2>1. \A i \in 1..Len(t) : t[i] \in S
    BY <1>1, <1>2, <1>3
  <2>2. \A i \in 1..Len(u) : u[i] \in S
    BY <1>1, <1>4, <1>8
  <2> QED BY <1>3, <1>7, <2>1, <2>2 DEF Elements
<1>13. Distinct(t)
  <2> SUFFICES ASSUME NEW i \in 1..Len(t), NEW j \in 1..Len(t), t[i] = t[j]
               PROVE  i = j
    BY DEF Distinct
  <2>1. CASE i \in 1..Len(s) /\ j \in 1..Len(s)
    BY <1>1, <1>3, <2>1 DEF Distinct
  <2>2. CASE i \in 1..Len(s) /\ j = Len(s) + 1
    BY <1>1, <1>2, <1>3, <2>2
  <2>3. CASE i = Len(s) + 1 /\ j \in 1..Len(s)
    BY <1>1, <1>2, <1>3, <2>3
  <2> QED BY <1>2, <1>3, <2>1, <2>2, <2>3
<1>14. Distinct(u)
  <2> SUFFICES ASSUME NEW i \in 1..Len(u), NEW j \in 1..Len(u), u[i] = u[j]
               PROVE  i = j
    BY DEF Distinct
  <2>1. CASE i \in 1..Len(w) /\ j \in 1..Len(w)
    <3>1. i + 1 \in 1..Len(q) /\ j + 1 \in 1..Len(q) /\ q[i + 1] = q[j + 1]
      BY <1>6, <1>8, <2>1
    <3>2. i + 1 = j + 1
      BY <1>1, <3>1 DEF Distinct
    <3> QED BY <3>2
  <2>2. CASE i \in 1..Len(w) /\ j > Len(w)
    <3>1. u[i] \in ToSet(q) /\ u[j] \in F
      <4>1. i + 1 \in 1..Len(q) /\ u[i] = q[i + 1] /\ u[j] \in F
        BY ONLY i \in 1..Len(u), j \in 1..Len(u), <1>6, <1>8, <2>2
      <4> QED BY ONLY <1>10, <4>1
    <3> QED BY <1>4, <3>1
  <2>3. CASE i > Len(w) /\ j \in 1..Len(w)
    <3>1. u[j] \in ToSet(q) /\ u[i] \in F
      <4>1. j + 1 \in 1..Len(q) /\ u[j] = q[j + 1] /\ u[i] \in F
        BY ONLY i \in 1..Len(u), j \in 1..Len(u), <1>6, <1>8, <2>3
      <4> QED BY ONLY <1>10, <4>1
    <3> QED BY <1>4, <3>1
  <2>4. CASE i > Len(w) /\ j > Len(w)
    <3>1. /\ i - Len(w) \in 1..Len(n) /\ j - Len(w) \in 1..Len(n)
          /\ n[i - Len(w)] = n[j - Len(w)]
      BY <1>6, <1>8, <2>4
    <3>2. i - Len(w) = j - Len(w)
      BY <1>5, <3>1 DEF Distinct
    <3> QED BY <1>6, <3>2
  <2> QED BY <1>6, <2>1, <2>2, <2>3, <2>4
<1>15. \A i \in 1..Len(t), j \in 1..Len(u) : t[i] # u[j]
  <2> SUFFICES ASSUME NEW i \in 1..Len(t), NEW j \in 1..Len(u), t[i] = u[j]
               PROVE  FALSE
    OBVIOUS
  <2>1. CASE u[j] \in F
    BY <1>4, <1>11, <2>1
  <2>2. CASE j \in 1..Len(w) /\ j + 1 \in 1..Len(q) /\ u[j] = q[j + 1]
    <3>1. CASE i \in 1..Len(s)
      BY <1>1, <1>3, <2>2, <3>1
    <3>2. CASE i = Len(s) + 1
      <4>1. q[1] = q[j + 1] /\ 1 \in 1..Len(q) /\ 1 # j + 1
        BY <1>2, <1>3, <1>6, <2>2, <3>2
      <4> QED BY <1>1, <2>2, <4>1 DEF Distinct
    <3> QED BY <1>2, <1>3, <3>1, <3>2
  <2> QED BY <1>8, <2>1, <2>2
<1>16. InOrder(S, t)
  <2> SUFFICES ASSUME NEW i \in 1..Len(t), NEW d \in Deps[t[i]] \cap S
               PROVE  \E j \in 1..Len(t) : j < i /\ t[j] = d
    BY DEF InOrder
  <2>1. CASE i \in 1..Len(s)
    <3>1. PICK j \in 1..Len(s) : j < i /\ s[j] = d
      BY <1>1, <1>3, <2>1 DEF InOrder
    <3> QED BY <1>2, <1>3, <3>1
  <2>2. CASE i = Len(s) + 1
    <3>1. 1 \in 1..Len(q) /\ d \in Deps[q[1]] \cap S
      BY <1>2, <1>3, <2>2
    <3>2. d \in ToSet(s)
      BY <1>1, <3>1
    <3>3. PICK j \in 1..Len(s) : s[j] = d
      BY <1>1, <3>2, Members
    <3>4. j \in 1..Len(t) /\ j < i /\ t[j] = d
      BY <1>2, <1>3, <2>2, <3>3
    <3> QED BY <3>4
  <2> QED BY <1>2, <1>3, <2>1, <2>2
<1>17. \A j \in 1..Len(u) : Deps[u[j]] \cap S \subseteq ToSet(t)
  <2> SUFFICES ASSUME NEW j \in 1..Len(u)
               PROVE  Deps[u[j]] \cap S \subseteq ToSet(t)
    OBVIOUS
  <2>1. CASE u[j] \in F
    BY <1>4, <2>1
  <2>2. CASE j + 1 \in 1..Len(q) /\ u[j] = q[j + 1]
    BY <1>1, <1>9, <2>2
  <2> QED BY <1>8, <2>1, <2>2
<1>18. KahnPop(S, k) \in Kahns /\ KahnPop(S, k).queue = u /\ KahnPop(S, k).sorted = t
  BY <1>0, <1>3, <1>7 DEF Kahns
<1> QED
  BY <1>12, <1>13, <1>14, <1>15, <1>16, <1>17, <1>18 DEF KahnInv

(***************************************************************************)
(* A sort of S gives members of S, each once, dependencies first; one as   *)
(* long as S is has them all.                                              *)
(***************************************************************************)
LEMMA SortProperties ==
    ASSUME NEW S \in SUBSET Migrations
    PROVE  /\ Elements(TopologicalSort[S], S) /\ Distinct(TopologicalSort[S])
           /\ InOrder(S, TopologicalSort[S])
<1> DEFINE c == Cardinality(S)
           D == {k \in Kahns : KahnInv(S, k)}
           first == [queue |-> ByKey(Freed(S, <<>>)), sorted |-> <<>>]
           step == [k \in D |-> IF k.queue = <<>> THEN k ELSE KahnPop(S, k)]
           K == CHOOSE g : g = [i \in 0..c |->
                    IF i = 0 THEN [queue |-> ByKey(Freed(S, <<>>)), sorted |-> <<>>]
                    ELSE LET k == g[i - 1]
                         IN  IF k.queue = <<>> THEN k ELSE KahnPop(S, k)]
<1>1. TopologicalSort[S] = K[c].sorted
  <2> HIDE DEF first, step, D
  <2> QED BY DEF TopologicalSort
<1>2. IsFiniteSet(S) /\ c \in Nat
  BY MigrationsAssumption, FS_Subset, FS_CardinalityType DEF MigrationsAssumption
<1> HIDE DEF c
<1>3. first \in D
  BY KahnInit DEF KahnInv
<1>4. step \in [D -> D]
  <2>1. ASSUME NEW k \in D, k.queue # <<>>
        PROVE  KahnPop(S, k) \in D
    BY <2>1, KahnStep DEF KahnInv
  <2>2. \A k \in D : (IF k.queue = <<>> THEN k ELSE KahnPop(S, k)) \in D
    <3> HIDE DEF D
    <3> QED BY <2>1
  <2> HIDE DEF D
  <2> QED BY <2>2
<1> HIDE DEF D, first, step, K
<1>5. PICK f \in [0..c -> D] : f[0] = first /\ \A i \in 1..c : f[i] = step[f[i - 1]]
  <2>1. c \in Nat
    BY <1>2
  <2>2. Iterates(D, first, step, c) # {}
    BY <1>3, <1>4, <2>1, Recursion
  <2> QED BY <2>2 DEF Iterates
<1>6. f = [i \in 0..c |->
              IF i = 0 THEN [queue |-> ByKey(Freed(S, <<>>)), sorted |-> <<>>]
              ELSE LET k == f[i - 1]
                   IN  IF k.queue = <<>> THEN k ELSE KahnPop(S, k)]
  <2>1. ASSUME NEW i \in 0..c, i # 0
        PROVE  f[i] = LET k == f[i - 1] IN IF k.queue = <<>> THEN k ELSE KahnPop(S, k)
    <3>1. i \in 1..c /\ i - 1 \in 0..c
      BY <1>2, <2>1
    <3> QED BY <1>5, <3>1, Zenon DEF step
  <2> QED BY <1>5, <2>1, Zenon DEF first
<1>7. K = [i \in 0..c |->
              IF i = 0 THEN [queue |-> ByKey(Freed(S, <<>>)), sorted |-> <<>>]
              ELSE LET k == K[i - 1]
                   IN  IF k.queue = <<>> THEN k ELSE KahnPop(S, k)]
  BY <1>6, Zenon DEF K
<1> DEFINE N == {i \in Nat : i <= c => K[i] \in D}
<1>8. N = Nat
  <2>1. 0 \in N
    BY <1>2, <1>3, <1>7 DEF first
  <2>2. ASSUME NEW i \in N
        PROVE  i + 1 \in N
    <3>1. CASE i + 1 <= c
      <4>1. i \in 0..c /\ i + 1 \in 0..c /\ i + 1 # 0 /\ i + 1 - 1 = i /\ K[i] \in D
        BY <1>2, <3>1
      <4>2. K[i + 1] = IF K[i].queue = <<>> THEN K[i] ELSE KahnPop(S, K[i])
        BY <1>7, <4>1
      <4>3. K[i + 1] = step[K[i]]
        BY <4>1, <4>2 DEF step
      <4> QED BY <1>4, <4>1, <4>3
    <3>2. CASE ~(i + 1 <= c)
      BY <3>2
    <3> QED BY <3>1, <3>2
  <2>3. N \subseteq Nat
    OBVIOUS
  <2> HIDE DEF N
  <2> QED BY <2>1, <2>2, <2>3, Induction
<1>9. KahnInv(S, K[c])
  <2>1. c \in N
    BY <1>2, <1>8
  <2>2. K[c] \in D
    BY <1>2, <2>1
  <2> QED BY <2>2 DEF D
<1> QED
  BY <1>1, <1>9 DEF KahnInv

(***************************************************************************)
(* The invariant that carries the others.                                  *)
(***************************************************************************)

\* With the sentinel row there is one process past the lock, and where nobody
\* migrates during a rollback two that are busy both apply.
LockInv ==
    \A p \in Processes :
        Locking /\ at[p] \notin {"idle", "probe", "decide", "lock"} => lock = p

Exclusive ==
    database \in Undisturbed =>
        \A p, q \in Processes :
            at[p] # "idle" /\ at[q] # "idle" /\ p # q => Applies(p) /\ Applies(q)

HasCurrent == \A p \in Processes : Working(p) => plan[p] # <<>>

\* Until it has decided, a command is one that only reads.
Undecided == \A p \in Processes :
                 at[p] \in {"idle", "probe", "probed", "decide"} => Applies(p)

BaseInv == TypeOK /\ LockInv /\ Exclusive /\ HasCurrent /\ Undecided

\* "applied" tells the order of the dependencies, and so does a plan: to apply,
\* what is needed is recorded or earlier in the plan, and earlier in it until
\* the lock is taken; to roll back, what is recorded and needs a member is
\* earlier.
InOrderOfNeed == \A n \in records : \A d \in SameAppDeps(n) : <<d, n>> \in older

ApplyPlan(s, R) ==
    \A i \in 1..Len(s) : \A d \in SameAppDeps(s[i]) :
        d \in R \/ \E j \in 1..Len(s) : j < i /\ s[j] = d

RollbackPlan(s, R) ==
    \A i \in 1..Len(s) : \A n \in R :
        s[i] \in SameAppDeps(n) => \E j \in 1..Len(s) : j < i /\ s[j] = n

Planned(p) == at[p] \in {"lock", "locked"}
Follows(p) == at[p] \in {"next", "run", "execute", "record"}
Known      == database \in Undisturbed \cap Steady

PlanInv(p) ==
    /\ Planned(p) /\ Applies(p) => ApplyPlan(plan[p], {})
    /\ Follows(p) /\ Applies(p) => ApplyPlan(plan[p], records)
    /\ Known /\ (Planned(p) \/ Follows(p)) /\ ~Applies(p) => RollbackPlan(plan[p], records)

HistoryInv == (Known => InOrderOfNeed) /\ \A p \in Processes : PlanInv(p)

\* What the current migration of a process has done is in its view of the
\* schema, or out of it; its transaction holds objects of that migration only.
Reached(p, i) ==
    LET ops == Operations[Current(p)]
    IN  IF Applies(p) THEN ops[i] \in View(p) ELSE ops[Len(ops) - i + 1] \notin View(p)

WorkOf(p) ==
    /\ ~Working(p) => tx[p] = {}
    /\ Working(p) =>
           /\ done[p] <= Len(Operations[Current(p)])
           /\ \A i \in 1..done[p] : Reached(p, i)
           /\ tx[p] \subseteq ObjectsOf(Current(p))
           /\ ~Atomic(Current(p)) => tx[p] = {}
           /\ at[p] = "record" => tx[p] = {} /\ done[p] = Len(Operations[Current(p)])

WorkInv == \A p \in Processes : WorkOf(p)

SchemaInv == RecordedIsInSchema /\ SchemaIsAccounted /\ WholeOrNothing

DataInv == WorkInv /\ SchemaInv

(***************************************************************************)
(* The plans a command starts with.                                        *)
(***************************************************************************)
LEMMA ListingProperties ==
    ASSUME TypeOK, NEW a, NEW l \in Listings(a)
    PROVE  /\ l \in Seq(Migrations) /\ Len(l) \in Nat
           /\ \A i \in 1..Len(l) : l[i] \in RecordsOf(a)
           /\ \A m \in RecordsOf(a) : \E i \in 1..Len(l) : l[i] = m
           /\ \A i, j \in 1..Len(l) : i < j => <<l[j], l[i]>> \notin older
<1> DEFINE S == RecordsOf(a)
           c == Cardinality(S)
           D == 1..c
<1>1. S \in SUBSET Migrations /\ IsFiniteSet(S) /\ c \in Nat
  <2>1. S \in SUBSET Migrations
    BY DEF RecordsOf, OfApp
  <2> HIDE DEF S
  <2> QED BY <2>1, MigrationsAssumption, FS_Subset, FS_CardinalityType DEF MigrationsAssumption
<1>2. /\ l \in [D -> S] /\ \A i, j \in D : i # j => l[i] # l[j]
      /\ \A i, j \in DOMAIN l : i < j => <<l[j], l[i]>> \notin older
  BY DEF Listings, SetToSeqs
<1> HIDE DEF S
<1>3. l \in Seq(Migrations) /\ Len(l) = c
  BY <1>1, <1>2
<1>4. l \in Injection(D, S)
  BY <1>2 DEF Injection, IsInjective
<1>5. IsFiniteSet(D) /\ Cardinality(D) = c
  <2>1. IsFiniteSet(D) /\ Cardinality(D) = IF 1 > c THEN 0 ELSE c - 1 + 1
    BY <1>1, FS_Interval
  <2> QED BY <1>1, <2>1
<1>6. l \in Surjection(D, S)
  <2> HIDE DEF c, D
  <2>1. Cardinality(D) = Cardinality(S)
    BY <1>5 DEF c
  <2> QED BY <1>1, <1>4, <1>5, <2>1, FS_Injection
<1>7. \A m \in S : \E i \in D : l[i] = m
  BY <1>6 DEF Surjection
<1> HIDE DEF c
<1>8. \A i \in D : l[i] \in S
  BY <1>2
<1> QED
  BY <1>1, <1>2, <1>3, <1>7, <1>8 DEF S

\* What is listed from a place on, the last first.
LEMMA LastFirst ==
    ASSUME NEW l \in Seq(Migrations), NEW k \in 0..Len(l), NEW t \in Seq(Migrations),
           Len(t) = Len(l) - k, \A i \in 1..Len(t) : t[i] = l[k + i]
    PROVE  LET r == Reverse(t)
           IN  /\ r \in Seq(Migrations) /\ Len(r) = Len(t)
               /\ \A i \in 1..Len(r) : (Len(l) - i) + 1 \in (k + 1)..Len(l)
                                       /\ r[i] = l[(Len(l) - i) + 1]
<1> DEFINE r == Reverse(t)
           n == Len(t)
<1>1. Len(l) \in Nat /\ n \in Nat /\ k \in Nat
  OBVIOUS
<1>0. \A i \in 1..n : t[i] = l[k + i] /\ t[i] \in Migrations
  OBVIOUS
<1>2. r = [i \in 1..Len(t) |-> t[(Len(t) - i) + 1]]
  BY DEF Reverse
<1> HIDE DEF r
<1>3. ASSUME NEW i \in 1..Len(t)
      PROVE  /\ (Len(l) - i) + 1 \in (k + 1)..Len(l) /\ r[i] = l[(Len(l) - i) + 1]
             /\ r[i] \in Migrations
  <2>1. (Len(t) - i) + 1 \in 1..Len(t) /\ k + ((Len(t) - i) + 1) = (Len(l) - i) + 1
    BY <1>1
  <2>2. t[(Len(t) - i) + 1] = l[(Len(l) - i) + 1] /\ t[(Len(t) - i) + 1] \in Migrations
    <3>1. PICK x : x = (Len(t) - i) + 1
      OBVIOUS
    <3>2. x \in 1..Len(t) /\ k + x = (Len(l) - i) + 1
      BY <2>1, <3>1
    <3>3. t[x] = l[k + x] /\ t[x] \in Migrations
      BY ONLY <1>0, <3>2
    <3> QED BY <3>1, <3>2, <3>3
  <2>3. (Len(l) - i) + 1 \in (k + 1)..Len(l)
    BY <1>1
  <2>4. r[i] = t[(Len(t) - i) + 1]
    BY <1>2
  <2> QED BY <2>2, <2>3, <2>4
<1>4. r \in [1..n -> Migrations]
  BY <1>2, <1>3
<1>5. r \in Seq(Migrations) /\ Len(r) = n
  BY ONLY <1>1, <1>4
<1> QED
  BY <1>3, <1>5 DEF r

\* A sort of migrations with what they need of their app is a plan to apply.
LEMMA SortIsPlan ==
    ASSUME NEW S \in SUBSET Migrations, Closed(S),
           Len(TopologicalSort[S]) = Cardinality(S)
    PROVE  TopologicalSort[S] \in Seq(Migrations) /\ ApplyPlan(TopologicalSort[S], {})
<1> DEFINE r == TopologicalSort[S]
<1>1. Elements(r, S) /\ InOrder(S, r)
  BY SortProperties
<1> HIDE DEF r
<1>2. r \in Seq(Migrations) /\ \A i \in 1..Len(r) : r[i] \in S
  BY <1>1 DEF Elements
<1>3. ASSUME NEW i \in 1..Len(r), NEW d \in SameAppDeps(r[i])
      PROVE  \E j \in 1..Len(r) : j < i /\ r[j] = d
  <2>1. d \in Deps[r[i]] \cap S
    BY <1>2 DEF Closed, SameAppDeps
  <2> QED BY <1>1, <2>1 DEF InOrder
<1>4. r \in Seq(Migrations) /\ ApplyPlan(r, {})
  BY <1>2, <1>3 DEF ApplyPlan
<1> QED
  BY <1>4 DEF r

LEMMA ClosedSets ==
    /\ Closed(Migrations)
    /\ \A a \in Apps : OfApp(a) \in SUBSET Migrations /\ Closed(OfApp(a))
    /\ \A m \in Migrations : NeededFor[m] \in SUBSET Migrations /\ Closed(NeededFor[m])
<1>1. Closed(Migrations)
  BY DEF Closed, SameAppDeps, OfApp
<1>2. ASSUME NEW a \in Apps
      PROVE  OfApp(a) \in SUBSET Migrations /\ Closed(OfApp(a))
  BY DEF Closed, SameAppDeps, OfApp
<1>3. ASSUME NEW m \in Migrations
      PROVE  NeededFor[m] \in SUBSET Migrations /\ Closed(NeededFor[m])
  <2> DEFINE N == {n \in Migrations : \A S \in SUBSET Migrations : m \in S /\ Closed(S) => n \in S}
  <2>1. NeededFor[m] = N
    BY DEF NeededFor
  <2>2. ASSUME NEW n \in N, NEW d \in SameAppDeps(n)
        PROVE  d \in N
    <3>1. d \in Migrations
      BY DEF SameAppDeps, OfApp
    <3>2. ASSUME NEW S \in SUBSET Migrations, m \in S, Closed(S)
          PROVE  d \in S
      <4>1. n \in S
        BY <3>2
      <4> QED BY <3>2, <4>1 DEF Closed
    <3> QED BY <3>1, <3>2
  <2>3. Closed(N) /\ N \in SUBSET Migrations
    <3>1. N \in SUBSET Migrations
      OBVIOUS
    <3> HIDE DEF N
    <3> QED BY <2>2, <3>1 DEF Closed
  <2> QED BY <2>1, <2>3
<1> QED
  BY <1>1, <1>2, <1>3

\* Taking back the rows of an app listed from a place on is a plan to roll back,
\* where "applied" tells the order of the dependencies.
LEMMA RollbackIsPlan ==
    ASSUME TypeOK, NEW a, NEW l \in Listings(a), NEW k \in 0..Len(l), NEW t \in Seq(Migrations),
           Len(t) = Len(l) - k, \A i \in 1..Len(t) : t[i] = l[k + i]
    PROVE  /\ Reverse(t) \in Seq(Migrations)
           /\ InOrderOfNeed => RollbackPlan(Reverse(t), records)
<1> DEFINE r == Reverse(t)
<1>1. /\ l \in Seq(Migrations) /\ Len(l) \in Nat
      /\ \A i \in 1..Len(l) : l[i] \in RecordsOf(a)
      /\ \A m \in RecordsOf(a) : \E i \in 1..Len(l) : l[i] = m
      /\ \A i, j \in 1..Len(l) : i < j => <<l[j], l[i]>> \notin older
  BY ListingProperties
<1>2. /\ r \in Seq(Migrations) /\ Len(r) = Len(t)
      /\ \A i \in 1..Len(r) : (Len(l) - i) + 1 \in (k + 1)..Len(l) /\ r[i] = l[(Len(l) - i) + 1]
  BY <1>1, LastFirst
<1> HIDE DEF r
<1>3. ASSUME InOrderOfNeed, NEW i \in 1..Len(r), NEW n \in records, r[i] \in SameAppDeps(n)
      PROVE  \E j \in 1..Len(r) : j < i /\ r[j] = n
  <2> DEFINE x == (Len(l) - i) + 1
  <2>0. Len(r) = Len(l) - k /\ k \in Nat /\ i \in Nat
    BY <1>1, <1>2
  <2>1. x \in 1..Len(l) /\ x >= k + 1 /\ r[i] = l[x] /\ l[x] \in RecordsOf(a) /\ i = (Len(l) - x) + 1
    <3>1. x \in (k + 1)..Len(l) /\ r[i] = l[x]
      BY <1>2
    <3>2. x \in 1..Len(l) /\ x >= k + 1
      <4> HIDE DEF x
      <4> QED BY <1>1, <2>0, <3>1
    <3>3. i = (Len(l) - x) + 1
      BY <1>1, <2>0
    <3> HIDE DEF x
    <3> QED BY <1>1, <3>1, <3>2, <3>3
  <2>2. n \in Migrations /\ App[n] = a
    <3>1. n \in Migrations
      BY DEF TypeOK
    <3> QED BY <1>3, <2>1, <3>1 DEF SameAppDeps, OfApp, RecordsOf
  <2>3. PICK y \in 1..Len(l) : l[y] = n
    BY <1>1, <2>2 DEF RecordsOf, OfApp
  <2>4. <<l[x], l[y]>> \in older /\ l[y] \in records
    BY <1>3, <2>1, <2>3 DEF InOrderOfNeed
  <2>5. ~(y < x) /\ y # x
    BY <1>1, <2>1, <2>3, <2>4 DEF TypeOK
  <2> DEFINE j == (Len(l) - y) + 1
  <2> HIDE DEF x
  <2>6. j \in 1..Len(r) /\ j < i /\ (Len(l) - j) + 1 = y
    <3>1. y > x /\ y \in Nat /\ x \in Nat /\ y <= Len(l)
      BY <2>1, <2>3, <2>5
    <3> QED BY <1>1, <2>0, <2>1, <3>1
  <2> HIDE DEF j
  <2>7. r[j] = n
    BY <1>2, <2>3, <2>6
  <2> QED BY <2>6, <2>7
<1>4. InOrderOfNeed => RollbackPlan(r, records)
  BY <1>3 DEF RollbackPlan
<1> QED
  BY <1>2, <1>4 DEF r

Starts(p, m, order) ==
    /\ Run(p, m, order) /\ m \in {"apply", "rollback"} /\ order \in Seq(Migrations)
    /\ m = "apply" => ApplyPlan(order, {})
    /\ m = "rollback" /\ InOrderOfNeed => RollbackPlan(order, records)

LEMMA MigrateRuns ==
    ASSUME TypeOK, NEW p \in Processes, NEW S \in SUBSET Migrations, Closed(S), Migrate(p, S)
    PROVE  \E m, order : Starts(p, m, order)
<1> DEFINE t == TopologicalSort[S]
           order == IF Len(t) = Cardinality(S) THEN t ELSE <<>>
<1>1. Run(p, "apply", order)
  BY DEF Migrate
<1>2. order \in Seq(Migrations) /\ ApplyPlan(order, {})
  <2>1. CASE Len(t) = Cardinality(S)
    BY <2>1, SortIsPlan
  <2>2. CASE Len(t) # Cardinality(S)
    BY <2>2 DEF ApplyPlan
  <2> QED BY <2>1, <2>2
<1> HIDE DEF order
<1>3. Starts(p, "apply", order)
  BY <1>1, <1>2 DEF Starts
<1> QED
  BY <1>3

LEMMA RollBackRuns ==
    ASSUME TypeOK, NEW p \in Processes, NEW a, NEW l \in Listings(a), NEW k \in 0..Len(l),
           NEW t \in Seq(Migrations), Len(t) = Len(l) - k, \A i \in 1..Len(t) : t[i] = l[k + i],
           RollBack(p, t)
    PROVE  \E m, order : Starts(p, m, order)
<1>1. Reverse(t) \in Seq(Migrations) /\ (InOrderOfNeed => RollbackPlan(Reverse(t), records))
  BY RollbackIsPlan
<1>2. Starts(p, "rollback", Reverse(t))
  BY <1>1 DEF Starts, RollBack
<1> QED
  BY <1>2

LEMMA DecideRuns ==
    ASSUME TypeOK, NEW p \in Processes, Decide(p)
    PROVE  \E m, order : Starts(p, m, order)
<1>1. ASSUME NEW a \in Apps, MigrateZero(p, a)
      PROVE  \E m, order : Starts(p, m, order)
  <2>1. PICK l \in Listings(a) : RollBack(p, l)
    BY <1>1 DEF MigrateZero
  <2>2. l \in Seq(Migrations) /\ Len(l) \in Nat
    BY ListingProperties
  <2>3. 0 \in 0..Len(l) /\ Len(l) = Len(l) - 0 /\ \A i \in 1..Len(l) : l[i] = l[0 + i]
    BY <2>2
  <2> QED BY <2>1, <2>2, <2>3, RollBackRuns
<1>2. ASSUME NEW m \in Migrations, MigrateTo(p, m)
      PROVE  \E h, order : Starts(p, h, order)
  <2>1. CASE m \notin records
    BY <1>2, <2>1, ClosedSets, MigrateRuns DEF MigrateTo
  <2>2. CASE m \in records
    <3>1. PICK l \in Listings(App[m]) : \E i \in DOMAIN l :
              l[i] = m /\ RollBack(p, SubSeq(l, i + 1, Len(l)))
      BY <1>2, <2>2 DEF MigrateTo
    <3>2. l \in Seq(Migrations) /\ Len(l) \in Nat /\ DOMAIN l = 1..Len(l)
      BY ListingProperties
    <3>3. PICK k \in 1..Len(l) : RollBack(p, SubSeq(l, k + 1, Len(l)))
      BY <3>1, <3>2
    <3> DEFINE t == SubSeq(l, k + 1, Len(l))
    <3>4. k \in 0..Len(l)
      BY <3>2
    <3>5. t \in Seq(Migrations) /\ Len(t) = Len(l) - k /\ \A i \in 1..Len(t) : t[i] = l[k + i]
      <4>1. k + 1 \in Int /\ Len(l) \in Int /\ \A i \in (k + 1)..Len(l) : l[i] \in Migrations
        BY <3>2
      <4>2. /\ t \in Seq(Migrations)
            /\ Len(t) = IF k + 1 <= Len(l) THEN Len(l) - (k + 1) + 1 ELSE 0
            /\ \A i \in 1..(Len(l) - (k + 1) + 1) : t[i] = l[(k + 1) + i - 1]
        BY <4>1, SubSeqProperties
      <4> HIDE DEF t
      <4>3. Len(t) = Len(l) - k /\ Len(l) - (k + 1) + 1 = Len(l) - k
        <5>1. k \in Int /\ Len(l) \in Int /\ k <= Len(l)
          BY <3>2
        <5>2. Len(t) = IF k + 1 <= Len(l) THEN Len(l) - (k + 1) + 1 ELSE 0
          BY <4>2
        <5> QED BY ONLY <5>1, <5>2
      <4>4. \A i \in 1..Len(t) : (k + 1) + i - 1 = k + i
        BY <3>2, <4>3
      <4> QED BY <4>2, <4>3, <4>4
    <3>6. RollBack(p, t)
      BY <3>3
    <3> HIDE DEF t
    <3> QED BY <3>4, <3>5, <3>6, RollBackRuns
  <2> QED BY <2>1, <2>2
<1> QED
  BY <1>1, <1>2 DEF Decide

\* A command starts with the table of the records, or with its plan.
LEMMA StartRuns ==
    ASSUME TypeOK, NEW p \in Processes, Start(p)
    PROVE  Target(p) \/ (at[p] = "idle" /\ \E m, order : Starts(p, m, order))
<1>1. ASSUME NEW S \in {Migrations} \cup {OfApp(a) : a \in Apps}, Migrate(p, S)
      PROVE  \E m, order : Starts(p, m, order)
  BY <1>1, ClosedSets, MigrateRuns
<1> QED
  BY <1>1 DEF Start

(***************************************************************************)
(* What every action keeps: the types, the lock and who works beside whom. *)
(***************************************************************************)
LEMMA BaseInit ==
    ASSUME Init
    PROVE  BaseInv
<1>1. TypeOK
  BY MigrationsAssumption DEF Init, TypeOK, MigrationsAssumption
<1>2. LockInv /\ Exclusive /\ HasCurrent /\ Undecided
  BY DEF Init, LockInv, Exclusive, HasCurrent, Undecided, Working, Applies
<1> QED
  BY <1>1, <1>2 DEF BaseInv

\* The outcomes of the two actions that compare a migration or an object with
\* the direction.
LEMMA ConsiderCases ==
    ASSUME NEW p \in Processes, Consider(p)
    PROVE  /\ at[p] = "next" /\ plan[p] # <<>>
           /\ UNCHANGED <<database, schema, records, older, lock, mode, tx, interrupted, faults>>
           /\ \/ /\ plan' = [plan EXCEPT ![p] = Tail(@)] /\ UNCHANGED <<at, done>>
                 /\ Current(p) \in records <=> Applies(p)
              \/ /\ at' = [at EXCEPT ![p] = "run"]
                 /\ done' = [done EXCEPT ![p] = 0] /\ UNCHANGED plan
                 /\ Current(p) \in records <=> ~Applies(p)
<1>1. CASE (Current(p) \in records) = Applies(p)
  <2>1. Current(p) \in records <=> Applies(p)
    BY <1>1, Zenon
  <2> QED BY <1>1, <2>1 DEF Consider
<1>2. CASE ~((Current(p) \in records) = Applies(p))
  <2>1. Current(p) \in records <=> ~Applies(p)
    BY <1>2 DEF Applies
  <2> QED BY <1>2, <2>1 DEF Consider
<1> QED
  BY <1>1, <1>2

LEMMA ExecuteCases ==
    ASSUME NEW p \in Processes, Execute(p)
    PROVE  /\ at[p] \in {"run", "execute"} /\ More(p)
           /\ \/ Abort(p) /\ UNCHANGED faults
              \/ /\ Object(p) \in View(p) <=> ~Applies(p)
                 /\ IF Atomic(Current(p))
                    THEN tx' = [tx EXCEPT ![p] = @ \cup {Object(p)}] /\ UNCHANGED schema
                    ELSE /\ schema' = IF Applies(p) THEN schema \cup {Object(p)}
                                      ELSE schema \ {Object(p)}
                         /\ UNCHANGED tx
                 /\ done' = [done EXCEPT ![p] = @ + 1]
                 /\ at' = [at EXCEPT ![p] = "run"]
                 /\ UNCHANGED <<database, records, older, lock, mode, plan, interrupted, faults>>
<1>1. CASE (Object(p) \in View(p)) = Applies(p)
  BY <1>1 DEF Execute
<1>2. CASE ~((Object(p) \in View(p)) = Applies(p))
  <2>1. Object(p) \in View(p) <=> ~Applies(p)
    BY <1>2 DEF Applies
  <2> QED BY <1>2, <2>1 DEF Execute
<1> QED
  BY <1>1, <1>2

\* What becomes of the rows.
LEMMA RecordCases ==
    ASSUME TypeOK, NEW p \in Processes, Record(p), Current(p) \in Migrations
    PROVE  LET m == Current(p)
           IN  /\ records' = IF Applies(p) THEN records \cup {m} ELSE records \ {m}
               /\ older' \subseteq records' \X records' /\ \A n \in records' : <<n, n>> \notin older'
               /\ Applies(p) => older \subseteq older'
               /\ ~Applies(p) => older' = older \cap (records' \X records')
               /\ Applies(p) /\ m \notin records /\ database \in Steady =>
                      records \X {m} \subseteq older'
<1> DEFINE m == Current(p)
<1>1. older \subseteq records \X records /\ \A n \in records : <<n, n>> \notin older
  BY DEF TypeOK
<1>2. CASE ~Applies(p)
  <2>1. records' = records \ {m} /\ older' = older \cap (records' \X records')
    BY <1>2 DEF Record, Delete
  <2> HIDE DEF m
  <2>2. \A n \in records' : <<n, n>> \notin older'
    BY <1>1, <2>1
  <2> QED BY <1>2, <2>1, <2>2 DEF m
<1>3. CASE Applies(p) /\ m \in records
  <2>1. records' = records /\ older' = older
    BY <1>3 DEF Record
  <2> HIDE DEF m
  <2>2. records' = records \cup {m}
    BY <1>3, <2>1
  <2> QED BY <1>1, <1>3, <2>1, <2>2 DEF m
<1>4. CASE Applies(p) /\ m \notin records
  <2>1. Insert(m)
    BY <1>4 DEF Record
  <2> HIDE DEF m
  <2>2. PICK E \in SUBSET records, F \in SUBSET records :
            /\ database \in Steady => E = records
            /\ older' = older \cup E \X {m} \cup {m} \X (records \ F)
    BY <2>1 DEF Insert, Cuts
  <2>3. records' = records \cup {m}
    BY <2>1 DEF Insert
  <2>4. older' \subseteq records' \X records' /\ older \subseteq older'
    BY <1>1, <2>2, <2>3
  <2>5. \A n \in records' : <<n, n>> \notin older'
    BY <1>1, <1>4, <2>2, <2>3
  <2>6. database \in Steady => records \X {m} \subseteq older'
    BY <2>2
  <2> QED BY <1>4, <2>3, <2>4, <2>5, <2>6 DEF m
<1> QED
  BY <1>2, <1>3, <1>4

\* The steps of ensure_schema_table about the lock, and what all share.
LocksOnly(p) == Acquire(p) \/ Reenter(p) \/ Ensure(p) \/ Unreleased(p) \/ Reap(p)

LEMMA LocksOnlyFrame ==
    ASSUME TypeOK, LockInv, NEW p \in Processes, LocksOnly(p)
    PROVE  /\ UNCHANGED <<database, schema, records, older, locals, interrupted>>
           /\ faults' \in 0..MaxFaults /\ lock' \in {lock, None, p}
           /\ \E x \in {at[p], "probed", "locked", "decide", "next"} :
                  /\ at' = [at EXCEPT ![p] = x]
                  /\ x \in {"probed", "decide"} => at[p] \in {"probe", "probed", "decide"}
                  /\ x = "locked" => Waits(p)
                  /\ x = "next" => Planned(p) \/ at[p] = "next"
                  /\ x = at[p] \/ at[p] \in {"probe", "probed", "lock", "locked"}
           /\ at[p] = "idle" => at' = at
           /\ LockInv'
<1>1. /\ MaxFaults \in Nat /\ None \notin Processes /\ faults \in 0..MaxFaults
      /\ at \in [Processes -> {"idle", "probe", "probed", "decide", "lock", "locked",
                               "next", "run", "execute", "record"}]
  BY MigrationsAssumption DEF MigrationsAssumption, TypeOK
<1> DEFINE Moves(x) ==
               /\ at' = [at EXCEPT ![p] = x]
               /\ x \in {"probed", "decide"} => at[p] \in {"probe", "probed", "decide"}
               /\ x = "locked" => Waits(p)
               /\ x = "next" => Planned(p) \/ at[p] = "next"
               /\ x = at[p] \/ at[p] \in {"probe", "probed", "lock", "locked"}
<1>2. ASSUME Acquire(p)
      PROVE  /\ lock = None /\ lock' = p /\ UNCHANGED <<database, faults>>
             /\ \/ at[p] = "probe" /\ Moves("probed")
                \/ at[p] = "lock" /\ Moves("locked")
  BY <1>1, <1>2 DEF Acquire, Waits, Planned
<1>3. ASSUME Reenter(p)
      PROVE  ~Locking /\ lock' = lock /\ UNCHANGED <<database, faults>> /\ Moves("next") /\ at[p] = "lock"
  BY <1>1, <1>3 DEF Reenter, Planned
<1>4. ASSUME Ensure(p)
      PROVE  /\ lock' \in GivesBack(p) /\ UNCHANGED <<database, faults>>
             /\ \/ at[p] = "probed" /\ Moves("decide")
                \/ at[p] = "locked" /\ Moves("next")
  BY <1>1, <1>4 DEF Ensure, PastEnsure, Planned
<1>5. ASSUME Unreleased(p)
      PROVE  /\ database = "mysql" /\ UNCHANGED <<database, lock>> /\ faults' \in 0..MaxFaults
             /\ \/ at[p] = "probed" /\ Moves("decide")
                \/ at[p] = "locked" /\ Moves("next")
  <2>1. faults' \in 0..MaxFaults
    BY <1>1, <1>5 DEF Unreleased
  <2> QED BY <1>1, <1>5, <2>1 DEF Unreleased, PastEnsure, Planned
<1>6. ASSUME Reap(p)
      PROVE  /\ database = "postgres" /\ lock' = None /\ UNCHANGED <<database, at, faults>>
             /\ Moves(at[p])
  BY <1>1, <1>6 DEF Reap, Planned
<1>7. UNCHANGED <<database, schema, records, older, locals, interrupted>>
  BY DEF LocksOnly, Acquire, Reenter, Ensure, Unreleased, Reap
<1>8. faults' \in 0..MaxFaults /\ lock' \in {lock, None, p} /\ (at[p] = "idle" => at' = at)
  BY <1>1, <1>2, <1>3, <1>4, <1>5, <1>6 DEF LocksOnly, GivesBack
<1>9. \E x \in {at[p], "probed", "locked", "decide", "next"} : Moves(x)
  <2> HIDE DEF Moves
  <2> QED BY <1>2, <1>3, <1>4, <1>5, <1>6 DEF LocksOnly
<1>10. LockInv'
  <2> SUFFICES ASSUME NEW q \in Processes, Locking', at'[q] \notin {"idle", "probe", "decide", "lock"}
               PROVE  lock' = q
    BY DEF LockInv
  <2>1. Locking /\ database = "cockroachdb"
    BY <1>7 DEF Locking
  <2>2. q # p => at'[q] = at[q]
    BY <1>1, <1>9
  <2>3. CASE Acquire(p)
    BY <1>1, <1>2, <2>1, <2>2, <2>3 DEF LockInv
  <2>4. CASE Ensure(p)
    BY <1>1, <1>4, <2>1, <2>2, <2>4 DEF LockInv, GivesBack
  <2> QED BY <1>3, <1>5, <1>6, <2>1, <2>3, <2>4 DEF LocksOnly, Locking
<1> QED
  BY <1>7, <1>8, <1>9, <1>10

LEMMA BaseStep ==
    ASSUME BaseInv, [Next]_vars
    PROVE  BaseInv'
<1>1. TypeOK /\ LockInv /\ Exclusive /\ HasCurrent /\ Undecided
  BY DEF BaseInv
<1>2. ASSUME NEW p \in Processes, plan[p] # <<>>
      PROVE  Current(p) \in Migrations /\ Tail(plan[p]) \in Seq(Migrations)
  BY <1>1, <1>2, HeadTailProperties DEF TypeOK, Current
<1>3. \A p \in Processes : Working(p) => Current(p) \in Migrations
  BY <1>1, <1>2 DEF HasCurrent
<1>4. ASSUME NEW p \in Processes, plan[p] # <<>>, More(p)
      PROVE  Object(p) \in Objects
  <2>1. Operations[Current(p)] \in Seq(Objects)
    BY <1>2, <1>4, MigrationsAssumption DEF MigrationsAssumption
  <2>2. Len(Operations[Current(p)]) \in Nat /\ done[p] \in Nat
    BY <1>1, <2>1 DEF TypeOK
  <2>3. /\ done[p] + 1 \in 1..Len(Operations[Current(p)])
        /\ Len(Operations[Current(p)]) - done[p] \in 1..Len(Operations[Current(p)])
    BY <1>4, <2>2 DEF More
  <2> QED BY <2>1, <2>3 DEF Object
\* The end of a command.
<1>5. ASSUME NEW p \in Processes, End(p), UNCHANGED <<database, schema, records, older>>,
             interrupted' \subseteq {"apply", "rollback"} \X Migrations,
             faults' \in 0..MaxFaults
      PROVE  BaseInv'
  <2>1. TypeOK'
    <3>1. plan' \in [Processes -> Seq(Migrations)] /\ tx' \in [Processes -> SUBSET Objects]
      BY <1>1, <1>5 DEF End, TypeOK
    <3> QED BY <1>1, <1>5, <3>1 DEF End, TypeOK
  <2>2. LockInv'
    BY <1>1, <1>5, MigrationsAssumption DEF End, TypeOK, LockInv, Locking, MigrationsAssumption
  <2>3. Exclusive'
    BY <1>1, <1>5 DEF End, TypeOK, Exclusive, Applies
  <2>4. HasCurrent'
    BY <1>1, <1>5 DEF End, TypeOK, HasCurrent, Working
  <2>5. Undecided'
    BY <1>1, <1>5 DEF End, TypeOK, Undecided, Applies
  <2> QED BY <2>1, <2>2, <2>3, <2>4, <2>5 DEF BaseInv
\* What a command has decided, at its start or later.
<1>6. ASSUME NEW p \in Processes, at[p] \in {"idle", "decide"},
             \E m, order : Starts(p, m, order)
      PROVE  BaseInv'
  <2>1. PICK m, order : Starts(p, m, order)
    BY <1>6
  <2>2. Run(p, m, order) /\ m \in {"apply", "rollback"} /\ order \in Seq(Migrations)
    BY <2>1 DEF Starts
  <2>3. CASE order = <<>>
    BY <1>1, <1>5, <2>2, <2>3 DEF Run, TypeOK
  <2>4. CASE order # <<>>
    <3>1. /\ Joins(p, m) /\ mode' = [mode EXCEPT ![p] = m] /\ plan' = [plan EXCEPT ![p] = order]
          /\ at' = [at EXCEPT ![p] = "lock"]
          /\ UNCHANGED <<database, schema, records, older, lock, done, tx, interrupted, faults>>
      BY <2>2, <2>4 DEF Run
    <3>2. TypeOK'
      BY <1>1, <2>2, <3>1 DEF TypeOK
    <3>3. LockInv'
      BY <1>1, <3>1 DEF TypeOK, LockInv, Locking
    <3>4. Exclusive'
      BY <1>1, <3>1 DEF Joins, TypeOK, Exclusive, Applies
    <3>5. HasCurrent'
      BY <1>1, <3>1 DEF TypeOK, HasCurrent, Working
    <3>6. Undecided'
      BY <1>1, <3>1 DEF TypeOK, Undecided, Applies
    <3> QED BY <3>2, <3>3, <3>4, <3>5, <3>6 DEF BaseInv
  <2> QED BY <2>3, <2>4
<1>7. ASSUME NEW p \in Processes, Target(p)
      PROVE  BaseInv'
  <2>1. /\ at[p] = "idle" /\ Joins(p, "apply") /\ at' = [at EXCEPT ![p] = "probe"]
        /\ UNCHANGED <<database, schema, records, older, lock, mode, plan, done, tx, interrupted, faults>>
    BY <1>7 DEF Target, locals
  <2>2. TypeOK'
    BY <1>1, <2>1 DEF TypeOK
  <2>3. LockInv'
    BY <1>1, <2>1 DEF TypeOK, LockInv, Locking
  <2>4. Exclusive'
    BY <1>1, <2>1 DEF Joins, TypeOK, Exclusive, Undecided, Applies
  <2>5. HasCurrent' /\ Undecided'
    BY <1>1, <2>1 DEF TypeOK, HasCurrent, Working, Undecided, Applies
  <2> QED BY <2>2, <2>3, <2>4, <2>5 DEF BaseInv
\* A step about the lock.
<1>8. ASSUME NEW p \in Processes, LocksOnly(p)
      PROVE  BaseInv'
  <2>1. /\ UNCHANGED <<database, schema, records, older, mode, plan, done, tx, interrupted>>
        /\ faults' \in 0..MaxFaults /\ lock' \in {lock, None, p}
    BY <1>1, <1>8, LocksOnlyFrame DEF locals
  <2>2. PICK x \in {at[p], "probed", "locked", "decide", "next"} :
            /\ at' = [at EXCEPT ![p] = x]
            /\ x \in {"probed", "decide"} => at[p] \in {"probe", "probed", "decide"}
            /\ x = at[p] \/ at[p] \in {"probe", "probed", "lock", "locked"}
    BY <1>1, <1>8, LocksOnlyFrame
  <2>3. TypeOK'
    BY <1>1, <2>1, <2>2 DEF TypeOK
  <2>4. LockInv'
    BY <1>1, <1>8, LocksOnlyFrame
  <2>5. Exclusive'
    BY <1>1, <2>1, <2>2 DEF TypeOK, Exclusive, Applies
  <2>6. HasCurrent'
    BY <1>1, <2>1, <2>2 DEF TypeOK, HasCurrent, Working
  <2>7. Undecided'
    BY <1>1, <2>1, <2>2 DEF TypeOK, Undecided, Applies
  <2> QED BY <2>3, <2>4, <2>5, <2>6, <2>7 DEF BaseInv
<1>9. ASSUME NEW p \in Processes, Consider(p)
      PROVE  BaseInv'
  <2> DEFINE Common == UNCHANGED <<database, schema, records, older, lock, mode, tx, interrupted, faults>>
  <2>1. at[p] = "next" /\ plan[p] # <<>> /\ Common
    BY <1>9, ConsiderCases
  <2>2. CASE plan' = [plan EXCEPT ![p] = Tail(@)] /\ UNCHANGED <<at, done>>
    <3>1. TypeOK'
      BY <1>1, <1>2, <2>1, <2>2 DEF TypeOK
    <3>2. LockInv' /\ Exclusive' /\ Undecided'
      BY <1>1, <2>1, <2>2 DEF LockInv, Locking, Exclusive, Undecided, Applies
    <3>3. HasCurrent'
      BY <1>1, <2>1, <2>2 DEF TypeOK, HasCurrent, Working
    <3> QED BY <3>1, <3>2, <3>3 DEF BaseInv
  <2>3. CASE at' = [at EXCEPT ![p] = "run"] /\ done' = [done EXCEPT ![p] = 0] /\ UNCHANGED plan
    <3>1. TypeOK'
      BY <1>1, <2>1, <2>3 DEF TypeOK
    <3>2. LockInv' /\ Exclusive' /\ Undecided'
      BY <1>1, <2>1, <2>3 DEF TypeOK, LockInv, Locking, Exclusive, Undecided, Applies
    <3>3. HasCurrent'
      BY <1>1, <2>1, <2>3 DEF TypeOK, HasCurrent, Working
    <3> QED BY <3>1, <3>2, <3>3 DEF BaseInv
  <2> QED BY <1>9, <2>2, <2>3, ConsiderCases
<1>10. ASSUME NEW p \in Processes, CheckTable(p)
      PROVE  BaseInv'
  <2>1. /\ at[p] = "run" /\ at' \in {at, [at EXCEPT ![p] = "execute"]}
        /\ done' \in {done, [done EXCEPT ![p] = @ + 1]}
        /\ UNCHANGED <<database, schema, records, older, lock, mode, plan, tx, interrupted, faults>>
    BY <1>10 DEF CheckTable
  <2>2. done' \in [Processes -> Nat]
    <3>1. done \in [Processes -> Nat] /\ done[p] + 1 \in Nat
      BY <1>1 DEF TypeOK
    <3>2. [done EXCEPT ![p] = @ + 1] \in [Processes -> Nat]
      BY <3>1
    <3> QED BY <2>1, <3>1, <3>2
  <2>3. TypeOK'
    BY <1>1, <2>1, <2>2 DEF TypeOK
  <2>4. LockInv'
    BY <1>1, <2>1 DEF TypeOK, LockInv, Locking
  <2>5. Exclusive'
    <3>1. \A q \in Processes : at'[q] # "idle" => at[q] # "idle"
      BY <1>1, <2>1 DEF TypeOK
    <3>2. database' = database /\ \A q \in Processes : Applies(q) => Applies(q)'
      BY ONLY <2>1 DEF Applies
    <3> QED BY ONLY <1>1, <3>1, <3>2 DEF Exclusive
  <2>6. HasCurrent'
    BY <1>1, <2>1 DEF TypeOK, HasCurrent, Working
  <2>7. Undecided'
    BY <1>1, <2>1 DEF TypeOK, Undecided, Applies
  <2> QED BY <2>3, <2>4, <2>5, <2>6, <2>7 DEF BaseInv
<1>11. ASSUME NEW p \in Processes, Abort(p), faults' \in 0..MaxFaults
       PROVE  BaseInv'
  <2>1. interrupted' \subseteq {"apply", "rollback"} \X Migrations
    <3>1. mode[p] \in {"apply", "rollback"} /\ interrupted \subseteq {"apply", "rollback"} \X Migrations
      BY <1>1 DEF TypeOK
    <3>2. Working(p) => <<mode[p], Current(p)>> \in {"apply", "rollback"} \X Migrations
      BY <1>3, <3>1
    <3> QED BY <1>11, <3>1, <3>2 DEF Abort
  <2> QED BY <1>5, <1>11, <2>1 DEF Abort
<1>12. ASSUME NEW p \in Processes, Execute(p)
      PROVE  BaseInv'
  <2>1. at[p] \in {"run", "execute"} /\ More(p)
    BY <1>12, ExecuteCases
  <2>2. plan[p] # <<>> /\ Object(p) \in Objects
    BY <1>1, <1>4, <2>1 DEF HasCurrent, Working
  <2>3. CASE Abort(p) /\ UNCHANGED faults
    BY <1>1, <1>11, <2>3 DEF TypeOK
  <2>4. CASE /\ tx' \in {tx, [tx EXCEPT ![p] = @ \cup {Object(p)}]}
             /\ schema' \in {schema, schema \cup {Object(p)}, schema \ {Object(p)}}
             /\ done' = [done EXCEPT ![p] = @ + 1]
             /\ at' = [at EXCEPT ![p] = "run"]
             /\ UNCHANGED <<database, records, older, lock, mode, plan, interrupted, faults>>
    <3>1. tx' \in [Processes -> SUBSET Objects]
      <4>1. tx \in [Processes -> SUBSET Objects] /\ tx[p] \cup {Object(p)} \in SUBSET Objects
        BY <1>1, <2>2 DEF TypeOK
      <4>2. [tx EXCEPT ![p] = @ \cup {Object(p)}] \in [Processes -> SUBSET Objects]
        BY <4>1
      <4> QED BY <2>4, <4>1, <4>2
    <3>2. done' \in [Processes -> Nat]
      BY <1>1, <2>4 DEF TypeOK
    <3>3. TypeOK'
      BY <1>1, <2>2, <2>4, <3>1, <3>2 DEF TypeOK
    <3>4. LockInv'
      BY <1>1, <2>1, <2>4 DEF TypeOK, LockInv, Locking
    <3>5. Exclusive'
      BY <1>1, <2>1, <2>4 DEF TypeOK, Exclusive, Applies
    <3>6. HasCurrent'
      BY <1>1, <2>1, <2>2, <2>4 DEF TypeOK, HasCurrent, Working
    <3>7. Undecided'
      BY <1>1, <2>1, <2>4 DEF TypeOK, Undecided, Applies
    <3> QED BY <3>3, <3>4, <3>5, <3>6, <3>7 DEF BaseInv
  <2> QED BY <1>12, <2>3, <2>4, ExecuteCases
<1>13. ASSUME NEW p \in Processes, Finish(p)
      PROVE  BaseInv'
  <2>1. TypeOK'
    BY <1>13, <1>1, <1>2, <1>3 DEF Finish, View, TypeOK
  <2>2. LockInv'
    BY <1>13, <1>1 DEF Finish, TypeOK, LockInv, Locking
  <2>3. Exclusive'
    BY <1>13, <1>1 DEF Finish, TypeOK, Exclusive, Applies
  <2>4. HasCurrent' /\ Undecided'
    BY <1>13, <1>1 DEF Finish, TypeOK, HasCurrent, Working, Undecided, Applies
  <2> QED BY <2>1, <2>2, <2>3, <2>4 DEF BaseInv
<1>14. ASSUME NEW p \in Processes, Record(p)
      PROVE  BaseInv'
  <2>1. /\ Working(p) /\ plan[p] # <<>> /\ Current(p) \in Migrations
        /\ Tail(plan[p]) \in Seq(Migrations)
    BY <1>1, <1>2, <1>14 DEF Record, HasCurrent, Working
  <2>2. /\ records' \subseteq Migrations
        /\ older' \subseteq records' \X records' /\ \A m \in records' : <<m, m>> \notin older'
    <3>1. /\ records' \in {records \cup {Current(p)}, records \ {Current(p)}}
          /\ older' \subseteq records' \X records' /\ \A m \in records' : <<m, m>> \notin older'
      BY <1>1, <1>14, <2>1, RecordCases
    <3>2. records \subseteq Migrations
      BY <1>1 DEF TypeOK
    <3> QED BY <2>1, <3>1, <3>2
  <2>3. TypeOK'
    <3>1. interrupted' \subseteq interrupted
      BY <1>14 DEF Record
    <3> QED BY <1>1, <1>14, <2>1, <2>2, <3>1 DEF Record, TypeOK
  <2>4. LockInv'
    BY <1>14, <1>1 DEF Record, TypeOK, LockInv, Locking
  <2>5. Exclusive'
    BY <1>14, <1>1 DEF Record, TypeOK, Exclusive, Applies
  <2>6. HasCurrent' /\ Undecided'
    BY <1>14, <1>1 DEF Record, TypeOK, HasCurrent, Working, Undecided, Applies
  <2> QED BY <2>3, <2>4, <2>5, <2>6 DEF BaseInv
<1>15. ASSUME NEW p \in Processes, Done(p)
      PROVE  BaseInv'
  BY <1>1, <1>5, <1>15 DEF Done, TypeOK
<1>16. ASSUME NEW p \in Processes, Fault(p)
       PROVE  BaseInv'
  <2>1. Abort(p) /\ faults' \in 0..MaxFaults
    BY <1>1, <1>16, MigrationsAssumption DEF Fault, TypeOK, MigrationsAssumption
  <2> QED BY <1>11, <2>1
<1>17. ASSUME NEW p \in Processes, TimeOut(p)
       PROVE  BaseInv'
  BY <1>1, <1>11, <1>17 DEF TimeOut, TypeOK
<1>18. ASSUME NEW p \in Processes, Start(p)
       PROVE  BaseInv'
  <2>1. Target(p) \/ (at[p] = "idle" /\ \E m, order : Starts(p, m, order))
    BY <1>1, <1>18, StartRuns
  <2> QED BY <1>6, <1>7, <2>1
<1>19. ASSUME NEW p \in Processes, Decide(p)
       PROVE  BaseInv'
  <2>1. at[p] = "decide" /\ \E m, order : Starts(p, m, order)
    BY <1>1, <1>19, DecideRuns DEF Decide
  <2> QED BY <1>6, <2>1
<1>20. CASE UNCHANGED vars
  BY <1>1, <1>20 DEF vars, locals, BaseInv, TypeOK, LockInv, Exclusive, HasCurrent, Undecided,
                     Working, Locking, Applies
<1> QED
  BY <1>8, <1>9, <1>10, <1>12, <1>13, <1>14, <1>15, <1>16, <1>17, <1>18, <1>19, <1>20
     DEF Next, Proceed, LocksOnly

(***************************************************************************)
(* A rollback works alone, by the lock or because nobody disturbs it.      *)
(***************************************************************************)
Guarded == Databases \ {"cockroachdb"} \subseteq Undisturbed

\* Past the lock, with a plan.
Busy(p) == at[p] \notin {"idle", "probe", "decide", "lock"}

LEMMA WorksAlone ==
    ASSUME Guarded, BaseInv, NEW p \in Processes, NEW q \in Processes, p # q,
           Busy(p), Busy(q)
    PROVE  Applies(p) /\ Applies(q)
<1>1. CASE Locking
  BY <1>1 DEF BaseInv, LockInv, Busy
<1>2. CASE ~Locking
  <2>1. database \in Undisturbed
    BY <1>2 DEF Guarded, BaseInv, TypeOK, Locking
  <2> QED BY <2>1 DEF BaseInv, Exclusive, Busy
<1> QED
  BY <1>1, <1>2

(***************************************************************************)
(* The records keep the order of the dependencies.                         *)
(***************************************************************************)
LEMMA RestOfApplyPlan ==
    ASSUME NEW s \in Seq(Migrations), s # <<>>, NEW R, NEW T,
           ApplyPlan(s, R), R \subseteq T, Head(s) \in T
    PROVE  ApplyPlan(Tail(s), T)
<1> DEFINE t == Tail(s)
<1>1. /\ Len(s) \in Nat \ {0} /\ Len(t) = Len(s) - 1 /\ s[1] \in T
      /\ \A i \in 1..Len(t) : t[i] = s[i + 1]
  BY HeadTailProperties, EmptySeq
<1> HIDE DEF t
<1>2. ASSUME NEW i \in 1..Len(t), NEW d \in SameAppDeps(t[i])
      PROVE  d \in T \/ \E j \in 1..Len(t) : j < i /\ t[j] = d
  <2>1. i + 1 \in 1..Len(s) /\ d \in SameAppDeps(s[i + 1])
    BY <1>1
  <2>2. d \in R \/ \E j \in 1..Len(s) : j < i + 1 /\ s[j] = d
    BY <2>1 DEF ApplyPlan
  <2>3. ASSUME NEW j \in 1..Len(s), j < i + 1, s[j] = d
        PROVE  d \in T \/ \E k \in 1..Len(t) : k < i /\ t[k] = d
    <3>1. CASE j = 1
      BY <1>1, <2>3, <3>1
    <3>2. CASE j # 1
      <4>1. j - 1 \in 1..Len(t) /\ j - 1 < i /\ j - 1 + 1 = j
        BY <1>1, <2>3, <3>2
      <4>2. t[j - 1] = d
        BY <1>1, <2>3, <4>1
      <4> QED BY <4>1, <4>2
    <3> QED BY <3>1, <3>2
  <2> QED BY <2>2, <2>3
<1>3. ApplyPlan(t, T)
  BY <1>2 DEF ApplyPlan
<1> QED
  BY <1>3 DEF t

LEMMA RestOfRollbackPlan ==
    ASSUME NEW s \in Seq(Migrations), s # <<>>, NEW R, NEW T,
           RollbackPlan(s, R), T \subseteq R \ {Head(s)}
    PROVE  RollbackPlan(Tail(s), T)
<1> DEFINE t == Tail(s)
<1>1. /\ Len(s) \in Nat \ {0} /\ Len(t) = Len(s) - 1 /\ T \subseteq R \ {s[1]}
      /\ \A i \in 1..Len(t) : t[i] = s[i + 1]
  BY HeadTailProperties, EmptySeq
<1> HIDE DEF t
<1>2. ASSUME NEW i \in 1..Len(t), NEW n \in T, t[i] \in SameAppDeps(n)
      PROVE  \E j \in 1..Len(t) : j < i /\ t[j] = n
  <2>1. i + 1 \in 1..Len(s) /\ s[i + 1] \in SameAppDeps(n) /\ n \in R
    BY <1>1, <1>2
  <2>2. PICK j \in 1..Len(s) : j < i + 1 /\ s[j] = n
    BY <2>1 DEF RollbackPlan
  <2>3. j # 1
    BY <1>1, <2>2
  <2>4. j - 1 \in 1..Len(t) /\ j - 1 < i /\ j - 1 + 1 = j
    BY <1>1, <2>2, <2>3
  <2>5. t[j - 1] = n
    BY <1>1, <2>2, <2>4
  <2> QED BY <2>4, <2>5
<1>3. RollbackPlan(t, T)
  BY <1>2 DEF RollbackPlan
<1> QED
  BY <1>3 DEF t

LEMMA WiderApplyPlan ==
    ASSUME NEW s, NEW R, NEW T, ApplyPlan(s, R), R \subseteq T
    PROVE  ApplyPlan(s, T)
BY DEF ApplyPlan

LEMMA HeadIsNext ==
    ASSUME NEW s \in Seq(Migrations), s # <<>>, NEW R
    PROVE  /\ ApplyPlan(s, R) => SameAppDeps(Head(s)) \subseteq R
           /\ RollbackPlan(s, R) => \A n \in R : Head(s) \notin SameAppDeps(n)
<1>1. 1 \in 1..Len(s) /\ Head(s) = s[1] /\ \A j \in 1..Len(s) : ~(j < 1)
  BY HeadTailProperties, EmptySeq
<1>2. ApplyPlan(s, R) => SameAppDeps(Head(s)) \subseteq R
  BY <1>1 DEF ApplyPlan
<1>3. RollbackPlan(s, R) => \A n \in R : Head(s) \notin SameAppDeps(n)
  BY <1>1 DEF RollbackPlan
<1> QED
  BY <1>2, <1>3

HistoryNext == [History!Next]_<<records, database \in Undisturbed \cap Steady>>

\* A step that leaves the records alone, and the other processes.
LEMMA HistoryFrame ==
    ASSUME HistoryInv, NEW p \in Processes, UNCHANGED <<database, records, older>>,
           \A q \in Processes \ {p} : plan'[q] = plan[q] /\ at'[q] = at[q] /\ mode'[q] = mode[q],
           PlanInv(p)'
    PROVE  HistoryInv' /\ HistoryNext
<1>1. HistoryNext
  <2>1. (database \in Undisturbed \cap Steady)' = (database \in Undisturbed \cap Steady)
    OBVIOUS
  <2> QED BY <2>1 DEF HistoryNext
<1>2. ASSUME NEW q \in Processes
      PROVE  PlanInv(q)'
  <2>1. CASE q = p
    BY <2>1
  <2>2. CASE q # p
    <3>1. PlanInv(q) /\ plan'[q] = plan[q] /\ at'[q] = at[q] /\ mode'[q] = mode[q]
      BY <2>2 DEF HistoryInv
    <3> QED BY <3>1 DEF PlanInv, Planned, Follows, Known, Applies
  <2> QED BY <2>1, <2>2
<1>3. (Known => InOrderOfNeed)'
  BY DEF HistoryInv, Known, InOrderOfNeed
<1> QED
  BY <1>1, <1>2, <1>3 DEF HistoryInv

LEMMA HistoryStep ==
    ASSUME Guarded, BaseInv, HistoryInv, [Next]_vars
    PROVE  HistoryInv' /\ HistoryNext
<1>1. TypeOK /\ LockInv /\ Exclusive /\ HasCurrent
  BY DEF BaseInv
<1>2. ASSUME NEW p \in Processes, plan[p] # <<>>
      PROVE  plan[p] \in Seq(Migrations) /\ Current(p) \in Migrations
  BY <1>1, <1>2, HeadTailProperties DEF TypeOK, Current
<1>3. (Known => InOrderOfNeed) /\ \A p \in Processes : PlanInv(p)
  BY DEF HistoryInv
<1>4. ASSUME NEW p \in Processes, \E m, order : Starts(p, m, order)
      PROVE  HistoryInv' /\ HistoryNext
  <2>1. PICK m, order : Starts(p, m, order)
    BY <1>4
  <2>2. /\ Run(p, m, order) /\ m \in {"apply", "rollback"} /\ order \in Seq(Migrations)
        /\ m = "apply" => ApplyPlan(order, {})
        /\ m = "rollback" /\ InOrderOfNeed => RollbackPlan(order, records)
    BY <2>1 DEF Starts
  <2>3. /\ UNCHANGED <<database, records, older>>
        /\ \A q \in Processes \ {p} : plan'[q] = plan[q] /\ at'[q] = at[q] /\ mode'[q] = mode[q]
        /\ \/ at'[p] = "idle"
           \/ at'[p] = "lock" /\ plan'[p] = order /\ mode'[p] = m
    BY <1>1, <2>2 DEF Run, End, TypeOK
  <2>4. PlanInv(p)'
    BY <1>3, <2>2, <2>3 DEF PlanInv, Planned, Follows, Known, Applies
  <2> QED BY <2>3, <2>4, HistoryFrame
\* A step of the executor that keeps its plan.
<1>5. ASSUME NEW p \in Processes, UNCHANGED <<database, records, older>>,
             plan'[p] = plan[p], mode'[p] = mode[p],
             (Planned(p) \/ Follows(p))' => Planned(p) \/ Follows(p),
             Follows(p) => ~Planned(p)',
             \A q \in Processes \ {p} : plan'[q] = plan[q] /\ at'[q] = at[q] /\ mode'[q] = mode[q]
      PROVE  HistoryInv' /\ HistoryNext
  <2>1. PlanInv(p) /\ Applies(p)' = Applies(p) /\ Known' = Known
    BY <1>3, <1>5 DEF Applies, Known
  <2>2. Planned(p)' /\ Applies(p) => ApplyPlan(plan[p], {})
    BY <1>5, <2>1 DEF PlanInv
  <2>3. Follows(p)' /\ Applies(p) => ApplyPlan(plan[p], records)
    BY <1>5, <2>1, WiderApplyPlan DEF PlanInv
  <2>4. Known /\ (Planned(p) \/ Follows(p))' /\ ~Applies(p) => RollbackPlan(plan[p], records)
    BY <1>5, <2>1 DEF PlanInv
  <2>5. PlanInv(p)'
    BY <1>5, <2>1, <2>2, <2>3, <2>4 DEF PlanInv
  <2> QED BY <1>5, <2>5, HistoryFrame
<1>6. ASSUME NEW p \in Processes, End(p), UNCHANGED <<database, records, older>>
      PROVE  HistoryInv' /\ HistoryNext
  <2>1. /\ at'[p] = "idle"
        /\ \A q \in Processes \ {p} : plan'[q] = plan[q] /\ at'[q] = at[q] /\ mode'[q] = mode[q]
    BY <1>1, <1>6 DEF End, TypeOK
  <2>2. PlanInv(p)'
    BY <2>1 DEF PlanInv, Planned, Follows
  <2> QED BY <1>6, <2>1, <2>2, HistoryFrame
<1>7. ASSUME NEW p \in Processes, LocksOnly(p)
      PROVE  HistoryInv' /\ HistoryNext
  <2>1. UNCHANGED <<database, records, older, plan, mode>>
    BY <1>1, <1>7, LocksOnlyFrame DEF locals
  <2>2. PICK x \in {at[p], "probed", "locked", "decide", "next"} :
            /\ at' = [at EXCEPT ![p] = x]
            /\ x = "locked" => Waits(p)
            /\ x = "next" => Planned(p) \/ at[p] = "next"
            /\ x = at[p] \/ at[p] \in {"probe", "probed", "lock", "locked"}
    BY <1>1, <1>7, LocksOnlyFrame
  <2>3. at'[p] = x /\ \A q \in Processes \ {p} : at'[q] = at[q]
    BY <1>1, <2>2 DEF TypeOK
  <2>4. CASE x = "locked" /\ at[p] = "probe"
    <3>1. at'[p] = "locked" /\ at[p] = "probe" /\ DOMAIN at = Processes
      BY <1>1, <2>3, <2>4 DEF TypeOK
    <3> QED BY <1>7, <3>1 DEF LocksOnly, Acquire, Reenter, Ensure, Unreleased, Reap, PastEnsure
  <2>5. CASE ~(x = "locked" /\ at[p] = "probe")
    <3>1. (Planned(p) \/ Follows(p))' => Planned(p) \/ Follows(p)
      BY <2>2, <2>3, <2>5 DEF Planned, Follows, Waits
    <3>2. Follows(p) => ~Planned(p)'
      BY <2>2, <2>3 DEF Planned, Follows
    <3> QED BY <1>5, <2>1, <2>3, <3>1, <3>2
  <2> QED BY <2>4, <2>5
<1>8. ASSUME NEW p \in Processes, Target(p)
      PROVE  HistoryInv' /\ HistoryNext
  <2>1. /\ UNCHANGED <<database, records, older, plan, mode>> /\ at'[p] = "probe"
        /\ \A q \in Processes \ {p} : at'[q] = at[q]
    BY <1>1, <1>8 DEF Target, locals, TypeOK
  <2>2. PlanInv(p)'
    BY <2>1 DEF PlanInv, Planned, Follows
  <2> QED BY <2>1, <2>2, HistoryFrame
<1>9. ASSUME NEW p \in Processes, UNCHANGED <<database, records, older, plan, mode>>,
             at[p] \in {"next", "run", "execute"}, at'[p] \in {"run", "execute", "record"},
             \A q \in Processes \ {p} : at'[q] = at[q]
      PROVE  HistoryInv' /\ HistoryNext
  <2>1. Follows(p) /\ ~Planned(p)'
    BY <1>9 DEF Follows, Planned
  <2> QED BY <1>5, <1>9, <2>1
<1>10. ASSUME NEW p \in Processes, Consider(p)
       PROVE  HistoryInv' /\ HistoryNext
  <2>1. at[p] = "next" /\ plan[p] # <<>> /\ UNCHANGED <<database, records, older, mode>>
    BY <1>10, ConsiderCases
  <2>2. CASE /\ plan' = [plan EXCEPT ![p] = Tail(@)] /\ UNCHANGED <<at, done>>
             /\ Current(p) \in records <=> Applies(p)
    <3>1. /\ plan'[p] = Tail(plan[p]) /\ Current(p) = Head(plan[p])
          /\ \A q \in Processes \ {p} : plan'[q] = plan[q]
      BY <1>1, <2>2 DEF TypeOK, Current
    <3>2. PlanInv(p) /\ Follows(p) /\ Follows(p)' /\ ~Planned(p)' /\ Applies(p)' = Applies(p)
          /\ Known' = Known
      BY <1>3, <2>1, <2>2 DEF Follows, Planned, Applies, Known
    <3>3. Applies(p) => ApplyPlan(Tail(plan[p]), records)
      BY <1>2, <2>1, <2>2, <3>1, <3>2, RestOfApplyPlan DEF PlanInv
    <3>4. Known /\ ~Applies(p) => RollbackPlan(Tail(plan[p]), records)
      <4>1. Current(p) \notin records => records \subseteq records \ {Head(plan[p])}
        BY <3>1
      <4> QED BY <1>2, <2>1, <2>2, <3>2, <4>1, RestOfRollbackPlan DEF PlanInv
    <3>5. PlanInv(p)'
      BY <2>1, <3>1, <3>2, <3>3, <3>4 DEF PlanInv
    <3> QED BY <2>1, <2>2, <3>1, <3>5, HistoryFrame
  <2>3. CASE /\ at' = [at EXCEPT ![p] = "run"]
             /\ done' = [done EXCEPT ![p] = 0] /\ UNCHANGED plan
    <3>1. at'[p] = "run" /\ \A q \in Processes \ {p} : at'[q] = at[q]
      BY <1>1, <2>3 DEF TypeOK
    <3> QED BY <1>9, <2>1, <2>3, <3>1
  <2> QED BY <1>10, <2>2, <2>3, ConsiderCases
<1>11. ASSUME NEW p \in Processes, CheckTable(p)
       PROVE  HistoryInv' /\ HistoryNext
  <2>1. /\ UNCHANGED <<database, records, older, plan, mode>> /\ at[p] = "run"
        /\ at'[p] \in {"run", "execute"} /\ \A q \in Processes \ {p} : at'[q] = at[q]
    BY <1>1, <1>11 DEF CheckTable, TypeOK
  <2> QED BY <1>9, <2>1
<1>12. ASSUME NEW p \in Processes, Abort(p)
       PROVE  HistoryInv' /\ HistoryNext
  BY <1>6, <1>12 DEF Abort
<1>13. ASSUME NEW p \in Processes, Execute(p)
       PROVE  HistoryInv' /\ HistoryNext
  <2>1. CASE Abort(p)
    BY <1>12, <2>1
  <2>2. CASE at' = [at EXCEPT ![p] = "run"] /\ UNCHANGED <<database, records, older, plan, mode>>
    <3>1. /\ at[p] \in {"run", "execute"} /\ at'[p] = "run"
          /\ \A q \in Processes \ {p} : at'[q] = at[q]
      BY <1>1, <1>13, <2>2, ExecuteCases DEF TypeOK
    <3> QED BY <1>9, <2>2, <3>1
  <2> QED BY <1>13, <2>1, <2>2, ExecuteCases
<1>14. ASSUME NEW p \in Processes, Finish(p)
       PROVE  HistoryInv' /\ HistoryNext
  <2>1. /\ UNCHANGED <<database, records, older, plan, mode>> /\ at[p] = "run"
        /\ at'[p] = "record" /\ \A q \in Processes \ {p} : at'[q] = at[q]
    BY <1>1, <1>14 DEF Finish, TypeOK
  <2> QED BY <1>9, <2>1
<1>15. ASSUME NEW p \in Processes, Record(p)
       PROVE  HistoryInv' /\ HistoryNext
  <2> DEFINE m == Current(p)
  <2>1. /\ at[p] = "record" /\ plan[p] # <<>> /\ plan[p] \in Seq(Migrations)
        /\ m \in Migrations /\ m = Head(plan[p])
    BY <1>1, <1>2, <1>15 DEF Record, HasCurrent, Working, Current
  <2>2. /\ UNCHANGED <<database, mode>> /\ plan'[p] = Tail(plan[p]) /\ at'[p] = "next"
        /\ \A q \in Processes \ {p} : plan'[q] = plan[q] /\ at'[q] = at[q]
    BY <1>1, <1>15 DEF Record, TypeOK
  <2>3. Follows(p) /\ Follows(p)' /\ ~Planned(p)' /\ Busy(p) /\ PlanInv(p) /\ Known' = Known
    BY <1>3, <2>1, <2>2 DEF Follows, Planned, Busy, Known
  <2>4. /\ records' = IF Applies(p) THEN records \cup {m} ELSE records \ {m}
        /\ Applies(p) => older \subseteq older'
        /\ ~Applies(p) => older' = older \cap (records' \X records')
        /\ Applies(p) /\ m \notin records /\ database \in Steady => records \X {m} \subseteq older'
        /\ older \subseteq records \X records /\ \A n \in records : <<n, n>> \notin older
    BY <1>1, <1>15, <2>1, RecordCases DEF TypeOK
  <2>5. \A q \in Processes : Applies(q)' = Applies(q)
    BY <2>2 DEF Applies
  <2>6. \A q \in Processes \ {p} :
            Planned(q)' = Planned(q) /\ Follows(q)' = Follows(q) /\ PlanInv(q)
    BY <1>3, <2>2 DEF Planned, Follows
  <2>7. (database \in Undisturbed \cap Steady)' = (database \in Undisturbed \cap Steady)
    BY <2>2
  <2> HIDE DEF m
  <2>8. CASE Applies(p)
    <3>1. ApplyPlan(plan[p], records) /\ SameAppDeps(m) \subseteq records
      BY <2>1, <2>3, <2>8, HeadIsNext DEF PlanInv
    <3>2. records' = records \cup {m}
      BY <2>4, <2>8
    <3>3. (Known => InOrderOfNeed)'
      <4> SUFFICES ASSUME Known, NEW n \in records', NEW d \in SameAppDeps(n)
                   PROVE  <<d, n>> \in older'
        BY <2>3 DEF InOrderOfNeed
      <4>1. CASE n \in records
        <5>1. <<d, n>> \in older
          BY <1>3, <4>1 DEF InOrderOfNeed
        <5> QED BY <2>4, <2>8, <5>1
      <4>2. CASE n \notin records
        <5>1. n = m /\ d \in records /\ database \in Steady
          BY <3>1, <3>2, <4>2 DEF Known
        <5> QED BY <2>4, <2>8, <4>2, <5>1
      <4> QED BY <4>1, <4>2
    <3>4. PlanInv(p)'
      <4>1. ApplyPlan(Tail(plan[p]), records')
        BY <2>1, <3>1, <3>2, RestOfApplyPlan
      <4> QED BY <2>2, <2>3, <2>5, <2>8, <4>1 DEF PlanInv
    <3>5. ASSUME NEW q \in Processes, q # p
          PROVE  PlanInv(q)'
      <4>1. Follows(q) /\ Applies(q) => ApplyPlan(plan[q], records')
        BY <2>6, <3>2, <3>5, WiderApplyPlan DEF PlanInv
      <4>2. Planned(q) /\ Applies(q) => ApplyPlan(plan[q], {})
        BY <2>6, <3>5 DEF PlanInv
      <4>3. Known /\ (Planned(q) \/ Follows(q)) => Applies(q)
        BY <1>1, <2>1, <3>5 DEF Exclusive, Known, Planned, Follows
      <4> QED BY <2>2, <2>3, <2>5, <2>6, <3>5, <4>1, <4>2, <4>3 DEF PlanInv
    <3>6. HistoryInv'
      BY <3>3, <3>4, <3>5 DEF HistoryInv
    <3>7. HistoryNext
      <4>1. CASE m \in records
        BY <2>7, <3>2, <4>1 DEF HistoryNext
      <4>2. CASE m \notin records
        BY <2>1, <2>7, <3>1, <3>2, <4>2 DEF HistoryNext, History!Next, History!Apply
      <4> QED BY <4>1, <4>2
    <3> QED BY <3>6, <3>7
  <2>9. CASE ~Applies(p)
    <3>1. records' = records \ {m} /\ older' = older \cap (records' \X records')
      BY <2>4, <2>9
    <3>2. Known => RollbackPlan(plan[p], records) /\ \A n \in records : m \notin SameAppDeps(n)
      BY <2>1, <2>3, <2>9, HeadIsNext DEF PlanInv
    <3>3. (Known => InOrderOfNeed)'
      <4> SUFFICES ASSUME Known, NEW n \in records', NEW d \in SameAppDeps(n)
                   PROVE  <<d, n>> \in older'
        BY <2>3 DEF InOrderOfNeed
      <4>1. <<d, n>> \in older /\ n \in records /\ d # m
        BY <1>3, <3>1, <3>2 DEF InOrderOfNeed
      <4> QED BY <2>4, <3>1, <4>1
    <3>4. PlanInv(p)'
      <4>1. Known => RollbackPlan(Tail(plan[p]), records')
        BY <2>1, <3>1, <3>2, RestOfRollbackPlan
      <4> QED BY <2>2, <2>3, <2>5, <2>9, <4>1 DEF PlanInv
    <3>5. ASSUME NEW q \in Processes, q # p
          PROVE  PlanInv(q)'
      <4>1. ~Follows(q)
        <5>1. Follows(q) => Busy(q)
          BY DEF Follows, Busy
        <5> QED BY <2>3, <2>9, <3>5, <5>1, WorksAlone
      <4>2. Planned(q) /\ Applies(q) => ApplyPlan(plan[q], {})
        BY <2>6, <3>5 DEF PlanInv
      <4>3. Known => ~Planned(q)
        BY <1>1, <2>1, <2>9, <3>5 DEF Exclusive, Known, Planned
      <4> QED BY <2>2, <2>3, <2>5, <2>6, <3>5, <4>1, <4>2, <4>3 DEF PlanInv
    <3>6. HistoryInv'
      BY <3>3, <3>4, <3>5 DEF HistoryInv
    <3>7. HistoryNext
      <4>1. CASE m \notin records
        BY <2>7, <3>1, <4>1 DEF HistoryNext
      <4>2. CASE m \in records
        <5>1. database \in Undisturbed \cap Steady => \A n \in records \ {m} : m \notin SameAppDeps(n)
          BY <3>2 DEF Known
        <5>2. \A n \in records : n \in Migrations
          BY <1>1 DEF TypeOK
        <5> QED BY <2>1, <2>7, <3>1, <4>2, <5>1, <5>2 DEF HistoryNext, History!Next, History!Unapply
      <4> QED BY <4>1, <4>2
    <3> QED BY <3>6, <3>7
  <2> QED BY <2>8, <2>9
<1>16. ASSUME NEW p \in Processes, Done(p)
       PROVE  HistoryInv' /\ HistoryNext
  BY <1>6, <1>16 DEF Done
<1>17. ASSUME NEW p \in Processes, Fault(p) \/ TimeOut(p)
       PROVE  HistoryInv' /\ HistoryNext
  BY <1>12, <1>17 DEF Fault, TimeOut
<1>18. ASSUME NEW p \in Processes, Start(p) \/ Decide(p)
       PROVE  HistoryInv' /\ HistoryNext
  BY <1>1, <1>4, <1>8, <1>18, StartRuns, DecideRuns
<1>19. CASE UNCHANGED vars
  <2>1. UNCHANGED <<database, records, older, plan, mode, at>>
    BY <1>19 DEF vars, locals
  <2>2. (database \in Undisturbed \cap Steady)' = (database \in Undisturbed \cap Steady)
    BY <2>1
  <2>3. HistoryInv'
    BY <2>1 DEF HistoryInv, InOrderOfNeed, PlanInv, Planned, Follows, Known, Applies
  <2> QED BY <2>1, <2>2, <2>3 DEF HistoryNext
<1> QED
  BY <1>7, <1>10, <1>11, <1>13, <1>14, <1>15, <1>16, <1>17, <1>18, <1>19
     DEF Next, Proceed, LocksOnly

(***************************************************************************)
(* The records and the schema.                                             *)
(***************************************************************************)
LEMMA ObjectsDisjoint ==
    ASSUME NEW m \in Migrations
    PROVE  /\ Operations[m] \in Seq(Objects) /\ Len(Operations[m]) \in Nat
           /\ ObjectsOf(m) = {Operations[m][i] : i \in 1..Len(Operations[m])}
           /\ \A n \in Migrations : n # m => ObjectsOf(m) \cap ObjectsOf(n) = {}
<1>1. \A n \in Migrations : /\ Operations[n] \in Seq(Objects) /\ Len(Operations[n]) \in Nat
                            /\ DOMAIN Operations[n] = 1..Len(Operations[n])
  BY MigrationsAssumption DEF MigrationsAssumption
<1>2. \A n \in Migrations : ObjectsOf(n) = {Operations[n][i] : i \in 1..Len(Operations[n])}
  BY <1>1 DEF ObjectsOf, ToSet
<1>3. ASSUME NEW n \in Migrations, n # m
      PROVE  ObjectsOf(m) \cap ObjectsOf(n) = {}
  <2>1. \A i \in 1..Len(Operations[m]), j \in 1..Len(Operations[n]) :
            Operations[m][i] # Operations[n][j]
    BY <1>1, <1>3, MigrationsAssumption DEF MigrationsAssumption
  <2> QED BY <1>2, <2>1
<1> QED
  BY <1>1, <1>2, <1>3

\* What is being done, or was left half way, is not forgotten by a step.
LEMMA ProgressFrame ==
    ASSUME NEW p \in Processes, interrupted \subseteq interrupted',
           \A q \in Processes \ {p} : plan'[q] = plan[q] /\ at'[q] = at[q] /\ mode'[q] = mode[q],
           Working(p) => \/ <<mode[p], Current(p)>> \in interrupted'
                         \/ Working(p)' /\ plan'[p] = plan[p] /\ mode'[p] = mode[p],
           NEW m, NEW how, InProgress(m, how)
    PROVE  InProgress(m, how)'
<1>1. CASE <<how, m>> \in interrupted
  BY <1>1 DEF InProgress
<1>2. ASSUME NEW q \in Processes, Working(q), Current(q) = m, mode[q] = how
      PROVE  InProgress(m, how)'
  <2>1. CASE q # p
    BY <1>2, <2>1 DEF InProgress, Working, Current
  <2>2. CASE q = p /\ <<mode[p], Current(p)>> \in interrupted'
    BY <1>2, <2>2 DEF InProgress
  <2>3. CASE q = p /\ Working(p)' /\ plan'[p] = plan[p] /\ mode'[p] = mode[p]
    BY <1>2, <2>3 DEF InProgress, Current
  <2> QED BY <1>2, <2>1, <2>2, <2>3
<1> QED
  BY <1>1, <1>2 DEF InProgress

\* A step that changes at most objects of one migration, which is in progress.
LEMMA SchemaFrame ==
    ASSUME SchemaInv, UNCHANGED <<database, records>>, records \subseteq Migrations,
           \A n, how : InProgress(n, how) => InProgress(n, how)',
           \/ schema' = schema
           \/ \E m \in Migrations : \E X \in SUBSET ObjectsOf(m) :
                  /\ \/ schema' = schema \cup X /\ InProgress(m, "apply")'
                     \/ schema' = schema \ X /\ InProgress(m, "rollback")'
                  /\ Atomic(m) => \/ ObjectsOf(m) \subseteq schema'
                                  \/ ObjectsOf(m) \cap schema' = {}
    PROVE  SchemaInv'
<1>1. records' = records /\ \A n : Atomic(n)' = Atomic(n)
  BY DEF Atomic, Transactional
<1>2. CASE schema' = schema
  <2>1. RecordedIsInSchema'
    BY <1>1, <1>2 DEF SchemaInv, RecordedIsInSchema
  <2>2. SchemaIsAccounted'
    BY <1>1, <1>2 DEF SchemaInv, SchemaIsAccounted
  <2>3. WholeOrNothing'
    BY <1>1, <1>2 DEF SchemaInv, WholeOrNothing
  <2> QED BY <2>1, <2>2, <2>3 DEF SchemaInv
<1>3. ASSUME NEW m \in Migrations, NEW X \in SUBSET ObjectsOf(m),
             \/ schema' = schema \cup X /\ InProgress(m, "apply")'
             \/ schema' = schema \ X /\ InProgress(m, "rollback")',
             Atomic(m) => \/ ObjectsOf(m) \subseteq schema'
                          \/ ObjectsOf(m) \cap schema' = {}
      PROVE  SchemaInv'
  <2>1. \A n \in Migrations : n # m => ObjectsOf(n) \cap X = {}
    BY <1>3, ObjectsDisjoint
  <2>2. ASSUME NEW n \in records
        PROVE  ObjectsOf(n) \subseteq schema' \/ InProgress(n, "rollback")'
    BY <1>3, <2>1 DEF SchemaInv, RecordedIsInSchema
  <2>3. ASSUME NEW n \in Migrations \ records, ObjectsOf(n) \cap schema' # {}
        PROVE  InProgress(n, "apply")'
    BY <1>3, <2>1, <2>3 DEF SchemaInv, SchemaIsAccounted
  <2>4. ASSUME NEW n \in Migrations, Atomic(n)
        PROVE  ObjectsOf(n) \subseteq schema' \/ ObjectsOf(n) \cap schema' = {}
    <3>1. CASE n = m
      BY <1>3, <2>4, <3>1
    <3>2. CASE n # m
      <4>1. ObjectsOf(n) \subseteq schema \/ ObjectsOf(n) \cap schema = {}
        BY <2>4 DEF SchemaInv, WholeOrNothing
      <4> QED BY <1>3, <2>1, <3>2, <4>1
    <3> QED BY <3>1, <3>2
  <2>5. RecordedIsInSchema'
    BY <1>1, <2>2 DEF RecordedIsInSchema, ObjectsOf
  <2>6. SchemaIsAccounted'
    BY <1>1, <2>3 DEF SchemaIsAccounted, ObjectsOf
  <2>7. WholeOrNothing'
    BY <1>1, <2>4 DEF WholeOrNothing, ObjectsOf
  <2> QED BY <2>5, <2>6, <2>7 DEF SchemaInv
<1> QED
  BY <1>2, <1>3

\* A process that does not move: its work stands if others only add to the
\* schema while it applies.
LEMMA WorkFrame ==
    ASSUME NEW q \in Processes, WorkOf(q), UNCHANGED database,
           plan'[q] = plan[q], at'[q] = at[q], mode'[q] = mode[q],
           done'[q] = done[q], tx'[q] = tx[q],
           Working(q) => schema' = schema \/ (Applies(q) /\ schema \subseteq schema')
    PROVE  WorkOf(q)'
<1>1. Working(q)' = Working(q) /\ Current(q)' = Current(q) /\ Applies(q)' = Applies(q)
  BY DEF Working, Current, Applies
<1>2. \A m : Atomic(m)' = Atomic(m)
  BY DEF Atomic, Transactional
<1>3. ASSUME Working(q), NEW i \in 1..done[q]
      PROVE  Reached(q, i)'
  <2>1. Reached(q, i)
    BY <1>3 DEF WorkOf
  <2>2. CASE Applies(q)
    BY <1>1, <1>3, <2>1, <2>2 DEF Reached, View
  <2>3. CASE ~Applies(q)
    BY <1>1, <1>3, <2>1, <2>3 DEF Reached, View
  <2> QED BY <2>2, <2>3
<1>4. CASE ~Working(q)
  BY <1>1, <1>4 DEF WorkOf
<1>5. CASE Working(q)
  <2>1. /\ done'[q] <= Len(Operations[Current(q)']) /\ tx'[q] \subseteq ObjectsOf(Current(q)')
        /\ ~Atomic(Current(q))' => tx'[q] = {}
        /\ at'[q] = "record" => tx'[q] = {} /\ done'[q] = Len(Operations[Current(q)'])
    BY <1>1, <1>2, <1>5 DEF WorkOf, Atomic, Transactional
  <2> QED BY <1>1, <1>3, <1>5, <2>1 DEF WorkOf, ObjectsOf
<1> QED
  BY <1>4, <1>5

\* At the end of a migration all its objects are there, or none.
LEMMA Complete ==
    ASSUME NEW p \in Processes, Current(p) \in Migrations,
           done[p] = Len(Operations[Current(p)]), \A i \in 1..done[p] : Reached(p, i)
    PROVE  /\ Applies(p) => ObjectsOf(Current(p)) \subseteq View(p)
           /\ ~Applies(p) => ObjectsOf(Current(p)) \cap View(p) = {}
<1> DEFINE m == Current(p)
           n == Len(Operations[m])
<1>1. n \in Nat /\ ObjectsOf(m) = {Operations[m][i] : i \in 1..n}
  BY ObjectsDisjoint
<1>2. \A i \in 1..n : Reached(p, i)
  OBVIOUS
<1>3. ASSUME ~Applies(p), NEW i \in 1..n
      PROVE  Operations[m][i] \notin View(p)
  <2>1. (n - i) + 1 \in 1..n /\ n - ((n - i) + 1) + 1 = i
    <3> HIDE DEF n
    <3> QED BY <1>1
  <2>2. Reached(p, (n - i) + 1)
    BY <1>2, <2>1
  <2>3. Operations[m][n - ((n - i) + 1) + 1] \notin View(p)
    BY <1>3, <2>2 DEF Reached
  <2> QED BY <2>1, <2>3
<1>4. ASSUME Applies(p), NEW i \in 1..n
      PROVE  Operations[m][i] \in View(p)
  BY <1>2, <1>4 DEF Reached
<1> QED
  BY <1>1, <1>3, <1>4

\* What a step of p leaves to another process.
Still(p, q) ==
    /\ plan'[q] = plan[q] /\ at'[q] = at[q] /\ mode'[q] = mode[q]
    /\ done'[q] = done[q] /\ tx'[q] = tx[q]

LEMMA DataStep ==
    ASSUME Guarded, BaseInv, DataInv, [Next]_vars
    PROVE  DataInv'
<1>1. TypeOK /\ HasCurrent /\ WorkInv /\ SchemaInv /\ records \subseteq Migrations
  <2>1. TypeOK /\ HasCurrent /\ WorkInv /\ SchemaInv
    BY DEF BaseInv, DataInv
  <2> QED BY <2>1 DEF TypeOK
<1>2. ASSUME NEW p \in Processes, plan[p] # <<>>
      PROVE  /\ Current(p) \in Migrations /\ Operations[Current(p)] \in Seq(Objects)
             /\ Len(Operations[Current(p)]) \in Nat /\ done[p] \in Nat
             /\ ObjectsOf(Current(p)) =
                    {Operations[Current(p)][i] : i \in 1..Len(Operations[Current(p)])}
  <2>1. Current(p) \in Migrations /\ done[p] \in Nat
    BY <1>1, <1>2, HeadTailProperties DEF TypeOK, Current
  <2> QED BY <2>1, ObjectsDisjoint
<1>3. ASSUME NEW p \in Processes, Working(p)
      PROVE  plan[p] # <<>> /\ Current(p) \in Migrations /\ WorkOf(p)
  BY <1>1, <1>2, <1>3 DEF HasCurrent, WorkInv
\* The work of the others, whatever p does to the schema.
<1>4. ASSUME NEW p \in Processes, UNCHANGED database,
             \/ schema' = schema
             \/ /\ Busy(p)
                /\ Applies(p) => schema \subseteq schema',
             \A q \in Processes \ {p} : Still(p, q),
             WorkOf(p)'
      PROVE  WorkInv'
  <2>1. ASSUME NEW q \in Processes, q # p
        PROVE  WorkOf(q)'
    <3>1. WorkOf(q) /\ Still(p, q)
      BY <1>1, <1>4, <2>1 DEF WorkInv
    <3>2. Working(q) => schema' = schema \/ (Applies(q) /\ schema \subseteq schema')
      <4>1. CASE schema' = schema
        BY <4>1
      <4>2. CASE Working(q) /\ Busy(p) /\ (Applies(p) => schema \subseteq schema')
        <5>1. Busy(q)
          BY <4>2 DEF Working, Busy
        <5>2. Applies(p) /\ Applies(q)
          BY <2>1, <4>2, <5>1, WorksAlone
        <5> QED BY <4>2, <5>2
      <4> QED BY <1>4, <4>1, <4>2
    <3> QED BY <1>4, <3>1, <3>2, WorkFrame DEF Still
  <2> QED BY <1>4, <2>1 DEF WorkInv
<1>5. ASSUME NEW p \in Processes, UNCHANGED <<database, schema, records>>,
             interrupted \subseteq interrupted', \A q \in Processes \ {p} : Still(p, q),
             WorkOf(p)',
             Working(p) => \/ <<mode[p], Current(p)>> \in interrupted'
                           \/ Working(p)' /\ plan'[p] = plan[p] /\ mode'[p] = mode[p]
      PROVE  DataInv'
  <2>1. WorkInv'
    BY <1>4, <1>5
  <2>2. \A n, how : InProgress(n, how) => InProgress(n, how)'
    BY <1>5, ProgressFrame DEF Still
  <2>3. SchemaInv'
    BY <1>1, <1>5, <2>2, SchemaFrame
  <2> QED BY <2>1, <2>3 DEF DataInv
<1>6. ASSUME NEW p \in Processes, ~Working(p), ~Working(p)', tx'[p] = tx[p],
             UNCHANGED <<database, schema, records, interrupted>>,
             \A q \in Processes \ {p} : Still(p, q)
      PROVE  DataInv'
  <2>1. WorkOf(p)'
    BY <1>1, <1>6 DEF WorkInv, WorkOf
  <2> QED BY <1>5, <1>6, <2>1
<1>7. ASSUME NEW p \in Processes, \E m, order : Starts(p, m, order), ~Working(p)
      PROVE  DataInv'
  <2>1. PICK m, order : Run(p, m, order)
    BY <1>7 DEF Starts
  <2>2. /\ ~Working(p)' /\ tx'[p] = tx[p]
        /\ UNCHANGED <<database, schema, records, interrupted>>
        /\ \A q \in Processes \ {p} : Still(p, q)
    <3>1. tx[p] = {}
      BY <1>1, <1>7 DEF WorkInv, WorkOf
    <3>2. CASE order = <<>>
      <4>1. End(p) /\ UNCHANGED <<database, schema, records, interrupted>>
        BY <2>1, <3>2 DEF Run
      <4> QED BY <1>1, <3>1, <4>1 DEF End, TypeOK, Working, Still
    <3>3. CASE order # <<>>
      BY <1>1, <2>1, <3>3 DEF Run, TypeOK, Working, Still
    <3> QED BY <3>2, <3>3
  <2> QED BY <1>6, <1>7, <2>2
<1>8. ASSUME NEW p \in Processes, Target(p)
      PROVE  DataInv'
  <2>1. /\ ~Working(p) /\ ~Working(p)' /\ tx'[p] = tx[p]
        /\ UNCHANGED <<database, schema, records, interrupted>>
        /\ \A q \in Processes \ {p} : Still(p, q)
    BY <1>1, <1>8 DEF Target, locals, TypeOK, Working, Still
  <2> QED BY <1>6, <2>1
<1>9. ASSUME NEW p \in Processes, Done(p)
       PROVE  DataInv'
  <2>1. /\ ~Working(p) /\ ~Working(p)' /\ tx'[p] = tx[p]
        /\ UNCHANGED <<database, schema, records, interrupted>>
        /\ \A q \in Processes \ {p} : Still(p, q)
    BY <1>1, <1>9 DEF WorkInv, WorkOf, Done, End, TypeOK, Working, Still
  <2> QED BY <1>6, <2>1
<1>10. ASSUME NEW p \in Processes, Abort(p)
       PROVE  DataInv'
  <2>1. /\ UNCHANGED <<database, schema, records>> /\ interrupted \subseteq interrupted'
        /\ \A q \in Processes \ {p} : Still(p, q)
        /\ at'[p] = "idle" /\ tx'[p] = {}
        /\ Working(p) => <<mode[p], Current(p)>> \in interrupted'
    BY <1>1, <1>10 DEF Abort, End, TypeOK, Still
  <2>2. WorkOf(p)'
    BY <2>1 DEF WorkOf, Working
  <2> QED BY <1>5, <2>1, <2>2
<1>11. ASSUME NEW p \in Processes, Consider(p)
       PROVE  DataInv'
  <2>1. /\ at[p] = "next" /\ plan[p] # <<>>
        /\ UNCHANGED <<database, schema, records, mode, tx, interrupted>>
    BY <1>11, ConsiderCases
  <2>2. ~Working(p) /\ tx[p] = {}
    BY <1>1, <2>1 DEF Working, WorkInv, WorkOf
  <2>3. CASE plan' = [plan EXCEPT ![p] = Tail(@)] /\ UNCHANGED <<at, done>>
    <3>1. ~Working(p)' /\ \A q \in Processes \ {p} : Still(p, q)
      BY <1>1, <2>1, <2>2, <2>3 DEF TypeOK, Working, Still
    <3> QED BY <1>6, <2>1, <2>2, <3>1
  <2>4. CASE at' = [at EXCEPT ![p] = "run"] /\ done' = [done EXCEPT ![p] = 0] /\ UNCHANGED plan
    <3>1. /\ at'[p] = "run" /\ done'[p] = 0 /\ tx'[p] = {} /\ Current(p)' = Current(p)
          /\ \A q \in Processes \ {p} : Still(p, q)
      BY <1>1, <2>1, <2>2, <2>4 DEF TypeOK, Still, Current
    <3>2. WorkOf(p)'
      <4>1. 0 <= Len(Operations[Current(p)]) /\ \A i \in 1..0 : FALSE
        BY <1>2, <2>1
      <4> QED BY <3>1, <4>1 DEF WorkOf, Working
    <3> QED BY <1>5, <2>1, <2>2, <3>1, <3>2
  <2> QED BY <1>11, <2>3, <2>4, ConsiderCases
<1>12. ASSUME NEW p \in Processes, CheckTable(p)
       PROVE  DataInv'
  <2>1. /\ at[p] = "run" /\ More(p) /\ Skips(p) /\ Working(p)
        /\ UNCHANGED <<database, schema, records, mode, plan, tx, interrupted>>
    BY <1>12 DEF CheckTable, Working
  <2>2. /\ \/ Object(p) \in View(p) /\ done'[p] = done[p] + 1 /\ at'[p] = "run"
           \/ done'[p] = done[p] /\ at'[p] = "execute"
        /\ \A q \in Processes \ {p} : Still(p, q)
    BY <1>1, <1>12 DEF CheckTable, TypeOK, Still
  <2>3. WorkOf(p) /\ plan[p] # <<>> /\ Applies(p)
    BY <1>3, <2>1 DEF Skips
  <2>4. /\ Working(p)' /\ Current(p)' = Current(p) /\ Applies(p)' /\ View(p)' = View(p)
        /\ \A i : Reached(p, i)' = Reached(p, i)
    BY <2>1, <2>2, <2>3 DEF Working, Current, Applies, View, Reached
  <2>5. /\ done'[p] <= Len(Operations[Current(p)])
        /\ \A i \in 1..done'[p] : Reached(p, i)
    <3>1. CASE Object(p) \in View(p) /\ done'[p] = done[p] + 1
      <4>1. Reached(p, done[p] + 1)
        BY <2>3, <3>1 DEF Object, Reached
      <4>2. \A i \in 1..(done[p] + 1) : i \in 1..done[p] \/ i = done[p] + 1
        BY <1>2, <2>3
      <4>3. \A i \in 1..done[p] : Reached(p, i)
        BY <2>1, <2>3 DEF WorkOf
      <4>4. done[p] + 1 <= Len(Operations[Current(p)])
        BY <1>2, <2>1, <2>3 DEF More
      <4> QED BY <3>1, <4>1, <4>2, <4>3, <4>4
    <3>2. CASE done'[p] = done[p]
      BY <2>1, <2>3, <3>2 DEF WorkOf
    <3> QED BY <2>2, <3>1, <3>2
  <2>6. WorkOf(p)'
    <3>1. tx'[p] \subseteq ObjectsOf(Current(p)) /\ (~Atomic(Current(p))' => tx'[p] = {})
      BY <2>1, <2>3, <2>4 DEF WorkOf, Atomic, Transactional
    <3>2. at'[p] # "record"
      BY <2>2
    <3> QED BY <2>4, <2>5, <3>1, <3>2 DEF WorkOf, ObjectsOf
  <2> QED BY <1>5, <2>1, <2>2, <2>4, <2>6
<1>13. ASSUME NEW p \in Processes, Execute(p)
       PROVE  DataInv'
  <2> DEFINE m == Current(p)
             o == Object(p)
             n == Len(Operations[m])
  <2>1. at[p] \in {"run", "execute"} /\ More(p) /\ Working(p)
    BY <1>13, ExecuteCases DEF Working
  <2>2. /\ plan[p] # <<>> /\ m \in Migrations /\ WorkOf(p) /\ n \in Nat /\ done[p] \in Nat
        /\ ObjectsOf(m) = {Operations[m][i] : i \in 1..n}
    BY <1>2, <1>3, <2>1
  <2>3. CASE Abort(p) /\ UNCHANGED faults
    BY <1>10, <2>3
  <2>4. CASE /\ o \in View(p) <=> ~Applies(p)
             /\ IF Atomic(m)
                THEN tx' = [tx EXCEPT ![p] = @ \cup {o}] /\ UNCHANGED schema
                ELSE /\ schema' = IF Applies(p) THEN schema \cup {o} ELSE schema \ {o}
                     /\ UNCHANGED tx
             /\ done' = [done EXCEPT ![p] = @ + 1]
             /\ at' = [at EXCEPT ![p] = "run"]
             /\ UNCHANGED <<database, records, older, lock, mode, plan, interrupted, faults>>
    <3>1. /\ done'[p] = done[p] + 1 /\ at'[p] = "run" /\ plan'[p] = plan[p] /\ mode'[p] = mode[p]
          /\ \A q \in Processes \ {p} : Still(p, q)
      BY <1>1, <2>4 DEF TypeOK, Still
    <3>2. /\ Working(p)' /\ Current(p)' = m /\ Applies(p)' = Applies(p)
          /\ Atomic(m)' = Atomic(m)
      BY <2>4, <3>1 DEF Working, Current, Applies, Atomic, Transactional
    <3>3. o \in ObjectsOf(m)
      <4>1. done[p] + 1 \in 1..n /\ n - done[p] \in 1..n
        BY <2>1, <2>2 DEF More
      <4> QED BY <2>2, <4>1 DEF Object
    <3>4. View(p)' = IF Applies(p) THEN View(p) \cup {o} ELSE View(p) \ {o}
      <4>1. CASE Atomic(m)
        <5>1. tx'[p] = tx[p] \cup {o} /\ schema' = schema
          BY <1>1, <2>4, <4>1 DEF TypeOK
        <5> QED BY <3>2, <5>1 DEF View
      <4>2. CASE ~Atomic(m)
        <5>1. tx'[p] = {} /\ tx[p] = {}
          BY <2>1, <2>2, <2>4, <4>2 DEF WorkOf
        <5> QED BY <2>4, <3>2, <4>2, <5>1 DEF View
      <4> QED BY <4>1, <4>2
    <3>5. ASSUME NEW i \in 1..(done[p] + 1)
          PROVE  Reached(p, i)'
      <4>1. CASE i \in 1..done[p]
        <5>1. Reached(p, i)
          BY <2>1, <2>2, <4>1 DEF WorkOf
        <5> QED BY <3>2, <3>4, <5>1 DEF Reached
      <4>2. CASE i = done[p] + 1
        <5>1. n - (done[p] + 1) + 1 = n - done[p]
          <6> HIDE DEF n
          <6> QED BY <2>2
        <5> QED BY <3>2, <3>4, <4>2, <5>1 DEF Reached, Object
      <4> QED BY <2>2, <4>1, <4>2
    <3>6. WorkOf(p)'
      <4>1. done'[p] <= Len(Operations[m])
        BY <2>1, <2>2, <3>1 DEF More
      <4>2. tx'[p] \subseteq ObjectsOf(m) /\ (~Atomic(m)' => tx'[p] = {})
        <5>1. tx[p] \subseteq ObjectsOf(m) /\ (~Atomic(m) => tx[p] = {})
          BY <2>1, <2>2 DEF WorkOf
        <5> QED BY <1>1, <2>4, <3>2, <3>3, <5>1 DEF TypeOK
      <4> QED BY <3>1, <3>2, <3>5, <4>1, <4>2 DEF WorkOf, ObjectsOf
    <3>7. WorkInv'
      <4>1. /\ Busy(p)
            /\ schema' = schema \/ (Applies(p) => schema \subseteq schema')
        BY <2>1, <2>4 DEF Busy
      <4> QED BY <1>4, <2>4, <3>1, <3>6, <4>1
    <3>8. \A k, how : InProgress(k, how) => InProgress(k, how)'
      BY <2>4, <3>1, <3>2, ProgressFrame DEF Still
    <3>9. SchemaInv'
      <4>1. CASE Atomic(m)
        <5>1. UNCHANGED <<database, records, schema>>
          BY <2>4, <4>1
        <5> QED BY <1>1, <3>8, <5>1, SchemaFrame
      <4>2. CASE ~Atomic(m)
        <5>1. PICK k \in Migrations : k = m
          BY <2>2
        <5>2. PICK x : x = o
          OBVIOUS
        <5>3. mode[p] \in {"apply", "rollback"} /\ InProgress(k, mode[p])'
          <6>1. Working(p)' /\ Current(p)' = k /\ mode'[p] = mode[p]
            BY <3>1, <3>2, <5>1
          <6> QED BY <1>1, <6>1 DEF TypeOK, InProgress
        <5>4. \/ schema' = schema \cup {x} /\ InProgress(k, "apply")'
              \/ schema' = schema \ {x} /\ InProgress(k, "rollback")'
          BY <2>4, <4>2, <5>2, <5>3 DEF Applies
        <5>5. {x} \in SUBSET ObjectsOf(k) /\ ~Atomic(k)
          BY <3>3, <4>2, <5>1, <5>2
        <5>6. UNCHANGED <<database, records>>
          BY <2>4
        <5> HIDE DEF m, o
        <5> QED BY <1>1, <3>8, <5>4, <5>5, <5>6, SchemaFrame
      <4> QED BY <4>1, <4>2
    <3> QED BY <3>7, <3>9 DEF DataInv
  <2> QED BY <1>13, <2>3, <2>4, ExecuteCases
<1>14. ASSUME NEW p \in Processes, Finish(p)
       PROVE  DataInv'
  <2> DEFINE m == Current(p)
  <2>1. /\ at[p] = "run" /\ ~More(p) /\ Working(p) /\ schema' = View(p)
        /\ at'[p] = "record" /\ tx'[p] = {}
        /\ UNCHANGED <<database, records, mode, plan, done, interrupted>>
        /\ \A q \in Processes \ {p} : Still(p, q)
    BY <1>1, <1>14 DEF Finish, TypeOK, Working, Still
  <2>2. /\ plan[p] # <<>> /\ m \in Migrations /\ WorkOf(p)
        /\ Len(Operations[m]) \in Nat /\ done[p] \in Nat
    BY <1>2, <1>3, <2>1
  <2>3. done[p] = Len(Operations[m]) /\ \A i \in 1..done[p] : Reached(p, i)
    BY <2>1, <2>2 DEF WorkOf, More
  <2>4. /\ Working(p)' /\ Current(p)' = m /\ Applies(p)' = Applies(p) /\ View(p)' = View(p)
        /\ \A i : Reached(p, i)' = Reached(p, i)
    BY <2>1 DEF Working, Current, Applies, View, Reached
  <2>5. WorkOf(p)'
    BY <2>1, <2>2, <2>3, <2>4 DEF WorkOf
  <2>6. WorkInv'
    <3>1. Applies(p) => schema \subseteq schema'
      BY <2>1 DEF View
    <3> QED BY <1>4, <2>1, <2>5, <3>1 DEF Busy
  <2>7. \A k, how : InProgress(k, how) => InProgress(k, how)'
    BY <2>1, <2>4, ProgressFrame DEF Still
  <2>8. SchemaInv'
    <3>1. PICK k \in Migrations : k = m
      BY <2>2
    <3>2. PICK X : X = tx[p]
      OBVIOUS
    <3>3. mode[p] \in {"apply", "rollback"} /\ InProgress(k, mode[p])'
      <4>1. Working(p)' /\ Current(p)' = k /\ mode'[p] = mode[p]
        BY <2>1, <2>4, <3>1
      <4> QED BY <1>1, <4>1 DEF TypeOK, InProgress
    <3>4. \/ schema' = schema \cup X /\ InProgress(k, "apply")'
          \/ schema' = schema \ X /\ InProgress(k, "rollback")'
      BY <2>1, <3>2, <3>3 DEF View, Applies
    <3>5. X \in SUBSET ObjectsOf(k)
      BY <2>1, <2>2, <3>1, <3>2 DEF WorkOf
    <3>6. ObjectsOf(k) \subseteq schema' \/ ObjectsOf(k) \cap schema' = {}
      BY <2>1, <2>2, <2>3, <3>1, Complete
    <3>7. UNCHANGED <<database, records>>
      BY <2>1
    <3> HIDE DEF m
    <3> QED BY <1>1, <2>7, <3>4, <3>5, <3>6, <3>7, SchemaFrame
  <2> QED BY <2>6, <2>8 DEF DataInv
<1>15. ASSUME NEW p \in Processes, Record(p)
       PROVE  DataInv'
  <2> DEFINE m == Current(p)
  <2>1. /\ at[p] = "record" /\ Working(p) /\ ~Working(p)' /\ tx'[p] = tx[p]
        /\ UNCHANGED <<database, schema, mode, tx>>
        /\ interrupted' = {x \in interrupted : x[2] # m}
        /\ \A q \in Processes \ {p} : Still(p, q)
    BY <1>1, <1>15 DEF Record, TypeOK, Working, Still
  <2>2. plan[p] # <<>> /\ m \in Migrations /\ WorkOf(p)
    BY <1>3, <2>1
  <2>3. /\ tx[p] = {} /\ done[p] = Len(Operations[m])
        /\ \A i \in 1..done[p] : Reached(p, i)
    BY <2>1, <2>2 DEF WorkOf
  <2>4. /\ Applies(p) => ObjectsOf(m) \subseteq schema
        /\ ~Applies(p) => ObjectsOf(m) \cap schema = {}
    BY <2>2, <2>3, Complete DEF View
  <2>5. records' = IF Applies(p) THEN records \cup {m} ELSE records \ {m}
    BY <1>1, <1>15, <2>2, RecordCases
  <2>6. ASSUME NEW k, k # m, NEW how, InProgress(k, how)
        PROVE  InProgress(k, how)'
    <3>1. CASE <<how, k>> \in interrupted
      BY <2>1, <2>6, <3>1 DEF InProgress
    <3>2. ASSUME NEW q \in Processes, Working(q), Current(q) = k, mode[q] = how
          PROVE  InProgress(k, how)'
      <4>1. q # p
        BY <2>6, <3>2
      <4> QED BY <2>1, <3>2, <4>1 DEF InProgress, Working, Current, Still
    <3> QED BY <2>6, <3>1, <3>2 DEF InProgress
  <2>7. WorkOf(p)'
    BY <2>1, <2>3 DEF WorkOf
  <2>8. WorkInv'
    BY <1>4, <2>1, <2>7
  <2>9. RecordedIsInSchema'
    <3>1. ASSUME NEW k \in records'
          PROVE  ObjectsOf(k) \subseteq schema \/ InProgress(k, "rollback")'
      <4>1. CASE k = m
        BY <2>4, <2>5, <3>1, <4>1
      <4>2. CASE k # m
        <5>1. k \in records
          BY <2>5, <3>1, <4>2
        <5> QED BY <1>1, <2>6, <4>2, <5>1 DEF SchemaInv, RecordedIsInSchema
      <4> QED BY <4>1, <4>2
    <3> QED BY <2>1, <3>1 DEF RecordedIsInSchema, ObjectsOf
  <2>10. SchemaIsAccounted'
    <3>1. ASSUME NEW k \in Migrations \ records', ObjectsOf(k) \cap schema # {}
          PROVE  InProgress(k, "apply")'
      <4>1. CASE k = m
        BY <2>4, <2>5, <3>1, <4>1
      <4>2. CASE k # m
        <5>1. k \in Migrations \ records
          BY <2>5, <3>1, <4>2
        <5> QED BY <1>1, <2>6, <3>1, <4>2, <5>1 DEF SchemaInv, SchemaIsAccounted
      <4> QED BY <4>1, <4>2
    <3> QED BY <2>1, <3>1 DEF SchemaIsAccounted, ObjectsOf
  <2>11. WholeOrNothing'
    BY <1>1, <2>1 DEF SchemaInv, WholeOrNothing, Atomic, Transactional, ObjectsOf
  <2> QED BY <2>8, <2>9, <2>10, <2>11 DEF DataInv, SchemaInv
<1>16. ASSUME NEW p \in Processes, Fault(p) \/ TimeOut(p)
       PROVE  DataInv'
  BY <1>10, <1>16 DEF Fault, TimeOut
<1>17. ASSUME UNCHANGED <<database, schema, records, at, mode, plan, done, tx, interrupted>>
       PROVE  DataInv'
  <2>1. WorkInv'
    BY <1>1, <1>17, WorkFrame DEF WorkInv
  <2>2. SchemaInv'
    BY <1>1, <1>17 DEF SchemaInv, RecordedIsInSchema, SchemaIsAccounted, WholeOrNothing,
                       InProgress, Working, Current, Atomic, Transactional
  <2> QED BY <2>1, <2>2 DEF DataInv
<1>18. ASSUME NEW p \in Processes, LocksOnly(p)
       PROVE  DataInv'
  <2>1. UNCHANGED <<database, schema, records, mode, plan, done, tx, interrupted>>
    BY <1>1, <1>18, LocksOnlyFrame DEF BaseInv, locals
  <2>2. PICK x \in {at[p], "probed", "locked", "decide", "next"} :
            /\ at' = [at EXCEPT ![p] = x]
            /\ x = at[p] \/ at[p] \in {"probe", "probed", "lock", "locked"}
    BY <1>1, <1>18, LocksOnlyFrame DEF BaseInv
  <2>3. at'[p] = x /\ \A q \in Processes \ {p} : at'[q] = at[q]
    BY <1>1, <2>2 DEF TypeOK
  <2>4. CASE x = at[p]
    <3>1. at' = at
      BY <1>1, <2>2, <2>4 DEF TypeOK
    <3> QED BY <1>17, <2>1, <3>1
  <2>5. CASE x # at[p]
    <3>1. ~Working(p) /\ ~Working(p)' /\ \A q \in Processes \ {p} : Still(p, q)
      BY <2>1, <2>2, <2>3, <2>5 DEF Working, Still
    <3> QED BY <1>6, <2>1, <3>1
  <2> QED BY <2>4, <2>5
<1>19. ASSUME NEW p \in Processes, Start(p) \/ Decide(p)
       PROVE  DataInv'
  <2>1. Target(p) \/ (at[p] \in {"idle", "decide"} /\ \E m, order : Starts(p, m, order))
    BY <1>1, <1>19, StartRuns, DecideRuns DEF Decide
  <2> QED BY <1>7, <1>8, <2>1 DEF Working
<1>20. CASE UNCHANGED vars
  BY <1>17, <1>20 DEF vars, locals
<1> QED
  BY <1>9, <1>11, <1>12, <1>13, <1>14, <1>15, <1>16, <1>18, <1>19, <1>20
     DEF Next, Proceed, LocksOnly

(***************************************************************************)
(* Theorems.                                                               *)
(***************************************************************************)

\* The types are respected, the holder of the sentinel row works alone, and
\* where rollbacks are undisturbed two that are busy both apply (executor.rs,
\* builtin.rs: the lock and the checks before a statement).
THEOREM Invariance == Spec => []BaseInv
<1>1. Init => BaseInv
  BY BaseInit
<1>2. BaseInv /\ [Next]_vars => BaseInv'
  BY BaseStep
<1> QED
  BY <1>1, <1>2, PTL DEF Spec

LEMMA DataInvariance ==
    ASSUME Guarded
    PROVE  Spec => [](BaseInv /\ DataInv)
<1>1. Init => BaseInv /\ DataInv
  <2> SUFFICES ASSUME Init PROVE BaseInv /\ DataInv
    OBVIOUS
  <2>1. BaseInv
    BY BaseInit
  <2>2. WorkInv
    BY DEF Init, WorkInv, WorkOf, Working
  <2>3. SchemaInv
    BY DEF Init, SchemaInv, RecordedIsInSchema, SchemaIsAccounted, WholeOrNothing
  <2> QED BY <2>1, <2>2, <2>3 DEF DataInv
<1>2. BaseInv /\ DataInv /\ [Next]_vars => BaseInv' /\ DataInv'
  BY BaseStep, DataStep
<1> QED
  BY <1>1, <1>2, PTL DEF Spec

\* The records and the schema say the same but for what is being done or was
\* interrupted (executor.rs: the statements of a migration, then its record),
\* if a rollback that no sentinel row guards is undisturbed.
THEOREM SchemaAndRecords ==
    ASSUME Guarded
    PROVE  Spec => []RecordsMatchSchema
<1>1. BaseInv /\ DataInv => RecordsMatchSchema
  BY DEF BaseInv, DataInv, SchemaInv, RecordsMatchSchema
<1> QED
  BY <1>1, DataInvariance, PTL

\* An atomic migration is in the schema as a whole or not at all, however many
\* processes are at it and whichever of them is killed (schema_editor.rs), with
\* rollbacks guarded or undisturbed.
THEOREM AtomicMigrations ==
    ASSUME Guarded
    PROVE  Spec => []WholeOrNothing
<1>1. BaseInv /\ DataInv => WholeOrNothing
  BY DEF DataInv, SchemaInv
<1> QED
  BY <1>1, DataInvariance, PTL

\* Commands to apply and to roll back, in any order and by any processes, keep
\* a history in the order of the dependencies: no migration is recorded before
\* those of its app it depends on, on any database, if a rollback that no
\* sentinel row guards is undisturbed; and none is taken back before those that
\* depend on it where besides "applied" tells the order of the records, which
\* it does if no two fall in one second and the clocks agree (graph.rs:
\* topological_sort; builtin.rs: what is taken back; recorder.rs: get_applied).
THEOREM HistoryRefinement ==
    ASSUME Guarded
    PROVE  Spec => ImplementsHistory
<1>1. Init => History!Init
  <2>1. (database \in Undisturbed \cap Steady) \in BOOLEAN
    OBVIOUS
  <2> QED BY <2>1 DEF Init, History!Init
<1>2. HistoryNext => [History!Next]_<<records, database \in Undisturbed \cap Steady>>
  BY DEF HistoryNext
<1>3. Init => BaseInv /\ HistoryInv
  <2>1. Init => BaseInv
    BY BaseInit
  <2>2. Init => HistoryInv
    BY DEF Init, HistoryInv, InOrderOfNeed, PlanInv, Planned, Follows
  <2> QED BY <2>1, <2>2
<1>4. BaseInv /\ HistoryInv /\ [Next]_vars => BaseInv' /\ HistoryInv' /\ HistoryNext
  BY BaseStep, HistoryStep
<1> QED
  BY <1>1, <1>2, <1>3, <1>4, PTL DEF Spec, ImplementsHistory, History!Spec

\* Where a rollback is undisturbed and "applied" tells the order of the records,
\* what is recorded has all it needs recorded too, through applies beside each
\* other, rollbacks and kills (executor.rs and builtin.rs: a plan is built once
\* and followed while others record): no record is left hanging.
THEOREM RecordsClosed ==
    ASSUME Guarded
    PROVE  Spec => [](database \in Undisturbed \cap Steady => Closed(records))
<1>1. Init => BaseInv /\ HistoryInv
  <2>1. Init => BaseInv
    BY BaseInit
  <2>2. Init => HistoryInv
    BY DEF Init, HistoryInv, InOrderOfNeed, PlanInv, Planned, Follows
  <2> QED BY <2>1, <2>2
<1>2. BaseInv /\ HistoryInv /\ [Next]_vars => BaseInv' /\ HistoryInv'
  BY BaseStep, HistoryStep
<1>3. BaseInv /\ HistoryInv => (database \in Undisturbed \cap Steady => Closed(records))
  <2> SUFFICES ASSUME BaseInv, HistoryInv, database \in Undisturbed \cap Steady,
                      NEW n \in records, NEW d \in SameAppDeps(n)
               PROVE  d \in records
    BY DEF Closed
  <2>1. <<d, n>> \in older /\ older \subseteq records \X records
    BY DEF BaseInv, TypeOK, HistoryInv, InOrderOfNeed, Known
  <2> QED BY <2>1
<1> QED
  BY <1>1, <1>2, <1>3, PTL DEF Spec
=============================================================================
