----------------------- MODULE DependencyInjectionProofs -----------------------
(***************************************************************************)
(* Proofs about DependencyInjection, for any finite set of types, any      *)
(* graphs over them and any requests.                                      *)
(***************************************************************************)
EXTENDS DependencyInjection, SequenceTheorems, FiniteSetTheorems, TLAPS

USE InjectionAssumption DEF registry, caches, task

(***************************************************************************)
(* The inductive invariant. A registry that is checked stays so; a factory *)
(* or an instance that holds an instance of a request depends on the type  *)
(* of it; the factories a request is in depend on each other from bottom   *)
(* to top; and a request is not in the factory of what it has cached.      *)
(***************************************************************************)
Capturing(T) ==
    /\ \E u \in Reached(T) : scope[u] = "request"
    /\ scope[T] = "singleton" => \E u \in Descendants(T) : scope[u] = "transient"

CheckedInv == checked => Validate

CacheInv ==
    \A T \in Types :
        /\ \A o \in Owners :
            cache[o][T].holds # {} => scope[T] = "request" \/ Capturing(T)
        /\ cache[App][T] # Nothing => scope[T] = "singleton"
        /\ \A r \in Requests :
            /\ cache[r][T] # Nothing => scope[T] = "request" /\ cache[r][T].n > 0
            /\ built[r][T] = cache[r][T].n

SeenInv ==
    \A x \in seen : x[1] \in Requests => x[3] > 0 /\ x[3] = cache[x[1]][x[2]].n

FrameInv(r, f) ==
    /\ f.todo \subseteq deps[f.type]
    /\ f.holds # {} => Capturing(f.type)
    /\ scope[f.type] = "request" => cache[r][f.type] = Nothing

\* Of two factories, the one that is above in the stack.
Above(f, g) == g.type \in Descendants(f.type) /\ g.type # f.type

NextAbove(f, g) == g.type \in deps[f.type] /\ Outlives(scope[g.type], scope[f.type])

StackInv(r, fs) ==
    /\ \A i \in 1 .. Len(fs) : FrameInv(r, fs[i])
    /\ \A i, j \in 1 .. Len(fs) : i < j => Above(fs[i], fs[j])
    /\ \A i \in 1 .. Len(fs) - 1 : NextAbove(fs[i], fs[i + 1])

ErrorInv ==
    /\ (\E r \in Requests : error[r] = "scope") => ~ScopesAreCompatible
    /\ (\E r \in Requests : error[r] = "cycle") =>
           ~Acyclic \/ MaxDepth < Cardinality(Types)

IInv ==
    /\ TypeOK /\ CheckedInv /\ CacheInv /\ SeenInv /\ ErrorInv
    /\ \A r \in Requests : StackInv(r, frames[r])
-----------------------------------------------------------------------------
(***************************************************************************)
(* Stacks of factories.                                                    *)
(***************************************************************************)
LEMMA FrontLast ==
    ASSUME NEW S, NEW s \in Seq(S), s # <<>>
    PROVE  /\ Len(s) \in Nat \ {0} /\ Last(s) = s[Len(s)] /\ Last(s) \in S
           /\ Front(s) \in Seq(S) /\ Len(Front(s)) = Len(s) - 1
           /\ \A i \in 1 .. Len(s) - 1 : Front(s)[i] = s[i]
  <1>1. Len(s) \in Nat \ {0}
    BY EmptySeq
  <1>2. \A i \in 1 .. Len(s) : s[i] \in S
    BY ElementOfSeq
  <1> DEFINE n == Len(s) - 1
             t == SubSeq(s, 1, n)
  <1>3. n \in Nat /\ 1 \in Int /\ n \in Int /\ \A i \in 1 .. n : s[i] \in S
    BY <1>1, <1>2
  <1>4. t \in Seq(S) /\ Len(t) = n /\ \A i \in 1 .. n : t[i] = s[i]
    <2> HIDE DEF n
    <2>1. /\ SubSeq(s, 1, n) \in Seq(S)
          /\ Len(SubSeq(s, 1, n)) = IF 1 <= n THEN n - 1 + 1 ELSE 0
          /\ \A i \in 1 .. n - 1 + 1 : SubSeq(s, 1, n)[i] = s[1 + i - 1]
      BY <1>3, SubSeqProperties
    <2>2. n - 1 + 1 = n /\ \A i \in 1 .. n : 1 + i - 1 = i
      BY <1>3
    <2> QED
      BY <1>3, <2>1, <2>2
  <1> QED
    BY <1>1, <1>2, <1>4 DEF Front, Last

LEMMA ReplaceLast ==
    ASSUME NEW S, NEW s \in Seq(S), s # <<>>, NEW e \in S
    PROVE  LET t == Append(Front(s), e)
           IN  /\ t \in Seq(S) /\ Len(t) = Len(s)
               /\ \A i \in 1 .. Len(s) : t[i] = IF i = Len(s) THEN e ELSE s[i]
  <1> DEFINE u == Front(s)
  <1>1. /\ Len(s) \in Nat \ {0} /\ u \in Seq(S) /\ Len(u) = Len(s) - 1
        /\ \A i \in 1 .. Len(s) - 1 : u[i] = s[i]
    BY FrontLast
  <1> HIDE DEF u
  <1>2. /\ Append(u, e) \in Seq(S) /\ Len(Append(u, e)) = Len(u) + 1
        /\ \A i \in 1 .. Len(u) : Append(u, e)[i] = u[i]
        /\ Append(u, e)[Len(u) + 1] = e
    BY <1>1, AppendProperties
  <1>3. /\ Append(u, e) \in Seq(S) /\ Len(Append(u, e)) = Len(s)
        /\ \A i \in 1 .. Len(s) : Append(u, e)[i] = IF i = Len(s) THEN e ELSE s[i]
    BY <1>1, <1>2
  <1> QED
    BY <1>3 DEF u

\* What the task keeps of each factory it is in.
Along(f, fs) == [i \in DOMAIN fs |-> f[fs[i].type]]

LEMMA AlongSeq ==
    ASSUME NEW S, NEW f \in [Types -> S], NEW fs \in Seq(Frames)
    PROVE  /\ Along(f, fs) \in Seq(S) /\ Len(Along(f, fs)) = Len(fs)
           /\ \A i \in 1 .. Len(fs) : Along(f, fs)[i] = f[fs[i].type]
  <1>1. Len(fs) \in Nat /\ DOMAIN fs = 1 .. Len(fs) /\ \A i \in 1 .. Len(fs) : fs[i] \in Frames
    BY LenProperties, ElementOfSeq
  <1>2. Along(f, fs) \in [1 .. Len(fs) -> S]
    BY <1>1 DEF Along, Frames
  <1> QED
    BY <1>1, <1>2 DEF Along

LEMMA AlongIs ==
    ASSUME NEW S, NEW f \in [Types -> S], NEW fs \in Seq(Frames), NEW t \in Seq(S),
           Len(t) = Len(fs), \A i \in 1 .. Len(fs) : t[i] = f[fs[i].type]
    PROVE  Along(f, fs) = t
  <1> DEFINE a == Along(f, fs)
  <1>1. a \in Seq(S) /\ Len(a) = Len(fs) /\ \A i \in 1 .. Len(fs) : a[i] = f[fs[i].type]
    BY AlongSeq
  <1> HIDE DEF a
  <1>2. a = t
    BY <1>1, SeqEqual
  <1> QED
    BY <1>2 DEF a

LEMMA AlongFront ==
    ASSUME NEW S, NEW f \in [Types -> S], NEW fs \in Seq(Frames), fs # <<>>
    PROVE  Along(f, Front(fs)) = Front(Along(f, fs))
  <1> DEFINE a == Along(f, fs)
             u == Front(fs)
  <1>1. a \in Seq(S) /\ Len(a) = Len(fs) /\ \A i \in 1 .. Len(fs) : a[i] = f[fs[i].type]
    BY ONLY f \in [Types -> S], fs \in Seq(Frames), AlongSeq
  <1>2. /\ Len(fs) \in Nat \ {0} /\ u \in Seq(Frames) /\ Len(u) = Len(fs) - 1
        /\ \A i \in 1 .. Len(fs) - 1 : u[i] = fs[i]
    BY FrontLast
  <1> HIDE DEF a, u
  <1>3. a # <<>>
    BY <1>1, <1>2, EmptySeq
  <1>4. Front(a) \in Seq(S) /\ Len(Front(a)) = Len(a) - 1 /\ \A i \in 1 .. Len(a) - 1 : Front(a)[i] = a[i]
    BY <1>1, <1>3, FrontLast
  <1>5. Len(Front(a)) = Len(u) /\ \A i \in 1 .. Len(u) : Front(a)[i] = f[u[i].type]
    BY <1>1, <1>2, <1>4
  <1>6. Along(f, u) = Front(a)
    BY <1>2, <1>4, <1>5, AlongIs
  <1> QED
    BY <1>6 DEF a, u

LEMMA AlongAppend ==
    ASSUME NEW S, NEW f \in [Types -> S], NEW fs \in Seq(Frames), NEW g \in Frames
    PROVE  Along(f, Append(fs, g)) = Append(Along(f, fs), f[g.type])
  <1> DEFINE a == Along(f, fs)
             u == Append(fs, g)
             e == f[g.type]
  <1>1. a \in Seq(S) /\ Len(a) = Len(fs) /\ \A i \in 1 .. Len(fs) : a[i] = f[fs[i].type]
    BY ONLY f \in [Types -> S], fs \in Seq(Frames), AlongSeq
  <1>2. /\ u \in Seq(Frames) /\ Len(u) = Len(fs) + 1 /\ Len(fs) \in Nat
        /\ \A i \in 1 .. Len(fs) : u[i] = fs[i]
        /\ u[Len(fs) + 1] = g
    BY AppendProperties, LenProperties
  <1>3. e \in S /\ e = f[g.type]
    BY DEF Frames
  <1> HIDE DEF a, u, e
  <1>4. /\ Append(a, e) \in Seq(S) /\ Len(Append(a, e)) = Len(a) + 1
        /\ \A i \in 1 .. Len(a) : Append(a, e)[i] = a[i]
        /\ Append(a, e)[Len(a) + 1] = e
    BY <1>1, <1>3, AppendProperties
  <1>5. \A i \in 1 .. Len(u) : Append(a, e)[i] = f[u[i].type]
    <2> TAKE i \in 1 .. Len(u)
    <2>1. CASE i = Len(fs) + 1
      BY <1>1, <1>2, <1>3, <1>4, <2>1
    <2>2. CASE i \in 1 .. Len(fs)
      BY <1>1, <1>2, <1>4, <2>2
    <2>3. Len(fs) \in Nat /\ Len(u) = Len(fs) + 1
      BY <1>2
    <2>4. i = Len(fs) + 1 \/ i \in 1 .. Len(fs)
      BY <2>3
    <2> QED
      BY <2>1, <2>2, <2>4
  <1>6. Len(Append(a, e)) = Len(u)
    BY <1>1, <1>2, <1>4
  <1>7. Along(f, u) = Append(a, e)
    BY <1>2, <1>4, <1>5, <1>6, AlongIs
  <1> QED
    BY <1>7 DEF a, u, e

LEMMA AlongSame ==
    ASSUME NEW S, NEW f \in [Types -> S], NEW fs \in Seq(Frames), NEW gs \in Seq(Frames),
           Len(fs) = Len(gs), \A i \in 1 .. Len(fs) : fs[i].type = gs[i].type
    PROVE  Along(f, fs) = Along(f, gs)
  <1> DEFINE a == Along(f, gs)
  <1>1. a \in Seq(S) /\ Len(a) = Len(gs) /\ \A i \in 1 .. Len(gs) : a[i] = f[gs[i].type]
    BY AlongSeq
  <1> HIDE DEF a
  <1>2. Along(f, fs) = a
    BY <1>1, AlongIs
  <1> QED
    BY <1>2 DEF a
-----------------------------------------------------------------------------
(***************************************************************************)
(* The searches of the validator.                                          *)
(***************************************************************************)
LEMMA DescendantsClosed ==
    ASSUME deps \in [Types -> SUBSET Types], NEW T \in Types
    PROVE  /\ deps[T] \subseteq Descendants(T)
           /\ \A u \in Descendants(T) : deps[u] \subseteq Descendants(T)
           /\ \A u \in Descendants(T) : Descendants(u) \subseteq Descendants(T)
  <1>1. deps[T] \subseteq Descendants(T)
    BY DEF Descendants
  <1>2. \A u \in Descendants(T) : deps[u] \subseteq Descendants(T)
    BY DEF Descendants
  <1>3. Descendants(T) \in SUBSET Types
    BY DEF Descendants
  <1>4. ASSUME NEW u \in Descendants(T), NEW v \in Descendants(u) PROVE v \in Descendants(T)
    <2>1. deps[u] \subseteq Descendants(T) /\ \A w \in Descendants(T) : deps[w] \subseteq Descendants(T)
      BY <1>2
    <2> QED
      BY <1>3, <1>4, <2>1 DEF Descendants
  <1> QED
    BY <1>1, <1>2, <1>4

LEMMA ReachedClosed ==
    ASSUME deps \in [Types -> SUBSET Types], NEW T \in Types
    PROVE  /\ deps[T] \subseteq Reached(T)
           /\ \A u \in Reached(T) : scope[u] # "request" => Reached(u) \subseteq Reached(T)
  <1>1. deps[T] \subseteq Reached(T)
    BY DEF Reached
  <1>2. \A u \in Reached(T) : scope[u] # "request" => deps[u] \subseteq Reached(T)
    BY DEF Reached
  <1>3. Reached(T) \in SUBSET Types
    BY DEF Reached
  <1>4. ASSUME NEW u \in Reached(T), scope[u] # "request", NEW v \in Reached(u)
        PROVE  v \in Reached(T)
    <2>1. deps[u] \subseteq Reached(T)
      BY <1>2, <1>4
    <2> QED
      BY <1>2, <1>3, <1>4, <2>1 DEF Reached
  <1> QED
    BY <1>1, <1>4

LEMMA SameRegistry ==
    ASSUME UNCHANGED registry
    PROVE  /\ \A T \in Types : Reached(T)' = Reached(T) /\ Descendants(T)' = Descendants(T)
           /\ \A T \in Types : Capturing(T)' = Capturing(T)
           /\ Validate' = Validate /\ Acyclic' = Acyclic
           /\ ScopesAreCompatible' = ScopesAreCompatible
  <1>1. \A T \in Types : Reached(T)' = Reached(T) /\ Descendants(T)' = Descendants(T)
    BY DEF Reached, Descendants
  <1>2. \A T \in Types : Capturing(T)' = Capturing(T)
    BY <1>1 DEF Capturing
  <1>3. Acyclic' = Acyclic /\ ScopesAreCompatible' = ScopesAreCompatible
    BY <1>1 DEF Acyclic, ScopesAreCompatible
  <1> QED
    BY <1>1, <1>2, <1>3 DEF Validate

(***************************************************************************)
(* What is captured by a dependency of T that does not outlive T is        *)
(* captured by T.                                                          *)
(***************************************************************************)
LEMMA CapturedUp ==
    ASSUME deps \in [Types -> SUBSET Types], scope \in [Types -> Scopes],
           NEW T \in Types, NEW u \in deps[T], Outlives(scope[u], scope[T]),
           scope[u] = "request" \/ Capturing(u)
    PROVE  Capturing(T)
  <1>1. u \in Types /\ u \in Reached(T) /\ u \in Descendants(T)
    BY ReachedClosed, DescendantsClosed
  <1>2. CASE scope[u] = "request"
    BY <1>1, <1>2 DEF Capturing, Outlives
  <1>3. CASE scope[u] # "request" /\ Capturing(u)
    <2>1. \E v \in Reached(T) : scope[v] = "request"
      BY <1>1, <1>3, ReachedClosed DEF Capturing
    <2>2. ASSUME scope[T] = "singleton" PROVE \E v \in Descendants(T) : scope[v] = "transient"
      <3>1. scope[u] = "transient" \/ scope[u] = "singleton"
        BY <1>1, <1>3 DEF Scopes
      <3> QED
        BY <1>1, <1>3, <3>1, DescendantsClosed DEF Capturing
    <2> QED
      BY <2>1, <2>2 DEF Capturing
  <1> QED
    BY <1>2, <1>3
-----------------------------------------------------------------------------
(***************************************************************************)
(* What the operations on the stack of a request keep of it.               *)
(***************************************************************************)
Typed == deps \in [Types -> SUBSET Types] /\ scope \in [Types -> Scopes]

\* The factories of gs are those of fs.
SameTypes(fs, gs) ==
    Len(fs) = Len(gs) /\ \A i \in 1 .. Len(fs) : fs[i].type = gs[i].type

LEMMA StackTop ==
    ASSUME Typed, NEW r, NEW fs \in Seq(Frames), fs # <<>>, StackInv(r, fs),
           NEW g \in Frames, g.type = Last(fs).type, g.todo \subseteq Last(fs).todo,
           g.holds # {} => Capturing(g.type)
    PROVE  LET gs == Append(Front(fs), g)
           IN  gs \in Seq(Frames) /\ SameTypes(fs, gs) /\ StackInv(r, gs)
  <1> DEFINE gs == Append(Front(fs), g)
             n == Len(fs)
  <1>1. /\ gs \in Seq(Frames) /\ Len(gs) = n /\ n \in Nat \ {0} /\ Last(fs) = fs[n]
        /\ \A i \in 1 .. n : gs[i] = IF i = n THEN g ELSE fs[i]
    BY FrontLast, ReplaceLast
  <1> HIDE DEF gs
  <1>2. \A i \in 1 .. n : gs[i].type = fs[i].type
    BY <1>1
  <1>3. FrameInv(r, fs[n]) /\ \A i \in 1 .. n : FrameInv(r, fs[i])
    BY <1>1 DEF StackInv
  <1>4. FrameInv(r, g)
    BY <1>1, <1>3 DEF FrameInv
  <1>5. \A i \in 1 .. n : FrameInv(r, gs[i])
    BY <1>1, <1>3, <1>4
  <1>6. \A i, j \in 1 .. n : i < j => Above(gs[i], gs[j])
    BY <1>2 DEF StackInv, Above
  <1>7. \A i \in 1 .. n - 1 : NextAbove(gs[i], gs[i + 1])
    <2> TAKE i \in 1 .. n - 1
    <2>1. i \in 1 .. n /\ i + 1 \in 1 .. n
      BY <1>1
    <2>2. NextAbove(fs[i], fs[i + 1])
      BY DEF StackInv
    <2> QED
      BY <1>2, <2>1, <2>2 DEF NextAbove
  <1>8. StackInv(r, gs)
    BY <1>1, <1>5, <1>6, <1>7 DEF StackInv
  <1> QED
    BY <1>1, <1>2, <1>8 DEF gs, SameTypes

LEMMA StackPop ==
    ASSUME NEW r, NEW fs \in Seq(Frames), fs # <<>>, StackInv(r, fs)
    PROVE  Front(fs) \in Seq(Frames) /\ StackInv(r, Front(fs))
  <1> DEFINE gs == Front(fs)
             n == Len(fs) - 1
  <1>1. /\ gs \in Seq(Frames) /\ Len(gs) = n /\ n \in Nat /\ Len(fs) = n + 1
        /\ \A i \in 1 .. n : gs[i] = fs[i]
    BY FrontLast
  <1> HIDE DEF gs, n
  <1>2. \A i \in 1 .. n : FrameInv(r, gs[i])
    BY <1>1 DEF StackInv
  <1>3. \A i, j \in 1 .. n : i < j => Above(gs[i], gs[j])
    BY <1>1 DEF StackInv
  <1>4. \A i \in 1 .. n - 1 : NextAbove(gs[i], gs[i + 1])
    <2> TAKE i \in 1 .. n - 1
    <2>1. i \in 1 .. n /\ i + 1 \in 1 .. n /\ i \in 1 .. Len(fs) - 1
      BY <1>1
    <2>2. NextAbove(fs[i], fs[i + 1])
      BY <2>1 DEF StackInv
    <2> QED
      BY <1>1, <2>1, <2>2
  <1>5. StackInv(r, gs)
    BY <1>1, <1>2, <1>3, <1>4 DEF StackInv
  <1> QED
    BY <1>1, <1>5 DEF gs

LEMMA StackPush ==
    ASSUME Typed, NEW r, NEW fs \in Seq(Frames), StackInv(r, fs), NEW g \in Frames,
           FrameInv(r, g), \A i \in 1 .. Len(fs) : g.type # fs[i].type,
           fs # <<>> => NextAbove(Last(fs), g)
    PROVE  Append(fs, g) \in Seq(Frames) /\ StackInv(r, Append(fs, g))
  <1> DEFINE gs == Append(fs, g)
             n == Len(fs)
  <1>1. /\ gs \in Seq(Frames) /\ Len(gs) = n + 1 /\ n \in Nat /\ gs[n + 1] = g
        /\ \A i \in 1 .. n : gs[i] = fs[i] /\ fs[i] \in Frames
    BY AppendProperties, LenProperties, ElementOfSeq
  <1>2. ASSUME fs # <<>> PROVE Last(fs) = fs[n] /\ n > 0
    <2>1. Len(fs) \in Nat \ {0} /\ Last(fs) = fs[Len(fs)]
      BY <1>2, FrontLast
    <2> QED
      BY <2>1
  <1>3. n > 0 => fs # <<>>
    BY EmptySeq
  <1> HIDE DEF gs, n
  <1>4. \A i \in 1 .. n : i < n + 1
    BY <1>1
  <1>5. \A i \in 1 .. n + 1 : i \in 1 .. n \/ i = n + 1
    BY <1>1
  <1>6. \A i \in 1 .. n : FrameInv(r, fs[i])
    BY DEF StackInv, n
  <1>7. \A i, j \in 1 .. n : i < j => Above(fs[i], fs[j])
    BY DEF StackInv, n
  <1>8. \A i \in 1 .. n : Above(fs[i], g)
    <2> TAKE i \in 1 .. n
    <2>1. n \in 1 .. n /\ n > 0 /\ fs # <<>> /\ (i = n \/ i < n)
      BY <1>1, <1>3
    <2>2. g.type \in deps[fs[n].type] /\ fs[n].type \in Types /\ fs[i].type \in Types
      BY <1>1, <1>2, <2>1 DEF NextAbove, Frames
    <2>3. CASE i = n
      BY <2>2, <2>3, DescendantsClosed DEF Above, Typed, n
    <2>4. CASE i < n
      <3>1. fs[n].type \in Descendants(fs[i].type)
        BY <1>7, <2>1, <2>4 DEF Above
      <3>2. g.type \in Descendants(fs[i].type)
        BY <2>2, <3>1, DescendantsClosed DEF Typed
      <3> QED
        BY <3>2 DEF Above, n
    <2> QED
      BY <2>1, <2>3, <2>4
  <1>9. \A i \in 1 .. n + 1 : FrameInv(r, gs[i])
    BY <1>1, <1>5, <1>6
  <1>10. \A i, j \in 1 .. n + 1 : i < j => Above(gs[i], gs[j])
    <2> TAKE i, j \in 1 .. n + 1
    <2> HAVE i < j
    <2>1. i \in 1 .. n
      BY <1>1
    <2>2. CASE j \in 1 .. n
      BY <1>1, <1>7, <2>1, <2>2
    <2>3. CASE j = n + 1
      BY <1>1, <1>8, <2>1, <2>3
    <2> QED
      BY <1>5, <2>2, <2>3
  <1>11. \A i \in 1 .. (n + 1) - 1 : NextAbove(gs[i], gs[i + 1])
    <2> TAKE i \in 1 .. (n + 1) - 1
    <2>1. i \in 1 .. n /\ n > 0
      BY <1>1
    <2>2. CASE i = n
      BY <1>1, <1>2, <1>3, <2>1, <2>2
    <2>3. CASE i \in 1 .. n - 1
      <3>1. i \in 1 .. n /\ i + 1 \in 1 .. n
        BY <1>1, <2>3
      <3>2. NextAbove(fs[i], fs[i + 1])
        BY <2>3 DEF StackInv, n
      <3> QED
        BY <1>1, <3>1, <3>2
    <2> QED
      BY <1>1, <2>1, <2>2, <2>3
  <1>12. StackInv(r, gs)
    BY <1>1, <1>9, <1>10, <1>11 DEF StackInv
  <1> QED
    BY <1>1, <1>12 DEF gs

LEMMA AskedOK ==
    ASSUME Typed, NEW r \in Requests, NEW T \in Types,
           frames[r] \in Seq(Frames), StackInv(r, frames[r])
    PROVE  /\ Asked(r, T) \in Seq(Frames) /\ SameTypes(frames[r], Asked(r, T))
           /\ StackInv(r, Asked(r, T))
  <1>1. CASE frames[r] = <<>>
    BY <1>1 DEF Asked, SameTypes
  <1>2. CASE frames[r] # <<>>
    <2> DEFINE n == Len(frames[r])
               f == Last(frames[r])
               g == [f EXCEPT !.todo = @ \ {T}]
    <2>1. n \in Nat \ {0} /\ f = frames[r][n] /\ f \in Frames
      BY <1>2, FrontLast
    <2>2. FrameInv(r, frames[r][n])
      BY <2>1 DEF StackInv
    <2>3. FrameInv(r, f)
      BY <2>1, <2>2
    <2> HIDE DEF f, n
    <2>4. g \in Frames /\ g.type = f.type /\ g.todo \subseteq f.todo
      BY <2>1 DEF Frames
    <2>5. g.holds # {} => Capturing(g.type)
      BY <2>1, <2>3 DEF FrameInv, Frames
    <2> HIDE DEF g
    <2>6. LET gs == Append(Front(frames[r]), g)
          IN  gs \in Seq(Frames) /\ SameTypes(frames[r], gs) /\ StackInv(r, gs)
      BY <1>2, <2>4, <2>5, StackTop DEF f
    <2> QED
      BY <1>2, <2>6 DEF Asked, f, g
  <1> QED
    BY <1>1, <1>2

LEMMA ReceiveOK ==
    ASSUME Typed, NEW r, NEW fs \in Seq(Frames), StackInv(r, fs), NEW h \in SUBSET Requests,
           fs # <<>> /\ h # {} => Capturing(Last(fs).type)
    PROVE  /\ Receive(fs, h) \in Seq(Frames) /\ SameTypes(fs, Receive(fs, h))
           /\ StackInv(r, Receive(fs, h))
  <1>1. CASE fs = <<>>
    BY <1>1 DEF Receive, SameTypes
  <1>2. CASE fs # <<>>
    <2> DEFINE n == Len(fs)
               f == Last(fs)
               g == [f EXCEPT !.holds = @ \cup h]
    <2>1. n \in Nat \ {0} /\ f = fs[n] /\ f \in Frames
      BY <1>2, FrontLast
    <2>2. FrameInv(r, fs[n])
      BY <2>1 DEF StackInv
    <2>3. FrameInv(r, f) /\ (h # {} => Capturing(f.type))
      BY <1>2, <2>1, <2>2
    <2> HIDE DEF f, n
    <2>4. g \in Frames /\ g.type = f.type /\ g.todo \subseteq f.todo
      BY <2>1 DEF Frames
    <2>5. g.holds # {} => Capturing(g.type)
      BY <2>1, <2>3 DEF FrameInv, Frames
    <2> HIDE DEF g
    <2>6. LET gs == Append(Front(fs), g)
          IN  gs \in Seq(Frames) /\ SameTypes(fs, gs) /\ StackInv(r, gs)
      BY <1>2, <2>4, <2>5, StackTop DEF f
    <2> QED
      BY <1>2, <2>6 DEF Receive, f, g
  <1> QED
    BY <1>1, <1>2

-----------------------------------------------------------------------------
(***************************************************************************)
(* The stacks of a task are those of the factories it is in.               *)
(***************************************************************************)
Itself == [T \in Types |-> T]

TasksOK ==
    /\ frames \in [Requests -> Seq(Frames)]
    /\ resolving = [r \in Requests |-> Along(Itself, frames[r])]
    /\ scopes = [r \in Requests |-> Along(scope, frames[r])]

LEMMA TypesAlong ==
    ASSUME NEW fs \in Seq(Frames)
    PROVE  Along(Itself, fs) = [i \in DOMAIN fs |-> fs[i].type]
  <1>1. DOMAIN fs = 1 .. Len(fs) /\ \A i \in 1 .. Len(fs) : fs[i] \in Frames
    BY LenProperties, ElementOfSeq
  <1>2. \A i \in DOMAIN fs : Itself[fs[i].type] = fs[i].type
    BY <1>1 DEF Itself, Frames
  <1> QED
    BY <1>2 DEF Along

RestOK ==
    /\ scope \in [Types -> Scopes] /\ deps \in Graphs /\ checked \in BOOLEAN
    /\ cache \in [Owners -> [Types -> Instances]]
    /\ built \in [Owners -> [Types -> Nat]]
    /\ seen \subseteq Owners \X Types \X Nat
    /\ error \in [Requests -> Errors] /\ resolves \in 0 .. MaxResolves

LEMMA TypeOKIs == TypeOK <=> RestOK /\ TasksOK
  <1>1. ASSUME NEW r \in Requests, frames \in [Requests -> Seq(Frames)]
        PROVE  Along(Itself, frames[r]) = [i \in DOMAIN frames[r] |-> frames[r][i].type]
    BY <1>1, TypesAlong
  <1>2. ASSUME NEW r \in Requests
        PROVE  Along(scope, frames[r]) = [i \in DOMAIN frames[r] |-> scope[frames[r][i].type]]
    BY ONLY DEF Along
  <1>3. TypeOK => TasksOK
    BY ONLY <1>1, <1>2 DEF TypeOK, TasksOK
  <1>4. RestOK /\ TasksOK => TypeOK
    BY ONLY <1>1, <1>2 DEF TypeOK, RestOK, TasksOK
  <1>5. TypeOK => RestOK
    BY ONLY DEF TypeOK, RestOK
  <1> QED
    BY ONLY <1>3, <1>4, <1>5

LEMMA TypeOKNext == ASSUME RestOK', TasksOK' PROVE TypeOK'
  <1>1. ASSUME NEW r \in Requests
        PROVE  Along(Itself, frames'[r]) = [i \in DOMAIN frames'[r] |-> frames'[r][i].type]
    BY TypesAlong DEF TasksOK
  <1> QED
    BY <1>1 DEF TypeOK, RestOK, TasksOK, Along

LEMMA TaskSame ==
    ASSUME TasksOK, Typed, NEW r \in Requests, NEW gs \in Seq(Frames), SameTypes(frames[r], gs),
           frames' = [frames EXCEPT ![r] = gs], UNCHANGED <<registry, resolving, scopes>>
    PROVE  TasksOK'
  <1>1. frames[r] \in Seq(Frames) /\ Itself \in [Types -> Types]
    BY DEF TasksOK, Itself
  <1>2. Along(Itself, gs) = Along(Itself, frames[r]) /\ Along(scope, gs) = Along(scope, frames[r])
    BY <1>1, AlongSame DEF SameTypes, Typed
  <1>3. \A q \in Requests : frames'[q] = IF q = r THEN gs ELSE frames[q]
    BY DEF TasksOK
  <1>4. \A q \in Requests : /\ Along(Itself, frames'[q]) = Along(Itself, frames[q])
                            /\ Along(scope, frames'[q]) = Along(scope, frames[q])
    BY <1>2, <1>3
  <1>5. frames' \in [Requests -> Seq(Frames)]
    BY DEF TasksOK
  <1> QED
    BY <1>4, <1>5 DEF TasksOK, Itself

LEMMA TaskPop ==
    ASSUME TasksOK, Typed, NEW r \in Requests, frames[r] # <<>>,
           NEW gs \in Seq(Frames), SameTypes(Front(frames[r]), gs),
           frames' = [frames EXCEPT ![r] = gs], Drop(r), UNCHANGED registry
    PROVE  TasksOK'
  <1>1. frames[r] \in Seq(Frames) /\ Itself \in [Types -> Types] /\ scope \in [Types -> Scopes]
    BY DEF TasksOK, Typed, Itself
  <1>2. Front(frames[r]) \in Seq(Frames)
    BY <1>1, FrontLast
  <1>3. /\ Along(Itself, gs) = Along(Itself, Front(frames[r]))
        /\ Along(scope, gs) = Along(scope, Front(frames[r]))
    BY <1>1, <1>2, AlongSame DEF SameTypes
  <1>4. /\ Along(Itself, gs) = Front(resolving[r])
        /\ Along(scope, gs) = Front(scopes[r])
    BY <1>1, <1>3, AlongFront DEF TasksOK
  <1>5. frames' \in [Requests -> Seq(Frames)] /\ \A q \in Requests : frames'[q] = IF q = r THEN gs ELSE frames[q]
    BY DEF TasksOK
  <1>6. /\ resolving' = [q \in Requests |-> IF q = r THEN Front(resolving[r]) ELSE resolving[q]]
        /\ scopes' = [q \in Requests |-> IF q = r THEN Front(scopes[r]) ELSE scopes[q]]
    BY DEF TasksOK, Drop
  <1>7. \A q \in Requests : /\ resolving'[q] = Along(Itself, frames'[q])
                            /\ scopes'[q] = Along(scope, frames'[q])
    BY <1>4, <1>5, <1>6 DEF TasksOK
  <1> QED
    BY <1>5, <1>6, <1>7 DEF TasksOK, Itself

LEMMA TaskPush ==
    ASSUME TasksOK, Typed, NEW r \in Requests, NEW gs \in Seq(Frames),
           SameTypes(frames[r], gs), NEW g \in Frames,
           frames' = [frames EXCEPT ![r] = Append(gs, g)],
           resolving' = [resolving EXCEPT ![r] = Append(@, g.type)],
           scopes' = [scopes EXCEPT ![r] = Append(@, scope[g.type])], UNCHANGED registry
    PROVE  TasksOK'
  <1>1. /\ frames[r] \in Seq(Frames) /\ Itself \in [Types -> Types] /\ scope \in [Types -> Scopes]
        /\ Itself[g.type] = g.type
    BY DEF TasksOK, Typed, Itself, Frames
  <1>2. /\ Along(Itself, gs) = resolving[r] /\ Along(scope, gs) = scopes[r]
    BY <1>1, AlongSame DEF SameTypes, TasksOK
  <1>3. /\ Along(Itself, Append(gs, g)) = Append(resolving[r], g.type)
        /\ Along(scope, Append(gs, g)) = Append(scopes[r], scope[g.type])
    <2>1. Along(Itself, Append(gs, g)) = Append(Along(Itself, gs), Itself[g.type])
      BY <1>1, AlongAppend
    <2>2. Along(scope, Append(gs, g)) = Append(Along(scope, gs), scope[g.type])
      BY <1>1, AlongAppend
    <2> QED
      BY <1>1, <1>2, <2>1, <2>2
  <1>4. Append(gs, g) \in Seq(Frames)
    BY AppendProperties
  <1>5. /\ frames' \in [Requests -> Seq(Frames)]
        /\ \A q \in Requests : frames'[q] = IF q = r THEN Append(gs, g) ELSE frames[q]
    BY <1>4 DEF TasksOK
  <1>6. /\ resolving' = [q \in Requests |-> IF q = r THEN Append(resolving[r], g.type) ELSE resolving[q]]
        /\ scopes' = [q \in Requests |-> IF q = r THEN Append(scopes[r], scope[g.type]) ELSE scopes[q]]
    BY DEF TasksOK
  <1>7. \A q \in Requests : /\ resolving'[q] = Along(Itself, frames'[q])
                            /\ scopes'[q] = Along(scope, frames'[q])
    BY <1>3, <1>5, <1>6 DEF TasksOK
  <1> QED
    BY <1>5, <1>6, <1>7 DEF TasksOK, Itself

LEMMA TaskClear ==
    ASSUME TasksOK, Typed, NEW r \in Requests, frames' = [frames EXCEPT ![r] = <<>>],
           resolving' = [resolving EXCEPT ![r] = <<>>], scopes' = [scopes EXCEPT ![r] = <<>>],
           UNCHANGED registry
    PROVE  TasksOK'
  <1>1. Along(Itself, <<>>) = <<>> /\ Along(scope, <<>>) = <<>>
    <2>1. Itself \in [Types -> Types] /\ scope \in [Types -> Scopes] /\ Len(<<>>) = 0
      BY EmptySeq DEF Typed, Itself
    <2>2. ASSUME NEW S, NEW f \in [Types -> S] PROVE Along(f, <<>>) = <<>>
      <3>1. <<>> \in Seq(Frames)
        BY EmptySeq
      <3>2. Along(f, <<>>) \in Seq(S) /\ Len(Along(f, <<>>)) = 0
        BY <2>1, <3>1, AlongSeq
      <3> DEFINE a == Along(f, <<>>)
      <3> HIDE DEF a
      <3>3. a \in Seq(S) /\ Len(a) = 0 => a = <<>>
        BY EmptySeq
      <3> QED
        BY <3>2, <3>3 DEF a
    <2> QED
      BY <2>1, <2>2
  <1>2. /\ frames' \in [Requests -> Seq(Frames)]
        /\ \A q \in Requests : frames'[q] = IF q = r THEN <<>> ELSE frames[q]
    BY EmptySeq DEF TasksOK
  <1>3. /\ resolving' = [q \in Requests |-> IF q = r THEN <<>> ELSE resolving[q]]
        /\ scopes' = [q \in Requests |-> IF q = r THEN <<>> ELSE scopes[q]]
    BY DEF TasksOK
  <1>4. \A q \in Requests : /\ resolving'[q] = Along(Itself, frames'[q])
                            /\ scopes'[q] = Along(scope, frames'[q])
    BY <1>1, <1>2, <1>3 DEF TasksOK
  <1> QED
    BY <1>2, <1>3, <1>4 DEF TasksOK, Itself
-----------------------------------------------------------------------------
(***************************************************************************)
(* The steps.                                                              *)
(***************************************************************************)
LEMMA StackSame ==
    ASSUME UNCHANGED registry, NEW q, NEW fs \in Seq(Frames), StackInv(q, fs),
           \A i \in 1 .. Len(fs) :
               scope[fs[i].type] = "request" => cache'[q][fs[i].type] = cache[q][fs[i].type]
    PROVE  StackInv(q, fs)'
  <1>1. \A i \in 1 .. Len(fs) : fs[i] \in Frames
    BY ElementOfSeq
  <1>2. \A i \in 1 .. Len(fs) : fs[i].type \in Types
    BY <1>1 DEF Frames
  <1>3. \A i \in 1 .. Len(fs) : FrameInv(q, fs[i])'
    BY <1>2, SameRegistry DEF StackInv, FrameInv
  <1>4. \A i, j \in 1 .. Len(fs) : i < j => Above(fs[i], fs[j])'
    BY <1>2, SameRegistry DEF StackInv, Above
  <1>5. \A i \in 1 .. Len(fs) - 1 : NextAbove(fs[i], fs[i + 1])'
    BY DEF StackInv, NextAbove, Outlives
  <1> QED
    BY <1>3, <1>4, <1>5 DEF StackInv

\* A stack of distinct types that lacks one is shorter than there are types.
LEMMA DepthBound ==
    ASSUME NEW s \in Seq(Types), NEW T \in Types, \A i \in 1 .. Len(s) : s[i] # T,
           \A i, j \in 1 .. Len(s) : i < j => s[i] # s[j]
    PROVE  Len(s) < Cardinality(Types)
  <1> DEFINE n == Len(s)
             f == [i \in 1 .. n + 1 |-> IF i = n + 1 THEN T ELSE s[i]]
  <1>1. n \in Nat /\ \A i \in 1 .. n : s[i] \in Types
    BY LenProperties, ElementOfSeq
  <1>2. IsFiniteSet(1 .. n + 1) /\ Cardinality(1 .. n + 1) = n + 1
    BY <1>1, FS_Interval
  <1>3. Cardinality(Types) \in Nat
    BY FS_CardinalityType
  <1>4. f \in [1 .. n + 1 -> Types]
    BY <1>1
  <1>5. \A x, y \in 1 .. n + 1 : f[x] = f[y] => x = y
    BY <1>1
  <1>6. ~(Cardinality(Types) < n + 1)
    <2> DEFINE D == 1 .. n + 1
    <2>1. IsFiniteSet(D) /\ Cardinality(D) = n + 1 /\ f \in [D -> Types]
      BY <1>2, <1>4
    <2>2. \A x, y \in D : f[x] = f[y] => x = y
      BY <1>5
    <2> HIDE DEF D, f, n
    <2>3. ASSUME Cardinality(Types) < Cardinality(D) PROVE FALSE
      <3>1. \E x, y \in D : x # y /\ f[x] = f[y]
        BY <2>1, <2>3, FS_PigeonHole, Zenon
      <3> QED
        BY <2>2, <3>1
    <2> QED
      BY <2>1, <2>3
  <1> QED
    BY <1>1, <1>3, <1>6 DEF n

\* What a resolution finds when it comes to T.
LEMMA Asking ==
    ASSUME IInv, NEW r \in Requests, NEW T \in Types,
           frames[r] # <<>> => T \in Last(frames[r]).todo
    PROVE  /\ Typed /\ TasksOK /\ frames[r] \in Seq(Frames) /\ StackInv(r, frames[r])
           /\ Asked(r, T) \in Seq(Frames) /\ SameTypes(frames[r], Asked(r, T))
           /\ StackInv(r, Asked(r, T))
           /\ frames[r] = <<>> => Dependent(r) = "transient" /\ resolving[r] = <<>>
           /\ frames[r] # <<>> =>
                 /\ Last(frames[r]) = frames[r][Len(frames[r])] /\ Len(frames[r]) \in Nat \ {0}
                 /\ Last(frames[r]).type \in Types /\ T \in deps[Last(frames[r]).type]
                 /\ Dependent(r) = scope[Last(frames[r]).type]
           /\ resolving[r] \in Seq(Types) /\ Len(resolving[r]) = Len(frames[r])
           /\ \A i \in 1 .. Len(frames[r]) : resolving[r][i] = frames[r][i].type
  <1>1. Typed /\ TasksOK
    BY TypeOKIs DEF IInv, RestOK, Typed
  <1>2. frames[r] \in Seq(Frames) /\ StackInv(r, frames[r])
    BY <1>1 DEF IInv, TasksOK
  <1>3. /\ Asked(r, T) \in Seq(Frames) /\ SameTypes(frames[r], Asked(r, T))
        /\ StackInv(r, Asked(r, T))
    BY <1>1, <1>2, AskedOK
  <1> DEFINE fs == frames[r]
  <1>4. /\ Itself \in [Types -> Types] /\ scope \in [Types -> Scopes]
        /\ \A U \in Types : Itself[U] = U
        /\ resolving[r] = Along(Itself, fs) /\ scopes[r] = Along(scope, fs)
    BY <1>1 DEF TasksOK, Typed, Itself
  <1>5. /\ Along(Itself, fs) \in Seq(Types) /\ Len(Along(Itself, fs)) = Len(fs)
        /\ \A i \in 1 .. Len(fs) : Along(Itself, fs)[i] = Itself[fs[i].type]
    BY ONLY <1>2, <1>4, AlongSeq
  <1>6. /\ Along(scope, fs) \in Seq(Scopes) /\ Len(Along(scope, fs)) = Len(fs)
        /\ \A i \in 1 .. Len(fs) : Along(scope, fs)[i] = scope[fs[i].type]
    <2>1. scope \in [Types -> Scopes] /\ fs \in Seq(Frames)
      BY <1>2, <1>4
    <2> HIDE DEF fs
    <2> QED
      BY <2>1, AlongSeq
  <1>7. \A i \in 1 .. Len(fs) : fs[i] \in Frames
    BY <1>2, ElementOfSeq
  <1>8. \A i \in 1 .. Len(fs) : resolving[r][i] = fs[i].type
    BY <1>4, <1>5, <1>7 DEF Frames
  <1>9. ASSUME fs = <<>> PROVE Dependent(r) = "transient" /\ resolving[r] = <<>>
    <2>1. Len(fs) = 0
      BY <1>9
    <2>2. resolving[r] = <<>> /\ scopes[r] = <<>>
      BY <1>4, <1>5, <1>6, <2>1, EmptySeq
    <2> QED
      BY <2>2 DEF Dependent
  <1>10. ASSUME fs # <<>>
         PROVE  /\ Last(fs) = fs[Len(fs)] /\ Len(fs) \in Nat \ {0}
                /\ Last(fs).type \in Types /\ T \in deps[Last(fs).type]
                /\ Dependent(r) = scope[Last(fs).type]
    <2>1. Last(fs) = fs[Len(fs)] /\ Len(fs) \in Nat \ {0} /\ Last(fs) \in Frames
      BY <1>2, <1>10, FrontLast
    <2>2. Len(fs) \in 1 .. Len(fs)
      BY <2>1
    <2>3. FrameInv(r, fs[Len(fs)])
      BY <1>2, <2>2 DEF StackInv
    <2>4. T \in deps[Last(fs).type]
      BY <1>10, <2>1, <2>3 DEF FrameInv
    <2>5. scopes[r] # <<>> /\ Last(scopes[r]) = scope[fs[Len(fs)].type]
      BY <1>4, <1>6, <2>1, <2>2, EmptySeq DEF Last
    <2> QED
      BY <2>1, <2>4, <2>5 DEF Dependent, Frames
  <1> QED
    BY <1>1, <1>2, <1>3, <1>4, <1>5, <1>8, <1>9, <1>10

LEMMA StackStep ==
    ASSUME IInv, TasksOK, NEW r \in Requests, NEW gs \in Seq(Frames), StackInv(r, gs)',
           frames' = [frames EXCEPT ![r] = gs], UNCHANGED registry,
           \A q \in Requests : q # r => cache'[q] = cache[q]
    PROVE  \A q \in Requests : StackInv(q, frames[q])'
  <1>1. \A q \in Requests : frames[q] \in Seq(Frames) /\ frames'[q] = IF q = r THEN gs ELSE frames[q]
    BY DEF TasksOK
  <1>2. ASSUME NEW q \in Requests, q # r PROVE StackInv(q, frames[q])'
    <2>1. frames'[q] = frames[q] /\ frames[q] \in Seq(Frames) /\ cache'[q] = cache[q]
      BY <1>1, <1>2
    <2>2. StackInv(q, frames[q])
      BY DEF IInv
    <2>3. ASSUME NEW fs \in Seq(Frames), fs = frames[q] PROVE StackInv(q, fs)'
      BY <2>1, <2>2, <2>3, StackSame
    <2> QED
      BY <2>1, <2>3
  <1> QED
    BY <1>1, <1>2

\* A step that leaves the caches as they are.
LEMMA CacheSame ==
    ASSUME IInv, UNCHANGED <<registry, cache, built>>
    PROVE  CheckedInv' /\ CacheInv'
  <1>1. CheckedInv'
    BY SameRegistry DEF IInv, CheckedInv
  <1>2. CacheInv'
    BY SameRegistry DEF IInv, CacheInv
  <1> QED
    BY <1>1, <1>2

LEMMA ErrorStep ==
    ASSUME IInv, UNCHANGED registry, NEW r \in Requests, NEW e \in Errors,
           error' = [error EXCEPT ![r] = e],
           e = "scope" => ~ScopesAreCompatible,
           e = "cycle" => ~Acyclic \/ MaxDepth < Cardinality(Types)
    PROVE  ErrorInv' /\ error' \in [Requests -> Errors]
  <1>1. error \in [Requests -> Errors]
    BY DEF IInv, TypeOK
  <1>2. error' \in [Requests -> Errors] /\ \A q \in Requests : error'[q] = IF q = r THEN e ELSE error[q]
    BY <1>1
  <1>3. ScopesAreCompatible' = ScopesAreCompatible /\ Acyclic' = Acyclic
    BY SameRegistry
  <1> QED
    BY <1>2, <1>3 DEF IInv, ErrorInv

LEMMA RefusedStep ==
    ASSUME IInv, NEW r \in Requests, NEW T \in Types, Refused(r, T),
           frames[r] # <<>> => T \in Last(frames[r]).todo, resolves' \in 0 .. MaxResolves
    PROVE  IInv'
  <1>0. PICK gs \in Seq(Frames) : gs = Asked(r, T)
    BY Asking
  <1>1. /\ Typed /\ TasksOK /\ gs \in Seq(Frames) /\ SameTypes(frames[r], gs)
        /\ StackInv(r, gs)
    BY <1>0, Asking
  <1>2. /\ frames' = [frames EXCEPT ![r] = gs] /\ error' = [error EXCEPT ![r] = "scope"]
        /\ UNCHANGED <<caches, resolving, scopes>> /\ UNCHANGED registry
        /\ cache' = cache /\ built' = built /\ seen' = seen
    BY <1>0 DEF Refused
  <1>3. ~ScopesAreCompatible
    <2> DEFINE D == Last(frames[r]).type
    <2>1. Dependent(r) = "singleton" /\ scope[T] = "request"
      BY DEF Refused, Outlives
    <2>2. frames[r] # <<>>
      BY <2>1, Asking
    <2>3. D \in Types /\ T \in deps[D] /\ scope[D] = "singleton"
      BY <2>1, <2>2, Asking
    <2> HIDE DEF D
    <2>4. T \in Reached(D)
      BY <1>1, <2>3, ReachedClosed DEF Typed
    <2>5. T \in Reached(D) \ {D}
      BY <2>1, <2>3, <2>4
    <2> QED
      BY <2>1, <2>3, <2>5 DEF ScopesAreCompatible
  <1>4. ErrorInv' /\ error' \in [Requests -> Errors]
    BY <1>2, <1>3, ErrorStep DEF Errors
  <1>5. TasksOK'
    BY <1>1, <1>2, TaskSame
  <1>6. RestOK'
    BY <1>2, <1>4 DEF IInv, TypeOK, RestOK
  <1>7. StackInv(r, gs)'
    BY <1>1, <1>2, StackSame
  <1>8. \A q \in Requests : StackInv(q, frames[q])'
    BY <1>1, <1>2, <1>7, StackStep
  <1>9. CheckedInv' /\ CacheInv' /\ SeenInv'
    BY <1>2, CacheSame DEF IInv, SeenInv
  <1> QED
    BY <1>4, <1>5, <1>6, <1>8, <1>9, TypeOKNext DEF IInv

LEMMA CircularStep ==
    ASSUME IInv, NEW r \in Requests, NEW T \in Types, Circular(r, T),
           frames[r] # <<>> => T \in Last(frames[r]).todo, resolves' \in 0 .. MaxResolves
    PROVE  IInv'
  <1>0. PICK gs \in Seq(Frames) : gs = Asked(r, T)
    BY Asking
  <1> DEFINE fs == frames[r]
             n == Len(fs)
  <1>1. /\ Typed /\ TasksOK /\ gs \in Seq(Frames) /\ SameTypes(fs, gs)
        /\ StackInv(r, gs) /\ StackInv(r, fs) /\ fs \in Seq(Frames)
    BY <1>0, Asking
  <1>2. /\ frames' = [frames EXCEPT ![r] = gs] /\ error' = [error EXCEPT ![r] = "cycle"]
        /\ UNCHANGED <<caches, resolving, scopes>> /\ UNCHANGED registry
        /\ cache' = cache /\ built' = built /\ seen' = seen
    BY <1>0 DEF Circular
  <1>3. /\ resolving[r] \in Seq(Types) /\ Len(resolving[r]) = n /\ n \in Nat
        /\ \A i \in 1 .. n : resolving[r][i] = fs[i].type
    BY Asking, LenProperties
  <1>4. ASSUME NEW i \in 1 .. n, fs[i].type = T PROVE ~Acyclic
    <2>1. n \in 1 .. n /\ fs # <<>>
      BY <1>3, EmptySeq
    <2>2. fs[n].type \in Types /\ T \in deps[fs[n].type]
      BY <2>1, Asking
    <2>3. T \in Descendants(fs[n].type)
      BY <1>1, <2>2, DescendantsClosed DEF Typed
    <2>4. CASE i = n
      BY <1>4, <2>3, <2>4 DEF Acyclic
    <2>5. CASE i < n
      <3>1. fs[n].type \in Descendants(T)
        BY <1>1, <1>4, <2>1, <2>5 DEF StackInv, Above
      <3>2. T \in Descendants(T)
        BY <1>1, <2>2, <3>1, DescendantsClosed DEF Typed
      <3> QED
        BY <3>2 DEF Acyclic
    <2> QED
      BY <1>3, <2>4, <2>5
  <1>5. ASSUME T \in ToSet(resolving[r]) PROVE ~Acyclic
    <2>1. DOMAIN resolving[r] = 1 .. n
      BY <1>3, LenProperties
    <2> QED
      BY <1>3, <1>4, <1>5, <2>1 DEF ToSet
  <1>6. ASSUME T \notin ToSet(resolving[r]), n >= MaxDepth PROVE MaxDepth < Cardinality(Types)
    <2> DEFINE s == resolving[r]
    <2>1. DOMAIN s = 1 .. n
      BY <1>3, LenProperties
    <2>2. \A i \in 1 .. Len(s) : s[i] # T
      BY <1>3, <1>6, <2>1 DEF ToSet
    <2>3. \A i, j \in 1 .. Len(s) : i < j => s[i] # s[j]
      BY <1>1, <1>3 DEF StackInv, Above
    <2> HIDE DEF s
    <2>4. Len(s) < Cardinality(Types)
      BY <1>3, <2>2, <2>3, DepthBound DEF s
    <2> QED
      BY <1>3, <1>6, <2>4, FS_CardinalityType DEF s
  <1>7. ~Acyclic \/ MaxDepth < Cardinality(Types)
    <2>1. T \in ToSet(resolving[r]) \/ Len(resolving[r]) >= MaxDepth
      BY DEF Circular
    <2> QED
      BY <1>3, <1>5, <1>6, <2>1
  <1> HIDE DEF fs, n
  <1>8. ErrorInv' /\ error' \in [Requests -> Errors]
    BY <1>2, <1>7, ErrorStep DEF Errors
  <1>9. TasksOK'
    BY <1>1, <1>2, TaskSame DEF fs
  <1>10. RestOK'
    BY <1>2, <1>8 DEF IInv, TypeOK, RestOK
  <1>11. StackInv(r, gs)'
    BY <1>1, <1>2, StackSame
  <1>12. \A q \in Requests : StackInv(q, frames[q])'
    BY <1>1, <1>2, <1>11, StackStep
  <1>13. CheckedInv' /\ CacheInv' /\ SeenInv'
    BY <1>2, CacheSame DEF IInv, SeenInv
  <1> QED
    BY <1>8, <1>9, <1>10, <1>12, <1>13, TypeOKNext DEF IInv

\* The top of the stack asks, or nothing does.
LEMMA AskedTop ==
    ASSUME IInv, NEW r \in Requests, NEW T \in Types,
           frames[r] # <<>> => T \in Last(frames[r]).todo,
           NEW gs \in Seq(Frames), SameTypes(frames[r], gs), gs # <<>>
    PROVE  /\ Last(gs).type \in Types /\ T \in deps[Last(gs).type]
           /\ Dependent(r) = scope[Last(gs).type]
  <1>1. Len(gs) \in Nat \ {0} /\ Last(gs) = gs[Len(gs)]
    BY FrontLast
  <1>2. frames[r] # <<>>
    <2>1. Len(<<>>) = 0 /\ Len(frames[r]) # 0
      BY <1>1, EmptySeq DEF SameTypes
    <2> QED
      BY <2>1
  <1>3. /\ Last(frames[r]) = frames[r][Len(frames[r])]
        /\ Last(frames[r]).type \in Types /\ T \in deps[Last(frames[r]).type]
        /\ Dependent(r) = scope[Last(frames[r]).type]
    BY <1>2, Asking
  <1>4. Last(gs).type = Last(frames[r]).type
    BY <1>1, <1>3 DEF SameTypes
  <1> QED
    BY <1>3, <1>4

LEMMA HitStep ==
    ASSUME IInv, NEW r \in Requests, NEW T \in Types, Hit(r, T),
           frames[r] # <<>> => T \in Last(frames[r]).todo, resolves' \in 0 .. MaxResolves
    PROVE  IInv'
  <1>0. PICK hs \in Seq(Frames) : hs = Asked(r, T)
    BY Asking
  <1> DEFINE o == Owner(r, T)
             found == cache[o][T]
  <1>1. /\ Typed /\ TasksOK /\ SameTypes(frames[r], hs) /\ StackInv(r, hs)
    BY <1>0, Asking
  <1>2. /\ o \in Owners /\ found \in Instances /\ found # Nothing /\ Cached(T)
        /\ Outlives(scope[T], Dependent(r))
        /\ found.holds # {} => scope[T] = "request" \/ Capturing(T)
        /\ o \in Requests => o = r /\ found.n > 0
    BY DEF Hit, IInv, TypeOK, CacheInv, Owner, Owners
  <1>3. ASSUME hs # <<>>, found.holds # {} PROVE Capturing(Last(hs).type)
    BY <1>1, <1>2, <1>3, AskedTop, CapturedUp DEF Typed
  <1>4. PICK gs \in Seq(Frames) : gs = Receive(hs, found.holds)
    <2>1. found.holds \in SUBSET Requests
      BY <1>2 DEF Instances
    <2> HIDE DEF found
    <2> QED
      BY <1>1, <1>3, <2>1, ReceiveOK
  <1>5. SameTypes(hs, gs) /\ StackInv(r, gs)
    <2>1. found.holds \in SUBSET Requests
      BY <1>2 DEF Instances
    <2> HIDE DEF found
    <2> QED
      BY <1>1, <1>3, <1>4, <2>1, ReceiveOK
  <1>6. SameTypes(frames[r], gs)
    BY <1>1, <1>5 DEF SameTypes
  <1>7. /\ frames' = [frames EXCEPT ![r] = gs] /\ seen' = seen \cup {<<o, T, found.n>>}
        /\ UNCHANGED <<resolving, scopes>> /\ UNCHANGED registry
        /\ cache' = cache /\ built' = built /\ error' = error
    BY <1>0, <1>2, <1>4 DEF Hit, Handed
  <1>8. TasksOK'
    BY <1>1, <1>6, <1>7, TaskSame
  <1>9. RestOK'
    BY <1>2, <1>7 DEF IInv, TypeOK, RestOK, Instances
  <1>10. StackInv(r, gs)'
    BY <1>5, <1>7, StackSame
  <1>11. \A q \in Requests : StackInv(q, frames[q])'
    BY <1>1, <1>7, <1>10, StackStep
  <1>12. SeenInv'
    BY <1>2, <1>7 DEF IInv, SeenInv
  <1>13. ErrorInv'
    BY <1>7, SameRegistry DEF IInv, ErrorInv
  <1> QED
    BY <1>7, <1>8, <1>9, <1>11, <1>12, <1>13, CacheSame, TypeOKNext DEF IInv

LEMMA EnterStep ==
    ASSUME IInv, NEW r \in Requests, NEW T \in Types, Enter(r, T),
           frames[r] # <<>> => T \in Last(frames[r]).todo, resolves' \in 0 .. MaxResolves
    PROVE  IInv'
  <1>0. PICK hs \in Seq(Frames) : hs = Asked(r, T)
    BY Asking
  <1>1. PICK g \in Frames : g = [type |-> T, todo |-> deps[T], holds |-> {}]
    BY Asking DEF Typed, Frames
  <1>2. /\ Typed /\ TasksOK /\ SameTypes(frames[r], hs) /\ StackInv(r, hs)
    BY <1>0, Asking
  <1>3. FrameInv(r, g)
    BY <1>1 DEF FrameInv, Enter, Miss, Cached, Owner
  <1>4. \A i \in 1 .. Len(hs) : g.type # hs[i].type
    <2>1. /\ resolving[r] \in Seq(Types) /\ Len(resolving[r]) = Len(frames[r])
          /\ \A i \in 1 .. Len(frames[r]) : resolving[r][i] = frames[r][i].type
      BY Asking
    <2>2. DOMAIN resolving[r] = 1 .. Len(frames[r])
      BY <2>1, LenProperties
    <2>3. \A i \in 1 .. Len(frames[r]) : frames[r][i].type # T
      BY <2>1, <2>2 DEF Enter, ToSet
    <2> QED
      BY <1>1, <1>2, <2>3 DEF SameTypes
  <1>5. ASSUME hs # <<>> PROVE NextAbove(Last(hs), g)
    BY <1>1, <1>2, <1>5, AskedTop DEF NextAbove, Enter, Miss
  <1>6. PICK gs \in Seq(Frames) : gs = Append(hs, g) /\ StackInv(r, gs)
    BY <1>2, <1>3, <1>4, <1>5, StackPush
  <1>7. /\ frames' = [frames EXCEPT ![r] = Append(hs, g)] /\ error' = error
        /\ resolving' = [resolving EXCEPT ![r] = Append(@, g.type)]
        /\ scopes' = [scopes EXCEPT ![r] = Append(@, scope[g.type])]
        /\ UNCHANGED registry
        /\ cache' = cache /\ built' = built /\ seen' = seen
    BY <1>0, <1>1 DEF Enter
  <1>8. TasksOK'
    BY <1>2, <1>7, TaskPush
  <1>9. RestOK'
    BY <1>7 DEF IInv, TypeOK, RestOK
  <1>10. StackInv(r, gs)'
    BY <1>6, <1>7, StackSame
  <1>11. \A q \in Requests : StackInv(q, frames[q])'
    BY <1>2, <1>6, <1>7, <1>10, StackStep
  <1>12. SeenInv'
    BY <1>7 DEF IInv, SeenInv
  <1>13. ErrorInv'
    BY <1>7, SameRegistry DEF IInv, ErrorInv
  <1> QED
    BY <1>7, <1>8, <1>9, <1>11, <1>12, <1>13, CacheSame, TypeOKNext DEF IInv

\* A factory is left: what lies under it stays a stack of the request.
LEMMA Leaving ==
    ASSUME IInv, NEW r \in Requests, frames[r] # <<>>
    PROVE  /\ Typed /\ TasksOK /\ frames[r] \in Seq(Frames)
           /\ Front(frames[r]) \in Seq(Frames) /\ StackInv(r, Front(frames[r]))
           /\ Top(r) \in Frames /\ FrameInv(r, Top(r))
           /\ \A i \in 1 .. Len(Front(frames[r])) : Front(frames[r])[i].type # Top(r).type
           /\ Front(frames[r]) # <<>> => NextAbove(Last(Front(frames[r])), Top(r))
  <1>1. Typed /\ TasksOK /\ frames[r] \in Seq(Frames) /\ StackInv(r, frames[r])
    BY TypeOKIs DEF IInv, RestOK, Typed, TasksOK
  <1> DEFINE fs == frames[r]
             hs == Front(fs)
             n == Len(fs)
  <1>2. hs \in Seq(Frames) /\ StackInv(r, hs)
    BY <1>1, StackPop
  <1>3. /\ n \in Nat \ {0} /\ Last(fs) = fs[n] /\ Last(fs) \in Frames /\ Len(hs) = n - 1
        /\ \A i \in 1 .. n - 1 : hs[i] = fs[i]
    BY <1>1, FrontLast
  <1>4. n \in 1 .. n
    BY <1>3
  <1>5. FrameInv(r, Top(r)) /\ Top(r) \in Frames
    BY <1>1, <1>3, <1>4 DEF Top, StackInv
  <1>6. \A i \in 1 .. n - 1 : hs[i].type # fs[n].type
    BY <1>1, <1>3, <1>4 DEF StackInv, Above
  <1>7. ASSUME hs # <<>> PROVE NextAbove(Last(hs), fs[n])
    <2>1. Len(hs) \in Nat \ {0} /\ Last(hs) = hs[Len(hs)]
      BY <1>2, <1>7, FrontLast
    <2> DEFINE m == n - 1
    <2>2. \A i \in 1 .. n - 1 : NextAbove(fs[i], fs[i + 1])
      BY <1>1 DEF StackInv
    <2> HIDE DEF fs, hs, n
    <2>3. m \in 1 .. n - 1 /\ m + 1 = n /\ Last(hs) = fs[m]
      BY <1>3, <2>1
    <2> HIDE DEF m
    <2> QED
      BY <2>2, <2>3
  <1> QED
    BY <1>1, <1>2, <1>3, <1>5, <1>6, <1>7 DEF Top

LEMMA FailStep ==
    ASSUME IInv, NEW r \in Requests, Fail(r)
    PROVE  IInv'
  <1>0. frames[r] # <<>>
    BY DEF Fail
  <1>1. PICK gs \in Seq(Frames) : gs = Front(frames[r])
    BY <1>0, Leaving
  <1>2. Typed /\ TasksOK /\ StackInv(r, gs) /\ SameTypes(Front(frames[r]), gs)
    BY <1>0, <1>1, Leaving DEF SameTypes
  <1> DEFINE e == IF error[r] = "none" THEN "factory" ELSE error[r]
  <1>3. /\ frames' = [frames EXCEPT ![r] = gs] /\ error' = [error EXCEPT ![r] = e] /\ Drop(r)
        /\ UNCHANGED registry /\ cache' = cache /\ built' = built /\ seen' = seen
        /\ resolves' = resolves
    BY <1>1 DEF Fail
  <1>4. e \in Errors /\ (e = "scope" => ~ScopesAreCompatible)
        /\ (e = "cycle" => ~Acyclic \/ MaxDepth < Cardinality(Types))
    BY DEF IInv, ErrorInv, TypeOK, Errors
  <1> HIDE DEF e
  <1>5. ErrorInv' /\ error' \in [Requests -> Errors]
    BY <1>3, <1>4, ErrorStep
  <1>6. TasksOK'
    BY <1>0, <1>2, <1>3, TaskPop
  <1>7. RestOK'
    BY <1>3, <1>5 DEF IInv, TypeOK, RestOK
  <1>8. StackInv(r, gs)'
    BY <1>2, <1>3, StackSame
  <1>9. \A q \in Requests : StackInv(q, frames[q])'
    BY <1>2, <1>3, <1>8, StackStep
  <1>10. SeenInv'
    BY <1>3 DEF IInv, SeenInv
  <1> QED
    BY <1>3, <1>5, <1>6, <1>7, <1>9, <1>10, CacheSame, TypeOKNext DEF IInv

LEMMA SwallowStep ==
    ASSUME IInv, NEW r \in Requests, Swallow(r)
    PROVE  IInv'
  <1>1. /\ error' = [error EXCEPT ![r] = "none"] /\ UNCHANGED registry
        /\ cache' = cache /\ built' = built /\ seen' = seen /\ frames' = frames
        /\ resolving' = resolving /\ scopes' = scopes /\ resolves' = resolves
    BY DEF Swallow
  <1>2. ErrorInv' /\ error' \in [Requests -> Errors]
    BY <1>1, ErrorStep DEF Errors
  <1>3. RestOK'
    BY <1>1, <1>2 DEF IInv, TypeOK, RestOK
  <1>4. TasksOK
    BY TypeOKIs DEF IInv
  <1>5. TasksOK'
    BY <1>1, <1>4 DEF TasksOK
  <1>6. ASSUME NEW q \in Requests PROVE StackInv(q, frames[q])'
    <2>1. PICK fs \in Seq(Frames) : fs = frames[q]
      BY <1>4 DEF TasksOK
    <2>2. StackInv(q, fs)'
      BY <1>1, <2>1, StackSame DEF IInv
    <2> QED
      BY <1>1, <2>1, <2>2
  <1>7. SeenInv'
    BY <1>1 DEF IInv, SeenInv
  <1> QED
    BY <1>1, <1>2, <1>3, <1>5, <1>6, <1>7, CacheSame, TypeOKNext DEF IInv

LEMMA CancelStep ==
    ASSUME IInv, NEW r \in Requests, Cancel(r)
    PROVE  IInv'
  <1>1. PICK gs \in Seq(Frames) : gs = <<>>
    BY EmptySeq
  <1>2. StackInv(r, gs)
    BY <1>1 DEF StackInv
  <1>3. /\ error' = [error EXCEPT ![r] = "none"] /\ UNCHANGED registry
        /\ cache' = cache /\ built' = built /\ seen' = seen
        /\ frames' = [frames EXCEPT ![r] = gs] /\ frames' = [frames EXCEPT ![r] = <<>>]
        /\ resolving' = [resolving EXCEPT ![r] = <<>>]
        /\ scopes' = [scopes EXCEPT ![r] = <<>>] /\ resolves' = resolves
    BY <1>1 DEF Cancel
  <1>4. ErrorInv' /\ error' \in [Requests -> Errors]
    BY <1>3, ErrorStep DEF Errors
  <1>5. RestOK'
    BY <1>3, <1>4 DEF IInv, TypeOK, RestOK
  <1>6. TasksOK /\ Typed
    BY TypeOKIs DEF IInv, RestOK, Typed
  <1>7. TasksOK'
    BY <1>3, <1>6, TaskClear
  <1>8. StackInv(r, gs)'
    BY <1>2, <1>3, StackSame
  <1>9. \A q \in Requests : StackInv(q, frames[q])'
    BY <1>3, <1>6, <1>8, StackStep
  <1>10. SeenInv'
    BY <1>3 DEF IInv, SeenInv
  <1> QED
    BY <1>3, <1>4, <1>5, <1>7, <1>9, <1>10, CacheSame, TypeOKNext DEF IInv

LEMMA FinishStep ==
    ASSUME IInv, NEW r \in Requests, Finish(r)
    PROVE  IInv'
  <1>0. frames[r] # <<>>
    BY DEF Finish
  <1> DEFINE f == Top(r)
             T == f.type
             o == Owner(r, T)
             own == IF scope[T] = "request" THEN {r} ELSE {}
             i == [n |-> built[o][T] + 1, holds |-> f.holds \cup own]
  <1>1. PICK hs \in Seq(Frames) : hs = Front(frames[r])
    BY <1>0, Leaving
  <1>2. /\ Typed /\ TasksOK /\ StackInv(r, hs) /\ f \in Frames /\ FrameInv(r, f)
        /\ \A j \in 1 .. Len(hs) : hs[j].type # T
        /\ hs # <<>> => NextAbove(Last(hs), f)
    BY <1>0, <1>1, Leaving
  <1>3. T \in Types /\ o \in Owners /\ i \in Instances /\ i.n > 0 /\ scope[T] \in Scopes
    BY <1>2 DEF IInv, TypeOK, Instances, Frames, Owner, Owners
  <1>4. i.holds # {} => scope[T] = "request" \/ Capturing(T)
    BY <1>2 DEF FrameInv
  <1>5. /\ Handed(r, T, i.n) /\ Store(r, T, i) /\ UNCHANGED registry /\ Drop(r)
        /\ frames' = [frames EXCEPT ![r] = Receive(Front(@), i.holds)]
        /\ error' = error /\ resolves' = resolves
    BY DEF Finish
  <1> HIDE DEF i, T, f
  <1>6. ASSUME hs # <<>>, i.holds # {} PROVE Capturing(Last(hs).type)
    <2>1. Last(hs) \in Frames
      BY <1>6, FrontLast
    <2>2. T \in deps[Last(hs).type] /\ Outlives(scope[T], scope[Last(hs).type])
      BY <1>2, <1>6 DEF NextAbove, T
    <2> QED
      BY <1>2, <1>4, <1>6, <2>1, <2>2, CapturedUp DEF Typed, Frames
  <1>7. i.holds \in SUBSET Requests /\ i.n \in Nat
    BY <1>3 DEF Instances
  <1>8. PICK gs \in Seq(Frames) : gs = Receive(hs, i.holds) /\ SameTypes(hs, gs) /\ StackInv(r, gs)
    BY <1>2, <1>6, <1>7, ReceiveOK
  <1>9. frames' = [frames EXCEPT ![r] = gs]
    BY <1>1, <1>5, <1>8
  <1>10. \A j \in 1 .. Len(gs) : gs[j].type # T
    BY <1>2, <1>8 DEF SameTypes
  <1>11. TasksOK'
    BY <1>0, <1>1, <1>2, <1>5, <1>8, <1>9, TaskPop
  <1>12. /\ cache \in [Owners -> [Types -> Instances]] /\ built \in [Owners -> [Types -> Nat]]
         /\ error \in [Requests -> Errors] /\ seen \subseteq Owners \X Types \X Nat
    BY DEF IInv, TypeOK
  <1>13. /\ \A q \in Owners, U \in Types :
              <<q, U>> # <<o, T>> => cache'[q][U] = cache[q][U] /\ built'[q][U] = built[q][U]
         /\ ~Cached(T) => cache' = cache /\ built' = built /\ seen' = seen
         /\ Cached(T) => /\ cache'[o][T] = i /\ built'[o][T] = i.n
                         /\ seen' = seen \cup {<<o, T, i.n>>}
         /\ cache' \in [Owners -> [Types -> Instances]] /\ built' \in [Owners -> [Types -> Nat]]
    <2>1. CASE Cached(T)
      <3>1. /\ cache' = [cache EXCEPT ![o][T] = i] /\ built' = [built EXCEPT ![o][T] = i.n]
            /\ seen' = seen \cup {<<o, T, i.n>>}
        BY <1>5, <2>1 DEF Store, Handed
      <3> HIDE DEF o
      <3>2. cache' \in [Owners -> [Types -> Instances]] /\ cache'[o][T] = i
        BY <1>3, <1>12, <3>1
      <3>3. built' \in [Owners -> [Types -> Nat]] /\ built'[o][T] = i.n
        BY <1>3, <1>7, <1>12, <3>1
      <3>4. ASSUME NEW q \in Owners, NEW U \in Types, <<q, U>> # <<o, T>>
            PROVE  cache'[q][U] = cache[q][U] /\ built'[q][U] = built[q][U]
        BY <1>3, <1>12, <3>1, <3>4
      <3> QED
        BY <2>1, <3>1, <3>2, <3>3, <3>4
    <2>2. CASE ~Cached(T)
      BY <1>5, <1>12, <2>2 DEF Store, Handed
    <2> QED
      BY <2>1, <2>2
  <1>14. RestOK'
    BY <1>3, <1>5, <1>7, <1>12, <1>13 DEF IInv, TypeOK, RestOK
  <1>15. /\ o = App => scope[T] = "singleton"
         /\ o # App => o = r /\ scope[T] # "singleton"
         /\ scope[T] = "request" => o = r
         /\ Cached(T) /\ o = r => scope[T] = "request"
    BY <1>3 DEF Owner, Cached, Scopes
  <1>16. StackInv(r, gs)'
    <2>1. \A j \in 1 .. Len(gs) : gs[j] \in Frames
      BY ElementOfSeq
    <2>2. \A j \in 1 .. Len(gs) : cache'[r][gs[j].type] = cache[r][gs[j].type]
      BY <1>10, <1>13, <2>1 DEF Owners, Frames
    <2> QED
      BY <1>5, <1>8, <2>2, StackSame
  <1>17. \A q \in Requests : q # r => cache'[q] = cache[q]
    <2>1. ASSUME NEW q \in Requests, q # r PROVE cache'[q] = cache[q]
      <3>1. q \in Owners /\ q # o
        BY <1>15, <2>1 DEF Owners
      <3>2. \A U \in Types : cache'[q][U] = cache[q][U]
        BY <1>13, <3>1
      <3>3. cache[q] \in [Types -> Instances] /\ cache'[q] \in [Types -> Instances]
        BY <1>12, <1>13, <3>1
      <3> QED
        BY <3>2, <3>3
    <2> QED
      BY <2>1
  <1>18. \A q \in Requests : StackInv(q, frames[q])'
    BY <1>2, <1>5, <1>9, <1>16, <1>17, StackStep
  <1>19. CheckedInv'
    BY <1>5, SameRegistry DEF IInv, CheckedInv
  <1>20. CacheInv'
    <2> SUFFICES ASSUME NEW U \in Types
                 PROVE  /\ \A q \in Owners :
                            cache'[q][U].holds # {} => scope[U] = "request" \/ Capturing(U)
                        /\ cache'[App][U] # Nothing => scope[U] = "singleton"
                        /\ \A q \in Requests :
                            /\ cache'[q][U] # Nothing => scope[U] = "request" /\ cache'[q][U].n > 0
                            /\ built'[q][U] = cache'[q][U].n
      BY <1>5, SameRegistry DEF CacheInv
    <2>1. /\ \A q \in Owners :
              cache[q][U].holds # {} => scope[U] = "request" \/ Capturing(U)
          /\ cache[App][U] # Nothing => scope[U] = "singleton"
          /\ \A q \in Requests :
              /\ cache[q][U] # Nothing => scope[U] = "request" /\ cache[q][U].n > 0
              /\ built[q][U] = cache[q][U].n
      BY DEF IInv, CacheInv
    <2>2. ASSUME NEW q \in Owners, cache'[q][U].holds # {}
          PROVE  scope[U] = "request" \/ Capturing(U)
      BY <1>4, <1>13, <2>1, <2>2
    <2>3. ASSUME cache'[App][U] # Nothing PROVE scope[U] = "singleton"
      BY <1>13, <1>15, <2>1, <2>3 DEF Owners
    <2>4. ASSUME NEW q \in Requests
          PROVE  /\ cache'[q][U] # Nothing => scope[U] = "request" /\ cache'[q][U].n > 0
                 /\ built'[q][U] = cache'[q][U].n
      <3>1. q \in Owners /\ q # App
        BY DEF Owners
      <3>2. CASE Cached(T) /\ q = o /\ U = T
        BY <1>3, <1>13, <1>15, <3>1, <3>2
      <3>3. CASE ~(Cached(T) /\ q = o /\ U = T)
        <4>1. cache'[q][U] = cache[q][U] /\ built'[q][U] = built[q][U]
          BY <1>13, <3>1, <3>3
        <4> QED
          BY <2>1, <4>1
      <3> QED
        BY <3>2, <3>3
    <2> QED
      BY <2>2, <2>3, <2>4
  <1>21. SeenInv'
    <2> SUFFICES ASSUME NEW x \in seen', x[1] \in Requests
                 PROVE  x[3] > 0 /\ x[3] = cache'[x[1]][x[2]].n
      BY DEF SeenInv
    <2>1. CASE x \in seen
      <3>1. /\ x[3] > 0 /\ x[3] = cache[x[1]][x[2]].n /\ x[1] \in Owners /\ x[2] \in Types
            /\ x[3] \in Nat
        BY <1>12, <2>1 DEF IInv, SeenInv
      <3>2. ~(Cached(T) /\ x[1] = o /\ x[2] = T)
        BY <1>2, <1>15, <3>1 DEF FrameInv, Nothing, T
      <3> QED
        BY <1>13, <3>1, <3>2
    <2>2. CASE x \notin seen
      BY <1>3, <1>13, <2>2
    <2> QED
      BY <2>1, <2>2
  <1>22. ErrorInv'
    BY <1>5, SameRegistry DEF IInv, ErrorInv
  <1> QED
    BY <1>11, <1>14, <1>18, <1>19, <1>20, <1>21, <1>22, TypeOKNext DEF IInv
-----------------------------------------------------------------------------
LEMMA InvInit == Init => IInv
  <1> SUFFICES ASSUME Init PROVE IInv
    OBVIOUS
  <1> USE DEF Init
  <1>1. TypeOK
    BY EmptySeq DEF TypeOK, Owners, Errors, Instances, Nothing
  <1>2. \A r \in Requests : StackInv(r, frames[r])
    BY EmptySeq DEF StackInv
  <1>3. CacheInv
    BY DEF CacheInv, Nothing, Owners
  <1>4. CheckedInv /\ SeenInv /\ ErrorInv
    BY DEF CheckedInv, SeenInv, ErrorInv
  <1> QED
    BY <1>1, <1>2, <1>3, <1>4 DEF IInv

LEMMA ResolveStep ==
    ASSUME IInv, NEW r \in Requests, NEW T \in Types, Resolve(r, T),
           frames[r] # <<>> => T \in Last(frames[r]).todo, resolves' \in 0 .. MaxResolves
    PROVE  IInv'
  BY RefusedStep, HitStep, CircularStep, EnterStep DEF Resolve

LEMMA InvStep == ASSUME IInv, [Next]_vars PROVE IInv'
  <1>1. resolves \in 0 .. MaxResolves /\ TasksOK
    BY TypeOKIs DEF IInv, RestOK
  <1>2. ASSUME NEW r \in Requests, Depend(r) PROVE IInv'
    <2>1. PICK T \in Top(r).todo : Resolve(r, T)
      BY <1>2 DEF Depend
    <2>2. Top(r).todo \subseteq Types
      BY <1>2, Leaving DEF Depend, Frames
    <2> QED
      BY <1>1, <1>2, <2>1, <2>2, ResolveStep DEF Depend, Top
  <1>3. ASSUME NEW r \in Requests, NEW T \in Types, Ask(r, T) PROVE IInv'
    <2>1. resolves' \in 0 .. MaxResolves
      BY <1>1, <1>3 DEF Ask
    <2> QED
      BY <1>3, <2>1, ResolveStep DEF Ask
  <1>4. CASE UNCHANGED vars
    <2>1. /\ UNCHANGED registry /\ cache' = cache /\ built' = built /\ seen' = seen
          /\ frames' = frames /\ resolving' = resolving /\ scopes' = scopes
          /\ error' = error /\ resolves' = resolves
      BY <1>4 DEF vars
    <2>2. ErrorInv' /\ SeenInv' /\ RestOK' /\ TasksOK'
      BY <1>1, <2>1, SameRegistry, TypeOKIs DEF IInv, ErrorInv, SeenInv, RestOK, TasksOK
    <2>3. ASSUME NEW q \in Requests PROVE StackInv(q, frames[q])'
      <3>1. PICK fs \in Seq(Frames) : fs = frames[q]
        BY <1>1 DEF TasksOK
      <3>2. StackInv(q, fs)'
        BY <2>1, <3>1, StackSame DEF IInv
      <3> QED
        BY <2>1, <3>1, <3>2
    <2> QED
      BY <2>1, <2>2, <2>3, CacheSame, TypeOKNext DEF IInv
  <1> QED
    BY <1>2, <1>3, <1>4, FinishStep, FailStep, SwallowStep, CancelStep DEF Next

\* The inductive invariant holds of every reachable state.
THEOREM Invariance == Spec => []IInv
  <1>1. IInv /\ [Next]_vars => IInv'
    BY InvStep
  <1> QED
    BY InvInit, <1>1, PTL DEF Spec

\* The state of a task is that of the factories it is in: what a failed,
\* refused, dropped or finished resolution pushed has been taken back
\* (cycle_detection.rs, scope.rs).
THEOREM TypeCorrect == Spec => []TypeOK
  <1>1. IInv => TypeOK
    BY DEF IInv
  <1> QED
    BY Invariance, <1>1, PTL

\* An instance of the application holds an instance of a request only in a
\* registry that check-di rejects, and only through a transient.
THEOREM NoCapture == Spec => []NoStaleCapture
  <1>1. ASSUME IInv PROVE NoStaleCapture
    <2> SUFFICES ASSUME NEW T \in Types, cache[App][T].holds # {}
                 PROVE  ~checked /\ \E u \in Descendants(T) : scope[u] = "transient"
      BY DEF NoStaleCapture
    <2>1. scope[T] = "singleton" /\ Capturing(T)
      BY <1>1 DEF IInv, CacheInv, Owners, Nothing
    <2>2. \E u \in Reached(T) : scope[u] = "request" /\ u # T
      BY <2>1 DEF Capturing
    <2>3. ~ScopesAreCompatible
      BY <2>1, <2>2 DEF ScopesAreCompatible
    <2> QED
      BY <1>1, <2>1, <2>3 DEF IInv, CheckedInv, Validate, Capturing
  <1> QED
    BY Invariance, <1>1, PTL

\* A resolution is refused only where the validator finds what it is refused
\* for, or where it is too deep.
THEOREM RealRefusals == Spec => []RefusalsAreReal
  <1>1. IInv => RefusalsAreReal
    BY DEF IInv, ErrorInv, RefusalsAreReal
  <1> QED
    BY Invariance, <1>1, PTL

\* A request is given one instance of a request-scoped type.
THEOREM OneInstance == Spec => []OncePerRequest
  <1>1. IInv => OncePerRequest
    BY DEF IInv, SeenInv, OncePerRequest
  <1> QED
    BY Invariance, <1>1, PTL
=============================================================================
