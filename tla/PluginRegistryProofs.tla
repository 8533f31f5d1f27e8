------------------------- MODULE PluginRegistryProofs -------------------------
(***************************************************************************)
(* Proofs about PluginRegistry: for any plugins and any number of callers  *)
(* the types and the mirrored graphs; for one registrar and one manager    *)
(* that an enabled plugin is served exactly once, that plugins come up     *)
(* after what they depend on and was not unregistered, and go down before. *)
(***************************************************************************)
EXTENDS PluginRegistry, FiniteSetTheorems, SequenceTheorems, WellFoundedInduction, TLAPS

USE RegistryAssumption DEF Callers, registry, locals, At, Go, Return, SetState, Skip

LEMMA NextCases ==
    ASSUME Next, NEW P,
           \A c \in Registrars, p \in Plugins : StartRegister(c, p) => P,
           \A c \in Registrars : AddCapabilities(c) => P,
           \A c \in Registrars : AddDependencies(c) => P,
           \A c \in Registrars : Insert(c) => P,
           \A c \in Managers : StartAll(c, "load") => P,
           \A c \in Managers : StartAll(c, "enable") => P,
           \A c \in Managers, p \in Plugins : StartDisable(c, p) => P,
           \A c \in Managers, p \in Plugins : StartUnregister(c, p) => P,
           \A c \in Managers : FinishAll(c) => P,
           \A c \in Managers : LoadNext(c) => P,
           \A c \in Managers : Loaded(c) => P,
           \A c \in Managers : EnableNext(c) => P,
           \A c \in Managers : CheckDependencies(c) => P,
           \A c \in Managers : Enabled(c) => P,
           \A c \in Managers : DisableDependent(c) => P,
           \A c \in Managers : Disabled(c) => P,
           \A c \in Managers : Unloaded(c) => P,
           \A c \in Managers : DropCapabilities(c) => P,
           \A c \in Managers : DropDependencies(c) => P,
           \A c \in Managers : Remove(c) => P,
           \A c \in Managers : Abandon(c) => P
    PROVE  P
  BY Zenon DEF Next, Register, Proceed, Start

(***************************************************************************)
(* The graphs. Only two sections write them, and each writes both.         *)
(***************************************************************************)
GraphsOK ==
    /\ deps \in Graphs /\ dependents \in Graphs /\ plugin \in [Callers -> Plugins]
    /\ required \in [Callers -> SUBSET Plugins]
    /\ needs \in [Plugins -> SUBSET Plugins] /\ forgotten \in [Plugins -> SUBSET Plugins]

LEMMA GraphsStep ==
    ASSUME GraphsOK, GraphsMirror, [Next]_vars
    PROVE  GraphsOK' /\ GraphsMirror'
  <1> USE DEF GraphsOK, GraphsMirror, Graphs
  <1> DEFINE Same == UNCHANGED <<deps, dependents>>
             P == GraphsOK' /\ GraphsMirror'
  <1>1. ASSUME NEW c \in Registrars, NEW p \in Plugins, StartRegister(c, p) PROVE P
    BY <1>1 DEF StartRegister
  <1>2. ASSUME NEW c \in Registrars, AddCapabilities(c) PROVE P
    BY <1>2 DEF AddCapabilities
  <1>3. ASSUME NEW c \in Registrars, AddDependencies(c) PROVE P
    <2> DEFINE More(d) == IF d \in required[c] THEN 1 ELSE 0
    <2>1. plugin[c] \in Plugins
      OBVIOUS
    <2>2. deps' = [deps EXCEPT ![plugin[c]] =
                      [d \in Plugins |-> deps[plugin[c]][d] + More(d)]]
      BY <1>3 DEF AddDependencies
    <2>3. dependents' = [d \in Plugins |->
             [dependents[d] EXCEPT ![plugin[c]] = dependents[d][plugin[c]] + More(d)]]
      BY <1>3 DEF AddDependencies
    <2>4. \A d \in Plugins : More(d) \in Nat
      OBVIOUS
    <2>5. UNCHANGED <<plugin, required, needs, forgotten>>
      BY <1>3 DEF AddDependencies
    <2> HIDE DEF More
    <2> QED
      BY <2>1, <2>2, <2>3, <2>4, <2>5
  <1>4. ASSUME NEW c \in Registrars, Insert(c) PROVE P
    BY <1>4 DEF Insert
  <1>5. ASSUME NEW c \in Managers, NEW point, StartAll(c, point) PROVE P
    BY <1>5 DEF StartAll
  <1>6. ASSUME NEW c \in Managers, NEW p \in Plugins, StartDisable(c, p) PROVE P
    BY <1>6 DEF StartDisable
  <1>7. ASSUME NEW c \in Managers, NEW p \in Plugins, StartUnregister(c, p) PROVE P
    BY <1>7 DEF StartUnregister
  <1>8. ASSUME NEW c \in Managers, FinishAll(c) PROVE P
    BY <1>8 DEF FinishAll
  <1>9. ASSUME NEW c \in Managers, LoadNext(c) PROVE P
    <2>1. /\ UNCHANGED <<deps, dependents, needs, forgotten, plugin>>
          /\ required' = required \/ required' = [required EXCEPT ![c] = {}]
      BY <1>9 DEF LoadNext
    <2> QED
      BY <2>1
  <1>10. ASSUME NEW c \in Managers, Loaded(c) PROVE P
    <2>1. /\ UNCHANGED <<deps, dependents, needs, forgotten, plugin>>
          /\ required' = required \/ required' = [required EXCEPT ![c] = {}]
      BY <1>10 DEF Loaded
    <2> QED
      BY <2>1
  <1>11. ASSUME NEW c \in Managers, EnableNext(c) PROVE P
    BY <1>11 DEF EnableNext
  <1>12. ASSUME NEW c \in Managers, CheckDependencies(c) PROVE P
    <2>1. /\ UNCHANGED <<deps, dependents, needs, forgotten, plugin>>
          /\ required' = required \/ required' = [required EXCEPT ![c] = {}]
      BY <1>12 DEF CheckDependencies
    <2> QED
      BY <2>1
  <1>13. ASSUME NEW c \in Managers, Enabled(c) PROVE P
    <2>1. /\ UNCHANGED <<deps, dependents, needs, forgotten, plugin>>
          /\ required' = required \/ required' = [required EXCEPT ![c] = {}]
      BY <1>13 DEF Enabled
    <2> QED
      BY <2>1
  <1>14. ASSUME NEW c \in Managers, DisableDependent(c) PROVE P
    BY <1>14 DEF DisableDependent
  <1>15. ASSUME NEW c \in Managers, Disabled(c) PROVE P
    <2>1. /\ UNCHANGED <<deps, dependents, needs, forgotten, plugin>>
          /\ required' = required \/ required' = [required EXCEPT ![c] = {}]
      BY <1>15 DEF Disabled
    <2> QED
      BY <2>1
  <1>16. ASSUME NEW c \in Managers, Unloaded(c) PROVE P
    BY <1>16 DEF Unloaded
  <1>17. ASSUME NEW c \in Managers, DropCapabilities(c) PROVE P
    BY <1>17 DEF DropCapabilities
  <1>18. ASSUME NEW c \in Managers, DropDependencies(c) PROVE P
    BY <1>18 DEF DropDependencies, Erased, Forgetting, Requires
  <1>19. ASSUME NEW c \in Managers, Remove(c) PROVE P
    BY <1>19 DEF Remove
  <1>20. ASSUME NEW c \in Managers, Abandon(c) PROVE P
    BY <1>20 DEF Abandon
  <1>21. ASSUME UNCHANGED vars PROVE P
    BY <1>21 DEF vars
  <1>22. ASSUME Next PROVE P
    BY ONLY <1>1, <1>2, <1>3, <1>4, <1>5, <1>6, <1>7, <1>8, <1>9, <1>10, <1>11, <1>12,
       <1>13, <1>14, <1>15, <1>16, <1>17, <1>18, <1>19, <1>20, <1>22, NextCases
  <1> QED
    BY <1>21, <1>22

\* For any plugins and callers, whatever they interleave: the dependency graph
\* and its reverse are the same edges, so Kahn's counters never go below zero.
THEOREM MirrorInvariance == Spec => []GraphsMirror
  <1>1. Init => GraphsOK /\ GraphsMirror
    BY DEF Init, GraphsOK, Graphs, GraphsMirror
  <1>2. GraphsOK /\ GraphsMirror /\ [Next]_vars => (GraphsOK /\ GraphsMirror)'
    BY GraphsStep
  <1> QED
    BY <1>1, <1>2, PTL DEF Spec
(***************************************************************************)
(* The providers, for one registrar and one manager. What the capability   *)
(* map holds follows from where the two of them are.                       *)
(***************************************************************************)
Alone == (\A c, d \in Registrars : c = d) /\ (\A c, d \in Managers : c = d)

Adding(p) == \E c \in Registrars : at[c] \in {"add_deps", "insert"} /\ plugin[c] = p
Leaving(p) == \E c \in Managers : at[c] \in {"drop_deps", "remove"} /\ plugin[c] = p

Roles ==
    /\ state \in [Plugins -> States] /\ providers \in [Plugins -> Nat]
    /\ plugin \in [Callers -> Plugins] /\ at \in [Callers -> Points]
    /\ \A c \in Registrars : at[c] \in {"idle", "add_caps", "add_deps", "insert"}
    /\ \A c \in Managers : at[c] \notin {"add_caps", "add_deps", "insert"}

Books ==
    /\ Roles
    \* A plugin being registered is not there yet, one being unregistered is
    \* still there and was not enabled.
    /\ \A c \in Registrars : at[c] # "idle" => state[plugin[c]] = "Absent"
    /\ \A c \in Managers : at[c] \in {"on_unload", "drop_caps", "drop_deps", "remove"}
          => state[plugin[c]] \notin {"Absent", "Enabled"}
    /\ \A p \in Plugins : providers[p] =
          IF Adding(p) \/ (state[p] # "Absent" /\ ~Leaving(p)) THEN 1 ELSE 0

\* A manager's step that is no part of unregister keeps the books if it leaves
\* the map alone and neither inserts nor removes an entry.
LEMMA BooksKept ==
    ASSUME Alone, Books, NEW c \in Managers,
           UNCHANGED <<providers, plugin>>,
           state' \in [Plugins -> States],
           \A p \in Plugins : (state'[p] = "Absent") = (state[p] = "Absent"),
           NEW point \in {"idle", "load", "on_load", "enable", "check", "on_enable", "disable"},
           at' = [at EXCEPT ![c] = point],
           at[c] \notin {"drop_deps", "remove"}
    PROVE  Books'
  <1> USE DEF Alone, Roles, Adding, Leaving
  <1>1. \A d \in Managers : d = c
    OBVIOUS
  <1>2. at' \in [Callers -> Points] /\ at'[c] = point
    BY DEF Books, Points
  <1>3. \A d \in Registrars : at'[d] = at[d]
    BY DEF Books
  <1>4. Roles'
    BY <1>1, <1>2, <1>3 DEF Books
  <1>5. \A p \in Plugins : ~Leaving(p) /\ ~Leaving(p)' /\ Adding(p)' = Adding(p)
    BY <1>1, <1>2, <1>3
  <1>6. \A p \in Plugins : providers'[p] =
           IF Adding(p)' \/ (state'[p] # "Absent" /\ ~Leaving(p)') THEN 1 ELSE 0
    BY <1>5 DEF Books
  <1>7. \A d \in Registrars : at'[d] # "idle" => state'[plugin'[d]] = "Absent"
    BY <1>3 DEF Books
  <1>8. \A d \in Managers : at'[d] \notin {"on_unload", "drop_caps", "drop_deps", "remove"}
    BY <1>1, <1>2
  <1> QED
    BY <1>4, <1>6, <1>7, <1>8 DEF Books

\* It does if it touches no plugin at all.
LEMMA BooksStays ==
    ASSUME Alone, Books, NEW c \in Managers, UNCHANGED <<providers, plugin, state>>,
           NEW point \in {"idle", "load", "on_load", "enable", "check", "on_enable", "disable"},
           at' = [at EXCEPT ![c] = point],
           at[c] \notin {"drop_deps", "remove"}
    PROVE  Books'
  <1>1. state' \in [Plugins -> States]
    BY DEF Books, Roles
  <1>2. \A p \in Plugins : (state'[p] = "Absent") = (state[p] = "Absent")
    OBVIOUS
  <1> QED
    BY ONLY Alone, Books, c \in Managers, UNCHANGED <<providers, plugin, state>>,
            point \in {"idle", "load", "on_load", "enable", "check", "on_enable", "disable"},
            at' = [at EXCEPT ![c] = point], at[c] \notin {"drop_deps", "remove"},
            <1>1, <1>2, BooksKept

LEMMA BooksStep ==
    ASSUME Alone, Books, [Next]_vars
    PROVE  Books'
  <1> USE DEF Alone, Books, Roles, Adding, Leaving, States, Points
  <1> DEFINE P == Books'
  <1>1. ASSUME NEW c \in Registrars, NEW p \in Plugins, StartRegister(c, p) PROVE P
    BY <1>1 DEF StartRegister
  <1>2. ASSUME NEW c \in Registrars, AddCapabilities(c) PROVE P
    BY <1>2 DEF AddCapabilities
  <1>3. ASSUME NEW c \in Registrars, AddDependencies(c) PROVE P
    BY <1>3 DEF AddDependencies
  <1>4. ASSUME NEW c \in Registrars, Insert(c) PROVE P
    BY <1>4 DEF Insert
  <1>5. ASSUME NEW c \in Managers, StartAll(c, "load") PROVE P
    BY <1>5 DEF StartAll
  <1>6. ASSUME NEW c \in Managers, StartAll(c, "enable") PROVE P
    BY <1>6 DEF StartAll
  <1>7. ASSUME NEW c \in Managers, NEW p \in Plugins, StartDisable(c, p) PROVE P
    BY <1>7 DEF StartDisable
  <1>8. ASSUME NEW c \in Managers, NEW p \in Plugins, StartUnregister(c, p) PROVE P
    BY <1>8 DEF StartUnregister
  <1>9. ASSUME NEW c \in Managers, FinishAll(c) PROVE P
    <2>1. /\ UNCHANGED <<providers, plugin, state>> /\ at[c] \in {"load", "enable"}
          /\ at' = [at EXCEPT ![c] = "idle"]
      BY ONLY <1>9 DEF FinishAll, Return, Go, locals, registry
    <2> QED
      BY ONLY Alone, Books, c \in Managers, <2>1, BooksStays
  <1>10. ASSUME NEW c \in Managers, LoadNext(c) PROVE P
    <2>1. CASE at' = [at EXCEPT ![c] = "idle"]
      BY <1>10, <2>1, BooksKept DEF LoadNext
    <2>2. CASE at' = [at EXCEPT ![c] = "on_load"]
      BY <1>10, <2>2, BooksKept DEF LoadNext
    <2> QED
      BY <1>10, <2>1, <2>2 DEF LoadNext
  <1>11. ASSUME NEW c \in Managers, Loaded(c) PROVE P
    <2>1. /\ UNCHANGED <<providers, plugin>>
          /\ at[c] \notin {"drop_deps", "remove"}
          /\ state' \in [Plugins -> States]
          /\ \A p \in Plugins : (state'[p] = "Absent") = (state[p] = "Absent")
      BY <1>11 DEF Loaded
    <2>2. at' = [at EXCEPT ![c] = "idle"] \/ at' = [at EXCEPT ![c] = "load"]
      BY <1>11 DEF Loaded
    <2> HIDE DEF Alone, Books, Roles, Adding, Leaving, States, Points
    <2> QED
      BY <2>1, <2>2, BooksKept
  <1>12. ASSUME NEW c \in Managers, EnableNext(c) PROVE P
    <2>1. CASE at' = [at EXCEPT ![c] = "check"]
      BY <1>12, <2>1, BooksKept DEF EnableNext
    <2>2. CASE at' = at
      <3>1. at' = [at EXCEPT ![c] = "enable"]
        BY <1>12, <2>2 DEF EnableNext
      <3> QED
        BY <1>12, <3>1, BooksKept DEF EnableNext
    <2> QED
      BY <1>12, <2>1, <2>2 DEF EnableNext
  <1>13. ASSUME NEW c \in Managers, CheckDependencies(c) PROVE P
    <2>1. /\ UNCHANGED <<providers, plugin, state>> /\ at[c] = "check"
          /\ at' = [at EXCEPT ![c] = "on_enable"] \/ at' = [at EXCEPT ![c] = "idle"]
      BY ONLY <1>13 DEF CheckDependencies, Return, Go, At, locals, registry
    <2> QED
      BY ONLY Alone, Books, c \in Managers, <2>1, BooksStays
  <1>14. ASSUME NEW c \in Managers, Enabled(c) PROVE P
    <2>1. /\ UNCHANGED <<providers, plugin>>
          /\ at[c] \notin {"drop_deps", "remove"}
          /\ state' \in [Plugins -> States]
          /\ \A p \in Plugins : (state'[p] = "Absent") = (state[p] = "Absent")
      BY <1>14 DEF Enabled
    <2>2. at' = [at EXCEPT ![c] = "idle"] \/ at' = [at EXCEPT ![c] = "enable"]
      BY <1>14 DEF Enabled
    <2> HIDE DEF Alone, Books, Roles, Adding, Leaving, States, Points
    <2> QED
      BY <2>1, <2>2, BooksKept
  <1>15. ASSUME NEW c \in Managers, DisableDependent(c) PROVE P
    BY <1>15 DEF DisableDependent
  <1>16. ASSUME NEW c \in Managers, Disabled(c) PROVE P
    <2>1. /\ UNCHANGED <<providers, plugin>>
          /\ at[c] \notin {"drop_deps", "remove"}
          /\ state' \in [Plugins -> States]
          /\ \A p \in Plugins : (state'[p] = "Absent") = (state[p] = "Absent")
      BY <1>16 DEF Disabled
    <2>2. at' = [at EXCEPT ![c] = "idle"] \/ at' = [at EXCEPT ![c] = "disable"]
      BY <1>16 DEF Disabled
    <2> HIDE DEF Alone, Books, Roles, Adding, Leaving, States, Points
    <2> QED
      BY <2>1, <2>2, BooksKept
  <1>17. ASSUME NEW c \in Managers, Unloaded(c) PROVE P
    BY <1>17 DEF Unloaded
  <1>18. ASSUME NEW c \in Managers, DropCapabilities(c) PROVE P
    BY <1>18 DEF DropCapabilities
  <1>19. ASSUME NEW c \in Managers, DropDependencies(c) PROVE P
    BY <1>19 DEF DropDependencies
  <1>20. ASSUME NEW c \in Managers, Remove(c) PROVE P
    <2> DEFINE q == plugin[c]
    <2>1. q \in Plugins /\ state[q] # "Absent" /\ Leaving(q) /\ ~Adding(q)
      BY <1>20 DEF Remove
    <2>2. state' = [state EXCEPT ![q] = "Absent"] /\ UNCHANGED <<providers, plugin>>
      BY <1>20 DEF Remove
    <2>3. at' = [at EXCEPT ![c] = "idle"]
      BY <1>20 DEF Remove
    <2>4. Roles'
      BY <2>1, <2>2, <2>3
    <2>5. \A d \in Managers : d = c
      OBVIOUS
    <2>6. \A p \in Plugins : ~Leaving(p)' /\ Adding(p)' = Adding(p)
      BY <2>2, <2>3, <2>5
    <2>7. \A p \in Plugins \ {q} : ~Leaving(p)
      BY <2>5
    <2>8. \A p \in Plugins : providers'[p] =
             IF Adding(p)' \/ (state'[p] # "Absent" /\ ~Leaving(p)') THEN 1 ELSE 0
      <3> HIDE DEF Adding, Leaving
      <3> QED
        BY <2>1, <2>2, <2>6, <2>7
    <2> QED
      BY <2>2, <2>3, <2>4, <2>5, <2>8
  <1>21. ASSUME NEW c \in Managers, Abandon(c) PROVE P
    <2>1. at[c] \notin {"drop_deps", "remove"}
      BY <1>21 DEF Abandon, Awaited
    <2> QED
      BY <1>21, <2>1, BooksKept DEF Abandon
  <1>22. ASSUME UNCHANGED vars PROVE P
    BY <1>22 DEF vars
  <1> HIDE DEF Alone, Books, Roles, Adding, Leaving, States, Points
  <1>23. ASSUME Next PROVE P
    BY ONLY <1>1, <1>2, <1>3, <1>4, <1>5, <1>6, <1>7, <1>8, <1>9, <1>10, <1>11,
       <1>12, <1>13, <1>14, <1>15, <1>16, <1>17, <1>18, <1>19, <1>20, <1>21,
       <1>23, NextCases
  <1> QED
    BY <1>22, <1>23

\* With one registrar and one manager an enabled plugin is listed exactly once
\* as a provider, through any registrations, reloads and removals.
THEOREM ServiceInvariance == ASSUME Alone PROVE Spec => []ServedOnce
  <1>1. Init => Books
    BY DEF Init, Books, Roles, Adding, Leaving, States, Points
  <1>2. Books /\ [Next]_vars => Books'
    BY BooksStep
  <1>3. Books => ServedOnce
    BY DEF Books, Roles, ServedOnce, Adding, Leaving
  <1> QED
    BY <1>1, <1>2, <1>3, PTL DEF Spec

(***************************************************************************)
(* Induction on the natural numbers, on the set of those a fact holds for, *)
(* and the functions it defines.                                           *)
(***************************************************************************)
HIDE RegistryAssumption DEF Callers, registry, locals, At, Go, Return, SetState, Skip

LEMMA Least ==
    ASSUME NEW S, S \subseteq Nat, S # {}
    PROVE  \E n \in S : \A m \in S : n <= m
  <1> DEFINE R == OpToRel(<, Nat)
  <1>1. IsWellFoundedOn(R, Nat)
    BY NatLessThanWellFounded
  <1>2. \A x, y \in Nat : <<y, x>> \in R <=> y < x
    BY DEF OpToRel
  <1> HIDE DEF R
  <1>3. PICK x \in S : \A y \in S : ~(<<y, x>> \in R)
    BY <1>1, WFMin
  <1>4. \A y \in S : ~(y < x)
    BY <1>2, <1>3
  <1> QED
    BY <1>4

LEMMA Induction ==
    ASSUME NEW S, S \subseteq Nat, 0 \in S, \A n \in S : n + 1 \in S
    PROVE  S = Nat
  <1> SUFFICES ASSUME Nat \ S # {} PROVE FALSE
    OBVIOUS
  <1>1. PICK n \in Nat \ S : \A m \in Nat \ S : n <= m
    BY Least
  <1>2. n # 0 /\ n - 1 \in Nat
    BY <1>1
  <1>3. n - 1 \in S
    BY <1>1, <1>2
  <1>4. n - 1 + 1 \in S
    BY <1>3
  <1> QED
    BY <1>1, <1>2, <1>4

Iterates(D, a, step, n) ==
    {f \in [0..n -> D] : f[0] = a /\ \A i \in 1..n : f[i] = step[f[i - 1]]}

LEMMA Recursion ==
    ASSUME NEW D, NEW a \in D, NEW step \in [D -> D], NEW n \in Nat
    PROVE  Iterates(D, a, step, n) # {}
  <1> DEFINE S == {k \in Nat : \E f \in [0..k -> D] :
                       f[0] = a /\ \A i \in 1..k : f[i] = step[f[i - 1]]}
  <1>1. 0 \in S
    <2> DEFINE g == [i \in 0..0 |-> a]
    <2>1. g \in [0..0 -> D] /\ g[0] = a /\ \A i \in 1..0 : g[i] = step[g[i - 1]]
      OBVIOUS
    <2> QED
      BY <2>1
  <1>2. ASSUME NEW k \in S PROVE k + 1 \in S
    <2>1. PICK f \in [0..k -> D] : f[0] = a /\ \A i \in 1..k : f[i] = step[f[i - 1]]
      OBVIOUS
    <2> DEFINE g == [i \in 0..(k + 1) |-> IF i = k + 1 THEN step[f[k]] ELSE f[i]]
    <2>2. k \in 0..k /\ \A i \in 0..(k + 1) : i # k + 1 => i \in 0..k
      OBVIOUS
    <2>3. g \in [0..(k + 1) -> D] /\ g[0] = a
      BY <2>1, <2>2
    <2>4. ASSUME NEW i \in 1..(k + 1) PROVE g[i] = step[g[i - 1]]
      <3>1. CASE i = k + 1
        <4>1. i - 1 = k /\ g[k] = f[k] /\ g[k + 1] = step[f[k]]
          BY <3>1
        <4> QED
          BY <3>1, <4>1
      <3>2. CASE i # k + 1
        <4>1. i \in 1..k /\ i - 1 \in 0..(k + 1) /\ i - 1 # k + 1
          BY <3>2
        <4>2. g[i] = f[i] /\ g[i - 1] = f[i - 1]
          BY <3>2, <4>1
        <4> QED
          BY <2>1, <4>1, <4>2
      <3> QED
        BY <3>1, <3>2
    <2> HIDE DEF g
    <2> QED
      BY <2>3, <2>4
  <1>3. S = Nat
    <2> HIDE DEF S
    <2>1. S \subseteq Nat
      BY DEF S
    <2> QED
      BY <1>1, <1>2, <2>1, Induction
  <1> QED
    BY <1>3 DEF Iterates

(***************************************************************************)
(* Kahn's algorithm. A counter is the number of entries that are left when *)
(* those of what is sorted are taken out of the list, so whoever is queued *)
(* depends on nothing that is not sorted.                                  *)
(***************************************************************************)
LEMMA EntriesCount ==
    ASSUME GraphsOK, NEW p \in Plugins, NEW S \in SUBSET Plugins
    PROVE  /\ Cardinality(Entries(p, S)) \in Nat
           /\ Cardinality(Entries(p, S)) = 0 <=> \A d \in S : d \notin Requires(p)
           /\ \A n \in S : Cardinality(Entries(p, S \ {n})) =
                              Cardinality(Entries(p, S)) - deps[p][n]
  <1>0. \A d \in Plugins : deps[p][d] \in Nat
    BY DEF GraphsOK, Graphs
  <1>1. ASSUME NEW T \in SUBSET S PROVE IsFiniteSet(Entries(p, T))
    <2> DEFINE Copies == {{d} \X (1..deps[p][d]) : d \in T}
               f == [d \in T |-> {d} \X (1..deps[p][d])]
    <2>1. IsFiniteSet(T)
      BY RegistryAssumption, FS_Subset DEF RegistryAssumption
    <2>2. f \in Surjection(T, Copies)
      BY DEF Surjection
    <2>3. IsFiniteSet(Copies)
      <3> HIDE DEF f, Copies
      <3> QED
        BY <2>1, <2>2, FS_Surjection
    <2>4. ASSUME NEW d \in T PROVE IsFiniteSet({d} \X (1..deps[p][d]))
      <3>0. d \in Plugins /\ 1 \in Int /\ deps[p][d] \in Int
        BY <1>0
      <3>1. IsFiniteSet({d}) /\ IsFiniteSet(1..deps[p][d])
        BY <3>0, FS_Singleton, FS_Interval
      <3> QED
        BY <3>1, FS_Product
    <2>5. \A X \in Copies : IsFiniteSet(X)
      BY <2>4
    <2> QED
      BY <2>3, <2>5, FS_UNION DEF Entries
  <1>2. Cardinality(Entries(p, S)) \in Nat
    BY <1>1, FS_CardinalityType
  <1>3. Cardinality(Entries(p, S)) = 0 <=> Entries(p, S) = {}
    BY <1>1, FS_EmptySet
  <1>4. Entries(p, S) = {} <=> \A d \in S : d \notin Requires(p)
    <2>1. ASSUME NEW d \in S, d \in Requires(p) PROVE <<d, 1>> \in Entries(p, S)
      <3>1. 1 \in 1..deps[p][d]
        BY <1>0, <2>1 DEF Requires
      <3>2. <<d, 1>> \in {d} \X (1..deps[p][d])
        BY <3>1
      <3> QED
        BY <3>2 DEF Entries
    <2>2. ASSUME NEW e \in Entries(p, S) PROVE \E d \in S : d \in Requires(p)
      <3>1. PICK d \in S : e \in {d} \X (1..deps[p][d])
        BY DEF Entries
      <3>2. deps[p][d] > 0
        BY <1>0, <3>1
      <3> QED
        BY <3>2 DEF Requires
    <2> QED
      BY <2>1, <2>2
  <1>5. ASSUME NEW n \in S
        PROVE  Cardinality(Entries(p, S \ {n})) = Cardinality(Entries(p, S)) - deps[p][n]
    <2> DEFINE A == Entries(p, S \ {n})
               B == {n} \X (1..deps[p][n])
    <2>1. Entries(p, S) = A \cup B
      BY DEF Entries
    <2>2. A \cap B = {}
      BY DEF Entries
    <2>3. IsFiniteSet(A)
      BY <1>1
    <2>4. IsFiniteSet(B) /\ Cardinality(B) = deps[p][n]
      <3>1. IsFiniteSet({n}) /\ Cardinality({n}) = 1
        BY FS_Singleton
      <3>2. IsFiniteSet(1..deps[p][n]) /\ Cardinality(1..deps[p][n]) = deps[p][n]
        <4>1. 1 \in Int /\ deps[p][n] \in Int /\ deps[p][n] \in Nat
          BY <1>0
        <4>2. Cardinality(1..deps[p][n]) = IF 1 > deps[p][n] THEN 0 ELSE deps[p][n] - 1 + 1
          BY ONLY <4>1, FS_Interval
        <4>3. IsFiniteSet(1..deps[p][n])
          BY ONLY <4>1, FS_Interval
        <4> QED
          BY <4>1, <4>2, <4>3
      <3>3. IsFiniteSet(B) /\ Cardinality(B) = 1 * deps[p][n]
        <4>1. ASSUME NEW T, IsFiniteSet(T)
              PROVE  /\ IsFiniteSet({n} \X T)
                     /\ Cardinality({n} \X T) = Cardinality({n}) * Cardinality(T)
          BY ONLY <3>1, <4>1, FS_Product
        <4> QED
          BY ONLY <3>1, <3>2, <4>1
      <3> QED
        BY <1>0, <3>3
    <2>5. Cardinality(A \cup B) = Cardinality(A) + Cardinality(B) - Cardinality(A \cap B)
      <3> HIDE DEF A, B
      <3> QED
        BY <2>3, <2>4, FS_Union
    <2>6. Cardinality(A \cap B) = 0
      <3> HIDE DEF A, B
      <3> QED
        BY <2>2, FS_EmptySet
    <2>7. Cardinality(A) \in Nat
      BY <2>3, FS_CardinalityType
    <2> HIDE DEF A, B
    <2>8. Cardinality(Entries(p, S)) = Cardinality(A) + deps[p][n]
      BY <1>0, <2>1, <2>4, <2>5, <2>6, <2>7
    <2>9. Cardinality(A) = Cardinality(Entries(p, S)) - deps[p][n]
      BY <1>0, <2>7, <2>8
    <2> QED
      BY <2>9 DEF A
  <1> QED
    BY <1>2, <1>3, <1>4, <1>5

KahnStates ==
    [degree : [Registered -> Nat], order : Seq(Registered), queue : SUBSET Registered]

Sorted(k) == {k.order[i] : i \in 1..Len(k.order)}

KahnInv(k) ==
    /\ \A i, j \in 1..Len(k.order) : k.order[i] = k.order[j] => i = j
    /\ k.queue \cap Sorted(k) = {}
    /\ \A p \in k.queue : k.degree[p] = 0
    /\ \A p \in Registered : k.degree[p] = Cardinality(Entries(p, Registered \ Sorted(k)))
    /\ \A i \in 1..Len(k.order) : \A d \in Registered \cap Requires(k.order[i]) :
          \E j \in 1..(i - 1) : k.order[j] = d

LEMMA KahnInit ==
    ASSUME GraphsOK
    PROVE  KahnStart \in KahnStates /\ KahnInv(KahnStart)
  <1> DEFINE degree == [p \in Registered |-> Cardinality(Entries(p, Registered))]
  <1>1. Registered \subseteq Plugins
    BY DEF Registered
  <1>2. degree \in [Registered -> Nat]
    BY <1>1, EntriesCount
  <1>3. KahnStart = [degree |-> degree, order |-> <<>>,
                     queue |-> {p \in Registered : degree[p] = 0}]
    BY DEF KahnStart
  <1>4. Sorted(KahnStart) = {} /\ Len(KahnStart.order) = 0
    BY <1>3 DEF Sorted
  <1>5. \A p \in Registered : KahnStart.degree[p] = Cardinality(Entries(p, Registered \ {}))
    <2>1. Registered \ {} = Registered
      OBVIOUS
    <2> QED
      BY <1>3, <2>1
  <1> HIDE DEF degree
  <1>6. <<>> \in Seq(Registered)
    OBVIOUS
  <1>7. KahnStart \in KahnStates
    BY <1>2, <1>3, <1>6 DEF KahnStates
  <1>8. KahnStart.queue \cap Sorted(KahnStart) = {}
    BY <1>4
  <1>9. \A p \in KahnStart.queue : KahnStart.degree[p] = 0
    BY <1>3
  <1> QED
    BY <1>4, <1>5, <1>7, <1>8, <1>9 DEF KahnInv

LEMMA KahnStep ==
    ASSUME GraphsOK, GraphsMirror, NEW k \in KahnStates, KahnInv(k), NEW n \in k.queue
    PROVE  KahnPop(k, n) \in KahnStates /\ KahnInv(KahnPop(k, n))
  <1> DEFINE degree == [p \in Registered |-> k.degree[p] - dependents[n][p]]
             more == {p \in Registered : degree[p] = 0 /\ k.degree[p] # 0}
             order == Append(k.order, n)
             q == KahnPop(k, n)
  <1>1. Registered \subseteq Plugins
    BY DEF Registered
  <1>2. /\ n \in Registered /\ k.order \in Seq(Registered) /\ Len(k.order) \in Nat
        /\ k.degree \in [Registered -> Nat] /\ k.queue \subseteq Registered
    BY DEF KahnStates
  <1>3. /\ order \in Seq(Registered) /\ Len(order) = Len(k.order) + 1
        /\ order[Len(k.order) + 1] = n
        /\ \A i \in 1..Len(k.order) : order[i] = k.order[i]
    BY <1>2
  <1>4. q = [degree |-> degree, order |-> order, queue |-> (k.queue \ {n}) \cup more]
    BY DEF KahnPop
  <1>5. Sorted(q) = Sorted(k) \cup {n}
    BY <1>2, <1>3, <1>4 DEF Sorted
  <1>6. n \notin Sorted(k) /\ n \in Registered \ Sorted(k)
    BY <1>2 DEF KahnInv
  <1>7. ASSUME NEW p \in Registered
        PROVE  /\ degree[p] = Cardinality(Entries(p, Registered \ Sorted(q)))
               /\ degree[p] \in Nat
    <2> DEFINE R == Registered \ Sorted(k)
    <2>1. R \in SUBSET Plugins /\ n \in R /\ Registered \ Sorted(q) = R \ {n}
      BY <1>1, <1>5, <1>6
    <2>2. k.degree[p] = Cardinality(Entries(p, R))
      BY DEF KahnInv
    <2>3. dependents[n][p] = deps[p][n]
      BY <1>1, <1>2 DEF GraphsMirror
    <2> HIDE DEF R
    <2>4. Cardinality(Entries(p, R \ {n})) = Cardinality(Entries(p, R)) - deps[p][n]
      BY <1>1, <2>1, EntriesCount
    <2>5. Cardinality(Entries(p, R \ {n})) \in Nat
      <3>1. R \ {n} \in SUBSET Plugins
        BY <2>1
      <3> QED
        BY <1>1, <3>1, EntriesCount
    <2> QED
      BY <2>1, <2>2, <2>3, <2>4, <2>5
  <1>8. \A d \in Registered \cap Requires(n) : d \in Sorted(k)
    <2>1. Cardinality(Entries(n, Registered \ Sorted(k))) = 0
      BY <1>2 DEF KahnInv
    <2>2. Registered \ Sorted(k) \in SUBSET Plugins /\ n \in Plugins
      BY <1>1, <1>2
    <2>3. \A d \in Registered \ Sorted(k) : d \notin Requires(n)
      BY <2>1, <2>2, EntriesCount
    <2> QED
      BY <2>3
  <1>9. \A p \in Sorted(k) : p \in Registered /\ k.degree[p] = 0
    <2> SUFFICES ASSUME NEW i \in 1..Len(k.order)
                 PROVE  k.order[i] \in Registered /\ k.degree[k.order[i]] = 0
      BY DEF Sorted
    <2>1. k.order[i] \in Registered
      BY <1>2
    <2>2. \A d \in Registered \ Sorted(k) : d \notin Requires(k.order[i])
      <3>1. i \in 1..Len(k.order) /\ Len(k.order) \in Nat
        BY <1>2
      <3>2. \A d \in Registered \cap Requires(k.order[i]) : \E j \in 1..(i - 1) : k.order[j] = d
        BY ONLY KahnInv(k), <3>1 DEF KahnInv
      <3>3. \A j \in 1..(i - 1) : j \in 1..Len(k.order)
        BY ONLY <3>1
      <3>4. \A j \in 1..(i - 1) : k.order[j] \in Sorted(k)
        BY ONLY <3>3 DEF Sorted
      <3> QED
        BY ONLY <3>2, <3>4
    <2>3. Registered \ Sorted(k) \in SUBSET Plugins /\ k.order[i] \in Plugins
      BY <1>1, <2>1
    <2>4. Cardinality(Entries(k.order[i], Registered \ Sorted(k))) = 0
      BY <2>2, <2>3, EntriesCount
    <2> QED
      BY <2>1, <2>4 DEF KahnInv
  <1>10. k.degree[n] = 0
    BY DEF KahnInv
  <1>11. more \cap (Sorted(k) \cup {n}) = {}
    BY <1>9, <1>10
  <1>12. q \in KahnStates
    <2>1. degree \in [Registered -> Nat]
      BY <1>7
    <2>2. (k.queue \ {n}) \cup more \subseteq Registered
      BY <1>2
    <2> HIDE DEF degree, more, order, q
    <2> QED
      BY <1>3, <1>4, <2>1, <2>2 DEF KahnStates
  <1>13. \A i, j \in 1..Len(order) : order[i] = order[j] => i = j
    <2>1. \A i \in 1..Len(k.order) : k.order[i] # n
      BY <1>6 DEF Sorted
    <2>2. \A i, j \in 1..Len(k.order) : k.order[i] = k.order[j] => i = j
      BY DEF KahnInv
    <2>3. \A i \in 1..Len(order) : i \in 1..Len(k.order) \/ i = Len(k.order) + 1
      BY <1>2, <1>3
    <2> HIDE DEF order
    <2> QED
      BY <1>3, <2>1, <2>2, <2>3
  <1>14. ((k.queue \ {n}) \cup more) \cap Sorted(q) = {}
    <2>1. k.queue \cap Sorted(k) = {}
      BY DEF KahnInv
    <2> HIDE DEF more
    <2> QED
      BY <1>5, <1>11, <2>1
  <1>15. \A p \in (k.queue \ {n}) \cup more : degree[p] = 0
    <2>1. ASSUME NEW p \in k.queue PROVE degree[p] = 0
      <3>1. k.degree[p] = 0 /\ p \in Registered
        BY <1>2 DEF KahnInv
      <3>2. dependents[n][p] \in Nat
        BY <1>1, <1>2, <3>1 DEF GraphsOK, Graphs
      <3>3. degree[p] = 0 - dependents[n][p]
        BY <3>1
      <3>4. degree[p] \in Nat
        BY <1>7, <3>1
      <3> QED
        BY <3>2, <3>3, <3>4
    <2> QED
      BY <2>1
  <1>16. ASSUME NEW i \in 1..Len(order), NEW d \in Registered \cap Requires(order[i])
         PROVE  \E j \in 1..(i - 1) : order[j] = d
    <2>1. CASE i \in 1..Len(k.order)
      <3>1. PICK j \in 1..(i - 1) : k.order[j] = d
        BY <1>3, <2>1 DEF KahnInv
      <3> QED
        BY <1>2, <1>3, <2>1, <3>1
    <2>2. CASE i = Len(k.order) + 1
      <3>1. d \in Sorted(k)
        BY <1>3, <1>8, <2>2
      <3>2. PICK j \in 1..Len(k.order) : k.order[j] = d
        BY <3>1 DEF Sorted
      <3> QED
        BY <1>2, <1>3, <2>2, <3>2
    <2> QED
      BY <1>2, <1>3, <2>1, <2>2
  <1>17. /\ q.order = order /\ q.degree = degree
         /\ q.queue = (k.queue \ {n}) \cup more
    BY <1>4
  <1> HIDE DEF degree, more, order, q
  <1>18. KahnInv(q)
    <2>1. \A i, j \in 1..Len(q.order) : q.order[i] = q.order[j] => i = j
      BY <1>13, <1>17
    <2>2. q.queue \cap Sorted(q) = {} /\ \A p \in q.queue : q.degree[p] = 0
      BY <1>14, <1>15, <1>17
    <2>3. \A p \in Registered : q.degree[p] = Cardinality(Entries(p, Registered \ Sorted(q)))
      BY <1>7, <1>17
    <2>4. \A i \in 1..Len(q.order) : \A d \in Registered \cap Requires(q.order[i]) :
             \E j \in 1..(i - 1) : q.order[j] = d
      BY <1>16, <1>17
    <2> QED
      BY <2>1, <2>2, <2>3, <2>4 DEF KahnInv
  <1> QED
    BY <1>12, <1>18 DEF q

\* An order names plugins that are registered, each once, and nothing before
\* what it requires.
LEMMA OrderProperties ==
    ASSUME GraphsOK, GraphsMirror, NEW order \in EnableOrders
    PROVE  /\ order \in Seq(Registered)
           /\ \A j \in 1..Len(order) : \A i \in 1..(j - 1) : order[j] \notin Requires(order[i])
  <1> DEFINE c == Cardinality(Registered)
             D == SUBSET {k \in KahnStates : KahnInv(k)}
             step == [ks \in D |-> KahnPops(ks)]
             K == CHOOSE g : g = [i \in 0..c |->
                      IF i = 0 THEN {KahnStart} ELSE KahnPops(g[i - 1])]
  <1>1. EnableOrders = {k.order : k \in K[c]}
    <2> HIDE DEF D, step
    <2> QED
      BY DEF EnableOrders
  <1>2. c \in Nat
    <2>1. Registered \in SUBSET Plugins
      BY DEF Registered
    <2> QED
      BY <2>1, RegistryAssumption, FS_Subset, FS_CardinalityType DEF RegistryAssumption
  <1>3. {KahnStart} \in D
    BY KahnInit
  <1>4. step \in [D -> D]
    BY KahnStep DEF KahnPops
  <1> HIDE DEF c, D, step
  <1>5. PICK f \in [0..c -> D] : f[0] = {KahnStart} /\ \A i \in 1..c : f[i] = step[f[i - 1]]
    <2>1. Iterates(D, {KahnStart}, step, c) # {}
      BY <1>2, <1>3, <1>4, Recursion
    <2> QED
      BY <2>1 DEF Iterates
  <1>6. f = [i \in 0..c |-> IF i = 0 THEN {KahnStart} ELSE KahnPops(f[i - 1])]
    <2>1. ASSUME NEW i \in 0..c, i # 0 PROVE f[i] = KahnPops(f[i - 1])
      <3>1. i \in 1..c /\ i - 1 \in 0..c
        BY <1>2, <2>1
      <3> QED
        BY <1>5, <3>1 DEF step
    <2> QED
      BY <1>5, <2>1
  <1>7. K = [i \in 0..c |-> IF i = 0 THEN {KahnStart} ELSE KahnPops(K[i - 1])]
    BY <1>6
  <1> HIDE DEF K
  <1>12. ASSUME NEW i \in 0..c, i # 0, K[i - 1] \in D PROVE K[i] \in D
    <2>1. K[i] = KahnPops(K[i - 1])
      BY <1>7, <1>12
    <2>2. K[i] = step[K[i - 1]]
      BY <1>12, <2>1 DEF step
    <2> QED
      BY <1>4, <1>12, <2>2
  <1> DEFINE N == {i \in Nat : i <= c => K[i] \in D}
  <1>8. N = Nat
    <2>1. 0 \in N
      BY <1>2, <1>3, <1>7
    <2>2. ASSUME NEW i \in N PROVE i + 1 \in N
      <3>1. CASE i + 1 <= c
        <4>1. i + 1 \in 0..c /\ i + 1 # 0 /\ K[(i + 1) - 1] \in D
          <5>1. (i + 1) - 1 = i /\ K[i] \in D
            BY <1>2, <3>1
          <5> QED
            BY <1>2, <3>1, <5>1
        <4> QED
          BY <1>12, <4>1
      <3> QED
        BY <3>1
    <2>3. N \subseteq Nat
      OBVIOUS
    <2> HIDE DEF N
    <2> QED
      BY <2>1, <2>2, <2>3, Induction
  <1>9. PICK k \in K[c] : order = k.order
    BY <1>1
  <1>10. k \in KahnStates /\ KahnInv(k)
    <2>1. K[c] \in D
      BY <1>2, <1>8
    <2> QED
      BY <2>1 DEF D
  <1>11. order \in Seq(Registered) /\ Len(order) \in Nat
    BY <1>9, <1>10 DEF KahnStates
  <1>13. ASSUME NEW j \in 1..Len(order), NEW i \in 1..(j - 1), order[j] \in Requires(order[i])
         PROVE  FALSE
    <2>1. order[j] \in Registered /\ i \in 1..Len(order)
      BY <1>11
    <2>2. PICK m \in 1..(i - 1) : order[m] = order[j]
      BY <1>9, <1>10, <1>13, <2>1 DEF KahnInv
    <2>3. m \in 1..Len(order) /\ m # j
      BY <1>11
    <2> QED
      BY <1>9, <1>10, <2>2, <2>3 DEF KahnInv
  <1> QED
    BY <1>11, <1>13

(***************************************************************************)
(* The types, for any callers: load_all and enable_all have something to   *)
(* do when a hook is awaited, and what they have to do are plugins.        *)
(***************************************************************************)
InHook    == {"on_load", "check", "on_enable"}
InOrder   == InHook \cup {"load", "enable"}

Shape ==
    /\ TypeOK
    /\ \A c \in Callers :
        /\ at[c] \notin InOrder => rest[c] = <<>>
        /\ at[c] \in InHook => rest[c] # <<>>
        /\ at[c] = "disable" => frames[c] # <<>>

\* A step of c, the rest of the callers as they were.
Locals(c, point, p, ds, order, calls, seen) ==
    /\ at' = [at EXCEPT ![c] = point]
    /\ plugin' = [plugin EXCEPT ![c] = p]
    /\ required' = [required EXCEPT ![c] = ds]
    /\ rest' = [rest EXCEPT ![c] = order]
    /\ frames' = [frames EXCEPT ![c] = calls]
    /\ visited' = [visited EXCEPT ![c] = seen]

Calls == Seq([plugin : Plugins, left : SUBSET Plugins])

LEMMA ShapeMoves ==
    ASSUME Shape, GraphsOK', NEW c \in Callers, NEW point \in Points, NEW p \in Plugins,
           NEW ds \in SUBSET Plugins, NEW order \in Seq(Plugins), NEW calls \in Calls,
           NEW seen \in SUBSET Plugins,
           Locals(c, point, p, ds, order, calls, seen),
           state' \in [Plugins -> States], providers' \in [Plugins -> Nat],
           point \notin InOrder => order = <<>>,
           point \in InHook => order # <<>>,
           point = "disable" => calls # <<>>
    PROVE  Shape'
  <1>1. TypeOK'
    BY DEF Shape, TypeOK, Locals, GraphsOK, Calls
  <1>2. ASSUME NEW d \in Callers
        PROVE  /\ at'[d] \notin InOrder => rest'[d] = <<>>
               /\ at'[d] \in InHook => rest'[d] # <<>>
               /\ at'[d] = "disable" => frames'[d] # <<>>
    <2>1. CASE d = c
      BY <2>1 DEF Shape, TypeOK, Locals
    <2>2. CASE d # c
      <3>1. at'[d] = at[d] /\ rest'[d] = rest[d] /\ frames'[d] = frames[d]
        BY <2>2 DEF Shape, TypeOK, Locals
      <3> QED
        BY <3>1 DEF Shape
    <2> QED
      BY <2>1, <2>2
  <1> QED
    BY <1>1, <1>2 DEF Shape

LEMMA ShapeStays ==
    ASSUME Shape, NEW c \in Callers
    PROVE  /\ at[c] \in Points /\ plugin[c] \in Plugins /\ required[c] \in SUBSET Plugins
           /\ rest[c] \in Seq(Plugins) /\ frames[c] \in Calls /\ visited[c] \in SUBSET Plugins
           /\ at = [at EXCEPT ![c] = at[c]] /\ plugin = [plugin EXCEPT ![c] = plugin[c]]
           /\ required = [required EXCEPT ![c] = required[c]]
           /\ rest = [rest EXCEPT ![c] = rest[c]]
           /\ frames = [frames EXCEPT ![c] = frames[c]]
           /\ visited = [visited EXCEPT ![c] = visited[c]]
           /\ state \in [Plugins -> States] /\ providers \in [Plugins -> Nat]
  BY DEF Shape, TypeOK, Calls

LEMMA Returns ==
    ASSUME Shape, GraphsOK', NEW c \in Callers, Return(c),
           state' \in [Plugins -> States], providers' \in [Plugins -> Nat]
    PROVE  Shape'
  <1>1. Locals(c, "idle", plugin[c], {}, <<>>, <<>>, {})
    BY ShapeStays DEF Return, Go, Locals
  <1>2. /\ "idle" \in Points \ InOrder /\ {} \in SUBSET Plugins
        /\ <<>> \in Seq(Plugins) /\ <<>> \in Calls /\ plugin[c] \in Plugins
    BY ShapeStays DEF Points, InOrder, InHook, Calls
  <1> QED
    BY <1>1, <1>2, ShapeMoves DEF InOrder

LEMMA ShapeDisables ==
    ASSUME Shape, GraphsOK', NEW c \in Callers, NEW calls \in Calls, NEW seen \in SUBSET Plugins,
           Locals(c, "disable", plugin[c], required[c], rest[c], calls, seen),
           rest[c] = <<>>, calls # <<>>,
           state' \in [Plugins -> States], providers' \in [Plugins -> Nat]
    PROVE  Shape'
  <1>1. /\ "disable" \in Points
        /\ "disable" \notin InOrder => rest[c] = <<>>
        /\ "disable" \in InHook => rest[c] # <<>>
        /\ "disable" = "disable" => calls # <<>>
    BY DEF Points, InHook
  <1>2. /\ plugin[c] \in Plugins /\ required[c] \in SUBSET Plugins /\ rest[c] \in Seq(Plugins)
    BY ONLY Shape, c \in Callers, ShapeStays
  <1> QED
    BY ONLY Shape, GraphsOK', c \in Callers, calls \in Calls, seen \in SUBSET Plugins,
            Locals(c, "disable", plugin[c], required[c], rest[c], calls, seen),
            state' \in [Plugins -> States], providers' \in [Plugins -> Nat],
            <1>1, <1>2, ShapeMoves

LEMMA CallTypes ==
    ASSUME NEW f \in Calls
    PROVE  /\ Len(f) \in Nat
           /\ \A i \in 1..Len(f) : f[i].plugin \in Plugins /\ f[i].left \in SUBSET Plugins
  <1>1. \A i \in 1..Len(f) : f[i] \in [plugin : Plugins, left : SUBSET Plugins]
    BY ElementOfSeq DEF Calls
  <1> QED
    BY <1>1, LenProperties DEF Calls

LEMMA FrameType ==
    ASSUME NEW p \in Plugins
    PROVE  Frame(p) \in [plugin : Plugins, left : SUBSET Plugins]
  BY DEF Frame

\* The calls in progress as a stack: its last element, and what is left when
\* that one is replaced, one is put on top of it, or it is taken off.
LEMMA LastOf ==
    ASSUME NEW S, NEW s \in Seq(S), s # <<>>
    PROVE  Len(s) \in Nat /\ Len(s) \in 1..Len(s) /\ s[Len(s)] \in S
  OBVIOUS

LEMMA Replaced ==
    ASSUME NEW S, NEW s \in Seq(S), s # <<>>, NEW e \in S,
           NEW t, t = [s EXCEPT ![Len(s)] = e]
    PROVE  /\ t \in Seq(S) /\ t # <<>> /\ Len(t) = Len(s) /\ t[Len(t)] = e
           /\ \A i \in 1..(Len(s) - 1) : t[i] = s[i]
  OBVIOUS

LEMMA Pushed ==
    ASSUME NEW S, NEW s \in Seq(S), NEW e \in S, NEW t, t = Append(s, e)
    PROVE  /\ t \in Seq(S) /\ t # <<>> /\ Len(t) = Len(s) + 1 /\ t[Len(t)] = e
           /\ \A i \in 1..Len(s) : t[i] = s[i]
  OBVIOUS

LEMMA Popped ==
    ASSUME NEW S, NEW s \in Seq(S), s # <<>>, Len(s) # 1,
           NEW t, t = SubSeq(s, 1, Len(s) - 1)
    PROVE  /\ t \in Seq(S) /\ t # <<>> /\ Len(t) = Len(s) - 1
           /\ \A i \in 1..(Len(s) - 1) : t[i] = s[i]
  <1>1. Len(s) \in Nat /\ Len(s) - 1 \in Int /\ Len(s) > 1
    <2>1. Len(s) \in Nat \ {0}
      BY EmptySeq
    <2>2. ASSUME NEW n \in Nat \ {0}, n # 1 PROVE n \in Nat /\ n - 1 \in Int /\ n > 1
      BY <2>2
    <2> QED
      BY ONLY <2>1, <2>2, Len(s) # 1
  <1>2. \A i \in 1..(Len(s) - 1) : s[i] \in S
    BY <1>1, ElementOfSeq
  <1>3. /\ t \in Seq(S)
        /\ Len(t) = IF 1 <= Len(s) - 1 THEN (Len(s) - 1) - 1 + 1 ELSE 0
        /\ \A i \in 1..((Len(s) - 1) - 1 + 1) : t[i] = s[1 + i - 1]
    <2> DEFINE n == Len(s) - 1
    <2>1. n \in Int /\ 1 \in Int /\ \A i \in 1..n : s[i] \in S
      BY <1>1, <1>2
    <2>2. t = SubSeq(s, 1, n)
      OBVIOUS
    <2> HIDE DEF n
    <2>3. /\ t \in Seq(S) /\ Len(t) = IF 1 <= n THEN n - 1 + 1 ELSE 0
          /\ \A i \in 1..(n - 1 + 1) : t[i] = s[1 + i - 1]
      BY ONLY <2>1, <2>2, SubSeqProperties
    <2> QED
      BY <2>3 DEF n
  <1>4. Len(t) = Len(s) - 1 /\ \A i \in 1..(Len(s) - 1) : t[i] = s[i]
    BY <1>1, <1>3
  <1>5. Len(t) # 0
    BY <1>1, <1>4
  <1>6. t # <<>>
    BY <1>5, EmptySeq
  <1> QED
    BY <1>3, <1>4, <1>6

LEMMA ShapeStep ==
    ASSUME Shape, GraphsOK, GraphsMirror, [Next]_vars
    PROVE  Shape'
  <1> USE DEF Callers, At, Go, SetState, registry, locals
  <1>0. GraphsOK'
    BY GraphsStep
  <1> DEFINE Q == Shape'
             Kept == state' = state /\ providers' = providers
  <1>a. ASSUME NEW c \in Callers, NEW point \in Points, UNCHANGED <<state, providers, locals>>,
               at' = [at EXCEPT ![c] = point], point \notin InHook, point # "disable",
               point \notin InOrder => rest[c] = <<>>
        PROVE  Q
    <2>1. Locals(c, point, plugin[c], required[c], rest[c], frames[c], visited[c])
      BY <1>a, ShapeStays DEF Locals
    <2> QED
      BY <1>0, <1>a, <2>1, ShapeStays, ShapeMoves
  <1>1. ASSUME NEW c \in Registrars, NEW p \in Plugins, StartRegister(c, p) PROVE Q
    <2>1. PICK ds \in Metadata[p] : required' = [required EXCEPT ![c] = ds]
      BY <1>1 DEF StartRegister
    <2>2. ds \in SUBSET Plugins
      BY RegistryAssumption DEF RegistryAssumption
    <2>3. Locals(c, "add_caps", p, ds, rest[c], frames[c], visited[c]) /\ Kept
      BY <1>1, <2>1, ShapeStays DEF Locals, StartRegister
    <2>4. rest[c] = <<>>
      BY <1>1 DEF StartRegister, Shape, InOrder, InHook
    <2>5. "add_caps" \in Points \ InOrder
      BY DEF Points, InOrder, InHook
    <2> QED
      BY <1>0, <2>2, <2>3, <2>4, <2>5, ShapeStays, ShapeMoves DEF InOrder
  <1>2. ASSUME NEW c \in Registrars, AddCapabilities(c) PROVE Q
    <2>1. Locals(c, "add_deps", plugin[c], required[c], <<>>, frames[c], visited[c])
      <3>1. rest[c] = <<>>
        BY <1>2 DEF AddCapabilities, Shape, InOrder, InHook
      <3>2. at' = [at EXCEPT ![c] = "add_deps"] /\ UNCHANGED locals
        BY ONLY <1>2 DEF AddCapabilities, Go
      <3>3. Locals(c, "add_deps", plugin[c], required[c], rest[c], frames[c], visited[c])
        BY ONLY Shape, c \in Callers, <3>2, ShapeStays DEF Locals, locals
      <3> QED
        BY ONLY <3>1, <3>3
    <2>2. providers' \in [Plugins -> Nat] /\ state' = state
      BY <1>2, ShapeStays DEF AddCapabilities
    <2>3. "add_deps" \in Points \ InOrder /\ <<>> \in Seq(Plugins)
      BY DEF Points, InOrder, InHook
    <2> QED
      BY <1>0, <2>1, <2>2, <2>3, ShapeStays, ShapeMoves DEF InOrder
  <1>3. ASSUME NEW c \in Registrars, AddDependencies(c) PROVE Q
    <2>1. at' = [at EXCEPT ![c] = "insert"] /\ UNCHANGED <<state, providers, locals>>
      BY <1>3 DEF AddDependencies
    <2>2. "insert" \in Points /\ "insert" \notin InHook /\ rest[c] = <<>>
      BY <1>3 DEF AddDependencies, Points, InHook, InOrder, Shape
    <2> QED
      BY <1>a, <2>1, <2>2
  <1>4. ASSUME NEW c \in Registrars, Insert(c) PROVE Q
    BY <1>0, <1>4, Returns, ShapeStays DEF Insert, States
  <1>5. ASSUME NEW c \in Managers, NEW point \in {"load", "enable"}, StartAll(c, point) PROVE Q
    <2>1. PICK order \in EnableOrders : rest' = [rest EXCEPT ![c] = order]
      BY <1>5 DEF StartAll
    <2>2. order \in Seq(Plugins)
      <3>1. order \in Seq(Registered) /\ Registered \subseteq Plugins
        BY OrderProperties DEF Registered
      <3> QED
        BY <3>1
    <2>3. Locals(c, point, plugin[c], required[c], order, frames[c], visited[c]) /\ Kept
      BY <1>5, <2>1, ShapeStays DEF Locals, StartAll
    <2>4. point \in Points /\ point \in InOrder /\ point \notin InHook /\ point # "disable"
      BY DEF Points, InOrder, InHook
    <2> QED
      BY <1>0, <2>2, <2>3, <2>4, ShapeStays, ShapeMoves
  <1>7. ASSUME NEW c \in Managers, NEW p \in Plugins, StartDisable(c, p) PROVE Q
    <2>1. Locals(c, "disable", plugin[c], required[c], rest[c], <<Frame(p)>>, {p}) /\ Kept
      BY <1>7, ShapeStays DEF Locals, StartDisable
    <2>2. <<Frame(p)>> \in Calls /\ <<Frame(p)>> # <<>>
      BY FrameType DEF Calls
    <2>3. rest[c] = <<>> /\ "disable" \in Points /\ "disable" \notin InHook
      BY <1>7 DEF StartDisable, Shape, InOrder, InHook, Points
    <2>4. /\ c \in Callers /\ plugin[c] \in Plugins /\ required[c] \in SUBSET Plugins
          /\ rest[c] \in Seq(Plugins) /\ frames[c] \in Calls /\ visited[c] \in SUBSET Plugins
          /\ state' \in [Plugins -> States] /\ providers' \in [Plugins -> Nat]
      BY <2>1, ShapeStays
    <2>5. {p} \in SUBSET Plugins
      OBVIOUS
    <2> QED
      BY ONLY Shape, <1>0, <2>1, <2>2, <2>3, <2>4, <2>5, ShapeDisables
  <1>8. ASSUME NEW c \in Managers, NEW p \in Plugins, StartUnregister(c, p) PROVE Q
    <2>1. Locals(c, "on_unload", p, required[c], rest[c], frames[c], visited[c]) /\ Kept
      BY <1>8, ShapeStays DEF Locals, StartUnregister
    <2>2. rest[c] = <<>> /\ "on_unload" \in Points /\ "on_unload" \notin InHook
      BY <1>8 DEF StartUnregister, Shape, InOrder, InHook, Points
    <2> QED
      BY <1>0, <2>1, <2>2, ShapeStays, ShapeMoves
  <1>9. ASSUME NEW c \in Managers, FinishAll(c) PROVE Q
    BY <1>0, <1>9, Returns, ShapeStays DEF FinishAll
  <1>10. ASSUME NEW c \in Managers, LoadNext(c) PROVE Q
    <2>1. CASE Return(c)
      BY <1>0, <1>10, <2>1, Returns, ShapeStays DEF LoadNext
    <2>2. CASE at' = [at EXCEPT ![c] = "on_load"] /\ UNCHANGED locals
      <3>1. Locals(c, "on_load", plugin[c], required[c], rest[c], frames[c], visited[c]) /\ Kept
        BY <1>10, <2>2, ShapeStays DEF Locals, LoadNext
      <3>2. "on_load" \in Points /\ "on_load" \in InOrder /\ rest[c] # <<>>
        BY <1>10 DEF LoadNext, Points, InOrder, InHook
      <3>3. /\ c \in Callers /\ plugin[c] \in Plugins /\ required[c] \in SUBSET Plugins
            /\ rest[c] \in Seq(Plugins) /\ frames[c] \in Calls /\ visited[c] \in SUBSET Plugins
            /\ state' \in [Plugins -> States] /\ providers' \in [Plugins -> Nat]
        BY <3>1, ShapeStays
      <3> QED
        BY ONLY Shape, <1>0, <3>1, <3>2, <3>3, ShapeMoves
    <2> QED
      BY <1>10, <2>1, <2>2 DEF LoadNext
  <1>b. ASSUME NEW c \in Managers, NEW point \in {"load", "enable"}, NEW s \in States,
               rest[c] # <<>>, Skip(c), at' = [at EXCEPT ![c] = point],
               state' \in [Plugins -> States], providers' = providers,
               UNCHANGED <<plugin, required, frames, visited>>
        PROVE  Q
    <2>1. Locals(c, point, plugin[c], required[c], Tail(rest[c]), frames[c], visited[c])
      BY <1>b, ShapeStays DEF Locals, Skip, Shape, TypeOK
    <2>2. Tail(rest[c]) \in Seq(Plugins)
      BY <1>b, ShapeStays
    <2>3. point \in Points /\ point \in InOrder /\ point \notin InHook /\ point # "disable"
      BY DEF Points, InOrder, InHook
    <2> QED
      BY <1>0, <1>b, <2>1, <2>2, <2>3, ShapeStays, ShapeMoves
  <1>11. ASSUME NEW c \in Managers, Loaded(c) PROVE Q
    <2>1. CASE Return(c)
      BY <1>0, <1>11, <2>1, Returns, ShapeStays DEF Loaded, States
    <2>2. CASE ~Return(c)
      <3>1. rest[c] # <<>>
        BY <1>11 DEF Loaded, Shape, InHook
      <3>2. /\ Skip(c) /\ at' = [at EXCEPT ![c] = "load"] /\ providers' = providers
            /\ UNCHANGED <<plugin, required, frames, visited>>
            /\ state' = [state EXCEPT ![Head(rest[c])] = "Loaded"]
        BY <1>11, <2>2 DEF Loaded
      <3>3. state' \in [Plugins -> States]
        BY <3>2, ShapeStays DEF States
      <3> QED
        BY <1>b, <3>1, <3>2, <3>3 DEF States
    <2> QED
      BY <2>1, <2>2
  <1>12. ASSUME NEW c \in Managers, EnableNext(c) PROVE Q
    <2>1. CASE at' = [at EXCEPT ![c] = "check"] /\ UNCHANGED rest
      <3>1. Locals(c, "check", plugin[c], required[c], rest[c], frames[c], visited[c]) /\ Kept
        BY <1>12, <2>1, ShapeStays DEF Locals, EnableNext
      <3>2. "check" \in Points /\ "check" \in InOrder /\ rest[c] # <<>>
        BY <1>12 DEF EnableNext, Points, InOrder, InHook
      <3>3. /\ c \in Callers /\ plugin[c] \in Plugins /\ required[c] \in SUBSET Plugins
            /\ rest[c] \in Seq(Plugins) /\ frames[c] \in Calls /\ visited[c] \in SUBSET Plugins
            /\ state' \in [Plugins -> States] /\ providers' \in [Plugins -> Nat]
        BY <3>1, ShapeStays
      <3> QED
        BY ONLY Shape, <1>0, <3>1, <3>2, <3>3, ShapeMoves
    <2>2. CASE Skip(c) /\ UNCHANGED at
      <3>1. at' = [at EXCEPT ![c] = "enable"] /\ rest[c] # <<>> /\ Kept
        BY <1>12, <2>2, ShapeStays DEF EnableNext
      <3>2. UNCHANGED <<plugin, required, frames, visited>> /\ state' \in [Plugins -> States]
        BY <1>12, ShapeStays DEF EnableNext
      <3> QED
        BY <1>b, <2>2, <3>1, <3>2 DEF States
    <2> QED
      BY <1>12, <2>1, <2>2 DEF EnableNext
  <1>13. ASSUME NEW c \in Managers, CheckDependencies(c) PROVE Q
    <2>1. CASE Return(c)
      BY <1>0, <1>13, <2>1, Returns, ShapeStays DEF CheckDependencies
    <2>2. CASE at' = [at EXCEPT ![c] = "on_enable"] /\ UNCHANGED locals
      <3>1. Locals(c, "on_enable", plugin[c], required[c], rest[c], frames[c], visited[c]) /\ Kept
        BY <1>13, <2>2, ShapeStays DEF Locals, CheckDependencies
      <3>2. "on_enable" \in Points /\ "on_enable" \in InOrder /\ rest[c] # <<>>
        BY <1>13 DEF CheckDependencies, Points, InOrder, InHook, Shape
      <3>3. /\ c \in Callers /\ plugin[c] \in Plugins /\ required[c] \in SUBSET Plugins
            /\ rest[c] \in Seq(Plugins) /\ frames[c] \in Calls /\ visited[c] \in SUBSET Plugins
            /\ state' \in [Plugins -> States] /\ providers' \in [Plugins -> Nat]
        BY <3>1, ShapeStays
      <3> QED
        BY ONLY Shape, <1>0, <3>1, <3>2, <3>3, ShapeMoves
    <2> QED
      BY <1>13, <2>1, <2>2 DEF CheckDependencies
  <1>14. ASSUME NEW c \in Managers, Enabled(c) PROVE Q
    <2>1. CASE Return(c)
      BY <1>0, <1>14, <2>1, Returns, ShapeStays DEF Enabled, States
    <2>2. CASE ~Return(c)
      <3>1. rest[c] # <<>>
        BY <1>14 DEF Enabled, Shape, InHook
      <3>2. /\ Skip(c) /\ at' = [at EXCEPT ![c] = "enable"] /\ providers' = providers
            /\ UNCHANGED <<plugin, required, frames, visited>>
            /\ state' = [state EXCEPT ![Head(rest[c])] = "Enabled"]
        BY <1>14, <2>2 DEF Enabled
      <3>3. state' \in [Plugins -> States]
        BY <3>2, ShapeStays DEF States
      <3> QED
        BY <1>b, <3>1, <3>2, <3>3 DEF States
    <2> QED
      BY <2>1, <2>2
  <1>15. ASSUME NEW c \in Managers, DisableDependent(c) PROVE Q
    <2>1. PICK q \in Top(c).left :
             LET caller == [frames[c] EXCEPT ![Len(frames[c])].left = @ \ {q}]
             IN  /\ frames' = [frames EXCEPT ![c] =
                       IF q \in visited[c] THEN caller ELSE Append(caller, Frame(q))]
                 /\ visited' = [visited EXCEPT ![c] = @ \cup {q}]
      BY <1>15 DEF DisableDependent
    <2> DEFINE caller == [frames[c] EXCEPT ![Len(frames[c])].left = @ \ {q}]
               calls == IF q \in visited[c] THEN caller ELSE Append(caller, Frame(q))
    <2>2. frames[c] \in Calls /\ frames[c] # <<>>
      BY <1>15, ShapeStays DEF DisableDependent, Shape
    <2>3. Top(c) \in [plugin : Plugins, left : SUBSET Plugins] /\ q \in Plugins
      <3>1. Top(c) \in [plugin : Plugins, left : SUBSET Plugins]
        BY <2>2, LastOf DEF Calls, Top
      <3> QED
        BY <3>1
    <2>4. caller \in Calls /\ caller # <<>>
      <3>1. caller = [frames[c] EXCEPT ![Len(frames[c])] = [Top(c) EXCEPT !.left = @ \ {q}]]
        BY DEF Top
      <3>2. [Top(c) EXCEPT !.left = @ \ {q}] \in [plugin : Plugins, left : SUBSET Plugins]
        BY <2>3
      <3> HIDE DEF caller
      <3> QED
        BY <2>2, <3>1, <3>2, Replaced DEF Calls
    <2> HIDE DEF caller
    <2>5. calls \in Calls /\ calls # <<>>
      BY <2>3, <2>4, FrameType, Pushed DEF Calls
    <2> HIDE DEF calls
    <2>6. Locals(c, "disable", plugin[c], required[c], rest[c], calls, visited[c] \cup {q}) /\ Kept
      BY <1>15, <2>1, ShapeStays DEF Locals, DisableDependent, calls, caller, Shape, TypeOK
    <2>7. rest[c] = <<>> /\ "disable" \in Points /\ "disable" \notin InHook
      BY <1>15 DEF DisableDependent, Shape, InOrder, InHook, Points
    <2>8. visited[c] \cup {q} \in SUBSET Plugins
      BY <2>3, ShapeStays
    <2>9. /\ c \in Callers /\ plugin[c] \in Plugins /\ required[c] \in SUBSET Plugins
          /\ rest[c] \in Seq(Plugins) /\ frames[c] \in Calls /\ visited[c] \in SUBSET Plugins
          /\ state' \in [Plugins -> States] /\ providers' \in [Plugins -> Nat]
      BY <2>6, ShapeStays
    <2> QED
      BY ONLY Shape, <1>0, <2>5, <2>6, <2>7, <2>8, <2>9, ShapeDisables
  <1>16. ASSUME NEW c \in Managers, Disabled(c) PROVE Q
    <2>1. frames[c] \in Calls /\ frames[c] # <<>>
      BY <1>16, ShapeStays DEF Disabled, Shape
    <2>2. Top(c).plugin \in Plugins
      <3>1. Top(c) \in [plugin : Plugins, left : SUBSET Plugins]
        BY <2>1, LastOf DEF Calls, Top
      <3> QED
        BY <3>1
    <2>3. state' \in [Plugins -> States] /\ providers' = providers
      BY <1>16, <2>2, ShapeStays DEF Disabled, States
    <2>4. CASE Return(c)
      BY <1>0, <2>3, <2>4, Returns, ShapeStays
    <2>5. CASE ~Return(c)
      <3> DEFINE calls == SubSeq(frames[c], 1, Len(frames[c]) - 1)
      <3>1. Len(frames[c]) # 1 /\ frames' = [frames EXCEPT ![c] = calls]
            /\ UNCHANGED <<at, plugin, required, rest, visited>>
        BY <1>16, <2>5, ShapeStays DEF Disabled, Shape, TypeOK
      <3>2. calls \in Calls /\ calls # <<>>
        <4> HIDE DEF calls
        <4>1. calls = SubSeq(frames[c], 1, Len(frames[c]) - 1)
          BY DEF calls
        <4> QED
          BY <2>1, <3>1, <4>1, Popped DEF Calls
      <3>3. at[c] = "disable" /\ rest[c] = <<>> /\ "disable" \in Points /\ "disable" \notin InHook
        BY <1>16 DEF Disabled, Shape, InOrder, InHook, Points
      <3> HIDE DEF calls
      <3>4. Locals(c, "disable", plugin[c], required[c], rest[c], calls, visited[c])
        BY <3>1, <3>3, ShapeStays DEF Locals
      <3>5. /\ c \in Callers /\ plugin[c] \in Plugins /\ required[c] \in SUBSET Plugins
            /\ rest[c] \in Seq(Plugins) /\ frames[c] \in Calls /\ visited[c] \in SUBSET Plugins
            /\ state' \in [Plugins -> States] /\ providers' \in [Plugins -> Nat]
        BY <2>3, ShapeStays
      <3> QED
        BY ONLY Shape, <1>0, <3>2, <3>3, <3>4, <3>5, ShapeDisables
    <2> QED
      BY <2>4, <2>5
  <1>17. ASSUME NEW c \in Managers, Unloaded(c) PROVE Q
    <2>1. at' = [at EXCEPT ![c] = "drop_caps"] /\ UNCHANGED <<state, providers, locals>>
      BY <1>17 DEF Unloaded
    <2>2. "drop_caps" \in Points /\ "drop_caps" \notin InHook /\ rest[c] = <<>>
      BY <1>17 DEF Unloaded, Points, InHook, InOrder, Shape
    <2> QED
      BY <1>a, <2>1, <2>2
  <1>18. ASSUME NEW c \in Managers, DropCapabilities(c) PROVE Q
    <2>1. Locals(c, "drop_deps", plugin[c], required[c], <<>>, frames[c], visited[c])
      <3>1. rest[c] = <<>>
        BY <1>18 DEF DropCapabilities, Shape, InOrder, InHook
      <3>2. at' = [at EXCEPT ![c] = "drop_deps"] /\ UNCHANGED locals
        BY ONLY <1>18 DEF DropCapabilities, Go
      <3>3. Locals(c, "drop_deps", plugin[c], required[c], rest[c], frames[c], visited[c])
        BY ONLY Shape, c \in Callers, <3>2, ShapeStays DEF Locals, locals
      <3> QED
        BY ONLY <3>1, <3>3
    <2>2. providers' \in [Plugins -> Nat] /\ state' = state
      BY <1>18, ShapeStays DEF DropCapabilities
    <2>3. "drop_deps" \in Points \ InOrder /\ <<>> \in Seq(Plugins)
      BY DEF Points, InOrder, InHook
    <2> QED
      BY <1>0, <2>1, <2>2, <2>3, ShapeStays, ShapeMoves DEF InOrder
  <1>19. ASSUME NEW c \in Managers, DropDependencies(c) PROVE Q
    <2>1. at' = [at EXCEPT ![c] = "remove"] /\ UNCHANGED <<state, providers, locals>>
      BY <1>19 DEF DropDependencies
    <2>2. "remove" \in Points /\ "remove" \notin InHook /\ rest[c] = <<>>
      BY <1>19 DEF DropDependencies, Points, InHook, InOrder, Shape
    <2> QED
      BY <1>a, <2>1, <2>2
  <1>20. ASSUME NEW c \in Managers, Remove(c) PROVE Q
    BY <1>0, <1>20, Returns, ShapeStays DEF Remove, States
  <1>21. ASSUME NEW c \in Managers, Abandon(c) PROVE Q
    BY <1>0, <1>21, Returns, ShapeStays DEF Abandon
  <1>22. ASSUME UNCHANGED vars PROVE Q
    BY <1>22 DEF vars, Shape, TypeOK
  <1> HIDE DEF Q
  <1>23. ASSUME Next PROVE Q
    BY ONLY <1>1, <1>2, <1>3, <1>4, <1>5, <1>7, <1>8, <1>9, <1>10, <1>11,
       <1>12, <1>13, <1>14, <1>15, <1>16, <1>17, <1>18, <1>19, <1>20, <1>21,
       <1>23, NextCases
  <1> QED
    BY <1>22, <1>23 DEF Q

LEMMA ShapeInit == Init => Shape
  BY DEF Init, Shape, TypeOK, Graphs, States, Points, InHook, InOrder

\* The maps and the state of every call keep their types, whoever calls what.
THEOREM TypeCorrect == Spec => []TypeOK
  <1>1. Init => GraphsOK /\ GraphsMirror
    BY DEF Init, GraphsOK, Graphs, GraphsMirror, Callers
  <1>2. Shape => TypeOK
    BY DEF Shape
  <1> QED
    BY <1>1, <1>2, ShapeInit, ShapeStep, GraphsStep, PTL DEF Spec

(***************************************************************************)
(* The lifecycle, for one registrar and one manager. Enabled plugins stand *)
(* on a foundation: plugins that were enabled at one time and have not     *)
(* been removed, with what they depend on among them, at a lower rank. The *)
(* requirements on it have no cycle, whatever registrations come later, so *)
(* disable_inner never meets a plugin it is in the middle of disabling.    *)
(***************************************************************************)
Removing(p) == \E c \in Managers : at[c] = "remove" /\ plugin[c] = p

Grounded(W, rank, n) ==
    /\ \A p \in Plugins : state[p] = "Enabled" => p \in W
    /\ \A p \in W : state[p] # "Absent" /\ rank[p] < n
    /\ \A p \in W : \A d \in Requires(p) :
          d \in W /\ rank[d] < rank[p] /\ ~Removing(d)

Foundation ==
    \E W \in SUBSET Plugins, rank \in [Plugins -> Nat], n \in Nat : Grounded(W, rank, n)

\* What load_all and enable_all have left is there, and in order.
Ordered(c) ==
    /\ \A i \in 1..Len(rest[c]) : state[rest[c][i]] # "Absent"
    /\ \A j \in 1..Len(rest[c]) : \A i \in 1..(j - 1) :
          rest[c][j] \notin Requires(rest[c][i])
    /\ at[c] = "on_enable" => \A d \in Requires(Head(rest[c])) : state[d] = "Enabled"

\* The calls of disable_inner: each was made for an enabled dependent of the
\* caller. A dependent of one that is enabled is still to be disabled by it, or
\* is being disabled further up.
Nest(f, seen) ==
    /\ \A i \in 1..Len(f) : f[i].plugin \in seen
    /\ \A p \in seen : state[p] = "Enabled" => \E i \in 1..Len(f) : f[i].plugin = p
    /\ \A i, j \in 1..Len(f) : f[i].plugin = f[j].plugin => i = j
    /\ \A i \in 2..Len(f) :
          state[f[i].plugin] = "Enabled" /\ f[i - 1].plugin \in Requires(f[i].plugin)
    /\ \A i \in 1..Len(f) : \A q \in f[i].left \ seen :
          state[q] = "Enabled" /\ f[i].plugin \in Requires(q)
    /\ \A i \in 1..Len(f) : \A q \in Plugins :
          state[q] = "Enabled" /\ f[i].plugin \in Requires(q) =>
             q \in f[i].left \/ \E j \in (i + 1)..Len(f) : f[j].plugin = q

Nested(c) == Nest(frames[c], visited[c])

\* What an enabled plugin still lists is up.
EdgesStayUp ==
    \A p \in Plugins : state[p] = "Enabled" =>
        \A d \in Requires(p) : state[d] \in {"Enabled", "Loaded"}

Base == Shape /\ Books /\ GraphsOK /\ GraphsMirror

Life ==
    /\ Base /\ EdgesStayUp /\ Foundation
    /\ \A c \in Managers : Ordered(c) /\ (at[c] = "disable" => Nested(c))

LEMMA BaseStep ==
    ASSUME Alone, Base, [Next]_vars
    PROVE  Base'
  BY BooksStep, GraphsStep, ShapeStep DEF Base

\* A step that leaves what is there as it is, but for new entries.
Kept ==
    \A p \in Plugins :
        /\ state[p] # "Absent" => state'[p] = state[p] /\ Requires(p)' = Requires(p)
        /\ state[p] = "Absent" => state'[p] # "Enabled"

\* A step that removes nothing and changes no list of what is there.
Stays ==
    \A p \in Plugins :
        state[p] # "Absent" => state'[p] # "Absent" /\ Requires(p)' = Requires(p)

LEMMA RequiresType == \A p \in Plugins : Requires(p) \subseteq Plugins
  BY DEF Requires

\* The foundation, when nothing is enabled.
LEMMA FoundationStays ==
    ASSUME Foundation, Stays,
           \A p \in Plugins : state'[p] = "Enabled" => state[p] = "Enabled",
           \A p \in Plugins : Removing(p)' => Removing(p)
    PROVE  Foundation'
  <1>1. PICK W \in SUBSET Plugins, rank \in [Plugins -> Nat], n \in Nat : Grounded(W, rank, n)
    BY DEF Foundation
  <1>2. \A p \in Plugins : state'[p] = "Enabled" => p \in W
    BY <1>1 DEF Grounded
  <1>3. \A p \in W : state'[p] # "Absent" /\ rank[p] < n /\ Requires(p)' = Requires(p)
    BY <1>1 DEF Grounded, Stays
  <1>4. ASSUME NEW p \in W, NEW d \in Requires(p)'
        PROVE  d \in W /\ rank[d] < rank[p] /\ ~Removing(d)'
    BY <1>1, <1>3, <1>4 DEF Grounded
  <1>5. Grounded(W, rank, n)'
    BY <1>2, <1>3, <1>4 DEF Grounded
  <1> QED
    BY <1>5 DEF Foundation

LEMMA GroundKept ==
    ASSUME Life, Kept, \A p \in Plugins : Removing(p)' => Removing(p)
    PROVE  EdgesStayUp' /\ Foundation'
  <1>1. EdgesStayUp'
    <2> SUFFICES ASSUME NEW p \in Plugins, state'[p] = "Enabled", NEW d \in Requires(p)'
                 PROVE  state'[d] \in {"Enabled", "Loaded"}
      BY DEF EdgesStayUp
    <2>1. state[p] = "Enabled" /\ d \in Requires(p) /\ d \in Plugins
      BY RequiresType DEF Kept
    <2>2. state[d] \in {"Enabled", "Loaded"}
      BY <2>1 DEF Life, EdgesStayUp
    <2> QED
      BY <2>1, <2>2 DEF Kept
  <1>2. Stays /\ \A p \in Plugins : state'[p] = "Enabled" => state[p] = "Enabled"
    BY DEF Kept, Stays
  <1> QED
    BY <1>1, <1>2, FoundationStays DEF Life

\* The order that is left, when it is left alone.
LEMMA OrderedKept ==
    ASSUME Life, NEW c \in Managers, Stays, rest'[c] = rest[c],
           at'[c] = "on_enable" =>
              \A d \in Requires(Head(rest[c]))' : state'[d] = "Enabled"
    PROVE  Ordered(c)'
  <1>1. rest[c] \in Seq(Plugins) /\ Ordered(c)
    BY ShapeStays DEF Life, Base, Callers
  <1>2. \A i \in 1..Len(rest[c]) :
           state'[rest[c][i]] # "Absent" /\ Requires(rest[c][i])' = Requires(rest[c][i])
    BY <1>1 DEF Ordered, Stays
  <1> QED
    BY <1>1, <1>2 DEF Ordered

\* ... and when its head has been dealt with.
LEMMA OrderedSkip ==
    ASSUME Life, NEW c \in Managers, Stays, rest[c] # <<>>, rest'[c] = Tail(rest[c]),
           at'[c] # "on_enable"
    PROVE  Ordered(c)'
  <1>0. PICK t : t = Tail(rest[c])
    OBVIOUS
  <1>1. rest[c] \in Seq(Plugins) /\ Ordered(c)
    BY ShapeStays DEF Life, Base, Callers
  <1>2. /\ t \in Seq(Plugins) /\ Len(t) \in Nat /\ Len(rest[c]) \in Nat
        /\ \A i \in 1..Len(t) : i + 1 \in 1..Len(rest[c]) /\ t[i] = rest[c][i + 1]
    BY <1>0, <1>1
  <1>3. ASSUME NEW i \in 1..Len(t)
        PROVE  state'[t[i]] # "Absent" /\ Requires(t[i])' = Requires(t[i])
    <2>1. t[i] \in Plugins
      BY <1>2
    <2>2. state[t[i]] # "Absent"
      BY <1>1, <1>2 DEF Ordered
    <2> QED
      BY <2>1, <2>2 DEF Stays
  <1>4. ASSUME NEW j \in 1..Len(t), NEW i \in 1..(j - 1)
        PROVE  t[j] \notin Requires(t[i])'
    <2>1. i \in 1..Len(t) /\ i + 1 \in 1..((j + 1) - 1) /\ j + 1 \in 1..Len(rest[c])
      BY <1>2
    <2>2. rest[c][j + 1] \notin Requires(rest[c][i + 1])
      BY <1>1, <2>1 DEF Ordered
    <2> QED
      BY <1>2, <1>3, <2>1, <2>2
  <1> QED
    BY <1>0, <1>3, <1>4 DEF Ordered

LEMMA OrderedNone ==
    ASSUME NEW c, rest'[c] = <<>>, at'[c] # "on_enable"
    PROVE  Ordered(c)'
  BY DEF Ordered

LEMMA NestedKept ==
    ASSUME Life, NEW c \in Managers, Kept, at[c] = "disable",
           frames'[c] = frames[c], visited'[c] = visited[c]
    PROVE  Nested(c)'
  <1>1. frames[c] \in Calls /\ visited[c] \in SUBSET Plugins /\ Nested(c)
    BY ShapeStays DEF Life, Base, Callers
  <1>2. \A p \in Plugins : state[p] = "Enabled" => Requires(p)' = Requires(p)
    BY DEF Kept
  <1>3. \A p \in Plugins : state'[p] = "Enabled" <=> state[p] = "Enabled"
    BY DEF Kept
  <1>5. PICK f \in Calls : f = frames[c] /\ f = frames'[c]
    BY <1>1
  <1>4. /\ Len(f) \in Nat
        /\ \A i \in 1..Len(f) : f[i].plugin \in Plugins /\ f[i].left \subseteq Plugins
    BY CallTypes
  <1>6. /\ \A i \in 2..Len(f) :
              state'[f[i].plugin] = "Enabled" /\ f[i - 1].plugin \in Requires(f[i].plugin)'
        /\ \A i \in 1..Len(f) : \A q \in f[i].left \ visited[c] :
              state'[q] = "Enabled" /\ f[i].plugin \in Requires(q)'
    <2>1. ASSUME NEW i \in 2..Len(f)
          PROVE  state'[f[i].plugin] = "Enabled" /\ f[i - 1].plugin \in Requires(f[i].plugin)'
      <3>1. f[i].plugin \in Plugins
        BY <1>4
      <3>2. state[f[i].plugin] = "Enabled" /\ f[i - 1].plugin \in Requires(f[i].plugin)
        BY <1>1, <1>5 DEF Nested, Nest
      <3> QED
        BY <1>2, <1>3, <3>1, <3>2
    <2>2. ASSUME NEW i \in 1..Len(f), NEW q \in f[i].left \ visited[c]
          PROVE  state'[q] = "Enabled" /\ f[i].plugin \in Requires(q)'
      <3>1. state[q] = "Enabled" /\ f[i].plugin \in Requires(q)
        BY <1>1, <1>5 DEF Nested, Nest
      <3> QED
        BY <1>2, <1>3, <1>4, <3>1
    <2> QED
      BY <2>1, <2>2
  <1>7. \A i \in 1..Len(f) : \A q \in Plugins :
           state'[q] = "Enabled" /\ f[i].plugin \in Requires(q)' =>
              q \in f[i].left \/ \E j \in (i + 1)..Len(f) : f[j].plugin = q
    BY <1>1, <1>2, <1>3, <1>5 DEF Nested, Nest
  <1> QED
    BY <1>1, <1>3, <1>5, <1>6, <1>7 DEF Nested, Nest

\* A chain of requirements climbs the ranks from any call to any further up.
LEMMA Climbing ==
    ASSUME NEW n \in Nat, NEW g, \A i \in 1..n : g[i] \in Nat,
           \A i \in 2..n : g[i - 1] < g[i]
    PROVE  \A j \in 1..n : \A i \in 1..(j - 1) : g[i] < g[j]
  <1> DEFINE S == {j \in 1..n : \E i \in 1..(j - 1) : ~(g[i] < g[j])}
  <1> SUFFICES ASSUME S # {} PROVE FALSE
    OBVIOUS
  <1>1. PICK j \in S : \A m \in S : j <= m
    <2>1. S \subseteq Nat
      OBVIOUS
    <2> HIDE DEF S
    <2> QED
      BY <2>1, Least
  <1>2. PICK i \in 1..(j - 1) : ~(g[i] < g[j])
    OBVIOUS
  <1>3. j \in 2..n /\ j - 1 \in 1..n /\ g[j - 1] < g[j] /\ i \in 1..n
    OBVIOUS
  <1>4. i # j - 1
    BY <1>2, <1>3
  <1>5. g[i] < g[j - 1]
    <2>1. i \in 1..((j - 1) - 1)
      BY <1>3, <1>4
    <2>2. ~(j <= j - 1)
      BY <1>3
    <2> QED
      BY <1>1, <1>3, <2>1, <2>2
  <1> QED
    BY <1>2, <1>3, <1>5

\* Whoever is being disabled requires, directly or not, the plugins further
\* down, so it is none of them and they do not require it.
LEMMA NoWayBack ==
    ASSUME Life, NEW c \in Managers, at[c] = "disable",
           NEW j \in 1..Len(frames[c]), NEW i \in 1..j,
           state[frames[c][i].plugin] = "Enabled",
           frames[c][j].plugin \in Requires(frames[c][i].plugin)
    PROVE  FALSE
  <1>1. PICK W \in SUBSET Plugins, rank \in [Plugins -> Nat], n \in Nat : Grounded(W, rank, n)
    BY DEF Life, Foundation
  <1>2. PICK f \in Calls : f = frames[c]
    BY ShapeStays DEF Life, Base, Callers
  <1>3. PICK g : g = [k \in 1..Len(f) |-> rank[f[k].plugin]]
    OBVIOUS
  <1>4. /\ Len(f) \in Nat
        /\ \A k \in 1..Len(f) : f[k].plugin \in Plugins /\ g[k] \in Nat /\ g[k] = rank[f[k].plugin]
    BY <1>3, CallTypes
  <1>5. \A k \in 2..Len(f) : g[k - 1] < g[k]
    <2> SUFFICES ASSUME NEW k \in 2..Len(f) PROVE g[k - 1] < g[k]
      OBVIOUS
    <2>1. k \in 1..Len(f) /\ k - 1 \in 1..Len(f)
      BY <1>4
    <2>2. state[f[k].plugin] = "Enabled" /\ f[k - 1].plugin \in Requires(f[k].plugin)
      BY <1>2 DEF Life, Nested, Nest
    <2>3. f[k].plugin \in W
      BY <1>1, <1>4, <2>1, <2>2 DEF Grounded
    <2>4. rank[f[k - 1].plugin] < rank[f[k].plugin]
      BY <1>1, <2>2, <2>3 DEF Grounded
    <2> QED
      BY <1>4, <2>1, <2>4
  <1>6. \A m \in 1..Len(f) : \A k \in 1..(m - 1) : g[k] < g[m]
    BY <1>4, <1>5, Climbing
  <1>7. i \in 1..Len(f) /\ j \in 1..Len(f)
    BY <1>2, <1>4
  <1>8. g[j] < g[i]
    <2>1. f[i].plugin \in W
      BY <1>1, <1>2, <1>4, <1>7 DEF Grounded
    <2> QED
      BY <1>1, <1>2, <1>4, <1>7, <2>1 DEF Grounded
  <1>9. i = j \/ i \in 1..(j - 1)
    BY <1>4, <1>7
  <1> QED
    BY <1>4, <1>6, <1>7, <1>8, <1>9

\* When no dependent is left, none of them is enabled.
LEMMA LastOneUp ==
    ASSUME Life, NEW c \in Managers, at[c] = "disable", Top(c).left = {},
           NEW q \in Plugins, Top(c).plugin \in Requires(q)
    PROVE  state[q] # "Enabled"
  <1>1. Nested(c) /\ frames[c] \in Calls /\ frames[c] # <<>>
    BY ShapeStays DEF Life, Base, Callers, Shape
  <1>2. Len(frames[c]) \in Nat /\ Len(frames[c]) \in 1..Len(frames[c])
    BY <1>1, LastOf DEF Calls
  <1>3. ~ \E j \in (Len(frames[c]) + 1)..Len(frames[c]) : frames[c][j].plugin = q
    BY <1>2
  <1> QED
    BY <1>1, <1>2, <1>3 DEF Nested, Nest, Top

LEMMA NestedStarts ==
    ASSUME GraphsOK, GraphsMirror, NEW c, NEW p \in Plugins, UNCHANGED <<state, deps>>,
           frames'[c] = <<Frame(p)>>, visited'[c] = {p}
    PROVE  Nested(c)'
  <1>1. PICK f : f = <<Frame(p)>>
    OBVIOUS
  <1>2. Len(f) = 1 /\ f[1] = Frame(p) /\ f[1].plugin = p
    BY <1>1 DEF Frame
  <1>3. \A q \in Plugins : q \in f[1].left <=> state[q] = "Enabled" /\ p \in Requires(q)
    BY <1>2 DEF Frame, Requires, GraphsMirror
  <1>4. f[1].left \subseteq Plugins
    BY <1>2 DEF Frame
  <1>5. \A q \in Plugins : Requires(q)' = Requires(q)
    BY DEF Requires
  <1>6. 1..Len(f) = {1} /\ 2..Len(f) = {}
    BY <1>2
  <1> QED
    BY <1>1, <1>2, <1>3, <1>4, <1>5, <1>6 DEF Nested, Nest

LEMMA NestedCalls ==
    ASSUME Life, NEW c \in Managers, DisableDependent(c)
    PROVE  Nested(c)'
  <1>1. /\ frames[c] \in Calls /\ visited[c] \in SUBSET Plugins /\ Nested(c)
        /\ frames[c] # <<>> /\ at[c] = "disable" /\ c \in Callers
    BY ShapeStays DEF Life, Base, Callers, Shape, DisableDependent, At
  <1>2. PICK q \in Top(c).left :
           LET caller == [frames[c] EXCEPT ![Len(frames[c])].left = @ \ {q}]
           IN  /\ frames' = [frames EXCEPT ![c] =
                     IF q \in visited[c] THEN caller ELSE Append(caller, Frame(q))]
               /\ visited' = [visited EXCEPT ![c] = @ \cup {q}]
    BY DEF DisableDependent
  <1>3. PICK f \in Calls, v \in SUBSET Plugins : f = frames[c] /\ v = visited[c]
    BY <1>1
  <1>4. PICK u : u = [f EXCEPT ![Len(f)].left = @ \ {q}]
    OBVIOUS
  <1>5. /\ frames'[c] = IF q \in v THEN u ELSE Append(u, Frame(q))
        /\ visited'[c] = v \cup {q}
    BY <1>1, <1>2, <1>3, <1>4 DEF Life, Base, Shape, TypeOK
  <1>6. /\ Len(f) \in Nat /\ Len(f) \in 1..Len(f) /\ f[Len(f)] = Top(c)
        /\ f[Len(f)] \in [plugin : Plugins, left : SUBSET Plugins]
    BY <1>1, <1>3, LastOf DEF Calls, Top
  <1>7. /\ q \in f[Len(f)].left /\ q \in Plugins
        /\ \A i \in 1..Len(f) : f[i].plugin \in Plugins /\ f[i].left \in SUBSET Plugins
    BY <1>6, CallTypes
  <1>8. /\ u \in Calls /\ u # <<>> /\ Len(u) = Len(f)
        /\ \A i \in 1..Len(f) : u[i].plugin = f[i].plugin
        /\ u[Len(f)].left = f[Len(f)].left \ {q}
        /\ \A i \in 1..(Len(f) - 1) : u[i].left = f[i].left
    <2>1. PICK e : e = [f[Len(f)] EXCEPT !.left = @ \ {q}]
      OBVIOUS
    <2>2. /\ e \in [plugin : Plugins, left : SUBSET Plugins]
          /\ e.plugin = f[Len(f)].plugin /\ e.left = f[Len(f)].left \ {q}
      BY <1>6, <2>1
    <2>3. u = [f EXCEPT ![Len(f)] = e]
      BY <1>4, <2>1
    <2>4. /\ u \in Calls /\ u # <<>> /\ Len(u) = Len(f) /\ u[Len(u)] = e
          /\ \A i \in 1..(Len(f) - 1) : u[i] = f[i]
      BY <1>1, <1>3, <2>2, <2>3, Replaced DEF Calls
    <2>5. \A i \in 1..Len(f) : i = Len(f) \/ i \in 1..(Len(f) - 1)
      BY <1>6
    <2> QED
      BY <2>2, <2>4, <2>5
  <1>9. /\ \A i \in 1..Len(f) : f[i].plugin \in v
        /\ \A p \in v : state[p] = "Enabled" => \E i \in 1..Len(f) : f[i].plugin = p
        /\ \A i, j \in 1..Len(f) : f[i].plugin = f[j].plugin => i = j
        /\ \A i \in 2..Len(f) :
              state[f[i].plugin] = "Enabled" /\ f[i - 1].plugin \in Requires(f[i].plugin)
    BY <1>1, <1>3 DEF Nested, Nest
  <1>10. /\ \A i \in 1..Len(f) : \A r \in f[i].left \ v :
               state[r] = "Enabled" /\ f[i].plugin \in Requires(r)
         /\ \A i \in 1..Len(f) : \A r \in Plugins :
               state[r] = "Enabled" /\ f[i].plugin \in Requires(r) =>
                  r \in f[i].left \/ \E j \in (i + 1)..Len(f) : f[j].plugin = r
    BY <1>1, <1>3 DEF Nested, Nest
  <1>11. \A i \in 1..Len(f) : i = Len(f) \/ i \in 1..(Len(f) - 1)
    BY <1>6
  <1>12. \A i \in 1..Len(f) : u[i].left \subseteq f[i].left
    BY <1>8, <1>11
  <1>13. \A i \in 2..Len(f) : i \in 1..Len(f) /\ i - 1 \in 1..Len(f)
    BY <1>6
  \* A dependent that has been seen is not enabled any more, or it would be
  \* one of those being disabled.
  <1>14. CASE q \in v
    <2>1. ~(state[q] = "Enabled" /\ f[Len(f)].plugin \in Requires(q))
      <3> SUFFICES ASSUME state[q] = "Enabled", f[Len(f)].plugin \in Requires(q) PROVE FALSE
        OBVIOUS
      <3>1. PICK k \in 1..Len(f) : f[k].plugin = q
        BY <1>9, <1>14
      <3> QED
        BY <1>1, <1>3, <1>6, <3>1, NoWayBack
    <2>2. Nest(u, v)
      <3>1. \A i \in 1..Len(f) : \A r \in u[i].left \ v :
               state[r] = "Enabled" /\ u[i].plugin \in Requires(r)
        BY <1>8, <1>10, <1>12
      <3>2. ASSUME NEW i \in 1..Len(f), NEW r \in Plugins,
                   state[r] = "Enabled", u[i].plugin \in Requires(r)
            PROVE  r \in u[i].left \/ \E j \in (i + 1)..Len(f) : u[j].plugin = r
        <4>1. r \in f[i].left \/ \E j \in (i + 1)..Len(f) : f[j].plugin = r
          BY <1>8, <1>10, <3>2
        <4>2. \A j \in (i + 1)..Len(f) : u[j].plugin = f[j].plugin
          BY <1>8
        <4>3. i = Len(f) => r # q
          BY <1>8, <2>1, <3>2
        <4> QED
          BY <1>8, <1>11, <4>1, <4>2, <4>3
      <3>3. \A i \in 2..Len(f) :
               state[u[i].plugin] = "Enabled" /\ u[i - 1].plugin \in Requires(u[i].plugin)
        BY <1>8, <1>9, <1>13
      <3>4. /\ \A i \in 1..Len(f) : u[i].plugin \in v
            /\ \A p \in v : state[p] = "Enabled" => \E i \in 1..Len(f) : u[i].plugin = p
            /\ \A i, j \in 1..Len(f) : u[i].plugin = u[j].plugin => i = j
        BY <1>8, <1>9
      <3> QED
        BY <1>8, <3>1, <3>2, <3>3, <3>4 DEF Nest
    <2>3. Nest(u, v)'
      BY <2>2 DEF Nest, Requires, DisableDependent, registry
    <2>4. frames'[c] = u /\ visited'[c] = v
      BY <1>5, <1>14
    <2> QED
      BY <2>3, <2>4 DEF Nested
  <1>15. CASE q \notin v
    <2>1. PICK w : w = Append(u, Frame(q))
      OBVIOUS
    <2> DEFINE m == Len(f) + 1
    <2>2. /\ Len(w) = m /\ w[m] = Frame(q)
          /\ \A i \in 1..Len(f) : w[i] = u[i]
      BY <1>7, <1>8, <2>1, FrameType, Pushed DEF Calls
    <2>3. /\ m \in Nat /\ \A i \in 1..m : i = m \/ i \in 1..Len(f)
          /\ \A i \in 2..m : i = m \/ i \in 2..Len(f)
          /\ m - 1 = Len(f) /\ m \in 1..m /\ \A i \in 1..Len(f) : i \in 1..m /\ i # m
      BY <1>6
    <2>4. w[m].plugin = q /\ w[m].left = {r \in Plugins : dependents[q][r] > 0 /\ state[r] = "Enabled"}
      BY <2>2 DEF Frame
    <2>5. \A i \in 1..Len(f) : w[i].plugin = f[i].plugin /\ w[i].left \subseteq f[i].left
      BY <1>8, <1>12, <2>2
    <2>6. \A r \in Plugins : r \in w[m].left <=> state[r] = "Enabled" /\ q \in Requires(r)
      BY <1>7, <2>4 DEF Requires, Life, Base, GraphsMirror
    <2>7. state[q] = "Enabled" /\ f[Len(f)].plugin \in Requires(q)
      BY <1>6, <1>7, <1>10, <1>15
    <2>8. Nest(w, v \cup {q})
      <3> HIDE DEF m
      <3>1. \A i \in 1..m : w[i].plugin \in v \cup {q}
        BY <1>9, <2>3, <2>4, <2>5
      <3>2. \A p \in v \cup {q} : state[p] = "Enabled" => \E i \in 1..m : w[i].plugin = p
        BY <1>9, <2>3, <2>4, <2>5
      <3>3. \A i, j \in 1..m : w[i].plugin = w[j].plugin => i = j
        BY <1>9, <1>15, <2>3, <2>4, <2>5
      <3>4. \A i \in 2..m :
               state[w[i].plugin] = "Enabled" /\ w[i - 1].plugin \in Requires(w[i].plugin)
        BY <1>6, <1>9, <1>13, <2>3, <2>4, <2>5, <2>7
      <3>5. \A i \in 1..m : \A r \in w[i].left \ (v \cup {q}) :
               state[r] = "Enabled" /\ w[i].plugin \in Requires(r)
        BY <1>10, <2>3, <2>4, <2>5, <2>6
      <3>6. ASSUME NEW i \in 1..m, NEW r \in Plugins,
                   state[r] = "Enabled", w[i].plugin \in Requires(r)
            PROVE  r \in w[i].left \/ \E j \in (i + 1)..m : w[j].plugin = r
        <4>1. CASE i = m
          BY <2>4, <2>6, <3>6, <4>1
        <4>2. CASE i \in 1..Len(f)
          <5>1. r \in f[i].left \/ \E j \in (i + 1)..Len(f) : f[j].plugin = r
            BY <1>10, <2>5, <3>6, <4>2
          <5>2. m \in (i + 1)..m /\ \A j \in (i + 1)..Len(f) : j \in (i + 1)..m /\ w[j].plugin = f[j].plugin
            BY <2>3, <2>5, <4>2 DEF m
          <5>3. r = q \/ r \notin f[i].left \/ r \in w[i].left
            BY <1>8, <1>11, <2>2, <4>2
          <5> QED
            BY <2>4, <5>1, <5>2, <5>3
        <4> QED
          BY <2>3, <4>1, <4>2
      <3>7. Len(w) = m
        BY <2>2
      <3> QED
        BY <3>1, <3>2, <3>3, <3>4, <3>5, <3>6, <3>7 DEF Nest
    <2>9. Nest(w, v \cup {q})'
      BY <2>8 DEF Nest, Requires, DisableDependent, registry
    <2>10. frames'[c] = w /\ visited'[c] = v \cup {q}
      BY <1>5, <1>15, <2>1
    <2> QED
      BY <2>9, <2>10 DEF Nested
  <1> QED
    BY <1>14, <1>15

LEMMA NestedReturns ==
    ASSUME Life, NEW c \in Managers, Disabled(c), at'[c] = "disable"
    PROVE  Nested(c)'
  <1>1. /\ frames[c] \in Calls /\ visited[c] \in SUBSET Plugins /\ Nested(c)
        /\ frames[c] # <<>> /\ at[c] = "disable" /\ c \in Callers
    BY ShapeStays DEF Life, Base, Callers, Shape, Disabled, At
  <1>2. PICK f \in Calls, v \in SUBSET Plugins : f = frames[c] /\ v = visited[c]
    BY <1>1
  <1>3. /\ Len(f) \in Nat /\ Len(f) \in 1..Len(f) /\ f[Len(f)] = Top(c)
        /\ \A i \in 1..Len(f) : f[i].plugin \in Plugins
    BY <1>1, <1>2, LastOf, CallTypes DEF Calls, Top
  <1>4. PICK p \in Plugins : p = f[Len(f)].plugin
    BY <1>3
  <1>5. ~Return(c)
    BY <1>1 DEF Return, Go, Life, Base, Shape, TypeOK
  <1>6. /\ state' = [state EXCEPT ![p] = "Disabled"] /\ UNCHANGED <<deps, visited>>
        /\ Len(f) # 1 /\ frames' = [frames EXCEPT ![c] = SubSeq(@, 1, Len(@) - 1)]
    BY <1>2, <1>3, <1>4, <1>5 DEF Disabled, SetState
  <1>7. PICK u : u = SubSeq(f, 1, Len(f) - 1)
    OBVIOUS
  <1>8. frames'[c] = u /\ visited'[c] = v
    BY <1>1, <1>2, <1>6, <1>7 DEF Life, Base, Shape, TypeOK
  <1>9. Len(u) = Len(f) - 1 /\ \A i \in 1..Len(u) : u[i] = f[i] /\ i \in 1..Len(f) /\ i # Len(f)
    BY <1>1, <1>2, <1>3, <1>6, <1>7, Popped DEF Calls
  <1>10. \A r \in Plugins : state'[r] = IF r = p THEN "Disabled" ELSE state[r]
    BY <1>6 DEF Life, Base, Shape, TypeOK
  <1>11. \A r \in Plugins : Requires(r)' = Requires(r)
    BY <1>6 DEF Requires
  <1>12. Nest(f, v)
    BY <1>1, <1>2 DEF Nested
  <1>13. /\ \A i \in 1..Len(f) : f[i].plugin \in v
         /\ \A i, j \in 1..Len(f) : f[i].plugin = f[j].plugin => i = j
    BY <1>12 DEF Nest
  <1>14. \A i \in 1..Len(u) : u[i].plugin \in v /\ u[i].plugin \in Plugins /\ u[i].plugin # p
    BY <1>3, <1>4, <1>9, <1>13
  <1>15. ASSUME NEW r \in v, state'[r] = "Enabled" PROVE \E i \in 1..Len(u) : u[i].plugin = r
    <2>1. r # p /\ state[r] = "Enabled"
      BY <1>10, <1>15
    <2>2. PICK i \in 1..Len(f) : f[i].plugin = r
      BY <1>12, <2>1 DEF Nest
    <2>3. i \in 1..Len(u)
      BY <1>3, <1>4, <1>9, <2>1, <2>2
    <2> QED
      BY <1>9, <2>2, <2>3
  <1>16. \A i, j \in 1..Len(u) : u[i].plugin = u[j].plugin => i = j
    BY <1>9, <1>13
  <1>17. ASSUME NEW i \in 2..Len(u)
         PROVE  state'[u[i].plugin] = "Enabled" /\ u[i - 1].plugin \in Requires(u[i].plugin)'
    <2>1. i \in 2..Len(f) /\ i \in 1..Len(u) /\ i - 1 \in 1..Len(u)
      BY <1>3, <1>9
    <2>2. state[f[i].plugin] = "Enabled" /\ f[i - 1].plugin \in Requires(f[i].plugin)
      BY <1>12, <2>1 DEF Nest
    <2> QED
      BY <1>9, <1>10, <1>11, <1>14, <2>1, <2>2
  <1>18. ASSUME NEW i \in 1..Len(u), NEW r \in u[i].left \ v
         PROVE  state'[r] = "Enabled" /\ u[i].plugin \in Requires(r)'
    <2>1. i \in 1..Len(f) /\ u[i] = f[i]
      BY <1>9
    <2>2. state[r] = "Enabled" /\ f[i].plugin \in Requires(r)
      BY <1>12, <2>1 DEF Nest
    <2>3. r # p /\ r \in Plugins
      <3>1. f[i].left \in SUBSET Plugins
        BY <2>1, CallTypes
      <3> QED
        BY <1>3, <1>4, <1>13, <2>1, <3>1
    <2> QED
      BY <1>10, <1>11, <2>1, <2>2, <2>3
  <1>19. ASSUME NEW i \in 1..Len(u), NEW r \in Plugins,
                state'[r] = "Enabled", u[i].plugin \in Requires(r)'
         PROVE  r \in u[i].left \/ \E j \in (i + 1)..Len(u) : u[j].plugin = r
    <2>1. i \in 1..Len(f) /\ u[i] = f[i] /\ r # p /\ state[r] = "Enabled"
      BY <1>9, <1>10, <1>19
    <2>2. r \in f[i].left \/ \E j \in (i + 1)..Len(f) : f[j].plugin = r
      BY <1>11, <1>12, <1>19, <2>1 DEF Nest
    <2>3. ASSUME NEW j \in (i + 1)..Len(f), f[j].plugin = r
          PROVE  j \in (i + 1)..Len(u) /\ u[j].plugin = r
      <3>1. j # Len(f)
        BY <1>4, <2>1, <2>3
      <3>2. j \in (i + 1)..Len(u) /\ j \in 1..Len(u)
        BY <1>3, <1>9, <3>1
      <3> QED
        BY <1>9, <2>3, <3>2
    <2> QED
      BY <2>1, <2>2, <2>3
  <1>20. Nest(u, v)'
    BY <1>14, <1>15, <1>16, <1>17, <1>18, <1>19 DEF Nest
  <1> QED
    BY <1>8, <1>20 DEF Nested

\* A plugin that is enabled for the first time comes on top of it.
LEMMA FoundationGrows ==
    ASSUME Foundation, NEW h \in Plugins, state[h] # "Absent", UNCHANGED deps,
           state \in [Plugins -> States], state' = [state EXCEPT ![h] = "Enabled"],
           \A d \in Requires(h) : state[d] = "Enabled",
           \A p \in Plugins : ~Removing(p)'
    PROVE  Foundation'
  <1>1. PICK W \in SUBSET Plugins, rank \in [Plugins -> Nat], n \in Nat : Grounded(W, rank, n)
    BY DEF Foundation
  <1>2. \A p \in Plugins : Requires(p)' = Requires(p)
    BY DEF Requires
  <1>3. \A p \in Plugins : state'[p] = IF p = h THEN "Enabled" ELSE state[p]
    OBVIOUS
  <1>4. CASE h \in W
    <2>1. Grounded(W, rank, n)'
      BY <1>1, <1>2, <1>3, <1>4 DEF Grounded
    <2> QED
      BY <2>1 DEF Foundation
  <1>5. CASE h \notin W
    <2>1. PICK V \in SUBSET Plugins : V = W \cup {h}
      OBVIOUS
    <2>2. PICK higher \in [Plugins -> Nat] : higher = [rank EXCEPT ![h] = n]
      OBVIOUS
    <2>3. n + 1 \in Nat /\ higher[h] = n /\ \A p \in W : higher[p] = rank[p] /\ p # h
      BY <1>5, <2>2
    <2>4. \A p \in Plugins : state'[p] = "Enabled" => p \in V
      BY <1>1, <1>3, <2>1 DEF Grounded
    <2>5. \A p \in V : state'[p] # "Absent" /\ higher[p] < n + 1
      <3> SUFFICES ASSUME NEW p \in V PROVE state'[p] # "Absent" /\ higher[p] < n + 1
        OBVIOUS
      <3>1. CASE p = h
        BY <1>3, <2>3, <3>1
      <3>2. CASE p \in W
        <4>1. state[p] # "Absent" /\ rank[p] < n /\ rank[p] \in Nat /\ higher[p] = rank[p]
          BY <1>1, <2>3, <3>2 DEF Grounded
        <4> QED
          BY <1>3, <4>1
      <3> QED
        BY <2>1, <3>1, <3>2
    <2>6. ASSUME NEW p \in V, NEW d \in Requires(p)'
          PROVE  d \in V /\ higher[d] < higher[p] /\ ~Removing(d)'
      <3>0. d \in Plugins
        BY <1>2, RequiresType
      <3>1. CASE p = h
        <4>1. d \in W
          BY <1>1, <1>2, <3>0, <3>1 DEF Grounded
        <4> QED
          BY <1>1, <2>1, <2>3, <3>0, <3>1, <4>1 DEF Grounded
      <3>2. CASE p \in W
        BY <1>1, <1>2, <2>1, <2>3, <3>0, <3>2 DEF Grounded
      <3> QED
        BY <2>1, <3>1, <3>2
    <2>7. Grounded(V, higher, n + 1)'
      BY <2>4, <2>5, <2>6 DEF Grounded
    <2> QED
      BY <2>3, <2>7 DEF Foundation
  <1> QED
    BY <1>4, <1>5

\* unregister drops what the plugin requires and what requires it: nothing
\* that is enabled has it in its list when it is removed.
LEMMA GroundForgets ==
    ASSUME Alone, Life, NEW c \in Managers, DropDependencies(c)
    PROVE  EdgesStayUp' /\ Foundation'
  <1>1. plugin[c] \in Plugins /\ deps \in Graphs /\ at \in [Callers -> Points]
    BY DEF Life, Base, GraphsOK, Shape, TypeOK, Callers
  <1>2. UNCHANGED <<state, plugin>> /\ \A p \in Plugins : Requires(p)' = IF p = plugin[c] THEN {} ELSE Requires(p) \ {plugin[c]}
    BY <1>1 DEF DropDependencies, Erased, Requires, Graphs, locals
  <1>3. EdgesStayUp'
    BY <1>2 DEF Life, EdgesStayUp
  <1>4. \A p \in Plugins : Removing(p)' => p = plugin[c]
    BY <1>2 DEF Removing, Alone
  <1>5. PICK W \in SUBSET Plugins, rank \in [Plugins -> Nat], n \in Nat : Grounded(W, rank, n)
    BY DEF Life, Foundation
  <1>6. ASSUME NEW p \in W, NEW d \in Requires(p)'
        PROVE  d \in W /\ rank[d] < rank[p] /\ ~Removing(d)'
    <2>1. d \in Requires(p) /\ d # plugin[c] /\ d \in Plugins
      BY <1>2, RequiresType
    <2> QED
      BY <1>4, <1>5, <2>1 DEF Grounded
  <1>7. Grounded(W, rank, n)'
    BY <1>2, <1>5, <1>6 DEF Grounded
  <1> QED
    BY <1>3, <1>7 DEF Foundation

LEMMA GroundRemoves ==
    ASSUME Alone, Life, NEW c \in Managers, Remove(c)
    PROVE  EdgesStayUp' /\ Foundation'
  <1>1. PICK p \in Plugins : p = plugin[c]
    BY DEF Life, Base, Shape, TypeOK, Callers
  <1>2. /\ at[c] = "remove" /\ state' = [state EXCEPT ![p] = "Absent"]
        /\ UNCHANGED <<deps, plugin>> /\ at' = [at EXCEPT ![c] = "idle"]
    BY <1>1 DEF Remove, At, SetState, Return, Go
  <1>3. Removing(p) /\ state[p] # "Enabled"
    BY <1>1, <1>2 DEF Life, Base, Books, Removing
  <1>4. \A q \in Plugins : Requires(q)' = Requires(q) /\ state'[q] = IF q = p THEN "Absent" ELSE state[q]
    BY <1>2 DEF Requires, Life, Base, Shape, TypeOK
  <1>5. \A q \in Plugins : ~Removing(q)'
    BY <1>2 DEF Removing, Alone, Life, Base, Shape, TypeOK, Callers
  <1>6. PICK W \in SUBSET Plugins, rank \in [Plugins -> Nat], n \in Nat : Grounded(W, rank, n)
    BY DEF Life, Foundation
  <1>7. \A q \in W : p \notin Requires(q)
    BY <1>3, <1>6 DEF Grounded
  <1>8. EdgesStayUp'
    <2> SUFFICES ASSUME NEW q \in Plugins, state'[q] = "Enabled", NEW d \in Requires(q)'
                 PROVE  state'[d] \in {"Enabled", "Loaded"}
      BY DEF EdgesStayUp
    <2>1. state[q] = "Enabled" /\ q \in W /\ d \in Requires(q) /\ d \in Plugins /\ d # p
      BY <1>4, <1>6, <1>7, RequiresType DEF Grounded
    <2> QED
      BY <1>4, <2>1 DEF Life, EdgesStayUp
  <1>9. PICK V \in SUBSET Plugins : V = W \ {p}
    OBVIOUS
  <1>10. Grounded(V, rank, n)'
    <2>1. \A q \in Plugins : state'[q] = "Enabled" => q \in V
      BY <1>4, <1>6, <1>9 DEF Grounded
    <2>2. \A q \in V : state'[q] # "Absent" /\ rank[q] < n
      BY <1>4, <1>6, <1>9 DEF Grounded
    <2>3. ASSUME NEW q \in V, NEW d \in Requires(q)'
          PROVE  d \in V /\ rank[d] < rank[q] /\ ~Removing(d)'
      <3>1. q \in W /\ d \in Requires(q) /\ d \in Plugins
        BY <1>4, <1>9, RequiresType
      <3> QED
        BY <1>5, <1>6, <1>7, <1>9, <3>1 DEF Grounded
    <2> QED
      BY <2>1, <2>2, <2>3 DEF Grounded
  <1> QED
    BY <1>8, <1>10 DEF Foundation

\* What a step of a manager has to show, where nobody else is a manager.
LEMMA Moves ==
    ASSUME Alone, Base', EdgesStayUp', Foundation', NEW c \in Managers,
           Ordered(c)', at'[c] = "disable" => Nested(c)'
    PROVE  Life'
  <1>1. \A d \in Managers : d = c
    BY DEF Alone
  <1> QED
    BY <1>1 DEF Life

LEMMA Quiet ==
    ASSUME Alone, Life, Base', NEW c \in Managers, UNCHANGED <<state, deps>>,
           at'[c] # "remove", Ordered(c)', at'[c] = "disable" => Nested(c)'
    PROVE  Life'
  <1>1. Kept
    BY DEF Kept, Requires, Life, Base, Shape, TypeOK
  <1>2. \A p \in Plugins : ~Removing(p)'
    BY DEF Removing, Alone
  <1> QED
    BY <1>1, <1>2, GroundKept, Moves

LEMMA Registers ==
    ASSUME Life, Base', Kept,
           \A d \in Managers : /\ at'[d] = at[d] /\ plugin'[d] = plugin[d]
                               /\ rest'[d] = rest[d] /\ frames'[d] = frames[d]
                               /\ visited'[d] = visited[d]
    PROVE  Life'
  <1>1. EdgesStayUp' /\ Foundation'
    BY GroundKept DEF Removing
  <1>2. ASSUME NEW c \in Managers PROVE Ordered(c)'
    <2>1. Stays
      BY DEF Kept, Stays
    <2>2. ASSUME at[c] = "on_enable", NEW d \in Requires(Head(rest[c]))'
          PROVE  state'[d] = "Enabled"
      <3>1. PICK h \in Plugins : h = Head(rest[c]) /\ state[h] # "Absent"
        <4>1. rest[c] \in Seq(Plugins) /\ rest[c] # <<>> /\ Ordered(c)
          BY <2>2, ShapeStays DEF Life, Base, Callers, Shape, InHook
        <4>2. 1 \in 1..Len(rest[c]) /\ Head(rest[c]) = rest[c][1] /\ rest[c][1] \in Plugins
          BY <4>1
        <4> QED
          BY <4>1, <4>2 DEF Ordered
      <3>2. rest'[c] = rest[c] /\ d \in Requires(h)'
        BY <2>2, <3>1 DEF Requires
      <3>3. d \in Requires(h) /\ d \in Plugins
        BY <3>1, <3>2, RequiresType DEF Kept
      <3>4. state[d] = "Enabled"
        BY <2>2, <3>1, <3>3 DEF Life, Ordered
      <3> QED
        BY <3>3, <3>4 DEF Kept
    <2> QED
      BY <2>1, <2>2, OrderedKept
  <1>3. ASSUME NEW c \in Managers, at'[c] = "disable" PROVE Nested(c)'
    BY <1>3, NestedKept
  <1> QED
    BY <1>1, <1>2, <1>3 DEF Life

LEMMA Rests ==
    ASSUME Shape, NEW c \in Managers
    PROVE  /\ at[c] \notin InOrder => rest[c] = <<>>
           /\ at[c] \in InHook => rest[c] # <<>>
           /\ rest[c] # <<>> => Head(rest[c]) \in Plugins
           /\ Return(c) => at'[c] = "idle" /\ rest'[c] = <<>>
           /\ Skip(c) => rest'[c] = Tail(rest[c])
           /\ \A point : Go(c, point) => at'[c] = point
           /\ c \in Callers /\ plugin[c] \in Plugins
  <1>1. c \in Callers /\ rest[c] \in Seq(Plugins)
    BY ShapeStays DEF Callers
  <1> QED
    BY <1>1 DEF Shape, TypeOK, Return, Go, Skip

LEMMA LifeReturns ==
    ASSUME Alone, Life, Base', NEW c \in Managers, Return(c), UNCHANGED registry
    PROVE  Life'
  <1>1. at'[c] = "idle" /\ rest'[c] = <<>>
    BY Rests DEF Life, Base
  <1> QED
    BY <1>1, OrderedNone, Quiet DEF registry

LEMMA RegistrarSteps ==
    ASSUME Life, Base', NEW c \in Registrars,
           Register(c) \/ \E p \in Plugins : StartRegister(c, p)
    PROVE  Life'
  <1>1. \A d \in Managers : d # c /\ d \in Callers
    BY RegistryAssumption DEF RegistryAssumption, Callers
  <1>2. Shape /\ c \in Callers /\ plugin[c] \in Plugins /\ deps \in Graphs
    BY ShapeStays DEF Life, Base, Callers, GraphsOK
  <1>3. CASE \E p \in Plugins : StartRegister(c, p)
    <2>1. Kept
      BY <1>3 DEF StartRegister, Kept, Requires, registry
    <2> QED
      BY <1>1, <1>2, <1>3, <2>1, Registers DEF StartRegister, Go, Shape, TypeOK
  <1>4. CASE AddCapabilities(c)
    <2>1. Kept
      BY <1>4 DEF AddCapabilities, Kept, Requires
    <2> QED
      BY <1>1, <1>2, <1>4, <2>1, Registers DEF AddCapabilities, Go, locals, Shape, TypeOK
  <1>5. CASE AddDependencies(c)
    <2>1. state[plugin[c]] = "Absent" /\ UNCHANGED state
      BY <1>5 DEF AddDependencies, At, Life, Base, Books
    <2>2. \A p \in Plugins \ {plugin[c]} : Requires(p)' = Requires(p)
      BY <1>2, <1>5 DEF AddDependencies, Requires, Graphs
    <2>3. Kept
      BY <2>1, <2>2 DEF Kept
    <2> QED
      BY <1>1, <1>2, <1>5, <2>3, Registers DEF AddDependencies, Go, locals, Shape, TypeOK
  <1>6. CASE Insert(c)
    <2>1. state[plugin[c]] = "Absent"
      BY <1>6 DEF Insert, At, Life, Base, Books
    <2>2. Kept
      BY <1>2, <1>6, <2>1 DEF Insert, Kept, Requires, SetState, Shape, TypeOK
    <2> QED
      BY <1>1, <1>2, <1>6, <2>2, Registers DEF Insert, Return, Go, Shape, TypeOK
  <1> QED
    BY <1>3, <1>4, <1>5, <1>6 DEF Register

LEMMA OrdersSteps ==
    ASSUME Alone, Life, Base', NEW c \in Managers, NEW point \in {"load", "enable"},
           StartAll(c, point)
    PROVE  Life'
  <1>1. PICK order \in EnableOrders : rest' = [rest EXCEPT ![c] = order]
    BY DEF StartAll
  <1>2. /\ order \in Seq(Registered)
        /\ \A j \in 1..Len(order) : \A i \in 1..(j - 1) : order[j] \notin Requires(order[i])
    BY OrderProperties DEF Life, Base
  <1>3. rest'[c] = order /\ at'[c] = point /\ UNCHANGED <<state, deps>>
    BY <1>1, Rests DEF StartAll, registry, Life, Base, Shape, TypeOK
  <1>4. \A i \in 1..Len(order) : state[order[i]] # "Absent"
    <2>1. \A i \in 1..Len(order) : order[i] \in Registered
      BY <1>2, ElementOfSeq
    <2> QED
      BY <2>1 DEF Registered
  <1>5. \A j \in 1..Len(order) : \A i \in 1..(j - 1) : order[j] \notin Requires(order[i])'
    BY <1>2, <1>3 DEF Requires
  <1>6. Ordered(c)'
    BY <1>3, <1>4, <1>5 DEF Ordered
  <1> QED
    BY <1>3, <1>6, Quiet

LEMMA LoadSteps ==
    ASSUME Alone, Life, Base', NEW c \in Managers, LoadNext(c) \/ Loaded(c)
    PROVE  Life'
  <1>1. Shape /\ \A p \in Plugins : UNCHANGED deps => Requires(p)' = Requires(p)
    BY DEF Life, Base, Requires
  <1>2. CASE LoadNext(c) /\ Return(c)
    BY <1>2, LifeReturns DEF LoadNext
  <1>3. CASE LoadNext(c) /\ ~Return(c)
    <2>1. at'[c] = "on_load" /\ rest'[c] = rest[c] /\ UNCHANGED <<state, deps>> /\ Stays
      BY <1>1, <1>3, Rests DEF LoadNext, registry, locals, Stays
    <2> QED
      BY <2>1, OrderedKept, Quiet
  <1>4. CASE Loaded(c) /\ state[Head(rest[c])] = "Absent"
    BY <1>4, LifeReturns DEF Loaded, registry
  <1>5. CASE Loaded(c) /\ state[Head(rest[c])] # "Absent"
    <2>1. PICK h : h = Head(rest[c])
      OBVIOUS
    <2>2. /\ rest[c] # <<>> /\ h \in Plugins /\ state[h] # "Absent" /\ UNCHANGED deps
          /\ state' = [state EXCEPT ![h] = "Loaded"]
          /\ rest'[c] = Tail(rest[c]) /\ at'[c] = "load"
      BY <1>1, <1>5, <2>1, Rests DEF Loaded, At, InHook, SetState
    <2>3. \A p \in Plugins : state'[p] = IF p = h THEN "Loaded" ELSE state[p]
      BY <1>1, <2>2 DEF Shape, TypeOK
    <2>4. Stays /\ \A p \in Plugins : state'[p] = "Enabled" => state[p] = "Enabled"
      BY <1>1, <2>2, <2>3 DEF Stays
    <2>5. \A p \in Plugins : ~Removing(p)'
      BY <2>2 DEF Removing, Alone
    <2>6. Foundation'
      BY <2>4, <2>5, FoundationStays DEF Life
    <2>7. EdgesStayUp'
      <3> SUFFICES ASSUME NEW p \in Plugins, state'[p] = "Enabled", NEW d \in Requires(p)'
                   PROVE  state'[d] \in {"Enabled", "Loaded"}
        BY DEF EdgesStayUp
      <3>1. state[p] = "Enabled" /\ d \in Requires(p) /\ d \in Plugins
        BY <1>1, <2>2, <2>4, RequiresType
      <3> QED
        BY <2>3, <3>1 DEF Life, EdgesStayUp
    <2> QED
      BY <2>2, <2>4, <2>6, <2>7, OrderedSkip, Moves
  <1> QED
    BY <1>2, <1>3, <1>4, <1>5

LEMMA EnableSteps ==
    ASSUME Alone, Life, Base', NEW c \in Managers,
           EnableNext(c) \/ CheckDependencies(c) \/ Enabled(c)
    PROVE  Life'
  <1>1. Shape /\ \A p \in Plugins : UNCHANGED deps => Requires(p)' = Requires(p)
    BY DEF Life, Base, Requires
  <1>2. CASE EnableNext(c)
    <2>1. UNCHANGED <<state, deps>> /\ Stays /\ rest[c] # <<>> /\ at[c] = "enable"
      BY <1>1, <1>2 DEF EnableNext, At, registry, Stays
    <2>2. \/ at'[c] = "check" /\ rest'[c] = rest[c]
          \/ at'[c] = "enable" /\ rest'[c] = Tail(rest[c])
      BY <1>1, <1>2, Rests DEF EnableNext, At
    <2> QED
      BY <2>1, <2>2, OrderedKept, OrderedSkip, Quiet
  <1>3. CASE CheckDependencies(c) /\ Return(c)
    BY <1>3, LifeReturns DEF CheckDependencies
  <1>4. CASE CheckDependencies(c) /\ ~Return(c)
    <2>1. /\ at'[c] = "on_enable" /\ rest'[c] = rest[c] /\ UNCHANGED <<state, deps>> /\ Stays
          /\ \A d \in Requires(Head(rest[c])) : state[d] = "Enabled"
      BY <1>1, <1>4, Rests DEF CheckDependencies, registry, locals, Stays
    <2>2. \A d \in Requires(Head(rest[c]))' : state'[d] = "Enabled"
      BY <1>1, <1>4, <2>1 DEF Requires, CheckDependencies, locals
    <2> QED
      BY <2>1, <2>2, OrderedKept, Quiet
  <1>5. CASE Enabled(c) /\ state[Head(rest[c])] = "Absent"
    BY <1>5, LifeReturns DEF Enabled, registry
  <1>6. CASE Enabled(c) /\ state[Head(rest[c])] # "Absent"
    <2>1. PICK h : h = Head(rest[c])
      OBVIOUS
    <2>2. /\ rest[c] # <<>> /\ h \in Plugins /\ state[h] # "Absent" /\ UNCHANGED deps
          /\ state' = [state EXCEPT ![h] = "Enabled"] /\ at[c] = "on_enable"
          /\ rest'[c] = Tail(rest[c]) /\ at'[c] = "enable"
      BY <1>1, <1>6, <2>1, Rests DEF Enabled, At, InHook, SetState
    <2>3. \A p \in Plugins : state'[p] = IF p = h THEN "Enabled" ELSE state[p]
      BY <1>1, <2>2 DEF Shape, TypeOK
    <2>4. Stays
      BY <1>1, <2>2, <2>3 DEF Stays
    <2>5. \A p \in Plugins : ~Removing(p)'
      BY <2>2 DEF Removing, Alone
    <2>6. \A d \in Requires(h) : state[d] = "Enabled"
      BY <2>1, <2>2 DEF Life, Ordered
    <2>7. Foundation'
      BY <1>1, <2>2, <2>5, <2>6, FoundationGrows DEF Life, Shape, TypeOK
    <2>8. EdgesStayUp'
      <3> SUFFICES ASSUME NEW p \in Plugins, state'[p] = "Enabled", NEW d \in Requires(p)'
                   PROVE  state'[d] \in {"Enabled", "Loaded"}
        BY DEF EdgesStayUp
      <3>1. d \in Requires(p) /\ d \in Plugins /\ (p = h \/ state[p] = "Enabled")
        BY <1>1, <2>2, <2>3, RequiresType
      <3> QED
        BY <2>3, <2>6, <3>1 DEF Life, EdgesStayUp
    <2> QED
      BY <2>2, <2>4, <2>7, <2>8, OrderedSkip, Moves
  <1> QED
    BY <1>2, <1>3, <1>4, <1>5, <1>6

LEMMA DisableSteps ==
    ASSUME Alone, Life, Base', NEW c \in Managers,
           DisableDependent(c) \/ Disabled(c) \/ \E p \in Plugins : StartDisable(c, p)
    PROVE  Life'
  <1>1. Shape /\ \A p \in Plugins : UNCHANGED deps => Requires(p)' = Requires(p)
    BY DEF Life, Base, Requires
  <1>2. ASSUME NEW p \in Plugins, StartDisable(c, p) PROVE Life'
    <2>1. /\ rest'[c] = <<>> /\ at'[c] = "disable" /\ UNCHANGED <<state, deps>>
          /\ frames'[c] = <<Frame(p)>> /\ visited'[c] = {p}
      BY <1>1, <1>2, Rests DEF StartDisable, At, InOrder, InHook, registry, Shape, TypeOK
    <2>2. Nested(c)' /\ Ordered(c)'
      BY <2>1, NestedStarts, OrderedNone DEF Life, Base
    <2> QED
      BY <2>1, <2>2, Quiet
  <1>3. CASE DisableDependent(c)
    <2>1. rest'[c] = <<>> /\ at'[c] = "disable" /\ UNCHANGED <<state, deps>>
      BY <1>1, <1>3, Rests DEF DisableDependent, At, InOrder, InHook, registry
    <2> QED
      BY <1>3, <2>1, NestedCalls, OrderedNone, Quiet
  <1>4. CASE Disabled(c) /\ state[Top(c).plugin] = "Absent"
    BY <1>4, LifeReturns DEF Disabled, registry
  <1>5. CASE Disabled(c) /\ state[Top(c).plugin] # "Absent"
    <2>1. frames[c] \in Calls /\ frames[c] # <<>> /\ at[c] = "disable" /\ Top(c).left = {}
      BY <1>1, <1>5, ShapeStays DEF Disabled, At, Shape, Callers
    <2>2. PICK h \in Plugins : h = Top(c).plugin
      <3>1. Top(c) \in [plugin : Plugins, left : SUBSET Plugins]
        BY <2>1, LastOf DEF Calls, Top
      <3> QED
        BY <3>1
    <2>3. /\ state[h] # "Absent" /\ state' = [state EXCEPT ![h] = "Disabled"] /\ UNCHANGED deps
          /\ rest'[c] = <<>> /\ at'[c] \in {"idle", "disable"}
      BY <1>1, <1>5, <2>1, <2>2, Rests DEF Disabled, SetState, InOrder, InHook
    <2>4. \A p \in Plugins : state'[p] = IF p = h THEN "Disabled" ELSE state[p]
      BY <1>1, <2>3 DEF Shape, TypeOK
    <2>5. Stays /\ \A p \in Plugins : state'[p] = "Enabled" => state[p] = "Enabled"
      BY <1>1, <2>3, <2>4 DEF Stays
    <2>6. \A p \in Plugins : ~Removing(p)'
      BY <2>3 DEF Removing, Alone
    <2>7. Foundation'
      BY <2>5, <2>6, FoundationStays DEF Life
    <2>8. EdgesStayUp'
      <3> SUFFICES ASSUME NEW p \in Plugins, state'[p] = "Enabled", NEW d \in Requires(p)'
                   PROVE  state'[d] \in {"Enabled", "Loaded"}
        BY DEF EdgesStayUp
      <3>1. state[p] = "Enabled" /\ d \in Requires(p) /\ d \in Plugins
        BY <1>1, <2>3, <2>5, RequiresType
      <3>2. d # h
        BY <2>1, <2>2, <3>1, LastOneUp
      <3> QED
        BY <2>4, <3>1, <3>2 DEF Life, EdgesStayUp
    <2>9. at'[c] = "disable" => Nested(c)'
      BY <1>5, NestedReturns
    <2>10. Ordered(c)'
      BY <2>3, OrderedNone
    <2> QED
      BY <2>7, <2>8, <2>9, <2>10, Moves
  <1> QED
    BY <1>2, <1>3, <1>4, <1>5

LEMMA UnregisterSteps ==
    ASSUME Alone, Life, Base', NEW c \in Managers,
           \/ \E p \in Plugins : StartUnregister(c, p)
           \/ Unloaded(c) \/ DropCapabilities(c) \/ DropDependencies(c) \/ Remove(c)
    PROVE  Life'
  <1>1. Shape
    BY DEF Life, Base
  <1>2. rest'[c] = <<>> /\ at'[c] \in {"idle", "on_unload", "drop_caps", "drop_deps", "remove"}
    BY <1>1, Rests DEF StartUnregister, Unloaded, DropCapabilities, DropDependencies, Remove,
       At, InOrder, InHook, locals
  <1>3. Ordered(c)' /\ at'[c] # "disable"
    BY <1>2, OrderedNone
  <1>4. CASE DropDependencies(c)
    BY <1>3, <1>4, GroundForgets, Moves
  <1>5. CASE Remove(c)
    BY <1>3, <1>5, GroundRemoves, Moves
  <1>6. CASE (\E p \in Plugins : StartUnregister(c, p)) \/ Unloaded(c) \/ DropCapabilities(c)
    <2>1. at'[c] # "remove" /\ UNCHANGED <<state, deps>>
      BY <1>1, <1>6, Rests DEF StartUnregister, Unloaded, DropCapabilities, registry
    <2> QED
      BY <1>3, <2>1, Quiet
  <1> QED
    BY <1>4, <1>5, <1>6

LEMMA LifeStep ==
    ASSUME Alone, Life, [Next]_vars
    PROVE  Life'
  <1>1. Base'
    BY BaseStep DEF Life
  <1>2. ASSUME NEW c \in Registrars, Register(c) \/ \E p \in Plugins : StartRegister(c, p)
        PROVE  Life'
    BY <1>1, <1>2, RegistrarSteps
  <1>3. ASSUME NEW c \in Managers, Start(c) \/ Proceed(c) \/ Abandon(c) PROVE Life'
    <2>1. CASE FinishAll(c) \/ Abandon(c)
      BY <1>1, <2>1, LifeReturns DEF FinishAll, Abandon
    <2>2. CASE StartAll(c, "load") \/ StartAll(c, "enable")
      BY <1>1, <2>2, OrdersSteps
    <2>3. CASE LoadNext(c) \/ Loaded(c)
      BY <1>1, <2>3, LoadSteps
    <2>4. CASE EnableNext(c) \/ CheckDependencies(c) \/ Enabled(c)
      BY <1>1, <2>4, EnableSteps
    <2>5. CASE DisableDependent(c) \/ Disabled(c) \/ \E p \in Plugins : StartDisable(c, p)
      BY <1>1, <2>5, DisableSteps
    <2>6. CASE \/ \E p \in Plugins : StartUnregister(c, p)
               \/ Unloaded(c) \/ DropCapabilities(c) \/ DropDependencies(c) \/ Remove(c)
      BY <1>1, <2>6, UnregisterSteps
    <2> QED
      BY <1>3, <2>1, <2>2, <2>3, <2>4, <2>5, <2>6, Zenon DEF Start, Proceed
  <1>4. CASE UNCHANGED vars
    <2>1. Kept
      BY <1>4 DEF vars, registry, Kept, Requires
    <2> QED
      BY <1>1, <1>4, <2>1, Registers DEF vars, locals
  <1> QED
    BY <1>2, <1>3, <1>4, Zenon DEF Next

LEMMA LifeInit == Init => Life
  <1> SUFFICES ASSUME Init PROVE Life
    OBVIOUS
  <1>1. Base
    BY ShapeInit DEF Init, Base, Books, Roles, Adding, Leaving, States, Points,
       GraphsOK, Graphs, GraphsMirror, Callers
  <1>2. \A p \in Plugins : state[p] = "Absent"
    BY DEF Init
  <1>3. EdgesStayUp
    BY <1>2 DEF EdgesStayUp
  <1>4. Foundation
    <2>1. PICK rank \in [Plugins -> Nat] : rank = [p \in Plugins |-> 0]
      OBVIOUS
    <2>2. Grounded({}, rank, 0)
      BY <1>2 DEF Grounded
    <2> QED
      BY <2>2 DEF Foundation
  <1>5. \A c \in Managers : Ordered(c) /\ at[c] # "disable"
    BY DEF Init, Ordered, Callers
  <1> QED
    BY <1>1, <1>3, <1>4, <1>5 DEF Life

(***************************************************************************)
(* What the graph has lost. It lists what the metadata of a plugin that is *)
(* there requires, but for what was unregistered since the plugin was put  *)
(* into the graph, which may be before its entry is there.                 *)
(***************************************************************************)
Memory ==
    /\ \A p, d \in Plugins :
          state[p] # "Absent" /\ ~Removing(p) /\ d \in needs[p] \ forgotten[p]
             => deps[p][d] > 0
    /\ \A c \in Registrars : at[c] = "insert" =>
          \A d \in required[c] \ forgotten[plugin[c]] : deps[plugin[c]][d] > 0

\* A step that adds nothing to the metadata and takes nothing from the graph.
LEMMA MemoryKept ==
    ASSUME Memory, UNCHANGED <<needs, deps, forgotten>>,
           \A p \in Plugins : state'[p] # "Absent" => state[p] # "Absent",
           \A p \in Plugins : Removing(p) => Removing(p)',
           \A c \in Registrars : at'[c] = "insert" =>
               at[c] = "insert" /\ required'[c] = required[c] /\ plugin'[c] = plugin[c]
    PROVE  Memory'
  <1>1. ASSUME NEW p \in Plugins, NEW d \in Plugins, state'[p] # "Absent", ~Removing(p)',
               d \in needs'[p] \ forgotten'[p]
        PROVE  deps'[p][d] > 0
    BY <1>1 DEF Memory
  <1>2. ASSUME NEW c \in Registrars, at'[c] = "insert",
               NEW d \in required'[c] \ forgotten'[plugin'[c]]
        PROVE  deps'[plugin'[c]][d] > 0
    BY <1>2 DEF Memory
  <1> QED
    BY <1>1, <1>2 DEF Memory

LEMMA MemoryStep ==
    ASSUME Alone, Base, Memory, [Next]_vars
    PROVE  Memory'
  <1> USE DEF Callers, At, Go, SetState, registry, locals
  <1>0. /\ deps \in Graphs /\ plugin \in [Callers -> Plugins]
        /\ required \in [Callers -> SUBSET Plugins]
        /\ needs \in [Plugins -> SUBSET Plugins] /\ forgotten \in [Plugins -> SUBSET Plugins]
        /\ at \in [Callers -> Points] /\ state \in [Plugins -> States]
        /\ \A c, d \in Registrars : c = d
        /\ \A c, d \in Managers : c = d
        /\ Registrars \cap Managers = {}
    BY RegistryAssumption DEF Base, GraphsOK, Shape, TypeOK, Alone
  <1>a. /\ \A c \in Registrars : at[c] # "idle" => state[plugin[c]] = "Absent"
        /\ \A c \in Managers : at[c] \in {"on_unload", "drop_caps", "drop_deps", "remove"}
              => state[plugin[c]] # "Absent"
        /\ \A c \in Managers : at[c] # "insert"
    BY DEF Base, Books, Roles
  <1>1. ASSUME NEW c \in Registrars, NEW p \in Plugins, StartRegister(c, p) PROVE Memory'
    <2>1. /\ UNCHANGED <<state, needs, deps, forgotten>> /\ at'[c] = "add_caps"
          /\ \A d \in Managers : at'[d] = at[d] /\ plugin'[d] = plugin[d]
          /\ \A d \in Registrars : d = c
      BY <1>0, <1>1 DEF StartRegister
    <2>2. \A q \in Plugins : Removing(q) => Removing(q)'
      BY <2>1 DEF Removing
    <2> QED
      BY <2>1, <2>2, MemoryKept
  <1>2. ASSUME NEW c \in Registrars, AddCapabilities(c) PROVE Memory'
    <2>1. /\ UNCHANGED <<state, needs, deps, forgotten, plugin, required>> /\ at'[c] = "add_deps"
          /\ \A d \in Managers : at'[d] = at[d]
          /\ \A d \in Registrars : d = c
      BY <1>0, <1>2 DEF AddCapabilities
    <2>2. \A q \in Plugins : Removing(q) => Removing(q)'
      BY <2>1 DEF Removing
    <2> QED
      BY <2>1, <2>2, MemoryKept
  <1>3. ASSUME NEW c \in Registrars, AddDependencies(c) PROVE Memory'
    <2>1. PICK p \in Plugins : p = plugin[c]
      BY <1>0
    <2>2. /\ UNCHANGED <<state, needs, forgotten, plugin, required>> /\ state[p] = "Absent"
          /\ \A d \in Managers : at'[d] = at[d]
          /\ \A d \in Registrars : d = c
      BY <1>0, <1>a, <1>3, <2>1 DEF AddDependencies
    <2>3. /\ \A q \in Plugins \ {p} : deps'[q] = deps[q]
          /\ \A d \in required[c] : deps'[p][d] > 0
      BY <1>0, <1>3, <2>1 DEF AddDependencies, Graphs
    <2>4. \A q \in Plugins : Removing(q) => Removing(q)'
      BY <2>2 DEF Removing
    <2>5. ASSUME NEW q \in Plugins, NEW d \in Plugins, state'[q] # "Absent", ~Removing(q)',
                 d \in needs'[q] \ forgotten'[q]
          PROVE  deps'[q][d] > 0
      BY <2>2, <2>3, <2>4, <2>5 DEF Memory
    <2>6. ASSUME NEW e \in Registrars, at'[e] = "insert",
                 NEW d \in required'[e] \ forgotten'[plugin'[e]]
          PROVE  deps'[plugin'[e]][d] > 0
      BY <2>1, <2>2, <2>3
    <2> QED
      BY <2>5, <2>6 DEF Memory
  <1>4. ASSUME NEW c \in Registrars, Insert(c) PROVE Memory'
    <2>1. PICK p \in Plugins : p = plugin[c]
      BY <1>0
    <2>2. /\ UNCHANGED <<deps, forgotten, plugin>> /\ at[c] = "insert" /\ at'[c] = "idle"
          /\ needs' = [needs EXCEPT ![p] = required[c]]
          /\ state' = [state EXCEPT ![p] = "Registered"]
          /\ \A d \in Managers : at'[d] = at[d]
          /\ \A d \in Registrars : d = c
      BY <1>0, <1>4, <2>1 DEF Insert, Return
    <2>3. \A q \in Plugins : Removing(q) => Removing(q)'
      BY <2>2 DEF Removing
    <2>4. ASSUME NEW q \in Plugins, NEW d \in Plugins, state'[q] # "Absent", ~Removing(q)',
                 d \in needs'[q] \ forgotten'[q]
          PROVE  deps'[q][d] > 0
      <3>1. CASE q = p
        BY <1>0, <2>1, <2>2, <2>4, <3>1 DEF Memory
      <3>2. CASE q # p
        BY <1>0, <2>2, <2>3, <2>4, <3>2 DEF Memory
      <3> QED
        BY <3>1, <3>2
    <2> QED
      BY <2>2, <2>4 DEF Memory
  <1>5. ASSUME NEW c \in Managers, DropDependencies(c) PROVE Memory'
    <2>1. PICK p \in Plugins : p = plugin[c]
      BY <1>0
    <2>2. /\ UNCHANGED <<state, needs, plugin, required>> /\ at[c] = "drop_deps"
          /\ at'[c] = "remove" /\ state[p] # "Absent"
          /\ \A d \in Registrars : at'[d] = at[d]
      BY <1>0, <1>a, <1>5, <2>1 DEF DropDependencies
    <2>3. \A q \in Plugins \ {p}, d \in Plugins \ {p} : deps'[q][d] = deps[q][d]
      BY <1>0, <1>5, <2>1 DEF DropDependencies, Erased
    <2>4. \A q \in Plugins \ {p} :
             forgotten'[q] = forgotten[q] \cup {d \in {p} : deps[q][d] > 0}
      <3>1. forgotten' = [q \in Plugins |->
               IF q = p THEN {} ELSE forgotten[q] \cup ({d \in Plugins : deps[q][d] > 0} \cap {p})]
        BY <1>5, <2>1 DEF DropDependencies, Forgetting, Requires
      <3> QED
        BY <3>1
    <2>5. Removing(p)' /\ \A q \in Plugins \ {p} : ~Removing(q)
      <3>1. Removing(p)'
        BY <2>1, <2>2 DEF Removing
      <3> QED
        BY <1>0, <2>2, <3>1 DEF Removing
    <2>6. ASSUME NEW q \in Plugins, NEW d \in Plugins, state'[q] # "Absent", ~Removing(q)',
                 d \in needs'[q] \ forgotten'[q]
          PROVE  deps'[q][d] > 0
      <3>1. q # p /\ ~Removing(q) /\ state[q] # "Absent" /\ d \in needs[q]
        BY <2>2, <2>5, <2>6
      <3>2. d \notin forgotten[q]
        BY <2>4, <2>6, <3>1
      <3>3. deps[q][d] > 0
        BY <3>1, <3>2 DEF Memory
      <3>4. d # p
        BY <2>4, <2>6, <3>1, <3>3
      <3> QED
        BY <2>3, <3>1, <3>3, <3>4
    <2>7. ASSUME NEW e \in Registrars, at'[e] = "insert",
                 NEW d \in required'[e] \ forgotten'[plugin'[e]]
          PROVE  deps'[plugin'[e]][d] > 0
      <3>1. PICK q \in Plugins : q = plugin[e] /\ q = plugin'[e]
        BY <1>0, <2>2
      <3>2. q # p /\ at[e] = "insert" /\ d \in required[e] /\ d \in Plugins
        BY <1>0, <1>a, <2>2, <2>7, <3>1
      <3>3. d \notin forgotten[q]
        BY <2>4, <2>7, <3>1, <3>2
      <3>4. deps[q][d] > 0
        BY <3>1, <3>2, <3>3 DEF Memory
      <3>5. d # p
        BY <2>4, <2>7, <3>1, <3>2, <3>4
      <3> QED
        BY <2>3, <3>1, <3>2, <3>4, <3>5
    <2> QED
      BY <2>6, <2>7 DEF Memory
  <1>6. ASSUME NEW c \in Managers, Remove(c) PROVE Memory'
    <2>1. PICK p \in Plugins : p = plugin[c]
      BY <1>0
    <2>2. /\ UNCHANGED <<deps, forgotten, plugin>> /\ at[c] = "remove"
          /\ needs' = [needs EXCEPT ![p] = {}]
          /\ state' = [state EXCEPT ![p] = "Absent"]
          /\ \A d \in Registrars : at'[d] = at[d] /\ required'[d] = required[d]
          /\ \A d \in Managers : d = c
      BY <1>0, <1>6, <2>1 DEF Remove, Return
    <2>3. ASSUME NEW q \in Plugins, NEW d \in Plugins, state'[q] # "Absent", ~Removing(q)',
                 d \in needs'[q] \ forgotten'[q]
          PROVE  deps'[q][d] > 0
      <3>1. q # p /\ state[q] # "Absent" /\ d \in needs[q] \ forgotten[q]
        BY <1>0, <2>2, <2>3
      <3>2. ~Removing(q)
        BY <2>1, <2>2, <3>1 DEF Removing
      <3> QED
        BY <2>2, <3>1, <3>2 DEF Memory
    <2>4. ASSUME NEW e \in Registrars, at'[e] = "insert",
                 NEW d \in required'[e] \ forgotten'[plugin'[e]]
          PROVE  deps'[plugin'[e]][d] > 0
      BY <2>2, <2>4 DEF Memory
    <2> QED
      BY <2>3, <2>4 DEF Memory
  <1> DEFINE Elsewhere(c) ==
        /\ at[c] # "remove" /\ UNCHANGED <<needs, deps, forgotten>>
        /\ \A p \in Plugins : state'[p] # "Absent" => state[p] # "Absent"
        /\ \A d \in Registrars : /\ at'[d] = at[d] /\ required'[d] = required[d]
                                 /\ plugin'[d] = plugin[d]
  <1>7. ASSUME NEW c \in Managers, Elsewhere(c) PROVE Memory'
    <2>1. \A p \in Plugins : ~Removing(p)
      BY <1>0, <1>7 DEF Removing
    <2> QED
      BY <1>7, <2>1, MemoryKept
  <1>8. ASSUME NEW c \in Managers, NEW point, StartAll(c, point) PROVE Elsewhere(c)
    BY <1>0, <1>8 DEF StartAll
  <1>9. ASSUME NEW c \in Managers, FinishAll(c) \/ LoadNext(c) PROVE Elsewhere(c)
    BY <1>0, <1>9 DEF FinishAll, LoadNext, Return
  <1>10. ASSUME NEW c \in Managers, EnableNext(c) \/ CheckDependencies(c) PROVE Elsewhere(c)
    BY <1>0, <1>10 DEF EnableNext, CheckDependencies, Return, Skip
  <1>11. ASSUME NEW c \in Managers, Loaded(c) \/ Enabled(c) PROVE Elsewhere(c)
    BY <1>0, <1>11 DEF Loaded, Enabled, Return, Skip
  <1>12. ASSUME NEW c \in Managers, NEW p \in Plugins,
                StartDisable(c, p) \/ StartUnregister(c, p)
         PROVE  Elsewhere(c)
    BY <1>0, <1>12 DEF StartDisable, StartUnregister
  <1>13. ASSUME NEW c \in Managers, DisableDependent(c) PROVE Elsewhere(c)
    BY <1>0, <1>13 DEF DisableDependent
  <1>14. ASSUME NEW c \in Managers, Disabled(c) PROVE Elsewhere(c)
    BY <1>0, <1>14 DEF Disabled, Return
  <1>15. ASSUME NEW c \in Managers, Unloaded(c) \/ DropCapabilities(c) PROVE Elsewhere(c)
    BY <1>0, <1>15 DEF Unloaded, DropCapabilities
  <1>16. ASSUME NEW c \in Managers, Abandon(c) PROVE Elsewhere(c)
    <2>1. at[c] # "remove"
      BY <1>16 DEF Abandon, Awaited
    <2> QED
      BY <1>0, <1>16, <2>1 DEF Abandon, Return
  <1>17. CASE UNCHANGED vars
    <2>1. UNCHANGED <<state, needs, deps, forgotten, at, plugin, required>>
      BY <1>17 DEF vars
    <2> QED
      BY <2>1, MemoryKept DEF Removing
  <1> HIDE DEF Elsewhere
  <1>18. ASSUME NEW c \in Registrars, Register(c) \/ \E p \in Plugins : StartRegister(c, p)
         PROVE  Memory'
    BY <1>1, <1>2, <1>3, <1>4, <1>18, Zenon DEF Register
  <1>19. ASSUME NEW c \in Managers, Start(c) \/ Proceed(c) \/ Abandon(c)
         PROVE  Memory'
    <2>1. CASE Start(c)
      BY <1>7, <1>8, <1>12, <2>1, Zenon DEF Start
    <2>2. CASE Proceed(c)
      BY <1>5, <1>6, <1>7, <1>9, <1>10, <1>11, <1>13, <1>14, <1>15, <2>2, Zenon DEF Proceed
    <2> QED
      BY <1>7, <1>16, <1>19, <2>1, <2>2, Zenon
  <1> QED
    BY <1>17, <1>18, <1>19, Zenon DEF Next

LEMMA MemoryInit == Init => Memory
  BY DEF Init, Memory, Removing, Callers

\* With one registrar and one manager: what load_all and enable_all have left is
\* in order when it is used; on_enable sees enabled, and an enabled plugin keeps
\* enabled, or at least Loaded, all that its metadata requires, but for what was
\* unregistered since.
THEOREM LifecycleHolds == ASSUME Alone PROVE Spec => []LifecycleInv
  <1>1. ASSUME Life, Memory PROVE LifecycleInv
    <2>1. TypeOK /\ EdgesStayUp
      BY <1>1 DEF Life, Base, Shape
    <2>2. OrderHolds
      <3>1. \A c \in Managers : rest[c] \in Seq(Plugins) /\ Ordered(c)
        BY <1>1, ShapeStays DEF Life, Base, Callers
      <3> QED
        BY <3>1, LenProperties DEF OrderHolds, Ordered
    <2>3. ASSUME NEW p \in Plugins, state[p] = "Enabled" PROVE ~Removing(p)
      BY <1>1, <2>3 DEF Life, Base, Books, Removing
    <2>4. ASSUME NEW p \in Plugins, state[p] # "Absent", ~Removing(p),
                 NEW d \in Remembered(p)
          PROVE  d \in Requires(p)
      <3>1. d \in Plugins
        BY <2>1 DEF TypeOK, Remembered
      <3> QED
        BY <1>1, <2>4, <3>1 DEF Memory, Remembered, Requires
    <2>5. DependenciesStayUp
      BY <2>1, <2>3, <2>4 DEF DependenciesStayUp, EdgesStayUp
    <2>6. ASSUME NEW c \in Managers, at[c] = "on_enable", NEW d \in Remembered(Head(rest[c]))
          PROVE  state[d] = "Enabled"
      <3>1. PICK h \in Plugins : h = Head(rest[c]) /\ state[h] # "Absent"
        <4>1. rest[c] \in Seq(Plugins) /\ rest[c] # <<>> /\ Ordered(c)
          BY <1>1, <2>6, ShapeStays DEF Life, Base, Callers, Shape, InHook
        <4>2. 1 \in 1..Len(rest[c]) /\ Head(rest[c]) = rest[c][1] /\ rest[c][1] \in Plugins
          BY <4>1
        <4> QED
          BY <4>1, <4>2 DEF Ordered
      <3>2. ~Removing(h)
        BY <2>6 DEF Alone, Removing
      <3>3. d \in Requires(Head(rest[c]))
        BY <2>4, <2>6, <3>1, <3>2
      <3> QED
        BY <1>1, <2>6, <3>3 DEF Life, Ordered
    <2>7. OnEnableSeesDependencies
      BY <2>6 DEF OnEnableSeesDependencies, At
    <2> QED
      BY <2>1, <2>2, <2>5, <2>7 DEF LifecycleInv
  <1>2. ASSUME Life, Memory, [Next]_vars PROVE Life' /\ Memory'
    BY <1>2, LifeStep, MemoryStep DEF Life
  <1> QED
    BY <1>1, <1>2, LifeInit, MemoryInit, PTL DEF Spec

\* With one registrar and one manager: when on_disable of a plugin is called,
\* no plugin that depends on it is enabled any more, however its dependents
\* depend on each other.
THEOREM DependentsDownFirst == ASSUME Alone PROVE Spec => []DependentsGoFirst
  <1>1. Life => DependentsGoFirst
    BY LastOneUp DEF DependentsGoFirst, At
  <1> QED
    BY <1>1, LifeInit, LifeStep, PTL DEF Spec
=============================================================================
