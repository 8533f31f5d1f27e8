-------------------------- MODULE DependencyInjection --------------------------
(* Dependency injection of reinhardt (reinhardt-di: context.rs,               *)
(* cycle_detection.rs, registry.rs, scope.rs, validation.rs). Requests are    *)
(* served concurrently, each by a task with a context of its own, over one    *)
(* registry and one cache of singletons. A resolution runs the factory of a   *)
(* type, which resolves what the type depends on; the awaits are in the       *)
(* factories, so a step goes from one of them to the next.                    *)
(*                                                                            *)
(* A factory resolves its dependencies in some order; deps is what it         *)
(* resolves and what is declared of it. An instance is abstracted to its      *)
(* number and to the requests whose instances it holds, through any others.   *)
EXTENDS Naturals, FiniteSets, SequencesExt

CONSTANTS
    Types, Requests,
    Graphs,         \* bound: the dependencies tried
    MaxDepth,       \* MAX_RESOLUTION_DEPTH
    MaxResolves     \* bound: resolutions the requests ask for

App == "app"
Nothing == [n |-> 0, holds |-> {}]

ASSUME InjectionAssumption ==
    /\ IsFiniteSet(Types) /\ App \notin Requests
    /\ Graphs \subseteq [Types -> SUBSET Types]
    /\ MaxDepth \in Nat /\ MaxResolves \in Nat

VARIABLES
    scope, deps,    \* the registry
    checked,        \* whether it has passed check-di
    cache,          \* of the application, and of every request
    built,          \* instances built for each of these caches
    frames,         \* the factories a request is in: type, dependencies to come
    resolving,      \* resolution_path of its task
    scopes,         \* scope_stack of its task
    error,          \* the error on its way up
    seen,           \* history: the cached instances handed out
    resolves

registry == <<scope, deps, checked>>
caches   == <<cache, built, seen>>
task     == <<frames, resolving, scopes, error>>
vars     == <<registry, caches, task, resolves>>

Scopes == {"singleton", "request", "transient"}
Owners == Requests \cup {App}
Errors == {"none", "scope", "cycle", "factory"}
-----------------------------------------------------------------------------
(* RegistryValidator::validate.                                              *)

MutReached(T) == deps[T]

\* What a search from T finds, which does not go past a request-scoped type.
Reached(T) ==
    {u \in Types : \A S \in SUBSET Types :
        (deps[T] \subseteq S /\ \A v \in S : scope[v] # "request" => deps[v] \subseteq S)
            => u \in S}

ScopesAreCompatible ==
    \A T \in Types : scope[T] = "singleton" =>
        \A u \in Reached(T) \ {T} : scope[u] # "request"

Descendants(T) ==
    {u \in Types : \A S \in SUBSET Types :
        (deps[T] \subseteq S /\ \A v \in S : deps[v] \subseteq S) => u \in S}

Acyclic == \A T \in Types : T \notin Descendants(T)

Validate == ScopesAreCompatible /\ Acyclic

Init ==
    /\ scope \in [Types -> Scopes] /\ deps \in Graphs
    /\ checked \in BOOLEAN /\ (checked => Validate)
    /\ cache = [o \in Owners |-> [T \in Types |-> Nothing]]
    /\ built = [o \in Owners |-> [T \in Types |-> 0]]
    /\ frames = [r \in Requests |-> <<>>]
    /\ resolving = [r \in Requests |-> <<>>]
    /\ scopes = [r \in Requests |-> <<>>]
    /\ error = [r \in Requests |-> "none"]
    /\ seen = {}
    /\ resolves = 0
-----------------------------------------------------------------------------
(* InjectionContext::resolve.                                                *)

Owner(r, T) == IF scope[T] = "singleton" THEN App ELSE r
Cached(T)   == scope[T] # "transient"

\* current_dependent_scope; outside of any factory a caller is transient.
Dependent(r) == IF scopes[r] = <<>> THEN "transient" ELSE Last(scopes[r])

Outlives(dependency, dependent) == ~(dependent = "singleton" /\ dependency = "request")

\* The factory on top, when there is one, has come to its dependency T.
Asked(r, T) ==
    IF frames[r] = <<>> THEN <<>>
    ELSE Append(Front(frames[r]), [Last(frames[r]) EXCEPT !.todo = @ \ {T}])

\* It gets a value for it.
Receive(fs, holds) ==
    IF fs = <<>> THEN fs ELSE Append(Front(fs), [Last(fs) EXCEPT !.holds = @ \cup holds])

Handed(r, T, n) ==
    seen' = IF Cached(T) THEN seen \cup {<<Owner(r, T), T, n>>} ELSE seen

\* The scope is checked before the cache is asked, the cycle after it.
Refused(r, T) ==
    /\ ~Outlives(scope[T], Dependent(r))
    /\ error' = [error EXCEPT ![r] = "scope"]
    /\ frames' = [frames EXCEPT ![r] = Asked(r, T)]
    /\ UNCHANGED <<registry, caches, resolving, scopes>>

Hit(r, T) ==
    LET found == cache[Owner(r, T)][T]
    IN  /\ Outlives(scope[T], Dependent(r))
        /\ Cached(T) /\ found # Nothing
        /\ frames' = [frames EXCEPT ![r] = Receive(Asked(r, T), found.holds)]
        /\ Handed(r, T, found.n)
        /\ UNCHANGED <<registry, cache, built, resolving, scopes, error>>

Miss(r, T) ==
    /\ Outlives(scope[T], Dependent(r))
    /\ Cached(T) => cache[Owner(r, T)][T] = Nothing

Circular(r, T) ==
    /\ Miss(r, T)
    /\ T \in ToSet(resolving[r]) \/ Len(resolving[r]) >= MaxDepth
    /\ error' = [error EXCEPT ![r] = "cycle"]
    /\ frames' = [frames EXCEPT ![r] = Asked(r, T)]
    /\ UNCHANGED <<registry, caches, resolving, scopes>>

\* begin_scoped_resolution, and the factory is called.
Enter(r, T) ==
    /\ Miss(r, T)
    /\ T \notin ToSet(resolving[r]) /\ Len(resolving[r]) < MaxDepth
    /\ resolving' = [resolving EXCEPT ![r] = Append(@, T)]
    /\ scopes' = [scopes EXCEPT ![r] = Append(@, scope[T])]
    /\ frames' = [frames EXCEPT ![r] =
           Append(Asked(r, T), [type |-> T, todo |-> deps[T], holds |-> {}])]
    /\ UNCHANGED <<registry, caches, error>>

Resolve(r, T) ==
    /\ error[r] = "none"
    /\ Refused(r, T) \/ Hit(r, T) \/ Circular(r, T) \/ Enter(r, T)

\* A handler asks for a type.
Ask(r, T) ==
    /\ frames[r] = <<>> /\ resolves < MaxResolves
    /\ Resolve(r, T)
    /\ resolves' = resolves + 1

Top(r) == Last(frames[r])

\* A factory asks for a dependency.
Depend(r) ==
    /\ frames[r] # <<>>
    /\ \E T \in Top(r).todo : Resolve(r, T)
    /\ UNCHANGED resolves

MutDrop(r) ==
    /\ resolving' = resolving
    /\ scopes' = [scopes EXCEPT ![r] = Front(@)]

\* The guard of the innermost resolution.
Drop(r) ==
    /\ resolving' = [resolving EXCEPT ![r] = Front(@)]
    /\ scopes' = [scopes EXCEPT ![r] = Front(@)]

MutStore(r, T, instance) ==
    /\ built' = [built EXCEPT ![Owner(r, T)][T] = instance.n]
    /\ UNCHANGED cache

\* resolve_internal; a transient is not cached.
Store(r, T, instance) ==
    IF Cached(T)
    THEN /\ built' = [built EXCEPT ![Owner(r, T)][T] = instance.n]
         /\ cache' = [cache EXCEPT ![Owner(r, T)][T] = instance]
    ELSE UNCHANGED <<built, cache>>

\* The factory returns.
Finish(r) ==
    /\ frames[r] # <<>> /\ error[r] = "none" /\ Top(r).todo = {}
    /\ LET T == Top(r).type
           own == IF scope[T] = "request" THEN {r} ELSE {}
           instance == [n |-> built[Owner(r, T)][T] + 1, holds |-> Top(r).holds \cup own]
       IN  /\ Store(r, T, instance)
           /\ Handed(r, T, instance.n)
           /\ frames' = [frames EXCEPT ![r] = Receive(Front(@), instance.holds)]
    /\ Drop(r)
    /\ UNCHANGED <<registry, error, resolves>>

\* The factory fails of its own, or hands the error of a dependency up.
Fail(r) ==
    /\ frames[r] # <<>>
    /\ frames' = [frames EXCEPT ![r] = Front(@)]
    /\ error' = [error EXCEPT ![r] = IF @ = "none" THEN "factory" ELSE @]
    /\ Drop(r)
    /\ UNCHANGED <<registry, caches, resolves>>

\* Option<T> takes the error of T for its absence; a handler answers with it.
Swallow(r) ==
    /\ error[r] # "none"
    /\ error' = [error EXCEPT ![r] = "none"]
    /\ UNCHANGED <<registry, caches, frames, resolving, scopes, resolves>>

\* The future of a resolution is dropped (the request is gone, or its handler
\* timed it out), and its task-local state with it.
Cancel(r) ==
    /\ frames[r] # <<>>
    /\ frames' = [frames EXCEPT ![r] = <<>>]
    /\ resolving' = [resolving EXCEPT ![r] = <<>>]
    /\ scopes' = [scopes EXCEPT ![r] = <<>>]
    /\ error' = [error EXCEPT ![r] = "none"]
    /\ UNCHANGED <<registry, caches, resolves>>

Next ==
    \E r \in Requests :
        Depend(r) \/ Finish(r) \/ Fail(r) \/ Swallow(r) \/ Cancel(r) \/ \E T \in Types : Ask(r, T)

Spec == Init /\ [][Next]_vars
-----------------------------------------------------------------------------
Instances == [n : Nat, holds : SUBSET Requests]
Frames    == [type : Types, todo : SUBSET Types, holds : SUBSET Requests]

\* Types, and that the state of a task is that of the factories it is in: the
\* guards have put back what a failed, refused or finished resolution pushed.
TypeOK ==
    /\ scope \in [Types -> Scopes] /\ deps \in Graphs /\ checked \in BOOLEAN
    /\ cache \in [Owners -> [Types -> Instances]]
    /\ built \in [Owners -> [Types -> Nat]]
    /\ seen \subseteq Owners \X Types \X Nat
    /\ error \in [Requests -> Errors] /\ resolves \in 0 .. MaxResolves
    /\ frames \in [Requests -> Seq(Frames)]
    /\ resolving = [r \in Requests |-> [i \in DOMAIN frames[r] |-> frames[r][i].type]]
    /\ scopes = [r \in Requests |-> [i \in DOMAIN frames[r] |-> scope[frames[r][i].type]]]

\* An instance of the application holds one of a request, through however many
\* others and whoever built those first, only in a registry that check-di
\* rejects (validation.rs:165), and there only behind a transient, which the
\* resolution does not look through (registry.rs:35).
NoStaleCapture ==
    \A T \in Types : cache[App][T].holds # {} =>
        ~checked /\ \E u \in Descendants(T) : scope[u] = "transient"

\* A resolution is refused for scopes or as a cycle only where check-di finds
\* such scopes or such a cycle (or it is too deep), whatever failed, was taken for
\* an absence or was dropped before it: the guards put the task's stacks back.
RefusalsAreReal ==
    /\ TypeOK
    /\ (\E r \in Requests : error[r] = "scope") => ~ScopesAreCompatible
    /\ (\E r \in Requests : error[r] = "cycle") => ~Acyclic \/ MaxDepth < Cardinality(Types)

\* A request sees one instance of a request-scoped type, however it came by it
\* and whatever failed in between (registry.rs:21).
OncePerRequest ==
    \A x, y \in seen : (x[1] \in Requests /\ x[1] = y[1] /\ x[2] = y[2]) => x[3] = y[3]

\* "Single instance shared across the entire application" (registry.rs:18):
\* every request is given the same one.
OneSingleton ==
    \A x, y \in seen : (x[1] = App /\ x[1] = y[1] /\ x[2] = y[2]) => x[3] = y[3]
=============================================================================
