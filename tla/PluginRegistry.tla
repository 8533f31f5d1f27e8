---------------------------- MODULE PluginRegistry ----------------------------
(* The plugin registry of reinhardt-dentdelion (registry.rs): four maps,     *)
(* each behind a lock of its own, and lifecycle operations that read them    *)
(* under the locks, await a hook of the plugin without them, and then write. *)
(* An action is one lock section, or the end of one awaited hook with the    *)
(* section that follows it; between two sections any other caller may act.   *)
(* A call that returns without having changed anything is not an action.     *)
EXTENDS Naturals, Integers, Sequences, FiniteSets

CONSTANTS
    Plugins,
    Metadata,       \* the sets of plugins a version of a plugin may require
    WithHooks,      \* plugins registered with register_with_lifecycle
    Registrars,     \* callers of register
    Managers        \* callers of the lifecycle operations

Callers == Registrars \cup Managers

ASSUME RegistryAssumption ==
    /\ IsFiniteSet(Plugins) /\ WithHooks \subseteq Plugins
    /\ Metadata \in [Plugins -> SUBSET SUBSET Plugins]
    /\ Registrars \cap Managers = {}

VARIABLES
    state,          \* plugins: the state of each entry, or "Absent"
    needs,          \* plugins: the dependencies in the metadata of each entry
    providers,      \* capability_map: how often a plugin is listed in it
    deps,           \* dependency_graph: how often p lists d
    dependents,     \* the reverse graph: how often d lists p
    forgotten,      \* history: what was unregistered while p listed it
    at,             \* where a call is
    plugin,         \* the plugin a call works on
    required,       \* the dependencies register read from the metadata
    rest,           \* what load_all and enable_all have left of their order
    frames,         \* the calls of disable_inner in progress
    visited         \* the plugins disable_inner has seen

registry == <<state, needs, providers, deps, dependents, forgotten>>
locals   == <<plugin, required, rest, frames, visited>>
vars     == <<registry, at, locals>>

States == {"Absent", "Registered", "Loaded", "Enabled", "Disabled"}
Points == {"idle", "add_caps", "add_deps", "insert", "load", "on_load",
           "enable", "check", "on_enable", "disable", "on_unload",
           "drop_caps", "drop_deps", "remove"}

Registered == {p \in Plugins : state[p] # "Absent"}
Requires(p) == {d \in Plugins : deps[p][d] > 0}
Top(c) == frames[c][Len(frames[c])]

Init ==
    /\ state = [p \in Plugins |-> "Absent"]
    /\ needs = [p \in Plugins |-> {}]
    /\ providers = [p \in Plugins |-> 0]
    /\ deps = [p \in Plugins |-> [d \in Plugins |-> 0]]
    /\ dependents = [d \in Plugins |-> [p \in Plugins |-> 0]]
    /\ forgotten = [p \in Plugins |-> {}]
    /\ at = [c \in Callers |-> "idle"]
    /\ plugin \in [Callers -> Plugins]
    /\ required = [c \in Callers |-> {}]
    /\ rest = [c \in Callers |-> <<>>]
    /\ frames = [c \in Callers |-> <<>>]
    /\ visited = [c \in Callers |-> {}]

At(c, point) == at[c] = point
Go(c, point) == at' = [at EXCEPT ![c] = point]
Return(c) ==
    /\ Go(c, "idle")
    /\ required' = [required EXCEPT ![c] = {}]
    /\ rest' = [rest EXCEPT ![c] = <<>>]
    /\ frames' = [frames EXCEPT ![c] = <<>>]
    /\ visited' = [visited EXCEPT ![c] = {}]
    /\ UNCHANGED plugin
SetState(p, s) == state' = [state EXCEPT ![p] = s]
-----------------------------------------------------------------------------
(* register and register_with_lifecycle.                                     *)

StartRegister(c, p) ==
    /\ At(c, "idle") /\ state[p] = "Absent"
    /\ \E ds \in Metadata[p] : required' = [required EXCEPT ![c] = ds]
    /\ plugin' = [plugin EXCEPT ![c] = p]
    /\ Go(c, "add_caps")
    /\ UNCHANGED <<registry, rest, frames, visited>>

AddCapabilities(c) ==
    /\ At(c, "add_caps")
    /\ providers' = [providers EXCEPT ![plugin[c]] = @ + 1]
    /\ Go(c, "add_deps")
    /\ UNCHANGED <<state, needs, deps, dependents, forgotten, locals>>

AddDependencies(c) ==
    /\ At(c, "add_deps")
    /\ LET p == plugin[c]
           More(d) == IF d \in required[c] THEN 1 ELSE 0
       IN  /\ deps' = [deps EXCEPT ![p] = [d \in Plugins |-> @[d] + More(d)]]
           /\ dependents' = [d \in Plugins |->
                                [dependents[d] EXCEPT ![p] = @ + More(d)]]
    /\ Go(c, "insert")
    /\ UNCHANGED <<state, needs, providers, forgotten, locals>>

Insert(c) ==
    /\ At(c, "insert")
    /\ SetState(plugin[c], "Registered")
    /\ needs' = [needs EXCEPT ![plugin[c]] = required[c]]
    /\ Return(c)
    /\ UNCHANGED <<providers, deps, dependents, forgotten>>
-----------------------------------------------------------------------------
(* get_enable_order: Kahn's algorithm, under the locks of both graphs and of *)
(* the plugins. The queue is filled from a hash map, so any of its members   *)
(* may be popped next. A cycle leaves no order, and the caller returns.      *)

\* The entries of the list of p that name a member of S.
Entries(p, S) == UNION {{d} \X (1..deps[p][d]) : d \in S}

KahnStart ==
    LET degree == [p \in Registered |-> Cardinality(Entries(p, Registered))]
    IN  [degree |-> degree, order |-> <<>>,
         queue |-> {p \in Registered : degree[p] = 0}]

KahnPop(k, n) ==
    LET degree == [p \in Registered |-> k.degree[p] - dependents[n][p]]
    IN  [degree |-> degree, order |-> Append(k.order, n),
         queue |-> (k.queue \ {n}) \cup
                   {p \in Registered : degree[p] = 0 /\ k.degree[p] # 0}]

KahnPops(ks) == UNION {{KahnPop(k, n) : n \in k.queue} : k \in ks}

EnableOrders ==
    LET Kahn[i \in 0..Cardinality(Registered)] ==
            IF i = 0 THEN {KahnStart} ELSE KahnPops(Kahn[i - 1])
    IN  {k.order : k \in Kahn[Cardinality(Registered)]}
-----------------------------------------------------------------------------
(* load_all and enable_all. An error of a hook, or the caller dropping the   *)
(* future while a hook is awaited, ends the call where it stands.            *)

StartAll(c, point) ==
    /\ At(c, "idle") /\ Registered # {}
    /\ \E order \in EnableOrders : rest' = [rest EXCEPT ![c] = order]
    /\ Go(c, point)
    /\ UNCHANGED <<registry, plugin, required, frames, visited>>

Skip(c) == rest' = [rest EXCEPT ![c] = Tail(@)]

FinishAll(c) ==
    /\ at[c] \in {"load", "enable"} /\ rest[c] = <<>>
    /\ Return(c)
    /\ UNCHANGED registry

LoadNext(c) ==
    /\ At(c, "load") /\ rest[c] # <<>>
    /\ IF state[Head(rest[c])] = "Absent" THEN Return(c)
       ELSE Go(c, "on_load") /\ UNCHANGED locals
    /\ UNCHANGED registry

\* on_load has returned: set_state writes whatever the state is by now.
Loaded(c) ==
    /\ At(c, "on_load")
    /\ IF state[Head(rest[c])] = "Absent" THEN Return(c) /\ UNCHANGED state
       ELSE /\ SetState(Head(rest[c]), "Loaded")
            /\ Skip(c) /\ Go(c, "load")
            /\ UNCHANGED <<plugin, required, frames, visited>>
    /\ UNCHANGED <<needs, providers, deps, dependents, forgotten>>

EnableNext(c) ==
    /\ At(c, "enable") /\ rest[c] # <<>>
    /\ IF state[Head(rest[c])] = "Loaded" THEN Go(c, "check") /\ UNCHANGED rest
       ELSE Skip(c) /\ UNCHANGED at
    /\ UNCHANGED <<registry, plugin, required, frames, visited>>

MutCheck(c) ==
    /\ At(c, "check")
    /\ Go(c, "on_enable") /\ UNCHANGED locals
    /\ UNCHANGED registry

\* enable_plugin: the dependencies must be enabled. The hook is called next.
CheckDependencies(c) ==
    /\ At(c, "check")
    /\ IF \A d \in Requires(Head(rest[c])) : state[d] = "Enabled"
       THEN Go(c, "on_enable") /\ UNCHANGED locals
       ELSE Return(c)
    /\ UNCHANGED registry

Enabled(c) ==
    /\ At(c, "on_enable")
    /\ IF state[Head(rest[c])] = "Absent" THEN Return(c) /\ UNCHANGED state
       ELSE /\ SetState(Head(rest[c]), "Enabled")
            /\ Skip(c) /\ Go(c, "enable")
            /\ UNCHANGED <<plugin, required, frames, visited>>
    /\ UNCHANGED <<needs, providers, deps, dependents, forgotten>>
-----------------------------------------------------------------------------
(* disable_plugin: disable_inner calls itself for the dependents that were   *)
(* enabled when it was entered, then awaits on_disable. A frame is one call; *)
(* its hook is being awaited when no dependent is left. The limit of 64      *)
(* nested calls is above the number of plugins of an instance.               *)

MutFrame(p) == [plugin |-> p, left |-> {}]

Frame(p) ==
    [plugin |-> p,
     left |-> {q \in Plugins : dependents[p][q] > 0 /\ state[q] = "Enabled"}]

StartDisable(c, p) ==
    /\ At(c, "idle")
    /\ frames' = [frames EXCEPT ![c] = <<Frame(p)>>]
    /\ visited' = [visited EXCEPT ![c] = {p}]
    /\ Go(c, "disable")
    /\ UNCHANGED <<registry, plugin, required, rest>>

\* The next dependent: one seen before is passed over.
DisableDependent(c) ==
    /\ At(c, "disable")
    /\ \E q \in Top(c).left :
          LET caller == [frames[c] EXCEPT ![Len(frames[c])].left = @ \ {q}]
          IN  /\ frames' = [frames EXCEPT ![c] =
                    IF q \in visited[c] THEN caller ELSE Append(caller, Frame(q))]
              /\ visited' = [visited EXCEPT ![c] = @ \cup {q}]
    /\ UNCHANGED <<registry, at, plugin, required, rest>>

\* on_disable has returned; its error is only logged.
Disabled(c) ==
    /\ At(c, "disable") /\ Top(c).left = {}
    /\ IF state[Top(c).plugin] = "Absent" THEN Return(c) /\ UNCHANGED state
       ELSE /\ SetState(Top(c).plugin, "Disabled")
            /\ IF Len(frames[c]) = 1 THEN Return(c)
               ELSE /\ frames' = [frames EXCEPT ![c] = SubSeq(@, 1, Len(@) - 1)]
                    /\ UNCHANGED <<at, plugin, required, rest, visited>>
    /\ UNCHANGED <<needs, providers, deps, dependents, forgotten>>
-----------------------------------------------------------------------------
(* unregister: refused for an enabled plugin, and not checked again after    *)
(* the hook.                                                                 *)

StartUnregister(c, p) ==
    /\ At(c, "idle") /\ state[p] \notin {"Absent", "Enabled"}
    /\ plugin' = [plugin EXCEPT ![c] = p]
    /\ Go(c, "on_unload")
    /\ UNCHANGED <<registry, required, rest, frames, visited>>

Unloaded(c) ==
    /\ At(c, "on_unload")
    /\ Go(c, "drop_caps")
    /\ UNCHANGED <<registry, locals>>

MutDropCapabilities(c) ==
    /\ At(c, "drop_caps")
    /\ Go(c, "drop_deps")
    /\ UNCHANGED <<registry, locals>>

DropCapabilities(c) ==
    /\ At(c, "drop_caps")
    /\ providers' = [providers EXCEPT ![plugin[c]] = 0]
    /\ Go(c, "drop_deps")
    /\ UNCHANGED <<state, needs, deps, dependents, forgotten, locals>>

Erased(graph, p) ==
    [x \in Plugins |-> [y \in Plugins |-> IF p \in {x, y} THEN 0 ELSE graph[x][y]]]

Forgetting(p) ==
    forgotten' = [q \in Plugins |->
        IF q = p THEN {} ELSE forgotten[q] \cup (Requires(q) \cap {p})]

MutDropDependencies(c) ==
    /\ At(c, "drop_deps")
    /\ deps' = Erased(deps, plugin[c])
    /\ dependents' = [dependents EXCEPT ![plugin[c]] = [p \in Plugins |-> 0]]
    /\ Forgetting(plugin[c])
    /\ Go(c, "remove")
    /\ UNCHANGED <<state, needs, providers, locals>>

\* The plugin leaves the lists of its dependents too, though their metadata
\* still requires it: they forget it, and its next registration as well.
DropDependencies(c) ==
    /\ At(c, "drop_deps")
    /\ deps' = Erased(deps, plugin[c])
    /\ dependents' = Erased(dependents, plugin[c])
    /\ Forgetting(plugin[c])
    /\ Go(c, "remove")
    /\ UNCHANGED <<state, needs, providers, locals>>

Remove(c) ==
    /\ At(c, "remove")
    /\ SetState(plugin[c], "Absent")
    /\ needs' = [needs EXCEPT ![plugin[c]] = {}]
    /\ Return(c)
    /\ UNCHANGED <<providers, deps, dependents, forgotten>>
-----------------------------------------------------------------------------
\* The plugin whose hook a call awaits.
Awaited(c) ==
    CASE at[c] \in {"on_load", "on_enable"} -> {Head(rest[c])}
      [] At(c, "on_unload") -> {plugin[c]}
      [] At(c, "disable") -> IF Top(c).left = {} THEN {Top(c).plugin} ELSE {}
      [] OTHER -> {}

\* on_load or on_enable fails, or the future is dropped while any hook runs.
Abandon(c) ==
    /\ Awaited(c) \cap WithHooks # {}
    /\ Return(c)
    /\ UNCHANGED registry

Register(c) == AddCapabilities(c) \/ AddDependencies(c) \/ Insert(c)
Proceed(c) ==
    \/ FinishAll(c) \/ LoadNext(c) \/ Loaded(c)
    \/ EnableNext(c) \/ CheckDependencies(c) \/ Enabled(c)
    \/ DisableDependent(c) \/ Disabled(c)
    \/ Unloaded(c) \/ DropCapabilities(c) \/ DropDependencies(c) \/ Remove(c)
Start(c) ==
    \/ StartAll(c, "load") \/ StartAll(c, "enable")
    \/ \E p \in Plugins : StartDisable(c, p) \/ StartUnregister(c, p)

Next ==
    \/ \E c \in Registrars : Register(c) \/ (\E p \in Plugins : StartRegister(c, p))
    \/ \E c \in Managers : Start(c) \/ Proceed(c) \/ Abandon(c)

Spec == Init /\ [][Next]_vars
-----------------------------------------------------------------------------
(* Properties.                                                               *)

Graphs == [Plugins -> [Plugins -> Nat]]

TypeOK ==
    /\ state \in [Plugins -> States]
    /\ {needs, forgotten} \subseteq [Plugins -> SUBSET Plugins]
    /\ providers \in [Plugins -> Nat]
    /\ deps \in Graphs /\ dependents \in Graphs
    /\ at \in [Callers -> Points]
    /\ plugin \in [Callers -> Plugins]
    /\ required \in [Callers -> SUBSET Plugins]
    /\ rest \in [Callers -> Seq(Plugins)]
    /\ frames \in [Callers -> Seq([plugin : Plugins, left : SUBSET Plugins])]
    /\ visited \in [Callers -> SUBSET Plugins]

\* The two graphs are the same edges read from either end, however many
\* callers register and unregister at once: Kahn's counters are decremented
\* along one and were computed from the other, and would wrap below zero.
GraphsMirror == \A p, d \in Plugins : deps[p][d] = dependents[d][p]

\* What the metadata of p requires and has not been unregistered under it.
Remembered(p) == needs[p] \ forgotten[p]

\* With one registrar and one manager at a time: what an enabled plugin's
\* metadata requires is enabled, or has been put back to Loaded by a second
\* load_all. What was unregistered meanwhile is excepted: unregister refuses
\* the enabled plugins only and erases the edges to the one it removes, which
\* its dependents can then be enabled, and stay so, without.
DependenciesStayUp ==
    \A p \in Plugins : state[p] = "Enabled" =>
        \A d \in Remembered(p) : state[d] \in {"Enabled", "Loaded"}

\* Nothing that load_all or enable_all has still to do is needed by a plugin
\* they treat before it: the order holds when it is used, not only when
\* get_enable_order computed it.
OrderHolds ==
    \A c \in Managers : \A j \in DOMAIN rest[c] : \A i \in 1..(j - 1) :
        rest[c][j] \notin Requires(rest[c][i])

\* on_disable of a plugin is called when none of its dependents is enabled,
\* those that another path through the dependents has disabled included.
DependentsGoFirst ==
    \A c \in Managers : At(c, "disable") /\ Top(c).left = {} =>
        \A q \in Plugins : Top(c).plugin \in Requires(q) => state[q] # "Enabled"

\* A plugin that is enabled is listed exactly once as a provider, after any
\* number of registrations: it is neither lost nor served twice by
\* get_capability_providers.
ServedOnce == \A p \in Plugins : state[p] = "Enabled" => providers[p] = 1

\* "At this point, all dependencies are already enabled" (plugin.rs:131), said
\* of on_enable: true of what was not unregistered since. Between the check and
\* the hook there is no lock, so this is for one manager; registrations still
\* come in between.
OnEnableSeesDependencies ==
    \A c \in Managers : At(c, "on_enable") =>
        \A d \in Remembered(Head(rest[c])) : state[d] = "Enabled"

\* A plugin is up, or coming up, only upon what its metadata requires and was not
\* unregistered: in the order that is left, in the hook, and from then on. One
\* registrar, one manager.
LifecycleInv == TypeOK /\ OrderHolds /\ OnEnableSeesDependencies /\ DependenciesStayUp
=============================================================================
