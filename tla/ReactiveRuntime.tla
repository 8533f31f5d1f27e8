--------------------------- MODULE ReactiveRuntime ---------------------------
(* The reactive runtime of reinhardt-core (src/crates/reinhardt-core/src/    *)
(* reactive): signals, effects that re-run when a source they read changes,  *)
(* memos, batches, and the flush a scheduler calls. One thread runs it all,  *)
(* but every write may call back into user code, so the state of the calls   *)
(* in progress is a stack of frames and an action works on its top.          *)
(*                                                                           *)
(* A signal has no value here: outdated holds the effects and memos whose    *)
(* last run or cached value rests on something that has changed since.       *)
EXTENDS Naturals, Sequences, FiniteSets, SequencesExt

CONSTANTS
    Signals, Memos, Effects,
    Layout,         \* the effects created with EffectTiming::Layout
    Listed,         \* observers made by new_with_deps, with their lists
    Inputs,         \* the signals the function of a memo reads
    Reads, Writes,  \* the sources an effect may read, the signals it may set
    MaxCallbacks,   \* bound: code sets no signal with this many flushes queued
    App             \* the code outside every effect

Sources   == Signals \cup Memos
Observers == Effects \cup Memos
\* A memo made by new_with_deps is subscribed through a hidden layout effect,
\* its notifier; one made by Memo::new is subscribed itself. Either is the
\* memo's name in a list of subscribers.
Notifiers == Memos \cap DOMAIN Listed

ASSUME ConstantsAssumption ==
    /\ Layout \subseteq Effects /\ DOMAIN Listed \subseteq Observers
    /\ \A x \in DOMAIN Listed : Listed[x] \subseteq Sources
    /\ \A m \in Memos : Inputs[m] \subseteq Signals
    /\ \A m \in Notifiers : Listed[m] = Inputs[m]
    /\ \A e \in Effects : Reads[e] \subseteq Sources /\ Writes[e] \subseteq Signals
    /\ MaxCallbacks \in Nat /\ IsFiniteSet(Memos)
    /\ App \notin Observers /\ Effects \cap Memos = {} /\ Signals \cap Observers = {}

VARIABLES
    subs,           \* the subscribers of each source, in order
    pending,        \* pending_updates
    scheduled,      \* update_scheduled
    callbacks,      \* flushes the scheduler has been given and has not called
    created,        \* effects whose constructor has been called
    registered,     \* EFFECT_TIMING: the observers that are effects and live
    slot,           \* those whose function is in EFFECT_FUNCTIONS, not taken
    owed,           \* effects with a cleanup in their slot
    dirty,          \* memos that recompute at their next read
    stack,          \* the calls in progress, the innermost last
    seen,           \* history: what each effect's last run read or lists
    outdated,       \* history: see above
    missed,         \* history: observers a change reached during their own run
    cut             \* history: effects disposed of during a run of theirs

vars == <<subs, pending, scheduled, callbacks, created, registered, slot,
          owed, dirty, stack, seen, outdated, missed, cut>>

Members(s) == {s[i] : i \in DOMAIN s}
Top        == stack[Len(stack)]
Popped     == SubSeq(stack, 1, Len(stack) - 1)

Run(x, first) == [op |-> "run", node |-> x, first |-> first]
\* The observers get_effect_timing calls layout: what is gone has no timing.
LayoutIds == registered \cap (Layout \cup Notifiers)
\* A notification: whom it has not reached yet, and who of all was layout when
\* it began; it works on copies.
Notifying(rest, layout) == [op |-> "notify", rest |-> rest, layout |-> layout]
Notify(n) == Notifying(subs[n], LayoutIds)
Batch == [op |-> "batch"]
Flush == [op |-> "flush"]

At(op)       == stack # <<>> /\ Top.op = op
Runs(frames) == {i \in DOMAIN frames : frames[i].op = "run"}
Nodes(frames) == {frames[i].node : i \in Runs(frames)}
Running      == Nodes(stack)
\* User code has control: the application's, an effect's, or a batch of either.
InCode == stack = <<>> \/ At("batch") \/ (At("run") /\ Top.node \in Effects)
\* The effect whose function is being executed, if any.
Actor ==
    IF Running = {} THEN App
    ELSE stack[CHOOSE i \in Runs(stack) : \A j \in Runs(stack) : j <= i].node
BatchDepth(frames) ==
    Cardinality({i \in DOMAIN frames : frames[i].op \in {"batch", "flush"}})

\* The application has made its memos, in some order, and no effect yet.
Init ==
    /\ subs \in [Sources -> SetToAllKPermutations(Memos)]
    /\ \A n \in Sources : Members(subs[n]) = {m \in Memos : n \in Inputs[m]}
    /\ pending = <<>>
    /\ scheduled = FALSE /\ callbacks = 0
    /\ created = {} /\ registered = Notifiers /\ slot = Notifiers
    /\ owed = {} /\ dirty = {} /\ stack = <<>>
    /\ seen = [e \in Effects |-> {}]
    /\ outdated = {} /\ missed = {} /\ cut = {}
-----------------------------------------------------------------------------
(* The dependency graph.                                                     *)

\* retain: no list names anyone twice (TypeOK).
Cleared(x) == [n \in Sources |-> RemoveFirst(subs[n], x)]

MutSubscribe(graph, x, ns) == graph

Subscribe(graph, x, ns) ==
    [n \in Sources |-> IF n \in ns /\ x \notin Members(graph[n])
                       THEN Append(graph[n], x) ELSE graph[n]]
-----------------------------------------------------------------------------
(* Scheduling and executing.                                                 *)

MutSchedule(x) ==
    /\ pending' = IF scheduled \/ x \in Members(pending) THEN pending ELSE Append(pending, x)
    /\ scheduled' = (scheduled \/ BatchDepth(stack) = 0)
    /\ callbacks' = IF scheduled' # scheduled THEN callbacks + 1 ELSE callbacks

\* schedule_update: outside a batch, it asks for a flush unless one is to come.
Schedule(x) ==
    /\ pending' = IF x \in Members(pending) THEN pending ELSE Append(pending, x)
    /\ scheduled' = (scheduled \/ BatchDepth(stack) = 0)
    /\ callbacks' = IF scheduled' # scheduled THEN callbacks + 1 ELSE callbacks

MutNext(xs, layout, i) == i = 1 /\ xs # <<>>

\* The position taken next: the first layout observer's, else the head.
NextAt(xs, layout, i) ==
    /\ i \in DOMAIN xs
    /\ \/ xs[i] \in layout /\ \A j \in 1..(i - 1) : xs[j] \notin layout
       \/ i = 1 /\ Members(xs) \cap layout = {}

MutTake(x) == UNCHANGED slot

\* The function is taken out of its slot while it runs.
Take(x) == slot' = slot \ {x}

MutStart(x, frames, first) ==
    /\ Take(x)
    /\ stack' = IF x \in Memos THEN Append(Append(frames, Run(x, first)), Notify(x))
                ELSE Append(frames, Run(x, first))
    /\ seen' = IF x \in Memos THEN seen
               ELSE [seen EXCEPT ![x] = IF x \in DOMAIN Listed THEN Listed[x] ELSE {}]
    /\ outdated' = outdated \ ({x} \cap Effects)
    /\ missed' = missed \ {x}
    /\ UNCHANGED <<owed, dirty>>

\* A run begins: the last run's cleanup is called, and a notifier marks its
\* memo dirty and notifies the memo's subscribers at once.
Start(x, frames, first) ==
    /\ Take(x)
    /\ stack' = IF x \in Memos THEN Append(Append(frames, Run(x, first)), Notify(x))
                ELSE Append(frames, Run(x, first))
    /\ seen' = IF x \in Memos THEN seen
               ELSE [seen EXCEPT ![x] = IF x \in DOMAIN Listed THEN Listed[x] ELSE {}]
    /\ outdated' = outdated \ ({x} \cap Effects)
    /\ missed' = missed \ {x}
    /\ owed' = owed \ {x}
    /\ dirty' = dirty \cup ({x} \cap Memos)

\* execute_effect: the subscriptions go even if the function is not there to
\* run, because it is running already or has been disposed of.
Execute(x, frames) ==
    /\ subs' = Cleared(x)
    /\ \/ x \in slot /\ Start(x, frames, FALSE)
       \/ /\ x \notin slot
          /\ stack' = frames
          /\ missed' = missed \cup ({x} \cap Running)
          /\ UNCHANGED <<slot, seen, outdated, owed, dirty>>

MutReinsert(x) == slot' = slot \cup {x}

\* EffectFnGuard: put back only if not disposed of meanwhile.
Reinsert(x) == slot' = IF x \in registered THEN slot \cup {x} ELSE slot

\* The function returns; a listed observer is subscribed to its list again.
Return ==
    /\ At("run")
    /\ LET x == Top.node
       IN  /\ Reinsert(x)
           /\ subs' = IF x \in DOMAIN Listed THEN Subscribe(subs, x, Listed[x]) ELSE subs
           /\ owed' \in {owed} \cup {owed \cup {y} : y \in {x} \cap Effects \cap DOMAIN Listed}
    /\ stack' = Popped
    /\ UNCHANGED <<pending, scheduled, callbacks, created, registered, dirty,
                   seen, outdated, missed, cut>>
-----------------------------------------------------------------------------
(* notify_signal_change.                                                     *)

\* The next observer a notification reaches, and the notification after it.
Reaches(x) ==
    /\ At("notify")
    /\ \E i \in DOMAIN Top.rest : NextAt(Top.rest, Top.layout, i) /\ x = Top.rest[i]
Reached(x) == Append(Popped, Notifying(RemoveFirst(Top.rest, x), Top.layout))
AtOnce(x)  == BatchDepth(stack) = 0 /\ x \in Top.layout

\* Outside a batch the layout effects run at once, before the others.
NotifyLayout(x) ==
    /\ Reaches(x) /\ AtOnce(x)
    /\ Execute(x, Reached(x))
    /\ UNCHANGED <<pending, scheduled, callbacks, created, registered, cut>>

\* The others are scheduled; in a batch, all are.
NotifyLater(x) ==
    /\ Reaches(x) /\ ~AtOnce(x)
    /\ Schedule(x)
    /\ stack' = Reached(x)
    /\ UNCHANGED <<subs, created, registered, slot, owed, dirty, seen, outdated,
                   missed, cut>>

NotifyEnd ==
    /\ At("notify") /\ Top.rest = <<>>
    /\ stack' = Popped
    /\ UNCHANGED <<subs, pending, scheduled, callbacks, created, registered,
                   slot, owed, dirty, seen, outdated, missed, cut>>

Changed(s) ==
    LET memos == {m \in Memos : s \in Inputs[m]}
    IN  memos \cup {e \in Effects : seen[e] \cap ({s} \cup memos) # {}}

\* Signal::set and update, by the application or an effect.
Set(s) ==
    /\ InCode /\ callbacks < MaxCallbacks
    /\ Actor \in Effects => s \in Writes[Actor]
    /\ outdated' = outdated \cup Changed(s)
    /\ missed' = missed \cup (Changed(s) \cap Running \cap DOMAIN Listed)
    /\ stack' = Append(stack, Notify(s))
    /\ UNCHANGED <<subs, pending, scheduled, callbacks, created, registered,
                   slot, owed, dirty, seen, cut>>
-----------------------------------------------------------------------------
(* Reading.                                                                  *)

Tracks(x) == x \in Effects \ DOMAIN Listed

\* A dirty memo recomputes when read; one that tracks subscribes anew.
Recomputed(n, graph) ==
    IF n \in dirty /\ n \notin Notifiers
    THEN Subscribe([k \in Sources |-> RemoveFirst(graph[k], n)], n, Inputs[n])
    ELSE graph

\* Signal::get and Memo::get.
Get(n) ==
    /\ InCode
    /\ Actor \in Effects => n \in Reads[Actor]
    /\ LET x == {e \in {Actor} : Tracks(e)}
       IN  /\ subs' = Recomputed(n, IF x = {} THEN subs ELSE Subscribe(subs, Actor, {n}))
           /\ seen' = [e \in Effects |-> IF e \in x THEN seen[e] \cup {n} ELSE seen[e]]
           /\ outdated' = IF n \in dirty THEN outdated \ {n}
                          ELSE IF n \in outdated THEN outdated \cup x ELSE outdated
    /\ dirty' = dirty \ {n}
    /\ UNCHANGED <<pending, scheduled, callbacks, created, registered, slot,
                   owed, stack, missed, cut>>
-----------------------------------------------------------------------------
(* Effects, batches and the flush.                                           *)

\* Effect::new and its variants: the first run is part of the constructor.
Create(e) ==
    /\ InCode /\ e \notin created
    /\ created' = created \cup {e}
    /\ registered' = registered \cup {e}
    /\ Start(e, stack, TRUE)
    /\ UNCHANGED <<subs, pending, scheduled, callbacks, cut>>

Disposable(e) ==
    /\ InCode /\ e \in registered \cap Effects
    /\ Run(e, TRUE) \notin Members(stack)

\* Effect::dispose, by code that holds the effect: its constructor returned.
Dispose(e) ==
    /\ Disposable(e)
    /\ registered' = registered \ {e}
    /\ subs' = Cleared(e)
    /\ pending' = RemoveFirst(pending, e)
    /\ slot' = slot \ {e}
    /\ owed' = owed \ {e}
    /\ cut' = cut \cup ({e} \cap Running)
    /\ UNCHANGED <<scheduled, callbacks, created, dirty, stack, seen, outdated,
                   missed>>

\* batch(f): one level is enough to hold flushes back.
BeginBatch ==
    /\ InCode /\ ~At("batch")
    /\ stack' = Append(stack, Batch)
    /\ UNCHANGED <<subs, pending, scheduled, callbacks, created, registered,
                   slot, owed, dirty, seen, outdated, missed, cut>>

\* The outermost batch flushes what it has held back.
EndBatch ==
    /\ At("batch")
    /\ stack' = IF BatchDepth(Popped) = 0 /\ pending # <<>> THEN Append(Popped, Flush) ELSE Popped
    /\ UNCHANGED <<subs, pending, scheduled, callbacks, created, registered,
                   slot, owed, dirty, seen, outdated, missed, cut>>

\* The scheduler calls flush_updates on its own turn of the event loop.
Callback ==
    /\ stack = <<>> /\ callbacks > 0
    /\ callbacks' = callbacks - 1
    /\ stack' = <<Flush>>
    /\ UNCHANGED <<subs, pending, scheduled, created, registered, slot, owed,
                   dirty, seen, outdated, missed, cut>>

\* One round of the loop: a node that is no registered observer is dropped.
FlushOne ==
    /\ At("flush")
    /\ \E i \in DOMAIN pending :
        /\ NextAt(pending, LayoutIds, i)
        /\ pending' = RemoveAt(pending, i)
        /\ \/ pending[i] \in registered /\ Execute(pending[i], stack)
           \/ /\ pending[i] \notin registered
              /\ UNCHANGED <<subs, stack, slot, seen, outdated, missed, owed, dirty>>
    /\ UNCHANGED <<scheduled, callbacks, created, registered, cut>>

MutFlushEnd ==
    /\ At("flush") /\ pending = <<>>
    /\ stack' = Popped
    /\ UNCHANGED <<subs, pending, callbacks, scheduled, created, registered,
                   slot, owed, dirty, seen, outdated, missed, cut>>

FlushEnd ==
    /\ At("flush") /\ pending = <<>>
    /\ stack' = Popped
    /\ scheduled' = FALSE
    /\ UNCHANGED <<subs, pending, callbacks, created, registered, slot, owed,
                   dirty, seen, outdated, missed, cut>>
-----------------------------------------------------------------------------
Next ==
    \/ \E s \in Signals : Set(s)
    \/ \E n \in Sources : Get(n)
    \/ \E e \in Effects : Create(e) \/ Dispose(e)
    \/ Return
    \/ \E x \in Observers : NotifyLayout(x) \/ NotifyLater(x)
    \/ NotifyEnd
    \/ BeginBatch \/ EndBatch \/ Callback \/ FlushOne \/ FlushEnd

Spec == Init /\ [][Next]_vars
-----------------------------------------------------------------------------
\* The variables keep their types, and no list names an observer twice
\* (track_dependency, schedule_update).
TypeOK ==
    /\ DOMAIN subs = Sources
    /\ \A n \in Sources : /\ Members(subs[n]) \subseteq Observers
                          /\ IsInjective(subs[n])
    /\ Members(pending) \subseteq Observers
    /\ IsInjective(pending)
    /\ scheduled \in BOOLEAN /\ callbacks \in Nat
    /\ created \subseteq Effects /\ registered \subseteq created \cup Notifiers
    /\ slot \subseteq created \cup Notifiers
    /\ owed \subseteq created \cap DOMAIN Listed
    /\ dirty \subseteq Memos /\ cut \subseteq created /\ missed \subseteq created \cup Notifiers
    /\ seen \in [Effects -> SUBSET Sources]
    /\ outdated \subseteq Observers

\* A function that is running is not entered again, however its own writes
\* come back to it (effect.rs:353, the remove-execute-reinsert pattern).
NoReentry ==
    /\ \A i, j \in Runs(stack) : stack[i].node = stack[j].node => i = j
    /\ slot \cap Running = {}

\* An effect at rest is subscribed to everything its last run read, or lists:
\* clearing the subscriptions before a run (effect.rs:342) loses one only if
\* a change comes back to the effect in the middle of its run.
StaysSubscribed ==
    \A e \in (registered \cap Effects) \ (Running \cup missed) :
        \A n \in seen[e] : e \in Members(subs[n])

\* Whoever is to run again: queued by a flush or by a notification under way.
Due(x) ==
    \/ x \in Members(pending)
    \/ \E f \in Members(stack) : f.op = "notify" /\ x \in Members(f.rest)

\* No update is lost: an effect that has read something that changed is due to
\* run, or a memo it read is about to be marked dirty and to notify it. Only a
\* change that comes during the effect's or the notifier's own run is missed.
ChangesReachReaders ==
    \A e \in (outdated \cap registered \cap Effects) \ missed :
        \/ Due(e)
        \/ \E m \in seen[e] \cap Notifiers : Due(m) \/ m \in Running \cup missed

\* Work is never left behind without a flush to come: outside batches and
\* flushes, pending updates have a callback queued (runtime.rs:299, 461).
NoLostWakeup ==
    BatchDepth(stack) = 0 /\ pending # <<>> => scheduled /\ callbacks > 0

\* With nothing in progress and nothing pending, a memo whose inputs have
\* changed recomputes when it is next read (memo.rs:26-33).
MemosAreCurrent ==
    stack = <<>> /\ pending = <<>> => outdated \cap Memos \subseteq dirty \cup missed

\* dispose leaves nothing behind, function, cleanup or subscription, also when
\* the effect is in the middle of its run (effect.rs:364); what that run still
\* subscribes to, or the cleanup it returns, is left out here.
DisposedIsForgotten ==
    \A e \in created \ (registered \cup Running) :
        /\ e \notin slot
        /\ e \notin cut => e \notin owed /\ \A n \in Sources : e \notin Members(subs[n])

\* The dependency graph agrees with the observers there are: everyone at rest is
\* in the lists of what they read, once, and nobody who is gone is in any.
GraphInv == TypeOK /\ StaysSubscribed /\ DisposedIsForgotten

\* An effect that has been disposed of never starts another run, though a
\* notification under way or the pending list may still name it.
DisposedNeverRuns ==
    [][\A e \in (Running' \ Running) \cap created : e \in registered]_vars

\* A flush of the event loop or of an outermost batch of the application never
\* starts a passive effect before the memos whose inputs changed
\* are marked dirty: it computes from no stale memo (effect.rs:478).
FlushIsGlitchFree ==
    [][\A e \in ((Running' \ Running) \cap created) \ Layout :
        At("flush") /\ Len(stack) = 1 => outdated \cap Notifiers \subseteq dirty \cup missed]_vars
=============================================================================
