----------------------- MODULE ReactiveRuntimeProofs -----------------------
(* What holds of the reactive runtime for any signals, memos and effects, and *)
(* however their functions read, write, batch, create and dispose: no function *)
(* is entered while it runs, none starts once its effect is disposed of, the   *)
(* dependency graph follows what was read, pending work has a flush to come,   *)
(* and a flush marks the memos before it runs the passive effects. That no     *)
(* change is lost needs memos that notify, see EveryMemoNotifies.              *)
EXTENDS ReactiveRuntime, SequenceTheorems, FiniteSetTheorems,
        WellFoundedInduction, TLAPS

IsStack(frames) == frames \in Seq(Members(frames))
NoTwice(frames) ==
    \A i, j \in Runs(frames) : frames[i].node = frames[j].node => i = j

\* The inductive invariant. A function is in its slot or on the stack, never
\* both; what is in a slot is registered, so whatever is taken from one is.
Slots ==
    /\ IsStack(stack) /\ NoTwice(stack)
    /\ slot \cap Running = {}
    /\ slot \subseteq registered /\ registered \subseteq slot \cup Running
    /\ Notifiers \subseteq registered
    /\ registered \subseteq created \cup Notifiers
    /\ Running \subseteq created \cup Notifiers
    /\ created \subseteq Effects
-----------------------------------------------------------------------------
(* The stack.                                                                *)

\* Pushing a frame keeps those below it where they are.
LEMMA Push ==
    ASSUME NEW frames, IsStack(frames), NEW f
    PROVE  /\ IsStack(Append(frames, f))
           /\ Len(frames) \in Nat /\ DOMAIN frames = 1..Len(frames)
           /\ DOMAIN Append(frames, f) = 1..(Len(frames) + 1)
           /\ \A i \in 1..Len(frames) : Append(frames, f)[i] = frames[i]
           /\ Append(frames, f)[Len(frames) + 1] = f
<1> DEFINE S == Members(frames) \cup {f}
           pushed == Append(frames, f)
<1>1. frames \in Seq(S) /\ f \in S
  BY DEF IsStack
<1>2. /\ pushed \in Seq(S) /\ Len(pushed) = Len(frames) + 1 /\ Len(frames) \in Nat
      /\ DOMAIN pushed = 1..(Len(frames) + 1) /\ DOMAIN frames = 1..Len(frames)
      /\ \A i \in 1..Len(frames) : pushed[i] = frames[i]
      /\ pushed[Len(frames) + 1] = f
  BY <1>1
<1>3. \A i \in DOMAIN pushed : pushed[i] \in Members(pushed)
  BY DEF Members
<1>4. pushed \in Seq(Members(pushed))
  BY <1>2, <1>3
<1> QED BY <1>2, <1>4 DEF IsStack

\* A frame that runs no function changes neither who runs nor how often.
LEMMA PushOther ==
    ASSUME NEW frames, IsStack(frames), NEW f, f.op # "run"
    PROVE  /\ IsStack(Append(frames, f))
           /\ Nodes(Append(frames, f)) = Nodes(frames)
           /\ NoTwice(frames) => NoTwice(Append(frames, f))
<1> DEFINE pushed == Append(frames, f)
<1>1. Runs(pushed) = Runs(frames) /\ \A i \in Runs(frames) : pushed[i] = frames[i]
  BY Push DEF Runs
<1>2. Nodes(pushed) = Nodes(frames)
  BY <1>1 DEF Nodes
<1>3. NoTwice(frames) => NoTwice(pushed)
  BY <1>1 DEF NoTwice
<1> QED BY <1>2, <1>3, Push

\* A function that is not running may be entered.
LEMMA PushRun ==
    ASSUME NEW frames, IsStack(frames), NEW x, NEW first, x \notin Nodes(frames)
    PROVE  /\ IsStack(Append(frames, Run(x, first)))
           /\ Nodes(Append(frames, Run(x, first))) = Nodes(frames) \cup {x}
           /\ NoTwice(frames) => NoTwice(Append(frames, Run(x, first)))
<1> DEFINE pushed == Append(frames, Run(x, first))
           top == Len(frames) + 1
<1>1. Run(x, first).op = "run" /\ Run(x, first).node = x
  BY DEF Run
<1>2. /\ Runs(pushed) = Runs(frames) \cup {top} /\ top \notin Runs(frames)
      /\ \A i \in Runs(frames) : pushed[i] = frames[i]
      /\ pushed[top].node = x
  BY <1>1, Push DEF Runs
<1>3. Nodes(pushed) = Nodes(frames) \cup {x}
  <2> HIDE DEF pushed, top
  <2>1. \A y \in Nodes(pushed) : y \in Nodes(frames) \cup {x}
    BY ONLY <1>2 DEF Nodes
  <2>2. \A y \in Nodes(frames) : y \in Nodes(pushed)
    BY ONLY <1>2 DEF Nodes
  <2>3. x \in Nodes(pushed)
    BY ONLY <1>2 DEF Nodes
  <2> QED BY ONLY <2>1, <2>2, <2>3
<1>4. \A i \in Runs(frames) : frames[i].node # x
  BY DEF Nodes
<1>5. NoTwice(frames) => NoTwice(pushed)
  BY <1>2, <1>4 DEF NoTwice
<1> QED BY <1>3, <1>5, Push

\* What is below the top of a stack.
LEMMA Pop ==
    ASSUME NEW frames, IsStack(frames), NoTwice(frames), frames # <<>>
    PROVE  LET below == SubSeq(frames, 1, Len(frames) - 1)
               top == frames[Len(frames)]
           IN  /\ IsStack(below) /\ NoTwice(below)
               /\ Nodes(below) = IF top.op = "run" THEN Nodes(frames) \ {top.node}
                                 ELSE Nodes(frames)
               /\ top.op = "run" => top.node \in Nodes(frames)
<1> DEFINE below == SubSeq(frames, 1, Len(frames) - 1)
           n == Len(frames)
           top == frames[n]
<1>1. n \in Nat /\ n > 0 /\ DOMAIN frames = 1..n
  <2>1. frames \in Seq(Members(frames))
    BY DEF IsStack
  <2> QED BY <2>1, EmptySeq
<1>2. /\ below \in Seq(Members(frames)) /\ Len(below) = n - 1
      /\ \A i \in 1..(n - 1) : below[i] = frames[i]
  <2>1. \A i \in 1..(n - 1) : frames[i] \in Members(frames)
    BY <1>1 DEF Members
  <2> HIDE DEF n
  <2>2. n - 1 \in Int /\ 1 \in Int
    BY <1>1
  <2>3. /\ SubSeq(frames, 1, n - 1) \in Seq(Members(frames))
        /\ Len(SubSeq(frames, 1, n - 1)) = IF 1 <= n - 1 THEN n - 1 - 1 + 1 ELSE 0
        /\ \A i \in 1..(n - 1 - 1 + 1) : SubSeq(frames, 1, n - 1)[i] = frames[1 + i - 1]
    BY <2>1, <2>2, SubSeqProperties
  <2> QED BY <1>1, <2>3 DEF n
<1>3. DOMAIN below = 1..(n - 1) /\ IsStack(below)
  <2>1. DOMAIN below = 1..(n - 1)
    BY <1>1, <1>2
  <2>2. \A i \in 1..(n - 1) : below[i] \in Members(below)
    BY <2>1 DEF Members
  <2> QED BY <1>1, <1>2, <2>1, <2>2 DEF IsStack
<1>4. Runs(below) = Runs(frames) \ {n} /\ \A i \in Runs(below) : below[i] = frames[i]
  BY <1>1, <1>2, <1>3 DEF Runs
<1>5. NoTwice(below)
  BY <1>4 DEF NoTwice
<1>6. CASE top.op = "run"
  <2>1. n \in Runs(frames)
    BY <1>1, <1>6 DEF Runs
  <2>2. \A i \in Runs(below) : frames[i].node # top.node
    BY <1>4, <2>1 DEF NoTwice
  <2>3. Nodes(below) = Nodes(frames) \ {top.node} /\ top.node \in Nodes(frames)
    BY <1>4, <2>1, <2>2 DEF Nodes
  <2> QED BY <1>3, <1>5, <1>6, <2>3
<1>7. CASE top.op # "run"
  <2>1. Runs(below) = Runs(frames)
    BY <1>4, <1>7 DEF Runs
  <2>2. Nodes(below) = Nodes(frames)
    BY <1>4, <2>1 DEF Nodes
  <2> QED BY <1>3, <1>5, <1>7, <2>2
<1> QED BY <1>6, <1>7
-----------------------------------------------------------------------------
(* Entering functions.                                                       *)

\* A stack on which no function of a slot runs.
Fit(frames) == IsStack(frames) /\ NoTwice(frames) /\ slot \cap Nodes(frames) = {}

LEMMA NotifyIsNoRun ==
    /\ \A rest, layout : Notifying(rest, layout).op # "run"
    /\ \A n : Notify(n).op # "run"
    /\ Batch.op # "run" /\ Flush.op # "run"
BY DEF Notifying, Notify, Batch, Flush

\* Start enters one function, which leaves its slot if it was in one.
LEMMA StartEnters ==
    ASSUME NEW x, NEW frames, NEW first, Fit(frames), x \notin Nodes(frames),
           Start(x, frames, first)
    PROVE  /\ IsStack(stack') /\ NoTwice(stack')
           /\ Running' = Nodes(frames) \cup {x}
           /\ slot' = slot \ {x}
<1> DEFINE run == Append(frames, Run(x, first))
<1>1. IsStack(run) /\ NoTwice(run) /\ Nodes(run) = Nodes(frames) \cup {x}
  BY PushRun DEF Fit
<1>2. slot' = slot \ {x}
  BY DEF Start, Take
<1>3. CASE x \in Memos
  <2>1. stack' = Append(run, Notify(x))
    BY <1>3 DEF Start
  <2>2. /\ IsStack(Append(run, Notify(x))) /\ NoTwice(Append(run, Notify(x)))
        /\ Nodes(Append(run, Notify(x))) = Nodes(run)
    BY <1>1, NotifyIsNoRun, PushOther
  <2> QED BY <1>1, <1>2, <2>1, <2>2 DEF Running
<1>4. CASE x \notin Memos
  <2>1. stack' = run
    BY <1>4 DEF Start
  <2> QED BY <1>1, <1>2, <2>1 DEF Running
<1> QED BY <1>3, <1>4

\* execute_effect enters nothing but a function it took from its slot.
LEMMA ExecuteEnters ==
    ASSUME NEW x, NEW frames, Fit(frames), Execute(x, frames)
    PROVE  /\ IsStack(stack') /\ NoTwice(stack')
           /\ Nodes(frames) \subseteq Running'
           /\ Running' \subseteq Nodes(frames) \cup slot
           /\ slot \subseteq slot' \cup Running'
           /\ slot' \subseteq slot /\ slot' \cap Running' = {}
<1>1. CASE x \in slot /\ Start(x, frames, FALSE)
  <2>1. x \notin Nodes(frames)
    BY <1>1 DEF Fit
  <2>2. /\ IsStack(stack') /\ NoTwice(stack')
        /\ Running' = Nodes(frames) \cup {x} /\ slot' = slot \ {x}
    BY <1>1, <2>1, StartEnters
  <2> QED BY <1>1, <2>2 DEF Fit
<1>2. CASE x \notin slot /\ stack' = frames /\ slot' = slot
  BY <1>2 DEF Fit, Running
<1> QED BY <1>1, <1>2 DEF Execute
-----------------------------------------------------------------------------
(* Every step.                                                               *)

\* What a step may do: functions run that ran before, that were taken from a
\* slot, or that a constructor has just made.
Entered == Running' \subseteq Running \cup slot \cup (created' \ created)

LEMMA SlotsInit == Init => Slots
<1> SUFFICES ASSUME Init PROVE Slots
  OBVIOUS
<1>1. stack = <<>> /\ Runs(stack) = {}
  BY DEF Init, Runs
<1>2. Running = {} /\ NoTwice(stack)
  BY <1>1 DEF Running, Nodes, NoTwice
<1>3. IsStack(stack)
  BY <1>1, EmptySeq DEF IsStack
<1> QED BY <1>2, <1>3 DEF Init, Slots, Notifiers

\* A step that pops the top, or leaves or pushes frames that run nothing.
LEMMA Quiet ==
    ASSUME Slots, slot' \subseteq slot, slot' \subseteq registered',
           registered' \subseteq registered, registered' \subseteq slot' \cup Running,
           Notifiers \subseteq registered', UNCHANGED created,
           \/ stack' = stack
           \/ stack # <<>> /\ Top.op # "run" /\ stack' = Popped
           \/ \E f : f.op # "run" /\ stack' = Append(stack, f)
           \/ stack # <<>> /\ Top.op # "run" /\ \E f : f.op # "run" /\ stack' = Append(Popped, f)
    PROVE  Slots' /\ Entered
<1>1. IsStack(stack') /\ NoTwice(stack') /\ Running' = Running
  <2>1. CASE stack' = stack
    BY <2>1 DEF Slots, Running
  <2>2. CASE stack # <<>> /\ Top.op # "run" /\ stack' = Popped
    BY <2>2, Pop DEF Slots, Running, Top, Popped
  <2>3. CASE \E f : f.op # "run" /\ stack' = Append(stack, f)
    BY <2>3, PushOther DEF Slots, Running
  <2>4. CASE stack # <<>> /\ Top.op # "run" /\ \E f : f.op # "run" /\ stack' = Append(Popped, f)
    <3>1. IsStack(Popped) /\ NoTwice(Popped) /\ Nodes(Popped) = Running
      BY <2>4, Pop DEF Slots, Running, Top, Popped
    <3> QED BY <2>4, <3>1, PushOther DEF Running
  <2> QED BY <2>1, <2>2, <2>3, <2>4
<1> QED BY <1>1 DEF Slots, Entered

LEMMA SlotsNext == Slots /\ [Next]_vars => Slots' /\ Entered
<1> SUFFICES ASSUME Slots, [Next]_vars PROVE Slots' /\ Entered
  OBVIOUS
<1>1. ASSUME NEW s \in Signals, Set(s) PROVE Slots' /\ Entered
  <2>1. \E f : f.op # "run" /\ stack' = Append(stack, f)
    BY <1>1, NotifyIsNoRun DEF Set
  <2> QED BY <1>1, <2>1, Quiet DEF Set, Slots
<1>2. ASSUME NEW n \in Sources, Get(n) PROVE Slots' /\ Entered
  BY <1>2, Quiet DEF Get, Slots
<1>3. ASSUME NEW e \in Effects, Create(e) PROVE Slots' /\ Entered
  <2>1. e \notin created \cup Notifiers
    BY <1>3, ConstantsAssumption DEF Create, Notifiers
  <2>2. Fit(stack) /\ e \notin Nodes(stack) /\ Start(e, stack, TRUE)
    BY <1>3, <2>1 DEF Create, Slots, Fit, Running
  <2>3. /\ IsStack(stack') /\ NoTwice(stack')
        /\ Running' = Running \cup {e} /\ slot' = slot \ {e}
    BY <2>2, StartEnters DEF Running
  <2>4. created' = created \cup {e} /\ registered' = registered \cup {e}
    BY <1>3 DEF Create
  <2>5. /\ slot' \cap Running' = {} /\ slot' \subseteq registered'
        /\ registered' \subseteq slot' \cup Running' /\ Notifiers \subseteq registered'
    BY <2>3, <2>4 DEF Slots
  <2>6. /\ registered' \subseteq created' \cup Notifiers
        /\ Running' \subseteq created' \cup Notifiers /\ created' \subseteq Effects
    BY <2>3, <2>4 DEF Slots
  <2>7. Entered
    BY <2>1, <2>3, <2>4 DEF Entered
  <2> QED BY <2>3, <2>5, <2>6, <2>7 DEF Slots
<1>4. ASSUME NEW e \in Effects, Dispose(e) PROVE Slots' /\ Entered
  <2>1. /\ slot' = slot \ {e} /\ registered' = registered \ {e}
        /\ UNCHANGED <<created, stack>>
    BY <1>4 DEF Dispose
  <2>2. e \notin Notifiers
    BY ConstantsAssumption DEF Notifiers
  <2> QED BY <2>1, <2>2, Quiet DEF Slots
<1>5. CASE Return
  <2>1. stack # <<>> /\ Top.op = "run" /\ stack' = Popped
    BY <1>5 DEF Return, At
  <2>2. /\ IsStack(stack') /\ NoTwice(stack')
        /\ Running' = Running \ {Top.node} /\ Top.node \in Running
    BY <2>1, Pop DEF Slots, Running, Top, Popped
  <2>3. slot' = IF Top.node \in registered THEN slot \cup {Top.node} ELSE slot
    BY <1>5 DEF Return, Reinsert
  <2>4. UNCHANGED <<created, registered>>
    BY <1>5 DEF Return
  <2> QED BY <2>2, <2>3, <2>4 DEF Slots, Entered
<1>6. ASSUME NEW x \in Observers, NotifyLayout(x) PROVE Slots' /\ Entered
  <2>1. stack # <<>> /\ Top.op # "run" /\ Execute(x, Reached(x))
    BY <1>6 DEF NotifyLayout, Reaches, At
  <2>2. IsStack(Popped) /\ NoTwice(Popped) /\ Nodes(Popped) = Running
    BY <2>1, Pop DEF Slots, Running, Top, Popped
  <2>3. Fit(Reached(x)) /\ Nodes(Reached(x)) = Running
    BY <2>2, PushOther, NotifyIsNoRun DEF Slots, Fit, Reached
  <2>4. /\ IsStack(stack') /\ NoTwice(stack')
        /\ Running \subseteq Running' /\ Running' \subseteq Running \cup slot
        /\ slot \subseteq slot' \cup Running'
        /\ slot' \subseteq slot /\ slot' \cap Running' = {}
    BY <2>1, <2>3, ExecuteEnters
  <2>5. UNCHANGED <<created, registered>>
    BY <1>6 DEF NotifyLayout
  <2> QED BY <2>4, <2>5 DEF Slots, Entered
<1>7. ASSUME NEW x \in Observers, NotifyLater(x) PROVE Slots' /\ Entered
  <2>1. stack # <<>> /\ Top.op # "run" /\ \E f : f.op # "run" /\ stack' = Append(Popped, f)
    BY <1>7, NotifyIsNoRun DEF NotifyLater, Reaches, Reached, At
  <2> QED BY <1>7, <2>1, Quiet DEF NotifyLater, Slots
<1>8. CASE NotifyEnd
  <2>1. stack # <<>> /\ Top.op # "run" /\ stack' = Popped
    BY <1>8 DEF NotifyEnd, At
  <2> QED BY <1>8, <2>1, Quiet DEF NotifyEnd, Slots
<1>9. CASE BeginBatch
  <2>1. \E f : f.op # "run" /\ stack' = Append(stack, f)
    BY <1>9, NotifyIsNoRun DEF BeginBatch
  <2> QED BY <1>9, <2>1, Quiet DEF BeginBatch, Slots
<1>10. CASE EndBatch
  <2>1. /\ stack # <<>> /\ Top.op # "run"
        /\ stack' = Popped \/ \E f : f.op # "run" /\ stack' = Append(Popped, f)
    BY <1>10, NotifyIsNoRun DEF EndBatch, At
  <2> QED BY <1>10, <2>1, Quiet DEF EndBatch, Slots
<1>11. CASE Callback
  <2>1. Runs(<<Flush>>) = {} /\ IsStack(<<Flush>>)
    BY NotifyIsNoRun DEF Runs, IsStack, Members
  <2>2. NoTwice(stack') /\ Running' = {} /\ IsStack(stack')
    BY <1>11, <2>1 DEF Callback, NoTwice, Running, Nodes
  <2>3. Running = {}
    BY <1>11 DEF Callback, Running, Nodes, Runs
  <2> QED BY <1>11, <2>2, <2>3 DEF Callback, Slots, Entered
<1>12. CASE FlushOne
  <2>1. Fit(stack)
    BY DEF Slots, Fit, Running
  <2>2. UNCHANGED <<created, registered>>
    BY <1>12 DEF FlushOne
  <2>3. CASE \E x : Execute(x, stack)
    <3>1. /\ IsStack(stack') /\ NoTwice(stack')
          /\ Running \subseteq Running' /\ Running' \subseteq Running \cup slot
          /\ slot \subseteq slot' \cup Running'
          /\ slot' \subseteq slot /\ slot' \cap Running' = {}
      BY <2>1, <2>3, ExecuteEnters DEF Running
    <3> QED BY <2>2, <3>1 DEF Slots, Entered
  <2>4. CASE UNCHANGED <<stack, slot>>
    BY <2>2, <2>4, Quiet DEF Slots
  <2> QED BY <1>12, <2>3, <2>4 DEF FlushOne
<1>13. CASE FlushEnd
  <2>1. stack # <<>> /\ Top.op # "run" /\ stack' = Popped
    BY <1>13 DEF FlushEnd, At
  <2> QED BY <1>13, <2>1, Quiet DEF FlushEnd, Slots
<1>14. CASE UNCHANGED vars
  BY <1>14, Quiet DEF vars, Slots
<1> QED BY <1>1, <1>2, <1>3, <1>4, <1>5, <1>6, <1>7, <1>9, <1>10, <1>11, <1>12,
           <1>13, <1>14, <1>8 DEF Next

\* The inductive invariant holds in every reachable state: a function is in
\* its slot or on the stack, and a slot belongs to a registered observer.
THEOREM SlotInvariance == Spec => []Slots
<1> QED BY SlotsInit, SlotsNext, PTL DEF Spec

\* No function is entered while it runs (effect.rs:353), for any functions.
THEOREM NonReentrant == Spec => []NoReentry
<1>1. Slots => NoReentry
  BY DEF Slots, NoReentry, NoTwice
<1> QED BY <1>1, SlotInvariance, PTL

\* An effect that was disposed of never starts again, whatever a notification
\* under way or the pending list still names (effect.rs:402).
THEOREM DisposedStaysStopped == Spec => DisposedNeverRuns
<1>1. Slots /\ [Next]_vars =>
        [\A e \in (Running' \ Running) \cap created : e \in registered]_vars
  BY SlotsNext DEF Slots, Entered
<1> QED BY <1>1, SlotInvariance, PTL DEF Spec, DisposedNeverRuns
-----------------------------------------------------------------------------
(* Lists of observers, and sets of frames.                                   *)

\* A list of observers that names nobody twice.
IsList(s) == s \in Seq(Observers) /\ IsInjective(s)

\* What RemoveAt leaves, and where.
LEMMA RemoveAtProperties ==
    ASSUME NEW S, NEW s \in Seq(S), NEW p \in 1..Len(s)
    PROVE  /\ RemoveAt(s, p) \in Seq(S)
           /\ Len(RemoveAt(s, p)) = Len(s) - 1
           /\ \A i \in 1..(Len(s) - 1) :
                  RemoveAt(s, p)[i] = IF i < p THEN s[i] ELSE s[i + 1]
<1> DEFINE l == SubSeq(s, 1, p - 1)
           r == SubSeq(s, p + 1, Len(s))
<1>1. l \in Seq(S) /\ Len(l) = p - 1 /\ \A i \in 1..(p - 1) : l[i] = s[i]
  BY SubSeqProperties
<1>2. /\ r \in Seq(S) /\ Len(r) = Len(s) - p
      /\ \A i \in 1..(Len(s) - p) : r[i] = s[p + i]
  <2>1. CASE p = Len(s)
    BY <2>1, SubSeqProperties
  <2>2. CASE p < Len(s)
    <3>1. p + 1 \in 1..(Len(s) + 1) /\ Len(s) \in p..Len(s) /\ \A i \in (p + 1)..Len(s) : i \in 1..Len(s)
      BY <2>2
    <3>2. r \in Seq(S) /\ Len(r) = Len(s) - (p + 1) + 1
      BY <2>2, <3>1, SubSeqProperties
    <3>3. \A i \in 1..(Len(s) - p) : r[i] = s[(p + 1) + i - 1]
      BY <2>2, <3>1, SubSeqProperties
    <3> QED BY <3>2, <3>3
  <2> QED BY <2>1, <2>2
<1>3. RemoveAt(s, p) = l \o r
  BY DEF RemoveAt
<1> HIDE DEF l, r
<1>4. /\ l \o r \in Seq(S) /\ Len(l \o r) = Len(l) + Len(r)
      /\ \A i \in 1..(Len(l) + Len(r)) :
             (l \o r)[i] = IF i <= Len(l) THEN l[i] ELSE r[i - Len(l)]
  BY <1>1, <1>2, ConcatProperties
<1>5. \A i \in 1..(Len(s) - 1) : (l \o r)[i] = IF i < p THEN s[i] ELSE s[i + 1]
  <2> TAKE i \in 1..(Len(s) - 1)
  <2>1. CASE i < p
    BY <1>1, <1>2, <1>4, <2>1
  <2>2. CASE ~(i < p)
    <3>1. i - (p - 1) \in 1..(Len(s) - p) /\ p + (i - (p - 1)) = i + 1
      BY <2>2
    <3>2. r[i - (p - 1)] = s[i + 1]
      BY <1>2, <3>1
    <3> QED BY <1>1, <1>2, <1>4, <2>2, <3>2
  <2> QED BY <2>1, <2>2
<1> QED
  BY <1>1, <1>2, <1>3, <1>4, <1>5

\* A set of natural numbers that is not empty has a least one.
LEMMA Least ==
    ASSUME NEW S, S \subseteq Nat, S # {}
    PROVE  \E n \in S : \A m \in S : n <= m
<1> DEFINE R == {ss \in Nat \X Nat : ss[1] < ss[2]}
<1>1. IsWellFoundedOn(R, Nat)
  <2>1. R = OpToRel(<, Nat)
    BY DEF OpToRel
  <2> QED BY <2>1, NatLessThanWellFounded
<1>2. \A x, y \in Nat : <<y, x>> \in R <=> y < x
  OBVIOUS
<1> HIDE DEF R
<1>3. PICK x \in S : \A y \in S : ~(<<y, x>> \in R)
  BY <1>1, WFMin
<1>4. \A y \in S : ~(y < x)
  BY <1>2, <1>3
<1>5. \A y \in S : x <= y
  BY <1>4
<1> QED
  BY <1>5

LEMMA Removed ==
    ASSUME NEW s, IsList(s), NEW p \in DOMAIN s
    PROVE  /\ IsList(RemoveAt(s, p))
           /\ Members(RemoveAt(s, p)) = Members(s) \ {s[p]}
<1> DEFINE t == RemoveAt(s, p)
<1>1. s \in Seq(Observers) /\ Len(s) \in Nat /\ DOMAIN s = 1..Len(s) /\ p \in 1..Len(s)
  <2>1. s \in Seq(Observers)
    BY ONLY IsList(s) DEF IsList
  <2>2. Len(s) \in Nat /\ DOMAIN s = 1..Len(s)
    BY ONLY <2>1, LenProperties
  <2> QED BY ONLY <2>1, <2>2, p \in DOMAIN s
<1>2. /\ t \in Seq(Observers) /\ Len(t) = Len(s) - 1
      /\ \A i \in 1..(Len(s) - 1) : t[i] = IF i < p THEN s[i] ELSE s[i + 1]
  BY <1>1, RemoveAtProperties, Zenon
<1> HIDE DEF t
<1>3. DOMAIN t = 1..(Len(s) - 1)
  BY <1>1, <1>2
<1>4. \A i, j \in 1..Len(s) : s[i] = s[j] => i = j
  BY <1>1 DEF IsList, IsInjective
<1>5. IsInjective(t)
  <2> SUFFICES ASSUME NEW i \in 1..(Len(s) - 1), NEW j \in 1..(Len(s) - 1), t[i] = t[j]
               PROVE  i = j
    BY <1>3 DEF IsInjective
  <2> DEFINE k == IF i < p THEN i ELSE i + 1
             l == IF j < p THEN j ELSE j + 1
  <2>1. s[k] = s[l] /\ k \in 1..Len(s) /\ l \in 1..Len(s)
    BY <1>1, <1>2
  <2>2. k = l
    BY <1>4, <2>1
  <2> QED BY <1>1, <2>2
<1>6. ASSUME NEW i \in 1..(Len(s) - 1) PROVE t[i] \in Members(s) \ {s[p]}
  <2> DEFINE k == IF i < p THEN i ELSE i + 1
  <2>1. t[i] = s[k] /\ k \in 1..Len(s) /\ k # p
    BY <1>1, <1>2
  <2>2. s[k] # s[p]
    BY <1>1, <1>4, <2>1
  <2> QED BY <1>1, <2>1, <2>2 DEF Members
<1>7. ASSUME NEW k \in 1..Len(s), s[k] # s[p] PROVE s[k] \in Members(t)
  <2>1. CASE k < p
    <3>1. k \in 1..(Len(s) - 1) /\ t[k] = s[k]
      BY <1>1, <1>2, <2>1
    <3> QED BY <1>3, <3>1 DEF Members
  <2>2. CASE k > p
    <3>1. k - 1 \in 1..(Len(s) - 1) /\ ~(k - 1 < p) /\ k - 1 + 1 = k
      BY <1>1, <2>2
    <3>2. t[k - 1] = s[k]
      BY <1>2, <3>1
    <3> QED BY <1>3, <3>1, <3>2 DEF Members
  <2> QED BY <1>1, <1>7, <2>1, <2>2
<1>8. Members(t) = Members(s) \ {s[p]}
  BY <1>1, <1>3, <1>6, <1>7 DEF Members
<1> QED BY <1>2, <1>5, <1>8 DEF t, IsList

LEMMA Dropped ==
    ASSUME NEW s, IsList(s), NEW x
    PROVE  /\ IsList(RemoveFirst(s, x))
           /\ Members(RemoveFirst(s, x)) = Members(s) \ {x}
<1>1. s \in Seq(Observers) /\ Len(s) \in Nat /\ DOMAIN s = 1..Len(s)
  BY DEF IsList
<1>2. CASE \A i \in 1..Len(s) : s[i] # x
  <2>1. RemoveFirst(s, x) = s
    BY <1>2 DEF RemoveFirst
  <2>2. x \notin Members(s)
    BY <1>1, <1>2 DEF Members
  <2> QED BY <2>1, <2>2
<1>3. ASSUME NEW p \in 1..Len(s), s[p] = x
      PROVE  RemoveFirst(s, x) = RemoveAt(s, p)
  <2> DEFINE I == {i \in 1..Len(s) : s[i] = x}
  <2>1. I = {p}
    BY <1>1, <1>3 DEF IsList, IsInjective
  <2>2. SelectInSeq(s, LAMBDA v : v = x) = Min(I)
    BY <2>1 DEF SelectInSeq
  <2>3. Min({p}) = p
    BY <1>1 DEF Min
  <2> QED BY <1>3, <2>1, <2>2, <2>3 DEF RemoveFirst
<1> QED BY <1>1, <1>2, <1>3, Removed

LEMMA Added ==
    ASSUME NEW s, IsList(s), NEW x \in Observers, x \notin Members(s)
    PROVE  IsList(Append(s, x)) /\ Members(Append(s, x)) = Members(s) \cup {x}
<1> DEFINE t == Append(s, x)
           n == Len(s)
<1>1. s \in Seq(Observers) /\ n \in Nat /\ DOMAIN s = 1..n
  BY DEF IsList
<1>2. /\ t \in Seq(Observers) /\ DOMAIN t = 1..(n + 1) /\ t[n + 1] = x
      /\ \A i \in 1..n : t[i] = s[i]
  BY <1>1
<1> HIDE DEF t, n
<1>3. \A i \in 1..n : s[i] # x
  BY <1>1 DEF Members
<1>4. \A i, j \in 1..n : s[i] = s[j] => i = j
  BY <1>1 DEF IsList, IsInjective
<1>5. \A i \in 1..(n + 1) : i \in 1..n \/ i = n + 1
  BY <1>1
<1>6. IsInjective(t)
  BY <1>2, <1>3, <1>4, <1>5 DEF IsInjective
<1>7. n + 1 \in 1..(n + 1) /\ 1..n \subseteq 1..(n + 1)
  BY <1>1
<1>8. Members(t) = Members(s) \cup {x}
  BY <1>1, <1>2, <1>5, <1>7 DEF Members
<1> QED BY <1>2, <1>6, <1>8 DEF t, IsList

LEMMA FramesPush ==
    ASSUME NEW frames, IsStack(frames), NEW f
    PROVE  Members(Append(frames, f)) = Members(frames) \cup {f}
<1> DEFINE n == Len(frames)
<1>1. n \in Nat /\ n + 1 \in 1..(n + 1) /\ 1..n \subseteq 1..(n + 1)
      /\ \A i \in 1..(n + 1) : i \in 1..n \/ i = n + 1
  BY Push
<1> QED BY <1>1, Push DEF Members

LEMMA FramesPop ==
    ASSUME NEW frames, IsStack(frames), frames # <<>>
    PROVE  LET below == SubSeq(frames, 1, Len(frames) - 1)
           IN  Members(frames) = Members(below) \cup {frames[Len(frames)]}
<1> DEFINE below == SubSeq(frames, 1, Len(frames) - 1)
           n == Len(frames)
<1>1. frames \in Seq(Members(frames)) /\ n \in Nat /\ n > 0 /\ DOMAIN frames = 1..n
  BY EmptySeq DEF IsStack
<1>2. /\ below \in Seq(Members(frames)) /\ Len(below) = n - 1
      /\ \A i \in 1..(n - 1) : below[i] = frames[i]
  <2>1. \A i \in 1..(n - 1) : frames[i] \in Members(frames)
    BY <1>1 DEF Members
  <2> HIDE DEF n
  <2>2. n - 1 \in Int /\ 1 \in Int
    BY <1>1
  <2>3. /\ SubSeq(frames, 1, n - 1) \in Seq(Members(frames))
        /\ Len(SubSeq(frames, 1, n - 1)) = IF 1 <= n - 1 THEN n - 1 - 1 + 1 ELSE 0
        /\ \A i \in 1..(n - 1 - 1 + 1) : SubSeq(frames, 1, n - 1)[i] = frames[1 + i - 1]
    BY <1>1, <2>1, <2>2, SubSeqProperties
  <2> QED BY <1>1, <2>3 DEF n
<1> HIDE DEF below, n
<1>3. DOMAIN below = 1..(n - 1)
  BY <1>1, <1>2
<1>4. n \in 1..n /\ 1..(n - 1) \subseteq 1..n /\ \A i \in 1..n : i \in 1..(n - 1) \/ i = n
  BY <1>1
<1>5. Members(frames) = Members(below) \cup {frames[n]}
  BY <1>1, <1>2, <1>3, <1>4 DEF Members
<1> QED BY <1>5 DEF below, n

\* Whether updates are held back.
Held(F) == \E f \in F : f.op \in {"batch", "flush"}

LEMMA Depth ==
    ASSUME NEW frames, IsStack(frames)
    PROVE  /\ BatchDepth(frames) \in Nat
           /\ BatchDepth(frames) = 0 <=> ~Held(Members(frames))
<1> DEFINE S == {i \in DOMAIN frames : frames[i].op \in {"batch", "flush"}}
<1>1. Len(frames) \in Nat /\ DOMAIN frames = 1..Len(frames)
  BY Push
<1>2. IsFiniteSet(1..Len(frames)) /\ S \subseteq 1..Len(frames)
  BY <1>1, FS_Interval
<1>3. IsFiniteSet(S)
  BY <1>2, FS_Subset
<1>4. Cardinality(S) \in Nat /\ (Cardinality(S) = 0 <=> S = {})
  BY <1>3, FS_CardinalityType, FS_EmptySet
<1>5. S = {} <=> ~Held(Members(frames))
  BY DEF Held, Members
<1> QED BY <1>4, <1>5 DEF BatchDepth

\* The innermost run is somebody's.
LEMMA ActorRuns == ASSUME IsStack(stack) PROVE Actor = App \/ Actor \in Running
<1> SUFFICES ASSUME Running # {} PROVE Actor \in Running
  BY DEF Actor
<1> DEFINE n == Len(stack)
           S == {n - i : i \in Runs(stack)}
<1>1. n \in Nat /\ Runs(stack) \subseteq 1..n /\ Runs(stack) # {}
  BY Push DEF Running, Nodes, Runs
<1>2. S \subseteq Nat /\ S # {}
  BY <1>1
<1>3. PICK d \in S : \A e \in S : d <= e
  BY <1>2, Least
<1>4. PICK i \in Runs(stack) : d = n - i
  BY <1>3
<1>5. ASSUME NEW j \in Runs(stack) PROVE j <= i
  <2>1. n - j \in S
    OBVIOUS
  <2> HIDE DEF S, n
  <2>2. n - i <= n - j /\ i \in Nat /\ j \in Nat
    BY <1>1, <1>3, <1>4, <2>1
  <2> QED BY <1>1, <2>2
<1> DEFINE k == CHOOSE k \in Runs(stack) : \A j \in Runs(stack) : j <= k
<1>6. k \in Runs(stack)
  BY <1>5
<1>7. Actor = stack[k].node
  BY DEF Actor
<1> QED BY <1>6, <1>7 DEF Running, Nodes
-----------------------------------------------------------------------------
(* The graph.                                                                *)

\* The variables keep their types; so do the frames.
IsGraph(g) == g \in [Sources -> Seq(Observers)] /\ \A n \in Sources : IsList(g[n])
AreFrames(F) ==
    \A f \in F : /\ f.op \in {"run", "notify", "batch", "flush"}
                /\ f.op = "notify" => IsList(f.rest)

Typed ==
    /\ IsGraph(subs) /\ IsList(pending) /\ AreFrames(Members(stack))
    /\ scheduled \in BOOLEAN /\ callbacks \in Nat
    /\ owed \subseteq created \cap DOMAIN Listed
    /\ dirty \subseteq Memos /\ cut \subseteq created
    /\ missed \subseteq created \cup Notifiers
    /\ seen \in [Effects -> SUBSET Sources]
    /\ outdated \subseteq Observers

LEMMA ClearedGraph ==
    ASSUME IsGraph(subs), NEW x
    PROVE  /\ IsGraph(Cleared(x))
           /\ \A n \in Sources : Members(Cleared(x)[n]) = Members(subs[n]) \ {x}
<1>1. \A n \in Sources : /\ IsList(RemoveFirst(subs[n], x))
                         /\ Members(RemoveFirst(subs[n], x)) = Members(subs[n]) \ {x}
  BY Dropped DEF IsGraph
<1>2. \A n \in Sources : Cleared(x)[n] = RemoveFirst(subs[n], x)
  BY DEF Cleared
<1>3. Cleared(x) \in [Sources -> Seq(Observers)]
  BY <1>1 DEF Cleared, IsList
<1> QED BY <1>1, <1>2, <1>3 DEF IsGraph

LEMMA SubscribeGraph ==
    ASSUME NEW g, IsGraph(g), NEW x \in Observers, NEW ns
    PROVE  /\ IsGraph(Subscribe(g, x, ns))
           /\ \A n \in Sources \ ns : Members(Subscribe(g, x, ns)[n]) = Members(g[n])
           /\ \A n \in Sources \cap ns : Members(Subscribe(g, x, ns)[n]) = Members(g[n]) \cup {x}
<1> DEFINE s(n) == IF n \in ns /\ x \notin Members(g[n]) THEN Append(g[n], x) ELSE g[n]
<1>1. ASSUME NEW n \in Sources
      PROVE  /\ IsList(s(n))
             /\ n \notin ns => Members(s(n)) = Members(g[n])
             /\ n \in ns => Members(s(n)) = Members(g[n]) \cup {x}
  <2>1. IsList(g[n])
    BY DEF IsGraph
  <2>2. CASE n \in ns /\ x \notin Members(g[n])
    BY <2>1, <2>2, Added
  <2>3. CASE ~(n \in ns /\ x \notin Members(g[n]))
    BY <2>1, <2>3
  <2> QED BY <2>2, <2>3
<1>2. Subscribe(g, x, ns) = [n \in Sources |-> s(n)]
  BY DEF Subscribe
<1> HIDE DEF s
<1>3. Subscribe(g, x, ns) \in [Sources -> Seq(Observers)]
  BY <1>1, <1>2 DEF IsList
<1>4. \A n \in Sources : Subscribe(g, x, ns)[n] = s(n)
  BY <1>2
<1> QED BY <1>1, <1>3, <1>4 DEF IsGraph

\* A recompute moves no subscription but the memo's own.
LEMMA RecomputedGraph ==
    ASSUME NEW g, IsGraph(g), NEW n \in Sources, dirty \subseteq Memos
    PROVE  /\ IsGraph(Recomputed(n, g))
           /\ \A k \in Sources : \A x : x # n \/ n \notin Memos \ Notifiers =>
                 (x \in Members(Recomputed(n, g)[k]) <=> x \in Members(g[k]))
<1> DEFINE h == [k \in Sources |-> RemoveFirst(g[k], n)]
<1>1. CASE ~(n \in dirty /\ n \notin Notifiers)
  BY <1>1 DEF Recomputed
<1>2. CASE n \in dirty \ Notifiers /\ n \in Memos
  <2>1. \A k \in Sources : /\ IsList(RemoveFirst(g[k], n))
                           /\ Members(RemoveFirst(g[k], n)) = Members(g[k]) \ {n}
    BY Dropped DEF IsGraph
  <2>2. h \in [Sources -> Seq(Observers)]
    BY <2>1 DEF IsList
  <2>3. IsGraph(h) /\ \A k \in Sources : Members(h[k]) = Members(g[k]) \ {n}
    BY <2>1, <2>2 DEF IsGraph
  <2>4. Recomputed(n, g) = Subscribe(h, n, Inputs[n]) /\ n \in Observers
    BY <1>2 DEF Recomputed, Observers
  <2> HIDE DEF h
  <2>5. /\ IsGraph(Subscribe(h, n, Inputs[n]))
        /\ \A k \in Sources \ Inputs[n] : Members(Subscribe(h, n, Inputs[n])[k]) = Members(h[k])
        /\ \A k \in Sources \cap Inputs[n] : Members(Subscribe(h, n, Inputs[n])[k]) = Members(h[k]) \cup {n}
    BY <2>3, <2>4, SubscribeGraph
  <2> QED BY <1>2, <2>3, <2>4, <2>5
<1> QED BY <1>1, <1>2

\* The frames a start leaves: the run, and a notifier's notification.
StartFrames(x, frames, first) ==
    Members(frames) \cup {Run(x, first)} \cup {Notify(y) : y \in {x} \cap Memos}

LEMMA Started ==
    ASSUME NEW x, NEW frames, NEW first, IsStack(frames), Start(x, frames, first)
    PROVE  Members(stack') = StartFrames(x, frames, first)
<1> DEFINE run == Append(frames, Run(x, first))
<1>1. Members(run) = Members(frames) \cup {Run(x, first)} /\ IsStack(run)
  BY FramesPush, Push
<1>2. CASE x \in Memos
  <2>1. stack' = Append(run, Notify(x))
    BY <1>2 DEF Start
  <2> HIDE DEF run
  <2>2. Members(stack') = Members(run) \cup {Notify(x)}
    BY <1>1, <2>1, FramesPush
  <2>3. {Notify(y) : y \in {x} \cap Memos} = {Notify(x)}
    BY <1>2
  <2> QED BY <1>1, <2>2, <2>3 DEF StartFrames
<1>3. CASE x \notin Memos
  <2>1. stack' = run
    BY <1>3 DEF Start
  <2> HIDE DEF run
  <2>2. {Notify(y) : y \in {x} \cap Memos} = {}
    BY <1>3
  <2> QED BY <1>1, <2>1, <2>2 DEF StartFrames
<1> QED BY <1>2, <1>3

LEMMA StartGrows ==
    ASSUME NEW x, NEW frames, NEW first, IsStack(frames), Start(x, frames, first)
    PROVE  Members(frames) \subseteq Members(stack')
<1>1. Members(stack') = StartFrames(x, frames, first)
  BY Started
<1> QED BY <1>1 DEF StartFrames

LEMMA FramesAreFrames ==
    /\ \A x, first : AreFrames({Run(x, first)})
    /\ \A rest, layout : IsList(rest) => AreFrames({Notifying(rest, layout)})
    /\ AreFrames({Batch}) /\ AreFrames({Flush})
    /\ \A F, G : AreFrames(F \cup G) <=> AreFrames(F) /\ AreFrames(G)
BY DEF AreFrames, Run, Notifying, Batch, Flush

\* What a start and an execution change, in types.
Effected(x) ==
    /\ AreFrames(Members(stack'))
    /\ seen' \in [Effects -> SUBSET Sources]
    /\ outdated' \subseteq outdated /\ owed' \subseteq owed
    /\ dirty' \subseteq Memos
    /\ missed' \subseteq missed \cup ({x} \cap Running)

LEMMA StartTyped ==
    ASSUME Typed, NEW x \in Observers, NEW frames, NEW first, IsStack(frames),
           AreFrames(Members(frames)), Start(x, frames, first)
    PROVE  Effected(x)
<1>1. AreFrames(Members(stack'))
  <2>1. AreFrames({Run(x, first)})
    BY FramesAreFrames
  <2>2. AreFrames({Notify(y) : y \in {x} \cap Memos})
    <3>1. CASE x \in Memos
      <4>1. IsList(subs[x])
        BY <3>1 DEF Typed, IsGraph, Sources
      <4>2. AreFrames({Notify(x)})
        BY <4>1, FramesAreFrames DEF Notify
      <4> QED BY <3>1, <4>2 DEF AreFrames
    <3>2. CASE x \notin Memos
      BY <3>2 DEF AreFrames
    <3> QED BY <3>1, <3>2
  <2>3. Members(stack') = Members(frames) \cup {Run(x, first)} \cup {Notify(y) : y \in {x} \cap Memos}
    BY Started DEF StartFrames
  <2> QED BY <2>1, <2>2, <2>3, FramesAreFrames
<1>2. seen' \in [Effects -> SUBSET Sources]
  <2> DEFINE v == IF x \in DOMAIN Listed THEN Listed[x] ELSE {}
  <2>1. v \in SUBSET Sources
    BY ConstantsAssumption
  <2>2. seen' = IF x \in Memos THEN seen ELSE [seen EXCEPT ![x] = v]
    BY DEF Start
  <2> HIDE DEF v
  <2> QED BY <2>1, <2>2 DEF Typed, Observers
<1>3. /\ outdated' \subseteq outdated /\ owed' \subseteq owed
      /\ dirty' \subseteq Memos /\ missed' \subseteq missed
  BY DEF Start, Typed
<1> QED BY <1>1, <1>2, <1>3 DEF Effected

LEMMA ExecuteTyped ==
    ASSUME Typed, NEW x \in Observers, NEW frames, IsStack(frames),
           AreFrames(Members(frames)), Execute(x, frames)
    PROVE  Effected(x) /\ IsGraph(subs')
<1>1. IsGraph(subs')
  BY ClearedGraph DEF Execute, Typed
<1>2. CASE x \in slot /\ Start(x, frames, FALSE)
  BY <1>1, <1>2, StartTyped
<1>3. CASE /\ x \notin slot /\ stack' = frames /\ missed' = missed \cup ({x} \cap Running)
           /\ UNCHANGED <<slot, seen, outdated, owed, dirty>>
  BY <1>1, <1>3 DEF Effected, Typed
<1> QED BY <1>2, <1>3 DEF Execute

\* Below its top, and with the top replaced.
LEMMA Below ==
    ASSUME Slots, Typed, stack # <<>>
    PROVE  /\ IsStack(Popped) /\ NoTwice(Popped) /\ AreFrames(Members(Popped))
           /\ Members(stack) = Members(Popped) \cup {Top}
           /\ Top \in Members(stack)
           /\ Top.op # "run" => Nodes(Popped) = Running
           /\ Top.op = "run" => Nodes(Popped) = Running \ {Top.node} /\ Top.node \in Running
<1>1. /\ IsStack(Popped) /\ NoTwice(Popped)
      /\ Nodes(Popped) = IF Top.op = "run" THEN Nodes(stack) \ {Top.node} ELSE Nodes(stack)
      /\ Top.op = "run" => Top.node \in Nodes(stack)
  BY Pop DEF Slots, Top, Popped
<1>2. Members(stack) = Members(Popped) \cup {Top}
  BY FramesPop DEF Slots, Top, Popped
<1>3. AreFrames(Members(Popped))
  BY <1>2, FramesAreFrames DEF Typed
<1> QED BY <1>1, <1>2, <1>3 DEF Running

LEMMA ReachedFrames ==
    ASSUME Slots, Typed, NEW x, Reaches(x)
    PROVE  /\ IsStack(Reached(x)) /\ NoTwice(Reached(x)) /\ AreFrames(Members(Reached(x)))
           /\ Members(Reached(x)) = Members(Popped) \cup {Notifying(RemoveFirst(Top.rest, x), Top.layout)}
           /\ Members(stack) = Members(Popped) \cup {Top}
           /\ IsList(Top.rest) /\ x \in Members(Top.rest) /\ Top.op = "notify"
           /\ Members(RemoveFirst(Top.rest, x)) = Members(Top.rest) \ {x}
           /\ Nodes(Reached(x)) = Running
<1> DEFINE f == Notifying(RemoveFirst(Top.rest, x), Top.layout)
<1>1. stack # <<>> /\ Top.op = "notify" /\ x \in Members(Top.rest)
  BY DEF Reaches, At, Members
<1>2. /\ IsStack(Popped) /\ NoTwice(Popped) /\ AreFrames(Members(Popped))
      /\ Members(stack) = Members(Popped) \cup {Top}
      /\ Top \in Members(stack) /\ Nodes(Popped) = Running
  BY <1>1, Below
<1>3. IsList(Top.rest)
  BY <1>1, <1>2 DEF Typed, AreFrames
<1>4. /\ IsList(RemoveFirst(Top.rest, x))
      /\ Members(RemoveFirst(Top.rest, x)) = Members(Top.rest) \ {x}
  BY <1>3, Dropped
<1>5. f.op # "run" /\ AreFrames({f})
  BY <1>4, NotifyIsNoRun, FramesAreFrames
<1>6. Reached(x) = Append(Popped, f)
  BY DEF Reached
<1> HIDE DEF f
<1>7. Members(Append(Popped, f)) = Members(Popped) \cup {f}
  BY <1>2, FramesPush
<1>8. /\ IsStack(Append(Popped, f)) /\ NoTwice(Append(Popped, f))
      /\ Nodes(Append(Popped, f)) = Running
  BY <1>2, <1>5, PushOther
<1>9. AreFrames(Members(Popped) \cup {f})
  BY <1>2, <1>5, FramesAreFrames
<1> QED BY <1>1, <1>2, <1>3, <1>4, <1>6, <1>7, <1>8, <1>9 DEF f

LEMMA TypedInit == Init => Typed
<1> SUFFICES ASSUME Init PROVE Typed
  OBVIOUS
<1>1. ASSUME NEW n \in Sources PROVE IsList(subs[n])
  <2>1. PICK S \in SUBSET Memos : subs[n] \in SetToSeqs(S)
    BY DEF Init, SetToAllKPermutations
  <2>2. IsFiniteSet(S) /\ Cardinality(S) \in Nat
    BY <2>1, ConstantsAssumption, FS_Subset, FS_CardinalityType
  <2>3. /\ subs[n] \in [1..Cardinality(S) -> S]
        /\ \A i, j \in 1..Cardinality(S) : i # j => subs[n][i] # subs[n][j]
    BY <2>1 DEF SetToSeqs
  <2>4. subs[n] \in Seq(S)
    BY <2>2, <2>3, SeqDef
  <2>5. subs[n] \in Seq(Observers)
    BY <2>4, <2>3, <2>2 DEF Observers
  <2> QED BY <2>3, <2>5 DEF IsList, IsInjective
<1>2. IsGraph(subs)
  <2>1. subs \in [Sources -> Seq(Observers)]
    BY <1>1 DEF Init, IsList
  <2> QED BY <1>1, <2>1 DEF IsGraph
<1>3. IsList(<<>>) /\ Members(<<>>) = {}
  BY EmptySeq DEF IsList, IsInjective, Members
<1> QED BY <1>2, <1>3 DEF Init, Typed, AreFrames

LEMMA ChangedObservers == ASSUME NEW s PROVE Changed(s) \subseteq Observers
BY DEF Changed, Observers

LEMMA TypedNext ==
    ASSUME Slots, Slots', Typed, [Next]_vars PROVE Typed'
<1> DEFINE Quietly == /\ AreFrames(Members(stack'))
                      /\ UNCHANGED <<seen, missed>> /\ outdated' \subseteq Observers
                      /\ created \subseteq created' /\ owed' \subseteq created' \cap DOMAIN Listed
                      /\ dirty' \subseteq Memos /\ cut' \subseteq created'
                      /\ scheduled' \in BOOLEAN /\ callbacks' \in Nat
<1>1. ASSUME Quietly, IsGraph(subs'), IsList(pending') PROVE Typed'
  <2>1. missed' \subseteq created' \cup Notifiers
    BY <1>1 DEF Typed
  <2> QED BY <1>1, <2>1 DEF Typed
<1>2. ASSUME NEW x \in Observers, Effected(x), IsGraph(subs'), IsList(pending'),
             UNCHANGED <<scheduled, callbacks, cut>>, created \subseteq created'
      PROVE  Typed'
  <2>1. Running \subseteq created \cup Notifiers
    BY DEF Slots
  <2>2. missed' \subseteq created' \cup Notifiers
    BY <1>2, <2>1 DEF Effected, Typed
  <2>3. owed' \subseteq created' \cap DOMAIN Listed /\ cut' \subseteq created'
    BY <1>2 DEF Effected, Typed
  <2>4. outdated' \subseteq Observers
    BY <1>2 DEF Effected, Typed
  <2> QED BY <1>2, <2>2, <2>3, <2>4 DEF Effected, Typed
<1>3. ASSUME NEW f, AreFrames({f}) PROVE AreFrames(Members(Append(stack, f)))
  <2>1. Members(Append(stack, f)) = Members(stack) \cup {f}
    BY FramesPush DEF Slots
  <2> QED BY <1>3, <2>1, FramesAreFrames DEF Typed
<1>4. ASSUME NEW s \in Signals, Set(s) PROVE Typed'
  <2>1. AreFrames({Notify(s)})
    BY FramesAreFrames DEF Typed, IsGraph, Notify, Sources
  <2>2. AreFrames(Members(stack'))
    BY <1>3, <1>4, <2>1 DEF Set
  <2>3. outdated' \subseteq Observers
    BY <1>4, ChangedObservers DEF Set, Typed
  <2>4. missed' \subseteq created' \cup Notifiers
    BY <1>4 DEF Set, Slots, Typed
  <2> QED BY <1>4, <2>2, <2>3, <2>4 DEF Set, Typed
<1>5. ASSUME NEW n \in Sources, Get(n) PROVE Typed'
  <2> DEFINE X == {e \in {Actor} : Tracks(e)}
             g == IF X = {} THEN subs ELSE Subscribe(subs, Actor, {n})
  <2>1. X \subseteq Effects /\ X \subseteq {Actor}
    BY DEF Tracks
  <2>2. IsGraph(g)
    <3>1. CASE X = {}
      BY <3>1 DEF Typed
    <3>2. CASE X # {}
      BY <2>1, <3>2, SubscribeGraph DEF Typed, Observers
    <3> QED BY <3>1, <3>2
  <2>3. /\ subs' = Recomputed(n, g)
        /\ seen' = [e \in Effects |-> IF e \in X THEN seen[e] \cup {n} ELSE seen[e]]
        /\ outdated' = IF n \in dirty THEN outdated \ {n}
                       ELSE IF n \in outdated THEN outdated \cup X ELSE outdated
    BY <1>5 DEF Get
  <2> HIDE DEF g, X
  <2>4. IsGraph(subs')
    BY <2>2, <2>3, RecomputedGraph DEF Typed
  <2>5. seen' \in [Effects -> SUBSET Sources]
    BY <2>3 DEF Typed
  <2>6. outdated' \subseteq Observers
    BY <2>1, <2>3 DEF Typed, Observers
  <2> QED BY <1>5, <2>4, <2>5, <2>6 DEF Get, Typed
<1>6. ASSUME NEW e \in Effects, Create(e) PROVE Typed'
  <2>1. e \in Observers /\ Start(e, stack, TRUE) /\ IsStack(stack) /\ AreFrames(Members(stack))
    BY <1>6 DEF Create, Observers, Slots, Typed
  <2>2. Effected(e)
    BY <2>1, StartTyped
  <2>3. /\ UNCHANGED <<subs, pending, scheduled, callbacks, cut>>
        /\ created \subseteq created'
    BY <1>6 DEF Create
  <2> QED BY <1>2, <2>1, <2>2, <2>3 DEF Typed
<1>7. ASSUME NEW e \in Effects, Dispose(e) PROVE Typed'
  <2>1. IsGraph(Cleared(e))
    BY ClearedGraph DEF Typed
  <2>2. IsList(RemoveFirst(pending, e))
    BY Dropped DEF Typed
  <2>3. e \in created
    <3>1. e \in registered /\ e \notin Notifiers
      BY <1>7, ConstantsAssumption DEF Dispose, Disposable, Notifiers
    <3> QED BY <3>1 DEF Slots
  <2>4. Quietly
    BY <1>7, <2>3 DEF Dispose, Typed
  <2> HIDE DEF Quietly
  <2> QED BY <1>1, <1>7, <2>1, <2>2, <2>4 DEF Dispose
<1>8. CASE Return
  <2>1. stack # <<>> /\ Top.op = "run" /\ stack' = Popped
    BY <1>8 DEF Return, At
  <2>2. Top.node \in Running /\ Running \subseteq created \cup Notifiers /\ AreFrames(Members(Popped))
    BY <2>1, Below DEF Slots
  <2>3. Top.node \in Observers
    BY <2>2 DEF Slots, Notifiers, Observers
  <2>4. IsGraph(subs')
    <3>1. subs' = IF Top.node \in DOMAIN Listed THEN Subscribe(subs, Top.node, Listed[Top.node]) ELSE subs
      BY <1>8 DEF Return
    <3> QED BY <2>3, <3>1, SubscribeGraph DEF Typed
  <2>5. owed' \subseteq created \cap DOMAIN Listed
    <3>1. owed' \subseteq owed \cup ({Top.node} \cap Effects \cap DOMAIN Listed)
      BY <1>8 DEF Return
    <3>2. Effects \cap Notifiers = {}
      BY ConstantsAssumption DEF Notifiers
    <3> QED BY <2>2, <3>1, <3>2 DEF Typed
  <2>6. Quietly
    BY <1>8, <2>1, <2>2, <2>5 DEF Return, Typed
  <2> HIDE DEF Quietly
  <2> QED BY <1>1, <1>8, <2>4, <2>6 DEF Return, Typed
<1>9. ASSUME NEW x \in Observers, NotifyLayout(x) PROVE Typed'
  <2>1. IsStack(Reached(x)) /\ AreFrames(Members(Reached(x)))
    BY <1>9, ReachedFrames DEF NotifyLayout
  <2>2. Effected(x) /\ IsGraph(subs')
    BY <1>9, <2>1, ExecuteTyped DEF NotifyLayout
  <2> QED BY <1>2, <1>9, <2>2 DEF NotifyLayout, Typed
<1>10. ASSUME NEW x \in Observers, NotifyLater(x) PROVE Typed'
  <2>1. AreFrames(Members(stack'))
    BY <1>10, ReachedFrames DEF NotifyLater
  <2>2. IsList(pending')
    BY <1>10, Added DEF NotifyLater, Schedule, Typed
  <2>3. scheduled' \in BOOLEAN /\ callbacks' \in Nat
    BY <1>10 DEF NotifyLater, Schedule, Typed
  <2>4. Quietly
    BY <1>10, <2>1, <2>3 DEF NotifyLater, Typed
  <2> HIDE DEF Quietly
  <2> QED BY <1>1, <1>10, <2>2, <2>4 DEF NotifyLater, Typed
<1>11. ASSUME NEW f, AreFrames({f}), stack # <<>>, stack' \in {Popped, Append(stack, f), Append(Popped, f), <<f>>}
       PROVE  AreFrames(Members(stack'))
  <2>1. AreFrames(Members(Popped)) /\ IsStack(Popped)
    BY <1>11, Below
  <2>2. Members(Append(Popped, f)) = Members(Popped) \cup {f}
    BY <2>1, FramesPush
  <2>3. AreFrames(Members(Append(Popped, f)))
    BY <1>11, <2>1, <2>2, FramesAreFrames
  <2>4. Members(<<f>>) = {f}
    BY DEF Members
  <2> QED BY <1>3, <1>11, <2>1, <2>3, <2>4
<1>12. CASE NotifyEnd \/ EndBatch \/ FlushEnd
  <2>1. /\ stack # <<>> /\ stack' \in {Popped, Append(Popped, Flush)}
        /\ UNCHANGED <<subs, pending, callbacks, created, owed, dirty, seen, outdated, missed, cut>>
        /\ scheduled' \in BOOLEAN
    BY <1>12 DEF NotifyEnd, EndBatch, FlushEnd, At, Typed
  <2>2. AreFrames(Members(stack'))
    BY <1>11, <2>1, FramesAreFrames
  <2> QED BY <2>1, <2>2 DEF Typed
<1>13. CASE BeginBatch
  BY <1>3, <1>13, FramesAreFrames DEF BeginBatch, Typed
<1>14. CASE Callback
  <2>1. Members(<<Flush>>) = {Flush}
    BY DEF Members
  <2>2. AreFrames(Members(stack'))
    BY <1>14, <2>1, FramesAreFrames DEF Callback
  <2>3. callbacks' \in Nat
    BY <1>14 DEF Callback, Typed
  <2> QED BY <1>14, <2>2, <2>3 DEF Callback, Typed
<1>15. CASE FlushOne
  <2>1. PICK i \in DOMAIN pending :
           /\ pending' = RemoveAt(pending, i)
           /\ \/ Execute(pending[i], stack)
              \/ UNCHANGED <<subs, stack, slot, seen, outdated, missed, owed, dirty>>
    BY <1>15 DEF FlushOne
  <2>2. IsList(pending') /\ pending[i] \in Observers
    BY <2>1, Removed DEF Typed, IsList
  <2>3. UNCHANGED <<scheduled, callbacks, created, registered, cut>>
    BY <1>15 DEF FlushOne
  <2>4. CASE Execute(pending[i], stack)
    <3>1. Effected(pending[i]) /\ IsGraph(subs')
      BY <2>2, <2>4, ExecuteTyped DEF Slots, Typed
    <3> QED BY <1>2, <2>2, <2>3, <3>1
  <2>5. CASE UNCHANGED <<subs, stack, slot, seen, outdated, missed, owed, dirty>>
    BY <2>2, <2>3, <2>5 DEF Typed
  <2> QED BY <2>1, <2>4, <2>5
<1>16. CASE UNCHANGED vars
  BY <1>16 DEF vars, Typed
<1> QED BY <1>4, <1>5, <1>6, <1>7, <1>8, <1>9, <1>10, <1>12, <1>13, <1>14, <1>15, <1>16 DEF Next

\* What a registered observer depends on.
Deps(x) == IF x \in Notifiers THEN Inputs[x] ELSE seen[x]

\* Who is in the lists: a run of an observer with a list empties its
\* subscriptions until it returns, a run that tracks fills them as it reads.
Subscribed ==
    /\ \A x \in registered \ missed :
          x \in Running \cap DOMAIN Listed \/ \A n \in Deps(x) : x \in Members(subs[n])
    /\ \A e \in created \cap DOMAIN Listed : seen[e] = Listed[e]

\* And who is not.
Forgotten ==
    \A e \in created \ (registered \cup cut) :
        e \notin Running \cup owed /\ \A n \in Sources : e \notin Members(subs[n])

\* A flush is to come whenever one has been asked for and none is under way,
\* and one has been asked for whenever nothing holds pending updates back.
Woken ==
    /\ scheduled => callbacks > 0 \/ \E f \in Members(stack) : f.op = "flush"
    /\ pending # <<>> => scheduled \/ BatchDepth(stack) > 0

\* The notifier of a memo that is out of date has marked it or will.
Marked == \A m \in outdated \cap Notifiers : m \in dirty \cup missed \/ Due(m)

\* An effect that is out of date will run, or hear of it from a memo; only
\* when it lists what it depends on can a change find it running.
Told ==
    \A e \in (outdated \cap registered \cap Effects) \ missed :
        /\ e \notin Running \cap DOMAIN Listed
        /\ Due(e) \/ \E m \in seen[e] \cap Notifiers : Due(m) \/ m \in missed
-----------------------------------------------------------------------------
(* What a step does to the graph: a change, a read, an observer that begins  *)
(* a run, one whose turn comes in vain, or nothing that matters here.        *)

\* Somebody a notification among the frames has yet to reach.
Awaited(F, y) == \E f \in F : f.op = "notify" /\ y \in Members(f.rest)

\* Only x's subscriptions move.
Kept(x) ==
    \A n \in Sources : \A y : y # x => (y \in Members(subs[n])' <=> y \in Members(subs[n]))

Begins(x) ==
    /\ x \notin Running /\ Running' = Running \cup {x}
    /\ registered' = registered \cup {x} /\ created' = created \cup ({x} \cap Effects)
    /\ cut' = cut /\ Kept(x)
    /\ seen' = IF x \in Memos THEN seen
               ELSE [seen EXCEPT ![x] = IF x \in DOMAIN Listed THEN Listed[x] ELSE {}]
    /\ outdated' = outdated \ ({x} \cap Effects) /\ missed' = missed \ {x}
    /\ owed' = owed \ {x} /\ dirty' = dirty \cup ({x} \cap Memos)
    /\ \A y : y # x /\ Due(y) => Due(y)'
    /\ x \in Memos => \A y \in Members(subs[x]) : Due(y)'

Misses(x) ==
    /\ x \notin slot /\ Running' = Running /\ Kept(x)
    /\ \A n \in Sources : Members(subs[n])' \subseteq Members(subs[n])
    /\ missed' = missed \cup ({x} \cap Running)
    /\ UNCHANGED <<seen, outdated, owed, dirty, registered, created, cut>>
    /\ \A y : y # x /\ Due(y) => Due(y)'

Calm ==
    /\ UNCHANGED <<seen, outdated, missed, dirty, created>>
    /\ registered' \subseteq registered /\ Running' \subseteq Running /\ cut \subseteq cut'
    /\ \A y \in registered' : Due(y) => Due(y)'
    /\ \A y \in registered', n \in Sources : y \in Members(subs[n]) => y \in Members(subs[n])'
    /\ \A y \in (Running \ Running') \cap DOMAIN Listed :
          \A n \in Listed[y] : y \in Members(subs[n])'
    /\ \A e \in (registered \ registered') \ cut' :
          e \notin Running' \cup owed' /\ \A n \in Sources : e \notin Members(subs[n])'
    /\ \A e \in created \ (registered \cup Running) :
          /\ e \in owed' => e \in owed
          /\ \A n \in Sources : e \in Members(subs[n])' => e \in Members(subs[n])

LEMMA DueIs ==
    /\ \A y : Due(y) <=> y \in Members(pending) \/ Awaited(Members(stack), y)
    /\ \A y : Due(y)' <=> y \in Members(pending)' \/ Awaited(Members(stack)', y)
BY DEF Due, Awaited

LEMMA AwaitedGrows ==
    /\ \A F, G, y : F \subseteq G /\ Awaited(F, y) => Awaited(G, y)
    /\ \A F, G, y : Awaited(F \cup G, y) <=> Awaited(F, y) \/ Awaited(G, y)
    /\ \A rest, layout, y : Awaited({Notifying(rest, layout)}, y) <=> y \in Members(rest)
BY DEF Awaited, Notifying

\* A notification that goes on leaves nobody out but the one it has reached.
LEMMA ReachedAwaited ==
    ASSUME Slots, Typed, NEW x, Reaches(x), NEW y, y # x, Awaited(Members(stack), y)
    PROVE  Awaited(Members(Reached(x)), y)
<1> DEFINE rest == RemoveFirst(Top.rest, x)
<1>1. /\ Members(Reached(x)) = Members(Popped) \cup {Notifying(rest, Top.layout)}
      /\ Members(stack) = Members(Popped) \cup {Top}
      /\ Members(rest) = Members(Top.rest) \ {x}
  BY ReachedFrames
<1> HIDE DEF rest
<1>2. CASE Awaited(Members(Popped), y)
  BY <1>1, <1>2, AwaitedGrows
<1>3. CASE Awaited({Top}, y)
  <2>1. y \in Members(rest)
    BY <1>1, <1>3 DEF Awaited
  <2> DEFINE f == Notifying(rest, Top.layout)
  <2>2. Awaited({f}, y)
    BY <2>1, AwaitedGrows
  <2> HIDE DEF f
  <2>3. Members(Reached(x)) = Members(Popped) \cup {f}
    BY <1>1 DEF f
  <2> QED BY <2>2, <2>3, AwaitedGrows
<1> QED BY <1>1, <1>2, <1>3, AwaitedGrows

\* execute_effect: x begins a run, or its turn comes in vain.
LEMMA ExecuteSteps ==
    ASSUME Slots, Typed, NEW x \in Observers, NEW frames, Execute(x, frames),
           Fit(frames), Nodes(frames) = Running,
           UNCHANGED <<created, registered, cut>>,
           \A y : y # x /\ Due(y) => y \in Members(pending)' \/ Awaited(Members(frames), y)
    PROVE  Begins(x) \/ Misses(x)
<1>1. \A n \in Sources : Members(subs[n])' = Members(subs[n]) \ {x}
  <2>1. \A n \in Sources : Members(Cleared(x)[n]) = Members(subs[n]) \ {x}
    BY ClearedGraph DEF Typed
  <2>2. subs' = Cleared(x)
    BY DEF Execute
  <2> QED BY <2>1, <2>2 DEF Members
<1>2. Kept(x)
  BY <1>1 DEF Kept
<1>3. CASE x \in slot /\ Start(x, frames, FALSE)
  <2>1. x \notin Running /\ x \in registered
    BY <1>3 DEF Slots
  <2>2. Running' = Running \cup {x}
    BY <1>3, <2>1, StartEnters
  <2>3. created = created \cup ({x} \cap Effects) /\ registered = registered \cup {x}
    <3>1. x \in Effects => x \notin Notifiers
      BY ConstantsAssumption DEF Notifiers
    <3> QED BY <2>1, <3>1 DEF Slots
  <2>4. Members(stack') = Members(frames) \cup {Run(x, FALSE)} \cup {Notify(y) : y \in {x} \cap Memos}
    BY <1>3, Started DEF StartFrames, Fit
  <2>5. Members(stack)' = Members(stack')
    BY DEF Members
  <2>6. \A y : y # x /\ Due(y) => Due(y)'
    BY <2>4, <2>5, DueIs, AwaitedGrows
  <2>7. x \in Memos => \A y \in Members(subs[x]) : Due(y)'
    <3> SUFFICES ASSUME x \in Memos, NEW y \in Members(subs[x]) PROVE Due(y)'
      OBVIOUS
    <3>1. Awaited({Notify(x)}, y)
      BY AwaitedGrows DEF Notify
    <3>2. {Notify(x)} \subseteq Members(stack')
      BY <2>4
    <3> QED BY <2>5, <3>1, <3>2, DueIs, AwaitedGrows
  <2>8. /\ seen' = IF x \in Memos THEN seen
                   ELSE [seen EXCEPT ![x] = IF x \in DOMAIN Listed THEN Listed[x] ELSE {}]
        /\ outdated' = outdated \ ({x} \cap Effects) /\ missed' = missed \ {x}
        /\ owed' = owed \ {x} /\ dirty' = dirty \cup ({x} \cap Memos)
    BY <1>3 DEF Start
  <2> QED BY <1>2, <2>1, <2>2, <2>3, <2>6, <2>7, <2>8 DEF Begins
<1>4. CASE /\ x \notin slot /\ stack' = frames /\ missed' = missed \cup ({x} \cap Running)
           /\ UNCHANGED <<slot, seen, outdated, owed, dirty>>
  <2>1. Running' = Running
    BY <1>4 DEF Running
  <2>2. Members(stack)' = Members(frames)
    BY <1>4 DEF Members
  <2>3. \A y : y # x /\ Due(y) => Due(y)'
    BY <2>2, DueIs
  <2> QED BY <1>1, <1>2, <1>4, <2>1, <2>3 DEF Misses
<1> QED BY <1>3, <1>4 DEF Execute

\* A step that moves frames and pending updates only.
LEMMA CalmSteps ==
    ASSUME UNCHANGED <<subs, seen, outdated, missed, dirty, owed, created, registered, cut>>,
           Running' = Running, \A y \in registered : Due(y) => Due(y)'
    PROVE  Calm
<1>1. \A n \in Sources : Members(subs[n])' = Members(subs[n])
  BY DEF Members
<1> QED BY <1>1 DEF Calm

\* A step that pops a frame with nobody to reach, and may push another.
LEMMA PopSteps ==
    ASSUME Slots, Typed, stack # <<>>, Top.op # "run",
           \A y : ~Awaited({Top}, y),
           NEW f, f.op # "run", stack' \in {Popped, Append(Popped, f)}
    PROVE  Running' = Running /\ \A y : Awaited(Members(stack), y) => Awaited(Members(stack)', y)
<1>1. /\ IsStack(Popped) /\ Nodes(Popped) = Running
      /\ Members(stack) = Members(Popped) \cup {Top}
  BY Below
<1>2. \A y : Awaited(Members(stack), y) => Awaited(Members(Popped), y)
  BY <1>1, AwaitedGrows
<1>3. Nodes(Append(Popped, f)) = Running /\ Members(Popped) \subseteq Members(Append(Popped, f))
  BY <1>1, PushOther, FramesPush
<1>4. Members(stack)' = Members(stack') /\ Running' = Nodes(stack')
  BY DEF Members, Running
<1> QED BY <1>1, <1>2, <1>3, <1>4, AwaitedGrows

LEMMA Steps ==
    ASSUME Slots, Slots', Typed, [Next]_vars
    PROVE  \/ \E s \in Signals : Set(s)
           \/ \E n \in Sources : Get(n)
           \/ \E x \in Observers : Begins(x) \/ Misses(x)
           \/ Calm
<1>1. ASSUME NEW e \in Effects, Create(e) PROVE Begins(e)
  <2>1. /\ Start(e, stack, TRUE) /\ UNCHANGED <<subs, pending, cut>> /\ e \notin created
        /\ registered' = registered \cup {e} /\ created' = created \cup {e} /\ e \notin Memos
    BY <1>1, ConstantsAssumption DEF Create
  <2>2. Fit(stack) /\ e \notin Nodes(stack) /\ IsStack(stack)
    BY <2>1 DEF Slots, Fit, Running, Notifiers
  <2>3. Running' = Running \cup {e} /\ e \notin Running
    BY <2>1, <2>2, StartEnters DEF Running
  <2>4. Members(stack') = Members(stack) \cup {Run(e, TRUE)} \cup {Notify(y) : y \in {e} \cap Memos}
    BY <2>1, <2>2, Started DEF StartFrames
  <2>5. /\ Members(stack)' = Members(stack') /\ Members(pending)' = Members(pending)
        /\ \A n \in Sources : Members(subs[n])' = Members(subs[n])
    BY <2>1 DEF Members
  <2>6. \A y : Due(y) => Due(y)'
    BY <2>4, <2>5, DueIs, AwaitedGrows
  <2>7. Kept(e)
    BY <2>5 DEF Kept
  <2>8. /\ seen' = IF e \in Memos THEN seen
                   ELSE [seen EXCEPT ![e] = IF e \in DOMAIN Listed THEN Listed[e] ELSE {}]
        /\ outdated' = outdated \ ({e} \cap Effects) /\ missed' = missed \ {e}
        /\ owed' = owed \ {e} /\ dirty' = dirty \cup ({e} \cap Memos)
    BY <2>1 DEF Start
  <2>9. created' = created \cup ({e} \cap Effects)
    BY <2>1
  <2> QED BY <2>1, <2>3, <2>6, <2>7, <2>8, <2>9 DEF Begins
<1>2. ASSUME NEW x \in Observers, NotifyLayout(x) PROVE Begins(x) \/ Misses(x)
  <2>1. Reaches(x) /\ Execute(x, Reached(x)) /\ UNCHANGED <<pending, created, registered, cut>>
    BY <1>2 DEF NotifyLayout
  <2>2. IsStack(Reached(x)) /\ NoTwice(Reached(x)) /\ Nodes(Reached(x)) = Running
    BY <2>1, ReachedFrames
  <2>3. Fit(Reached(x))
    BY <2>2 DEF Fit, Slots
  <2>4. \A y : y # x /\ Awaited(Members(stack), y) => Awaited(Members(Reached(x)), y)
    BY <2>1, ReachedAwaited
  <2>5. Members(pending)' = Members(pending)
    BY <2>1 DEF Members
  <2>6. \A y : y # x /\ Due(y) => y \in Members(pending)' \/ Awaited(Members(Reached(x)), y)
    BY <2>4, <2>5, DueIs
  <2> QED BY <2>1, <2>2, <2>3, <2>6, ExecuteSteps
<1>3. ASSUME NEW x \in Observers, NotifyLater(x) PROVE Calm
  <2>1. /\ Reaches(x) /\ stack' = Reached(x)
        /\ pending' = IF x \in Members(pending) THEN pending ELSE Append(pending, x)
        /\ UNCHANGED <<subs, seen, outdated, missed, dirty, owed, created, registered, cut>>
    BY <1>3 DEF NotifyLater, Schedule
  <2>2. Running' = Running
    BY <2>1, ReachedFrames DEF Running
  <2>3. Members(pending') = Members(pending) \cup {x}
    BY <2>1, Added DEF Typed
  <2>4. Members(pending)' = Members(pending') /\ Members(stack)' = Members(Reached(x))
    BY <2>1 DEF Members
  <2>5. \A y : y # x /\ Awaited(Members(stack), y) => Awaited(Members(Reached(x)), y)
    BY <2>1, ReachedAwaited
  <2>6. \A y : Due(y) => Due(y)'
    BY <2>3, <2>4, <2>5, DueIs
  <2> QED BY <2>1, <2>2, <2>6, CalmSteps
<1>4. CASE NotifyEnd \/ EndBatch \/ FlushEnd
  <2>1. /\ stack # <<>> /\ Top.op # "run" /\ stack' \in {Popped, Append(Popped, Flush)}
        /\ Top.op = "notify" => Top.rest = <<>>
        /\ UNCHANGED <<subs, pending, seen, outdated, missed, dirty, owed, created, registered, cut>>
    BY <1>4 DEF NotifyEnd, EndBatch, FlushEnd, At
  <2>2. Members(<<>>) = {} /\ Flush.op # "run"
    BY NotifyIsNoRun DEF Members
  <2>3. \A y : ~Awaited({Top}, y)
    BY <2>1, <2>2 DEF Awaited
  <2>4. Running' = Running /\ \A y : Awaited(Members(stack), y) => Awaited(Members(stack)', y)
    BY <2>1, <2>2, <2>3, PopSteps
  <2>5. Members(pending)' = Members(pending)
    BY <2>1 DEF Members
  <2>6. \A y : Due(y) => Due(y)'
    BY <2>4, <2>5, DueIs
  <2> QED BY <2>1, <2>4, <2>6, CalmSteps
<1>5. CASE BeginBatch \/ Callback
  <2>1. /\ stack' = Append(stack, Batch) \/ (stack = <<>> /\ stack' = <<Flush>>)
        /\ UNCHANGED <<subs, pending, seen, outdated, missed, dirty, owed, created, registered, cut>>
    BY <1>5 DEF BeginBatch, Callback
  <2>2. CASE stack' = Append(stack, Batch)
    <3>1. Nodes(stack') = Nodes(stack) /\ Members(stack) \subseteq Members(stack')
      BY <2>2, PushOther, FramesPush, NotifyIsNoRun DEF Slots
    <3>2. Members(stack)' = Members(stack') /\ Members(pending)' = Members(pending)
      BY <2>1 DEF Members
    <3>3. \A y : Due(y) => Due(y)'
      BY <3>1, <3>2, DueIs, AwaitedGrows
    <3>4. Running' = Running
      BY <3>1 DEF Running
    <3> QED BY <2>1, <3>3, <3>4, CalmSteps
  <2>3. CASE stack = <<>> /\ stack' = <<Flush>>
    <3>1. Runs(<<Flush>>) = {} /\ Runs(<<>>) = {} /\ Members(<<>>) = {}
      BY NotifyIsNoRun DEF Runs, Members
    <3>2. Running' = Running
      BY <2>3, <3>1 DEF Running, Nodes
    <3>3. Members(pending)' = Members(pending) /\ \A y : ~Awaited(Members(stack), y)
      BY <2>1, <2>3, <3>1 DEF Members, Awaited
    <3>4. \A y : Due(y) => Due(y)'
      BY <3>3, DueIs
    <3> QED BY <2>1, <3>2, <3>4, CalmSteps
  <2> QED BY <2>1, <2>2, <2>3
<1>6. CASE FlushOne
  <2>1. PICK i \in DOMAIN pending :
           /\ pending' = RemoveAt(pending, i)
           /\ \/ Execute(pending[i], stack)
              \/ /\ pending[i] \notin registered
                 /\ UNCHANGED <<subs, stack, slot, seen, outdated, missed, owed, dirty>>
    BY <1>6 DEF FlushOne
  <2>2. UNCHANGED <<created, registered, cut>>
    BY <1>6 DEF FlushOne
  <2>3. Members(pending') = Members(pending) \ {pending[i]} /\ pending[i] \in Observers
    BY <2>1, Removed DEF Typed, IsList
  <2>4. Members(pending)' = Members(pending')
    BY DEF Members
  <2>5. PICK x \in Observers : x = pending[i]
    BY <2>3
  <2>6. CASE Execute(pending[i], stack)
    <3>1. Fit(stack) /\ Nodes(stack) = Running
      BY DEF Fit, Slots, Running
    <3>2. \A y : y # x /\ Due(y) => y \in Members(pending)' \/ Awaited(Members(stack), y)
      BY <2>3, <2>4, <2>5, DueIs
    <3>3. Begins(x) \/ Misses(x)
      BY <2>2, <2>5, <2>6, <3>1, <3>2, ExecuteSteps
    <3> QED BY <3>3
  <2>7. CASE /\ x \notin registered
             /\ UNCHANGED <<subs, stack, slot, seen, outdated, missed, owed, dirty>>
    <3>1. Running' = Running /\ Members(stack)' = Members(stack)
      BY <2>7 DEF Running, Members
    <3>2. \A y \in registered : Due(y) => Due(y)'
      BY <2>3, <2>4, <2>5, <2>7, <3>1, DueIs
    <3>3. Calm
      BY <2>2, <2>7, <3>1, <3>2, CalmSteps
    <3> QED BY <3>3
  <2> QED BY <2>1, <2>5, <2>6, <2>7
<1>7. ASSUME NEW e \in Effects, Dispose(e) PROVE Calm
  <2>1. /\ registered' = registered \ {e} /\ subs' = Cleared(e) /\ pending' = RemoveFirst(pending, e)
        /\ owed' = owed \ {e} /\ cut' = cut \cup ({e} \cap Running)
        /\ UNCHANGED <<created, stack, seen, outdated, missed, dirty>>
    BY <1>7 DEF Dispose
  <2>2. \A n \in Sources : Members(subs[n])' = Members(subs[n]) \ {e}
    <3>1. \A n \in Sources : Members(Cleared(e)[n]) = Members(subs[n]) \ {e}
      BY ClearedGraph DEF Typed
    <3> QED BY <2>1, <3>1 DEF Members
  <2>3. Members(RemoveFirst(pending, e)) = Members(pending) \ {e}
    BY Dropped DEF Typed
  <2>4. Members(pending)' = Members(pending) \ {e} /\ Members(stack)' = Members(stack)
    BY <2>1, <2>3 DEF Members
  <2>5. \A y : y # e /\ Due(y) => Due(y)'
    BY <2>4, DueIs
  <2>6. Running' = Running
    BY <2>1 DEF Running
  <2>7. /\ \A y \in registered' : Due(y) => Due(y)'
        /\ \A y \in registered', n \in Sources : y \in Members(subs[n]) => y \in Members(subs[n])'
    BY <2>1, <2>2, <2>5
  <2>8. \A x \in (registered \ registered') \ cut' :
           x \notin Running' \cup owed' /\ \A n \in Sources : x \notin Members(subs[n])'
    BY <2>1, <2>2, <2>6
  <2>9. \A x \in created \ (registered \cup Running) :
           /\ x \in owed' => x \in owed
           /\ \A n \in Sources : x \in Members(subs[n])' => x \in Members(subs[n])
    BY <2>1, <2>2
  <2> QED BY <2>1, <2>6, <2>7, <2>8, <2>9 DEF Calm
<1>8. CASE Return
  <2>1. /\ stack # <<>> /\ Top.op = "run" /\ stack' = Popped
        /\ UNCHANGED <<pending, created, registered, dirty, seen, outdated, missed, cut>>
    BY <1>8 DEF Return, At
  <2> DEFINE x == Top.node
  <2>2. /\ subs' = IF x \in DOMAIN Listed THEN Subscribe(subs, x, Listed[x]) ELSE subs
        /\ owed' \subseteq owed \cup {x}
    BY <1>8 DEF Return
  <2>3. /\ Members(stack) = Members(Popped) \cup {Top} /\ x \in Running
        /\ Nodes(Popped) = Running \ {x}
    BY <2>1, Below
  <2>4. x \in Observers
    BY <2>3 DEF Slots, Notifiers, Observers
  <2>5. PICK y \in Observers : y = x
    BY <2>4
  <2> HIDE DEF x
  <2>6. Running' = Running \ {y}
    BY <2>1, <2>3, <2>5 DEF Running
  <2>7. \A n \in Sources : /\ Members(subs'[n]) \subseteq Members(subs[n]) \cup {y}
                           /\ Members(subs[n]) \subseteq Members(subs'[n])
                           /\ y \in DOMAIN Listed /\ n \in Listed[y] => y \in Members(subs'[n])
    <3>1. CASE y \in DOMAIN Listed
      <4>1. subs' = Subscribe(subs, y, Listed[y])
        BY <2>2, <2>5, <3>1
      <4>2. /\ \A n \in Sources \ Listed[y] : Members(Subscribe(subs, y, Listed[y])[n]) = Members(subs[n])
            /\ \A n \in Sources \cap Listed[y] :
                  Members(Subscribe(subs, y, Listed[y])[n]) = Members(subs[n]) \cup {y}
        BY SubscribeGraph DEF Typed
      <4> QED BY <4>1, <4>2
    <3>2. CASE y \notin DOMAIN Listed
      BY <2>2, <2>5, <3>2
    <3> QED BY <3>1, <3>2
  <2>8. \A n \in Sources : Members(subs[n])' = Members(subs'[n])
    BY DEF Members
  <2>9. Members(stack)' = Members(Popped) /\ Members(pending)' = Members(pending)
    BY <2>1 DEF Members
  <2>10. \A z : ~Awaited({Top}, z)
    BY <2>1 DEF Awaited
  <2>11. \A z : Due(z) => Due(z)'
    <3>1. \A z : Awaited(Members(stack), z) => Awaited(Members(Popped), z)
      BY <2>3, <2>10, AwaitedGrows
    <3> QED BY <2>9, <3>1, DueIs
  <2>12. /\ \A z \in registered', n \in Sources : z \in Members(subs[n]) => z \in Members(subs[n])'
         /\ \A z \in (Running \ Running') \cap DOMAIN Listed :
               \A n \in Listed[z] : z \in Members(subs[n])'
    BY <2>6, <2>7, <2>8, ConstantsAssumption
  <2>13. \A z \in created \ (registered \cup Running) :
            /\ z \in owed' => z \in owed
            /\ \A n \in Sources : z \in Members(subs[n])' => z \in Members(subs[n])
    BY <2>2, <2>3, <2>5, <2>7, <2>8
  <2> QED BY <2>1, <2>6, <2>11, <2>12, <2>13 DEF Calm
<1>9. CASE UNCHANGED vars
  <2>1. /\ UNCHANGED <<subs, seen, outdated, missed, dirty, owed, created, registered, cut>>
        /\ Running' = Running
    BY <1>9 DEF vars, Running
  <2>2. \A y : Due(y) => Due(y)'
    BY <1>9 DEF vars, Due, Members
  <2> QED BY <2>1, <2>2, CalmSteps
<1>10. Effects \subseteq Observers
  BY DEF Observers
<1> QED BY <1>1, <1>2, <1>3, <1>4, <1>5, <1>6, <1>7, <1>8, <1>9, <1>10 DEF Next

-----------------------------------------------------------------------------
(* The graph agrees with the observers there are.                            *)

LEMMA SetDoes ==
    ASSUME Slots, Typed, NEW s, Set(s)
    PROVE  /\ Running' = Running
           /\ \A y : Due(y) => Due(y)'
           /\ \A y \in Members(subs[s]) : Due(y)'
<1>1. stack' = Append(stack, Notify(s)) /\ Notify(s).op # "run" /\ pending' = pending
  BY NotifyIsNoRun DEF Set
<1>2. Nodes(stack') = Nodes(stack) /\ Members(stack') = Members(stack) \cup {Notify(s)}
  BY <1>1, PushOther, FramesPush DEF Slots
<1>3. Members(stack)' = Members(stack') /\ Members(pending)' = Members(pending)
  BY <1>1 DEF Members
<1>4. \A y : Awaited({Notify(s)}, y) <=> y \in Members(subs[s])
  BY AwaitedGrows DEF Notify
<1>5. \A y : Awaited(Members(stack)', y) <=> Awaited(Members(stack), y) \/ y \in Members(subs[s])
  BY <1>2, <1>3, <1>4, AwaitedGrows
<1> QED BY <1>2, <1>3, <1>5, DueIs DEF Running

LEMMA GetDoes ==
    ASSUME Slots, Typed, NEW n \in Sources, Get(n)
    PROVE  \E X \in SUBSET ((Running \cap Effects) \ DOMAIN Listed) :
              /\ \A k \in Sources : \A y \in created \cup Notifiers :
                    y \in Members(subs[k])' <=> y \in Members(subs[k]) \/ (y \in X /\ k = n)
              /\ seen' = [e \in Effects |-> IF e \in X THEN seen[e] \cup {n} ELSE seen[e]]
              /\ outdated' = IF n \in dirty THEN outdated \ {n}
                            ELSE IF n \in outdated THEN outdated \cup X ELSE outdated
<1> DEFINE X == {e \in {Actor} : Tracks(e)}
           g == IF X = {} THEN subs ELSE Subscribe(subs, Actor, {n})
<1>1. X \in SUBSET ((Running \cap Effects) \ DOMAIN Listed)
  <2>1. Actor = App \/ Actor \in Running
    BY ActorRuns DEF Slots
  <2> QED BY <2>1, ConstantsAssumption DEF Tracks, Observers
<1>2. /\ IsGraph(g)
      /\ \A k \in Sources : \A y : y \in Members(g[k]) <=> y \in Members(subs[k]) \/ (y \in X /\ k = n)
  <2>1. CASE X = {}
    BY <2>1 DEF Typed
  <2>2. CASE X # {}
    <3>1. X = {Actor} /\ Actor \in Observers /\ g = Subscribe(subs, Actor, {n})
      BY <1>1, <2>2 DEF Observers
    <3>2. /\ IsGraph(Subscribe(subs, Actor, {n}))
          /\ \A k \in Sources \ {n} : Members(Subscribe(subs, Actor, {n})[k]) = Members(subs[k])
          /\ \A k \in Sources \cap {n} : Members(Subscribe(subs, Actor, {n})[k]) = Members(subs[k]) \cup {Actor}
      BY <3>1, SubscribeGraph DEF Typed
    <3> QED BY <3>1, <3>2
  <2> QED BY <2>1, <2>2
<1>3. /\ subs' = Recomputed(n, g)
      /\ seen' = [e \in Effects |-> IF e \in X THEN seen[e] \cup {n} ELSE seen[e]]
      /\ outdated' = IF n \in dirty THEN outdated \ {n}
                     ELSE IF n \in outdated THEN outdated \cup X ELSE outdated
  BY DEF Get
<1> HIDE DEF X, g
<1>4. \A k \in Sources : \A y : y # n \/ n \notin Memos \ Notifiers =>
         (y \in Members(Recomputed(n, g)[k]) <=> y \in Members(g[k]))
  BY <1>2, RecomputedGraph DEF Typed
<1>5. \A y \in created \cup Notifiers : y # n \/ n \notin Memos \ Notifiers
  BY ConstantsAssumption DEF Slots
<1>6. \A k \in Sources : Members(subs[k])' = Members(Recomputed(n, g)[k])
  BY <1>3 DEF Members
<1>7. \A k \in Sources : \A y \in created \cup Notifiers :
         y \in Members(subs[k])' <=> y \in Members(subs[k]) \/ (y \in X /\ k = n)
  BY <1>2, <1>4, <1>5, <1>6
<1> QED BY <1>1, <1>3, <1>7

LEMMA DepsAreSources ==
    ASSUME Slots, Typed, NEW x \in registered PROVE Deps(x) \subseteq Sources
BY ConstantsAssumption DEF Slots, Typed, Deps, Sources, Notifiers

LEMMA SubscribedNext ==
    ASSUME Slots, Slots', Typed, Subscribed, [Next]_vars PROVE Subscribed'
<1>1. ASSUME NEW s \in Signals, Set(s) PROVE Subscribed'
  <2>1. Running' = Running /\ missed \subseteq missed' /\ UNCHANGED <<subs, seen, registered, created>>
    BY <1>1, SetDoes DEF Set
  <2>2. \A x : Deps(x)' = Deps(x)
    BY <2>1 DEF Deps
  <2>3. \A n : Members(subs[n])' = Members(subs[n])
    BY <2>1 DEF Members
  <2> QED BY <2>1, <2>2, <2>3 DEF Subscribed
<1>2. ASSUME NEW n \in Sources, Get(n) PROVE Subscribed'
  <2>1. PICK X \in SUBSET ((Running \cap Effects) \ DOMAIN Listed) :
          /\ \A k \in Sources : \A y \in created \cup Notifiers :
                y \in Members(subs[k])' <=> y \in Members(subs[k]) \/ (y \in X /\ k = n)
          /\ seen' = [e \in Effects |-> IF e \in X THEN seen[e] \cup {n} ELSE seen[e]]
    BY <1>2, GetDoes
  <2>2. Running' = Running /\ UNCHANGED <<missed, registered, created>>
    BY <1>2 DEF Get, Running
  <2>3. \A e \in created \cap DOMAIN Listed : seen'[e] = Listed[e]
    BY <2>1 DEF Slots, Subscribed
  <2>4. ASSUME NEW x \in registered \ missed, x \notin Running \cap DOMAIN Listed, NEW k \in Deps(x)'
        PROVE  x \in Members(subs[k])'
    <3>1. x \in created \cup Notifiers /\ Deps(x) \subseteq Sources /\ \A j \in Deps(x) : x \in Members(subs[j])
      BY <2>4, DepsAreSources DEF Slots, Subscribed
    <3>2. CASE k \in Deps(x)
      BY <2>1, <3>1, <3>2
    <3>3. CASE k \notin Deps(x)
      <4>1. x \in X /\ k = n
        BY <2>1, <2>4, <3>1, <3>3 DEF Deps, Slots
      <4> QED BY <2>1, <3>1, <4>1
    <3> QED BY <3>2, <3>3
  <2> QED BY <2>2, <2>3, <2>4 DEF Subscribed
<1>3. ASSUME NEW x \in Observers, Begins(x) PROVE Subscribed'
  <2>1. /\ Running' = Running \cup {x} /\ registered' = registered \cup {x}
        /\ created' = created \cup ({x} \cap Effects) /\ missed' = missed \ {x} /\ Kept(x)
        /\ seen' = IF x \in Memos THEN seen
                   ELSE [seen EXCEPT ![x] = IF x \in DOMAIN Listed THEN Listed[x] ELSE {}]
    BY <1>3 DEF Begins
  <2>2. (x \in Effects /\ x \notin Memos) \/ (x \in Notifiers /\ x \in Memos)
    BY <2>1, ConstantsAssumption DEF Slots, Notifiers
  <2>3. \A e \in Effects : e # x => seen'[e] = seen[e]
    BY <2>1 DEF Typed
  <2>4. x \in Effects => seen'[x] = IF x \in DOMAIN Listed THEN Listed[x] ELSE {}
    BY <2>1, <2>2, ConstantsAssumption DEF Typed
  <2>5. \A e \in created' \cap DOMAIN Listed : seen'[e] = Listed[e]
    BY <2>1, <2>3, <2>4 DEF Slots, Subscribed
  <2>6. ASSUME NEW y \in registered' \ missed', y \notin Running' \cap DOMAIN Listed, NEW k \in Deps(y)'
        PROVE  y \in Members(subs[k])'
    <3>1. CASE y = x
      <4>1. x \notin DOMAIN Listed /\ x \in Effects /\ x \notin Notifiers
        BY <2>1, <2>2, <2>6, <3>1 DEF Notifiers
      <4>2. Deps(y)' = {}
        BY <2>4, <3>1, <4>1 DEF Deps
      <4> QED BY <2>6, <4>2
    <3>2. CASE y # x
      <4>1. y \in registered \ missed /\ y \notin Running \cap DOMAIN Listed
        BY <2>1, <2>6, <3>2
      <4>2. Deps(y)' = Deps(y)
        BY <2>3, <3>2, <4>1 DEF Deps, Slots
      <4>3. k \in Sources /\ y \in Members(subs[k])
        BY <2>6, <4>1, <4>2, DepsAreSources DEF Subscribed
      <4> QED BY <2>1, <3>2, <4>3 DEF Kept
    <3> QED BY <3>1, <3>2
  <2> QED BY <2>5, <2>6 DEF Subscribed
<1>4. ASSUME NEW x \in Observers, Misses(x) PROVE Subscribed'
  <2>1. /\ Running' = Running /\ missed' = missed \cup ({x} \cap Running) /\ Kept(x)
        /\ UNCHANGED <<seen, registered, created>> /\ x \notin slot
    BY <1>4 DEF Misses
  <2>2. \A y : Deps(y)' = Deps(y)
    BY <2>1 DEF Deps
  <2>3. ASSUME NEW y \in registered \ missed', y \notin Running \cap DOMAIN Listed, NEW k \in Deps(y)
        PROVE  y \in Members(subs[k])'
    <3>1. y # x
      BY <2>1, <2>3 DEF Slots
    <3>2. k \in Sources /\ y \in Members(subs[k])
      BY <2>1, <2>3, DepsAreSources DEF Subscribed
    <3> QED BY <2>1, <3>1, <3>2 DEF Kept
  <2> QED BY <2>1, <2>2, <2>3 DEF Subscribed
<1>5. CASE Calm
  <2>1. /\ UNCHANGED <<seen, missed, created>> /\ registered' \subseteq registered
        /\ \A y \in registered', n \in Sources : y \in Members(subs[n]) => y \in Members(subs[n])'
        /\ \A y \in (Running \ Running') \cap DOMAIN Listed :
              \A n \in Listed[y] : y \in Members(subs[n])'
    BY <1>5 DEF Calm
  <2>2. \A y : Deps(y)' = Deps(y)
    BY <2>1 DEF Deps
  <2>3. ASSUME NEW y \in registered' \ missed, y \notin Running' \cap DOMAIN Listed, NEW k \in Deps(y)
        PROVE  y \in Members(subs[k])'
    <3>1. CASE y \in Running \cap DOMAIN Listed
      <4>1. Deps(y) = Listed[y]
        BY <2>1, <3>1, ConstantsAssumption DEF Deps, Slots, Subscribed
      <4> QED BY <2>1, <2>3, <3>1, <4>1
    <3>2. CASE y \notin Running \cap DOMAIN Listed
      <4>1. k \in Sources /\ y \in Members(subs[k])
        BY <2>1, <2>3, <3>2, DepsAreSources DEF Subscribed
      <4> QED BY <2>1, <2>3, <4>1
    <3> QED BY <3>1, <3>2
  <2> QED BY <2>1, <2>2, <2>3 DEF Subscribed
<1> QED BY <1>1, <1>2, <1>3, <1>4, <1>5, Steps

LEMMA ForgottenNext ==
    ASSUME Slots, Slots', Typed, Forgotten, [Next]_vars PROVE Forgotten'
<1> SUFFICES ASSUME NEW e \in created' \ (registered' \cup cut')
             PROVE  e \notin Running' \cup owed' /\ \A n \in Sources : e \notin Members(subs[n])'
  BY DEF Forgotten
<1>1. ASSUME NEW s \in Signals, Set(s) PROVE e \notin Running' \cup owed' /\ \A n \in Sources : e \notin Members(subs[n])'
  <2>1. Running' = Running /\ UNCHANGED <<subs, owed, created, registered, cut>>
    BY <1>1, SetDoes DEF Set
  <2> QED BY <2>1 DEF Forgotten, Members
<1>2. ASSUME NEW n \in Sources, Get(n) PROVE e \notin Running' \cup owed' /\ \A k \in Sources : e \notin Members(subs[k])'
  <2>1. PICK X \in SUBSET ((Running \cap Effects) \ DOMAIN Listed) :
          \A k \in Sources : \A y \in created \cup Notifiers :
                y \in Members(subs[k])' <=> y \in Members(subs[k]) \/ (y \in X /\ k = n)
    BY <1>2, GetDoes
  <2>2. Running' = Running /\ UNCHANGED <<owed, created, registered, cut>>
    BY <1>2 DEF Get, Running
  <2> QED BY <2>1, <2>2 DEF Forgotten
<1>3. ASSUME NEW x \in Observers, Begins(x) PROVE e \notin Running' \cup owed' /\ \A n \in Sources : e \notin Members(subs[n])'
  BY <1>3 DEF Begins, Forgotten, Kept
<1>4. ASSUME NEW x \in Observers, Misses(x) PROVE e \notin Running' \cup owed' /\ \A n \in Sources : e \notin Members(subs[n])'
  BY <1>4 DEF Misses, Forgotten
<1>5. CASE Calm
  <2>1. CASE e \in registered
    BY <1>5, <2>1 DEF Calm
  <2>2. CASE e \notin registered
    <3>1. e \in created /\ e \notin cut
      BY <1>5 DEF Calm
    <3>2. e \notin Running \cup owed /\ \A n \in Sources : e \notin Members(subs[n])
      BY <2>2, <3>1 DEF Forgotten
    <3> QED BY <1>5, <2>2, <3>1, <3>2 DEF Calm
  <2> QED BY <2>1, <2>2
<1> QED BY <1>1, <1>2, <1>3, <1>4, <1>5, Steps

-----------------------------------------------------------------------------
(* Changes reach whoever depends on what changed.                            *)

LEMMA MarkedNext ==
    ASSUME Slots, Slots', Typed, Subscribed, Marked, [Next]_vars PROVE Marked'
<1>1. ASSUME NEW s \in Signals, Set(s) PROVE Marked'
  <2>1. /\ outdated' = outdated \cup Changed(s) /\ dirty' = dirty
        /\ missed' = missed \cup (Changed(s) \cap Running \cap DOMAIN Listed)
        /\ \A y : Due(y) => Due(y)'
        /\ \A y \in Members(subs[s]) : Due(y)'
    BY <1>1, SetDoes DEF Set
  <2>2. ASSUME NEW m \in Changed(s) \cap Notifiers, m \notin missed' PROVE Due(m)'
    <3>1. s \in Inputs[m]
      BY <2>2, ConstantsAssumption DEF Changed, Notifiers
    <3>2. m \in registered \ missed /\ m \notin Running
      BY <2>1, <2>2 DEF Slots, Notifiers
    <3>3. m \in Members(subs[s])
      BY <2>2, <3>1, <3>2 DEF Subscribed, Deps
    <3> QED BY <2>1, <3>3
  <2> QED BY <2>1, <2>2 DEF Marked
<1>2. ASSUME NEW n \in Sources, Get(n) PROVE Marked'
  <2>1. PICK X \in SUBSET ((Running \cap Effects) \ DOMAIN Listed) :
          outdated' = IF n \in dirty THEN outdated \ {n}
                      ELSE IF n \in outdated THEN outdated \cup X ELSE outdated
    BY <1>2, GetDoes
  <2>2. dirty' = dirty \ {n} /\ UNCHANGED <<missed, stack, pending>>
    BY <1>2 DEF Get
  <2>3. \A y : Due(y)' <=> Due(y)
    BY <2>2 DEF Due, Members
  <2>4. X \cap Notifiers = {}
    BY <2>1, ConstantsAssumption DEF Notifiers
  <2> QED BY <2>1, <2>2, <2>3, <2>4 DEF Marked
<1>3. ASSUME NEW x \in Observers, Begins(x) PROVE Marked'
  <2>1. /\ outdated' \subseteq outdated /\ dirty' = dirty \cup ({x} \cap Memos)
        /\ missed' = missed \ {x} /\ \A y : y # x /\ Due(y) => Due(y)'
    BY <1>3 DEF Begins
  <2>2. Notifiers \subseteq Memos
    BY DEF Notifiers
  <2> QED BY <2>1, <2>2 DEF Marked
<1>4. ASSUME NEW x \in Observers, Misses(x) PROVE Marked'
  <2>1. /\ UNCHANGED <<outdated, dirty>> /\ x \notin slot
        /\ missed' = missed \cup ({x} \cap Running) /\ \A y : y # x /\ Due(y) => Due(y)'
    BY <1>4 DEF Misses
  <2>2. x \in Notifiers => x \in Running
    BY <2>1 DEF Slots
  <2> QED BY <2>1, <2>2 DEF Marked
<1>5. CASE Calm
  <2>1. /\ UNCHANGED <<outdated, dirty, missed>> /\ \A y \in registered' : Due(y) => Due(y)'
    BY <1>5 DEF Calm
  <2>2. Notifiers \subseteq registered'
    BY DEF Slots
  <2> QED BY <2>1, <2>2 DEF Marked
<1> QED BY <1>1, <1>2, <1>3, <1>4, <1>5, Steps

\* Every memo has a notifier.
EveryMemoNotifies == Memos \subseteq DOMAIN Listed

LEMMA ToldNext ==
    ASSUME EveryMemoNotifies, Slots, Slots', Typed, Subscribed, Marked, Told, [Next]_vars
    PROVE  Told'
<1> DEFINE Hears(e) == Due(e) \/ \E m \in seen[e] \cap Notifiers : Due(m) \/ m \in missed
<1>0. Notifiers = Memos
  BY DEF EveryMemoNotifies, Notifiers
<1>1. ASSUME NEW s \in Signals, Set(s) PROVE Told'
  <2>1. /\ outdated' = outdated \cup Changed(s) /\ Running' = Running
        /\ missed' = missed \cup (Changed(s) \cap Running \cap DOMAIN Listed)
        /\ UNCHANGED <<registered, seen>>
        /\ \A y : Due(y) => Due(y)'
        /\ \A y \in Members(subs[s]) : Due(y)'
    BY <1>1, SetDoes DEF Set
  <2>2. ASSUME NEW e \in (Changed(s) \cap registered \cap Effects) \ missed'
        PROVE  /\ e \notin Running \cap DOMAIN Listed
               /\ Due(e)' \/ \E m \in seen[e] \cap Notifiers : Due(m)' \/ m \in missed'
    <3>1. e \notin Running \cap DOMAIN Listed /\ e \in registered \ missed
      BY <2>1, <2>2
    <3>2. e \notin Memos /\ e \notin Notifiers
      BY <2>2, ConstantsAssumption DEF Notifiers
    <3>3. \A n \in seen[e] : e \in Members(subs[n])
      BY <3>1, <3>2 DEF Subscribed, Deps
    <3>4. s \in seen[e] \/ \E m \in Memos : s \in Inputs[m] /\ m \in seen[e]
      BY <2>2, <3>2 DEF Changed
    <3>5. CASE s \in seen[e]
      BY <2>1, <3>1, <3>3, <3>5
    <3>6. ASSUME NEW m \in Memos, s \in Inputs[m], m \in seen[e]
          PROVE  m \in Notifiers /\ (Due(m)' \/ m \in missed')
      <4>1. m \in Changed(s) /\ m \in Notifiers /\ m \in DOMAIN Listed
        BY <1>0, <3>6 DEF Changed, Notifiers
      <4>2. CASE m \in missed'
        BY <4>1, <4>2
      <4>3. CASE m \notin missed'
        <5>1. m \in registered \ missed /\ m \notin Running
          BY <2>1, <4>1, <4>3 DEF Slots
        <5>2. m \in Members(subs[s])
          BY <3>6, <4>1, <5>1 DEF Subscribed, Deps
        <5> QED BY <2>1, <4>1, <5>2
      <4> QED BY <4>2, <4>3
    <3> QED BY <3>1, <3>4, <3>5, <3>6
  <2>3. ASSUME NEW e \in (outdated \cap registered \cap Effects) \ missed'
        PROVE  /\ e \notin Running \cap DOMAIN Listed
               /\ Due(e)' \/ \E m \in seen[e] \cap Notifiers : Due(m)' \/ m \in missed'
    <3>1. e \notin missed
      BY <2>1, <2>3
    <3> QED BY <2>1, <2>3, <3>1 DEF Told
  <2> QED BY <2>1, <2>2, <2>3 DEF Told
<1>2. ASSUME NEW n \in Sources, Get(n) PROVE Told'
  <2>1. PICK X \in SUBSET ((Running \cap Effects) \ DOMAIN Listed) :
          /\ seen' = [e \in Effects |-> IF e \in X THEN seen[e] \cup {n} ELSE seen[e]]
          /\ outdated' = IF n \in dirty THEN outdated \ {n}
                        ELSE IF n \in outdated THEN outdated \cup X ELSE outdated
    BY <1>2, GetDoes
  <2>2. UNCHANGED <<missed, stack, pending, registered>>
    BY <1>2 DEF Get
  <2>3. (\A y : Due(y)' <=> Due(y)) /\ Running' = Running
    BY <2>2 DEF Due, Members, Running
  <2>4. \A e \in Effects : seen[e] \subseteq seen'[e]
    BY <2>1
  <2>5. ASSUME NEW e \in (outdated' \cap registered \cap Effects) \ missed, e \notin outdated
        PROVE  /\ e \notin Running \cap DOMAIN Listed
               /\ \E m \in seen'[e] \cap Notifiers : Due(m) \/ m \in missed
    <3>1. e \in X /\ n \notin dirty /\ n \in outdated
      BY <2>1, <2>5
    <3>2. n \in Notifiers
      BY <1>0, <3>1, ConstantsAssumption DEF Typed, Sources, Observers
    <3>3. Due(n) \/ n \in missed
      BY <3>1, <3>2 DEF Marked
    <3>4. n \in seen'[e]
      BY <2>1, <3>1
    <3> QED BY <3>1, <3>2, <3>3, <3>4
  <2>6. ASSUME NEW e \in (outdated \cap registered \cap Effects) \ missed
        PROVE  /\ e \notin Running \cap DOMAIN Listed
               /\ Due(e) \/ \E m \in seen'[e] \cap Notifiers : Due(m) \/ m \in missed
    BY <2>4, <2>6 DEF Told
  <2> QED BY <2>2, <2>3, <2>5, <2>6 DEF Told
<1>3. ASSUME NEW x \in Observers, Begins(x) PROVE Told'
  <2>1. /\ outdated' = outdated \ ({x} \cap Effects) /\ registered' = registered \cup {x}
        /\ Running' = Running \cup {x}
        /\ missed' = missed \ {x} /\ \A y : y # x /\ Due(y) => Due(y)'
        /\ x \in Memos => \A y \in Members(subs[x]) : Due(y)'
        /\ seen' = IF x \in Memos THEN seen
                   ELSE [seen EXCEPT ![x] = IF x \in DOMAIN Listed THEN Listed[x] ELSE {}]
    BY <1>3 DEF Begins
  <2>2. ASSUME NEW e \in (outdated' \cap registered' \cap Effects) \ missed'
        PROVE  /\ e \notin Running' \cap DOMAIN Listed
               /\ Due(e)' \/ \E m \in seen'[e] \cap Notifiers : Due(m)' \/ m \in missed'
    <3>1. e # x /\ e \in (outdated \cap registered \cap Effects) \ missed
      BY <2>1, <2>2
    <3>2. seen'[e] = seen[e]
      BY <2>1, <3>1 DEF Typed
    <3>3. /\ e \notin Running \cap DOMAIN Listed
          /\ Due(e) \/ \E m \in seen[e] \cap Notifiers : Due(m) \/ m \in missed
      BY <3>1 DEF Told
    <3>4. ASSUME x \in seen[e] \cap Notifiers PROVE Due(e)'
      <4>1. e \notin Notifiers /\ x \in Memos
        BY <3>1, <3>4, ConstantsAssumption DEF Notifiers
      <4>2. e \in Members(subs[x])
        BY <3>1, <3>3, <3>4, <4>1 DEF Subscribed, Deps
      <4> QED BY <2>1, <4>1, <4>2
    <3> QED BY <2>1, <3>1, <3>2, <3>3, <3>4
  <2> QED BY <2>2 DEF Told
<1>4. ASSUME NEW x \in Observers, Misses(x) PROVE Told'
  <2>1. /\ UNCHANGED <<outdated, seen, registered>> /\ x \notin slot /\ Running' = Running
        /\ missed' = missed \cup ({x} \cap Running) /\ \A y : y # x /\ Due(y) => Due(y)'
    BY <1>4 DEF Misses
  <2>2. x \in registered => x \in missed'
    BY <2>1 DEF Slots
  <2>3. x \in Notifiers => x \in missed'
    BY <2>2 DEF Slots
  <2> QED BY <2>1, <2>2, <2>3 DEF Told
<1>5. CASE Calm
  <2>1. /\ UNCHANGED <<outdated, missed, seen>> /\ \A y \in registered' : Due(y) => Due(y)'
        /\ registered' \subseteq registered /\ Running' \subseteq Running
    BY <1>5 DEF Calm
  <2>2. Notifiers \subseteq registered'
    BY DEF Slots
  <2> QED BY <2>1, <2>2 DEF Told
<1> QED BY <1>1, <1>2, <1>3, <1>4, <1>5, Steps

-----------------------------------------------------------------------------
(* A flush is to come.                                                       *)

Flushing(F) == \E f \in F : f.op = "flush"

AskedFor(asked, calls, F) == asked => calls > 0 \/ Flushing(F)
HeldBack(updates, asked, F) == updates # <<>> => asked \/ Held(F)

LEMMA WokenIs ==
    ASSUME Slots, Slots'
    PROVE  /\ Woken <=> /\ AskedFor(scheduled, callbacks, Members(stack))
                       /\ HeldBack(pending, scheduled, Members(stack))
           /\ Woken' <=> /\ AskedFor(scheduled', callbacks', Members(stack'))
                        /\ HeldBack(pending', scheduled', Members(stack'))
<1>1. BatchDepth(stack) > 0 <=> Held(Members(stack))
  BY Depth DEF Slots
<1>2. IsStack(stack')
  BY DEF Slots
<1>3. BatchDepth(stack') > 0 <=> Held(Members(stack'))
  BY <1>2, Depth
<1>4. BatchDepth(stack)' = BatchDepth(stack') /\ Members(stack)' = Members(stack')
  BY DEF BatchDepth, Members
<1> QED BY <1>1, <1>3, <1>4 DEF Woken, Flushing, AskedFor, HeldBack

\* A step that leaves what holds updates back, or is to flush them.
LEMMA WokenStays ==
    ASSUME Slots, Slots', Woken, UNCHANGED <<scheduled, callbacks>>,
           pending = <<>> => pending' = <<>>,
           \A f \in Members(stack) : f.op \in {"batch", "flush"} => f \in Members(stack')
    PROVE  Woken'
<1>1. /\ Flushing(Members(stack)) => Flushing(Members(stack'))
      /\ Held(Members(stack)) => Held(Members(stack'))
  BY DEF Flushing, Held
<1>2. AskedFor(scheduled, callbacks, Members(stack)) /\ HeldBack(pending, scheduled, Members(stack))
  BY WokenIs
<1>3. AskedFor(scheduled', callbacks', Members(stack'))
  BY <1>1, <1>2 DEF AskedFor
<1>4. HeldBack(pending', scheduled', Members(stack'))
  BY <1>1, <1>2 DEF HeldBack
<1> QED BY <1>3, <1>4, WokenIs

LEMMA WokenNext ==
    ASSUME Slots, Slots', Typed, Woken, [Next]_vars PROVE Woken'
<1>0. /\ AskedFor(scheduled, callbacks, Members(stack))
      /\ HeldBack(pending, scheduled, Members(stack))
  BY WokenIs
<1>1. ASSUME NEW s \in Signals, Set(s) PROVE Woken'
  <2>1. Members(stack) \subseteq Members(stack')
    BY <1>1, FramesPush DEF Set, Slots
  <2> QED BY <1>1, <2>1, WokenStays DEF Set
<1>2. ASSUME NEW n \in Sources, Get(n) PROVE Woken'
  <2>1. UNCHANGED <<stack, pending, scheduled, callbacks>>
    BY <1>2 DEF Get
  <2>2. Members(stack) \subseteq Members(stack')
    BY <2>1
  <2> QED BY <2>1, <2>2, WokenStays
<1>3. ASSUME NEW e \in Effects, Create(e) PROVE Woken'
  <2>1. Members(stack) \subseteq Members(stack')
    <3>1. IsStack(stack) /\ Start(e, stack, TRUE)
      BY <1>3 DEF Create, Slots
    <3> QED BY <3>1, StartGrows
  <2> QED BY <1>3, <2>1, WokenStays DEF Create
<1>4. ASSUME NEW e \in Effects, Dispose(e) PROVE Woken'
  <2>1. pending = <<>> => pending' = <<>>
    BY <1>4 DEF Dispose, RemoveFirst
  <2>2. Members(stack) \subseteq Members(stack')
    BY <1>4 DEF Dispose
  <2> QED BY <1>4, <2>1, <2>2, WokenStays DEF Dispose
<1>5. CASE Return \/ NotifyEnd
  <2>1. /\ stack # <<>> /\ Top.op \in {"run", "notify"} /\ stack' = Popped
        /\ UNCHANGED <<scheduled, callbacks, pending>>
    BY <1>5 DEF Return, NotifyEnd, At
  <2>2. Members(stack) = Members(Popped) \cup {Top}
    BY <2>1, Below
  <2> QED BY <2>1, <2>2, WokenStays
<1>6. ASSUME NEW x \in Observers, NotifyLayout(x) PROVE Woken'
  <2>1. /\ Reaches(x) /\ Execute(x, Reached(x)) /\ UNCHANGED <<scheduled, callbacks, pending>>
    BY <1>6 DEF NotifyLayout
  <2>2. /\ Members(stack) = Members(Popped) \cup {Top} /\ Top.op = "notify"
        /\ Members(Popped) \subseteq Members(Reached(x)) /\ IsStack(Reached(x))
    BY <2>1, ReachedFrames
  <2>3. Members(Reached(x)) \subseteq Members(stack')
    BY <2>1, <2>2, Started DEF Execute, StartFrames
  <2> QED BY <2>1, <2>2, <2>3, WokenStays
<1>7. ASSUME NEW x \in Observers, NotifyLater(x) PROVE Woken'
  <2>1. /\ Reaches(x) /\ Schedule(x) /\ stack' = Reached(x)
    BY <1>7 DEF NotifyLater
  <2>2. /\ Members(stack) = Members(Popped) \cup {Top} /\ Top.op = "notify"
        /\ Members(Popped) \subseteq Members(stack')
    BY <2>1, ReachedFrames
  <2>3. /\ Flushing(Members(stack)) => Flushing(Members(stack'))
        /\ Held(Members(stack)) => Held(Members(stack'))
    BY <2>2 DEF Flushing, Held
  <2>4. BatchDepth(stack) = 0 \/ Held(Members(stack))
    BY Depth DEF Slots
  <2>5. /\ scheduled' = (scheduled \/ BatchDepth(stack) = 0)
        /\ callbacks' = IF scheduled' # scheduled THEN callbacks + 1 ELSE callbacks
    BY <2>1 DEF Schedule
  <2>6. CASE scheduled
    <3>1. scheduled' /\ callbacks' = callbacks
      BY <2>5, <2>6 DEF Typed
    <3> QED BY <2>3, <2>6, <3>1, <1>0, WokenIs DEF AskedFor, HeldBack
  <2>7. CASE ~scheduled /\ scheduled'
    <3>1. callbacks' > 0
      BY <2>5, <2>7 DEF Typed
    <3> QED BY <2>7, <3>1, <1>0, WokenIs DEF AskedFor, HeldBack
  <2>8. CASE ~scheduled /\ ~scheduled'
    <3>1. Held(Members(stack'))
      BY <2>3, <2>4, <2>5, <2>8
    <3> QED BY <2>8, <3>1, <1>0, WokenIs DEF AskedFor, HeldBack
  <2> QED BY <2>6, <2>7, <2>8
<1>8. CASE BeginBatch
  <2>1. Members(stack) \subseteq Members(stack')
    BY <1>8, FramesPush DEF BeginBatch, Slots
  <2> QED BY <1>8, <2>1, WokenStays DEF BeginBatch
<1>9. CASE EndBatch
  <2>1. /\ stack # <<>> /\ Top.op = "batch" /\ UNCHANGED <<scheduled, callbacks, pending>>
        /\ stack' = IF BatchDepth(Popped) = 0 /\ pending # <<>> THEN Append(Popped, Flush) ELSE Popped
    BY <1>9 DEF EndBatch, At
  <2>2. Members(stack) = Members(Popped) \cup {Top} /\ IsStack(Popped)
    BY <2>1, Below
  <2>3. Members(Append(Popped, Flush)) = Members(Popped) \cup {Flush} /\ Flush.op = "flush"
    BY <2>2, FramesPush DEF Flush
  <2>4. Members(Popped) \subseteq Members(stack')
    BY <2>1, <2>3
  <2>5. Flushing(Members(stack)) => Flushing(Members(stack'))
    BY <2>1, <2>2, <2>4 DEF Flushing
  <2>6. pending # <<>> => Held(Members(stack'))
    <3>1. CASE BatchDepth(Popped) = 0 /\ pending # <<>>
      BY <2>1, <2>3, <3>1 DEF Held
    <3>2. CASE BatchDepth(Popped) # 0
      BY <2>1, <2>2, <3>2, Depth
    <3> QED BY <3>1, <3>2
  <2> QED BY <2>1, <2>5, <2>6, <1>0, WokenIs DEF AskedFor, HeldBack
<1>10. CASE Callback
  <2>1. Members(<<Flush>>) = {Flush} /\ Flush.op = "flush"
    BY DEF Members, Flush
  <2>2. Flushing(Members(stack')) /\ Held(Members(stack'))
    BY <1>10, <2>1 DEF Callback, Flushing, Held
  <2> QED BY <2>2, <1>0, WokenIs DEF AskedFor, HeldBack
<1>11. CASE FlushOne
  <2>1. /\ pending # <<>> /\ UNCHANGED <<scheduled, callbacks>>
        /\ (\E x : Execute(x, stack)) \/ stack' = stack
    BY <1>11 DEF FlushOne
  <2>2. Members(stack) \subseteq Members(stack')
    <3>1. ASSUME NEW x, Execute(x, stack) PROVE Members(stack) \subseteq Members(stack')
      <4>1. IsStack(stack) /\ (Start(x, stack, FALSE) \/ stack' = stack)
        BY <3>1 DEF Execute, Slots
      <4> QED BY <4>1, StartGrows
    <3> QED BY <2>1, <3>1
  <2> QED BY <2>1, <2>2, WokenStays
<1>12. CASE FlushEnd
  BY <1>12, <1>0, WokenIs DEF FlushEnd, AskedFor, HeldBack
<1>13. CASE UNCHANGED vars
  BY <1>13, WokenStays DEF vars
<1> QED BY <1>1, <1>2, <1>3, <1>4, <1>5, <1>6, <1>7, <1>8, <1>9, <1>10, <1>11, <1>12, <1>13 DEF Next

-----------------------------------------------------------------------------
(* The theorems.                                                             *)

\* The inductive invariant. Told comes apart: it takes a notifier for every
\* memo.
RInv == Slots /\ Typed /\ Subscribed /\ Forgotten /\ Woken /\ Marked

LEMMA RInvInit == Init => RInv /\ Told
<1> SUFFICES ASSUME Init PROVE RInv /\ Told
  OBVIOUS
<1>1. Slots /\ Typed
  BY SlotsInit, TypedInit
<1>2. Subscribed
  <2>1. ASSUME NEW x \in registered, NEW n \in Deps(x) PROVE x \in Members(subs[n])
    <3>1. x \in Notifiers /\ n \in Inputs[x] /\ x \in Memos
      BY <2>1 DEF Init, Deps, Notifiers
    <3>2. n \in Sources
      BY <3>1, ConstantsAssumption DEF Sources
    <3> QED BY <3>1, <3>2 DEF Init
  <2> QED BY <2>1 DEF Init, Subscribed
<1>3. Forgotten /\ Woken /\ Marked /\ Told
  BY DEF Init, Forgotten, Woken, Marked, Told
<1> QED BY <1>1, <1>2, <1>3 DEF RInv

LEMMA RInvNext == RInv /\ [Next]_vars => RInv'
<1> SUFFICES ASSUME RInv, [Next]_vars PROVE RInv'
  OBVIOUS
<1>1. Slots'
  BY SlotsNext DEF RInv
<1>2. Typed'
  BY <1>1, TypedNext DEF RInv
<1>3. Subscribed' /\ Forgotten'
  BY <1>1, SubscribedNext, ForgottenNext DEF RInv
<1>4. Woken'
  BY <1>1, WokenNext DEF RInv
<1>5. Marked'
  BY <1>1, MarkedNext DEF RInv
<1> QED BY <1>1, <1>2, <1>3, <1>4, <1>5 DEF RInv

\* The inductive invariant holds in every reachable state.
THEOREM Invariance == Spec => []RInv
BY RInvInit, RInvNext, PTL DEF Spec

\* The dependency graph agrees with the observers there are, however their
\* functions call back: whoever is at rest is subscribed to what it read
\* (effect.rs:342), and nobody who was disposed of is in any list (effect.rs:364).
THEOREM GraphStaysRight == Spec => []GraphInv
<1>1. ASSUME RInv PROVE GraphInv
  <2>1. TypeOK
    <3>1. ASSUME NEW s, IsList(s) PROVE Members(s) \subseteq Observers /\ IsInjective(s)
      BY <3>1 DEF IsList, Members
    <3>2. \A n \in Sources : IsList(subs[n])
      BY <1>1 DEF RInv, Typed, IsGraph
    <3>3. \A n \in Sources : Members(subs[n]) \subseteq Observers /\ IsInjective(subs[n])
      BY <3>1, <3>2
    <3>4. Members(pending) \subseteq Observers /\ IsInjective(pending)
      BY <1>1, <3>1 DEF RInv, Typed
    <3>5. DOMAIN subs = Sources
      BY <1>1 DEF RInv, Typed, IsGraph
    <3> QED BY <1>1, <3>3, <3>4, <3>5 DEF RInv, Typed, Slots, TypeOK
  <2>2. StaysSubscribed
    <3>1. \A e \in registered \cap Effects : Deps(e) = seen[e]
      BY ConstantsAssumption DEF Deps, Notifiers
    <3> QED BY <1>1, <3>1 DEF RInv, Subscribed, StaysSubscribed
  <2>3. DisposedIsForgotten
    BY <1>1 DEF RInv, Slots, Forgotten, DisposedIsForgotten
  <2> QED BY <2>1, <2>2, <2>3 DEF GraphInv
<1> QED BY <1>1, Invariance, PTL

\* No work is left without a flush to come, whatever batches and flushes do to
\* the flag (runtime.rs:299, 461).
THEOREM WakeupsAreKept == Spec => []NoLostWakeup
<1>1. ASSUME RInv PROVE NoLostWakeup
  <2> SUFFICES ASSUME BatchDepth(stack) = 0, pending # <<>> PROVE scheduled /\ callbacks > 0
    BY DEF NoLostWakeup
  <2>1. ~Held(Members(stack))
    BY <1>1, Depth DEF RInv, Slots
  <2>2. ~ \E f \in Members(stack) : f.op = "flush"
    BY <2>1 DEF Held
  <2> QED BY <1>1, <2>2 DEF RInv, Woken
<1> QED BY <1>1, Invariance, PTL

\* With nothing in progress a memo whose inputs have changed recomputes when it
\* is read (memo.rs:26), if every memo has its notifier.
THEOREM MemosStayCurrent ==
    ASSUME EveryMemoNotifies
    PROVE  Spec => []MemosAreCurrent
<1>1. ASSUME RInv PROVE MemosAreCurrent
  <2> SUFFICES ASSUME stack = <<>>, pending = <<>>, NEW m \in outdated \cap Memos
               PROVE  m \in dirty \cup missed
    BY DEF MemosAreCurrent
  <2>1. ~Due(m)
    BY DEF Due, Members
  <2>2. m \in Notifiers
    BY DEF EveryMemoNotifies, Notifiers
  <2> QED BY <1>1, <2>1, <2>2 DEF RInv, Marked
<1> QED BY <1>1, Invariance, PTL

\* No update is lost, if every memo has its notifier: an effect that has read
\* something that changed since is due to run, or will hear of it from a memo.
THEOREM NoUpdateIsLost ==
    ASSUME EveryMemoNotifies
    PROVE  Spec => []ChangesReachReaders
<1>1. Init => RInv /\ Told
  BY RInvInit
<1>2. RInv /\ Told /\ [Next]_vars => RInv' /\ Told'
  <2> SUFFICES ASSUME RInv, Told, [Next]_vars PROVE RInv' /\ Told'
    OBVIOUS
  <2>1. RInv'
    BY RInvNext
  <2>2. Told'
    BY <2>1, ToldNext DEF RInv
  <2> QED BY <2>1, <2>2
<1>3. RInv /\ Told => ChangesReachReaders
  BY DEF Told, ChangesReachReaders
<1> QED BY <1>1, <1>2, <1>3, PTL DEF Spec

\* A flush starts no passive effect while a memo has yet to be marked dirty.
THEOREM FlushesAreGlitchFree == Spec => FlushIsGlitchFree
<1>1. ASSUME RInv, [Next]_vars, NEW e \in ((Running' \ Running) \cap created) \ Layout,
             At("flush"), Len(stack) = 1, NEW m \in outdated \cap Notifiers
      PROVE  m \in dirty \cup missed
  <2>1. FlushOne
    <3>1. e \in Running' /\ e \notin Running
      BY <1>1
    <3>2. ~InCode /\ ~At("run") /\ ~At("notify") /\ ~At("batch") /\ stack # <<>>
      BY <1>1 DEF InCode, At
    <3>3. \/ FlushOne \/ FlushEnd \/ stack' = stack
      BY <1>1, <3>2 DEF Next, Set, Get, Create, Dispose, Disposable, Return, NotifyLayout,
         NotifyLater, NotifyEnd, Reaches, BeginBatch, EndBatch, Callback, vars
    <3>4. stack' # stack
      BY <3>1 DEF Running
    <3>5. ~FlushEnd
      <4>1. SUFFICES ASSUME FlushEnd PROVE FALSE
        OBVIOUS
      <4>2. stack' = Popped /\ Top.op # "run"
        BY <4>1 DEF FlushEnd, At
      <4>3. Running' = Running
        BY <1>1, <3>2, <4>2, Below DEF RInv, Running
      <4> QED BY <3>1, <4>3
    <3> QED BY <3>3, <3>4, <3>5
  <2>2. PICK i \in DOMAIN pending :
           /\ NextAt(pending, LayoutIds, i)
           /\ \/ pending[i] \in registered /\ Execute(pending[i], stack)
              \/ stack' = stack
    BY <2>1 DEF FlushOne
  <2>3. stack' # stack
    BY <1>1 DEF Running
  <2>4. Execute(pending[i], stack) /\ pending[i] \in slot /\ Start(pending[i], stack, FALSE)
    BY <2>2, <2>3 DEF Execute
  <2>5. Running' = Running \cup {pending[i]}
    <3>1. Fit(stack) /\ pending[i] \notin Nodes(stack)
      BY <1>1, <2>4 DEF RInv, Slots, Fit, Running
    <3> QED BY <2>4, <3>1, StartEnters DEF Running
  <2>6. e = pending[i] /\ e \in Effects /\ e \notin Notifiers
    BY <1>1, <2>5, ConstantsAssumption DEF RInv, Slots, Notifiers
  <2>7. Members(pending) \cap LayoutIds = {}
    BY <1>1, <2>2, <2>6 DEF NextAt, LayoutIds
  <2>8. m \notin Members(pending)
    BY <1>1, <2>7 DEF RInv, Slots, LayoutIds
  <2>9. \A f \in Members(stack) : f.op # "notify"
    <3>1. DOMAIN stack = 1..1 /\ Top = stack[1]
      BY <1>1, Push DEF RInv, Slots, Top
    <3> QED BY <1>1, <3>1 DEF Members, At
  <2> QED BY <1>1, <2>8, <2>9 DEF RInv, Marked, Due
<1>2. RInv /\ [Next]_vars =>
        [\A e \in ((Running' \ Running) \cap created) \ Layout :
           At("flush") /\ Len(stack) = 1 => outdated \cap Notifiers \subseteq dirty \cup missed]_vars
  BY <1>1
<1> QED BY <1>2, Invariance, PTL DEF Spec, FlushIsGlitchFree
=============================================================================
