------------------------- MODULE MCReactiveRuntime -------------------------
(* Instances of ReactiveRuntime for TLC: two signals, one memo, a passive *)
(* effect that tracks what it reads and a layout effect with a list.         *)
EXTENDS ReactiveRuntime, TLC

CONSTANTS s1, s2, p, l, m

TwoSignals == {s1, s2}
OneMemo    == {m}

TwoEffects == {p, l}
OneLayout  == {l}

MemoReads      == m :> {s1}
MemoLists      == m :> {s1}
MemoAndLayout  == m :> {s1} @@ l :> {s1, m}

\* The passive effect reads and writes everything, the signals it reads
\* included; the layout effect reads the memo.
EffectReads  == p :> {s1, s2, m} @@ l :> {s1, m}
EffectWrites == p :> {s1, s2} @@ l :> {s1, s2}
=============================================================================
