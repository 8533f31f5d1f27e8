------------------------- MODULE MCNestedTransaction -------------------------
(* Instances of NestedTransaction for TLC.                                   *)
EXTENDS NestedTransaction, TLC

CONSTANTS a, b, v1, v2

TwoNames  == {a, b}
TwoValues == {v1, v2}
=============================================================================
