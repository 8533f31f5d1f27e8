------------------------- MODULE MCSessionReplication -------------------------
(* Instances of SessionReplication for TLC. *)
EXTENDS SessionReplication, TLC

CONSTANTS c1, c2, k

TwoClients    == {c1, c2}
OneKey        == {k}
OneWriter     == k :> {c1}
AllStrategies == {"async", "sync", "acknowledged"}
=============================================================================
