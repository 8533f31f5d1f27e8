--------------------------- MODULE MCPluginRegistry ---------------------------
(* Instances of PluginRegistry for TLC: c needs a and b, b needs a, and      *)
(* another version of a needs c, which closes a cycle.                       *)
EXTENDS PluginRegistry, TLC

CONSTANTS a, b, c, r, m

ThreePlugins == {a, b, c}
Versions     == a :> {{}, {c}} @@ b :> {{a}} @@ c :> {{a, b}}
Hooked       == {a, c}
OneRegistrar == {r}
OneManager   == {m}
=============================================================================
