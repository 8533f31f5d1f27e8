------------------------ MODULE MCDependencyInjection ------------------------
EXTENDS DependencyInjection

CONSTANTS a, b, c, q, s

\* A chain, a diamond's half, a cycle of two under a root, and a type that
\* depends on itself beside one that depends on two others.
Shapes == {
    [T \in {a, b, c} |-> CASE T = a -> {b} [] T = b -> {c} [] OTHER -> {}],
    [T \in {a, b, c} |-> CASE T = a -> {b, c} [] T = b -> {c} [] OTHER -> {}],
    [T \in {a, b, c} |-> CASE T = a -> {b} [] T = b -> {c} [] OTHER -> {b}],
    [T \in {a, b, c} |-> CASE T = a -> {b, c} [] T = b -> {} [] OTHER -> {c}]}
=============================================================================
