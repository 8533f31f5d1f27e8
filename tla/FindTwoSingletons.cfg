SPECIFICATION Spec
CONSTANTS
    a = a
    b = b
    c = c
    q = q
    s = s
    Types = {a, b, c}
    Requests = {q, s}
    Graphs <- Shapes
    MaxDepth = 3
    MaxResolves = 2
CHECK_DEADLOCK FALSE
INVARIANT OneSingleton
