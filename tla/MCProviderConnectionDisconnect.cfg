SPECIFICATION Spec
CONSTANTS
    c1 = c1
    c2 = c2
    c3 = c3
    p1 = p1
    p2 = p2
    d1 = d1
    v1 = v1
    v2 = v2
    NoWindow = NoWindow
    Connects = {c1}
    Polls = {p1}
    Closers = {d1}
    Checkers = {}
SYMMETRY CallSymmetry
CHECK_DEADLOCK FALSE
INVARIANT DisconnectDeletes
