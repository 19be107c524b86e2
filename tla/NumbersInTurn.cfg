\* Numbers of every kind; nothing overlaps a reread generator.
CONSTANTS
    w1 = w1
    w2 = w2
    w3 = w3
    r1 = r1
    r2 = r2
    Worker = {w1, w2, w3}
    Row = {r1, r2}
    NoRow = NoRow
    Kinds <- AllKinds
    RereadOverlap = FALSE
    MaxNumber = 4
SPECIFICATION Spec
SYMMETRY Symmetric
CHECK_DEADLOCK FALSE
INVARIANT TypeOK
INVARIANT NumbersAreFresh
INVARIANT OneRow
