SPECIFICATION Spec
CONSTANTS
    Nil = Nil
    Proc = {p1, p2}
    Root = p1
    Obj = {o1, o2}
    First = o1
    Fd = {d1}
    MayFail = FALSE
SYMMETRY Symmetry
INVARIANTS UsableAfterFork
CHECK_DEADLOCK FALSE
