SPECIFICATION Spec
CONSTANTS
    Nil = Nil
    Proc = {p1, p2, p3}
    Root = p1
    Obj = {o1, o2}
    First = o1
    Fd = {d1}
    MayFail = TRUE
SYMMETRY Symmetry
INVARIANTS TypeOK Isolated MarksMatch UsedStaysOpen DescriptorBound
CHECK_DEADLOCK FALSE
