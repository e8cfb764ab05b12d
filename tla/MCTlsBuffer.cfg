SPECIFICATION Spec
CONSTANTS
    Nil = Nil
    Thread = {t1, t2}
    Buf = {b1, b2, b3, b4}
    Frame = {x1, x2, x3}
    Size = {1, 2}
    Callers = {"epoll_wait", "kevent", "take"}
SYMMETRY Symmetry
INVARIANTS TypeOK Exclusive Assertions KeySafe NoLeak
PROPERTIES ImplementsAllocator
CHECK_DEADLOCK FALSE
