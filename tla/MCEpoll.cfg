SPECIFICATION Spec
CONSTANTS
    Nil = Nil
    Thread = {t1, t2}
    Obj = {o1, o2}
    Fd = {d1, d2}
    File = {f1}
    Mask = {IN, ONE}
    OneShot = {ONE}
    MaxEvents = 1
    Calls = {"add", "del", "set", "wait"}
    UserOps = {"dup"}
SYMMETRY Symmetry
INVARIANTS TypeOK CacheCoherent
PROPERTIES SetMeansWatched
CHECK_DEADLOCK FALSE
