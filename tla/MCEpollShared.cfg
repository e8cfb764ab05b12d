SPECIFICATION Spec
CONSTANTS
    Nil = Nil
    Thread = {t1, t2}
    Obj = {o1, o2}
    Fd = {d1}
    File = {f1, f2}
    Mask = {IN}
    OneShot = {}
    MaxEvents = 1
    Calls = {"add", "del", "delete", "mod", "set", "wait", "close"}
    UserOps = {"alias", "reopen"}
SYMMETRY Symmetry
INVARIANTS WatchedLive InFlightCovered
CHECK_DEADLOCK FALSE
