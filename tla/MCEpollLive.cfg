SPECIFICATION FairSpec
CONSTANTS
    Nil = Nil
    Thread = {t1, t2}
    Obj = {o1, o2}
    Fd = {d1}
    File = {f1, f2}
    Mask = {IN, ONE}
    OneShot = {ONE}
    MaxEvents = 1
    Calls = {"add", "del", "delete", "mod", "set"}
    UserOps = {"alias", "reopen"}
PROPERTIES CallsEnd
CHECK_DEADLOCK FALSE
