SPECIFICATION Spec
CONSTANTS
    Nil = Nil
    File = File
    Obj = {o1, o2}
    First = o1
    MaxGen = 2
    MaxIo = 7
    MaxNum = 7
    MaxFiles = 1
    MaxFails = 2
    Filter = {f1}
    ChangeLists <- Lists
INVARIANTS Attached FilesSafe NoLeak
CONSTRAINT Protected
