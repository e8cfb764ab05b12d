SPECIFICATION FairSpec
CONSTANTS
    Nil = Nil
    Thread = {t1}
    NewFlags <- MCNewFlags
    Masks <- MCMasks
    MaxEvent = 1
    Length = {1, 3}
    Room = 2
    Limit = 4
    Capacity = {}
    MaxKills = 0
    MayClose = FALSE
PROPERTIES EachYields
CHECK_DEADLOCK FALSE
