SPECIFICATION FairSpec
CONSTANTS
    Nil = Nil
    Thread = {t1, t2}
    NewFlags <- MCNewFlags
    Masks <- MCMasks
    MaxEvent = 3
    Length = {1, 3}
    Room = 2
    Limit = 4
    Capacity = {3}
    MaxKills = 1
    MayClose = TRUE
INVARIANTS TypeOK ExactlyOnce ReadOrder
PROPERTIES ImplementsQueue ShortYielded
CHECK_DEADLOCK FALSE
