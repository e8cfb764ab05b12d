SPECIFICATION FairSpec
CONSTANTS
    Nil = Nil
    Thread = {t1, t2}
    Size = 2
    Space = 2
    Length = {0, 2}
    Offset = {1}
    Keywords <- MCKeywords
    Conf <- MCConf
    MaxCalls = 2
INVARIANTS Reported  FreshNumber
PROPERTIES NonblockEnds
CHECK_DEADLOCK FALSE
