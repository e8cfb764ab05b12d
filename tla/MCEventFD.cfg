SPECIFICATION FairSpec
CONSTANTS
    Nil = Nil
    Thread = {t1, t2}
    MAX = 3
    Value = {0, 1, 3, 4}
    Start = 1
    NewFlags <- MCNewFlags
    NSEC = 2
    Grains = 4
    Setting <- MCSetting
    MaxSets = 2
    MaxKills = 1
INVARIANTS TypeOK Conserved NonblockReturns ModeKept AsTold
PROPERTIES NoLostWakeup
CHECK_DEADLOCK FALSE
