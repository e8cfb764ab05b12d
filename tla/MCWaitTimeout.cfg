SPECIFICATION FairSpec
CONSTANTS
    Nil = Nil
    MSec = 4
    NANO_PER_SEC = 3
    Timeout <- MCTimeout
    Timespec <- MCTimespec
    MaxClock = 14
INVARIANTS DeadlineKept AppliedOnce
PROPERTIES NotEarly ClosedEnds WaitEnds
CHECK_DEADLOCK FALSE
