SPECIFICATION FairSpec
CONSTANTS
    mainTask = main
    Created = {t1, t2, t3}
    NULL = NULL
    irq = irq
    Sleepers = {t2}
    LockUsers = {main, t3}
    SleepMs = 1
    LateTicks = TRUE
    IrqLocks = TRUE
    MaxTime = 3
INVARIANT RingInOrder
INVARIANT NoHalfStartedTask
INVARIANT NoTaskSkipped
 
 
