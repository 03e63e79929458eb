SPECIFICATION Spec
CONSTANTS
    mainTask = main
    Created = {t1, t2, t3}
    NULL = NULL
    irq = irq
    Sleepers = {}
    LockUsers = {main, t1, t2}
    SleepMs = 1
    LateTicks = FALSE
    IrqLocks = FALSE
    MaxTime = 2
INVARIANT LockExclusive
INVARIANT SavesOwnContext
INVARIANT RunningTaskOnCpu
