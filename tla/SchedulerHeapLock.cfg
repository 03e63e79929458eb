SPECIFICATION Spec
CONSTANTS
    mainTask = main
    Created = {t1}
    NULL = NULL
    irq = irq
    Sleepers = {}
    LockUsers = {main, t1}
    SleepMs = 1
    LateTicks = FALSE
    IrqLocks = TRUE
    MaxTime = 4
INVARIANT LockExclusive
