SPECIFICATION FairSpec
CONSTANTS
    mainTask = main
    Created = {t1, t2}
    NULL = NULL
    irq = irq
    Sleepers = {}
    LockUsers = {}
    SleepMs = 1
    LateTicks = FALSE
    IrqLocks = FALSE
    MaxTime = 2
PROPERTY LoopsBackToMain
