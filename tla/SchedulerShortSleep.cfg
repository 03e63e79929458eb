SPECIFICATION Spec
CONSTANTS
    mainTask = main
    Created = {t1}
    NULL = NULL
    irq = irq
    Sleepers = {t1}
    LockUsers = {}
    SleepMs = 4
    LateTicks = FALSE
    IrqLocks = FALSE
    MaxTime = 8
PROPERTY SleepLasts
