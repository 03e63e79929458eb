SPECIFICATION Spec
CONSTANTS
    PAGE_SIZE = 2
    NumPages = 16
    Task = {t1, t2}
    d1 = d1
    d2 = d2
    Dir <- MCDir
    KernelStart = 1
    UserStart = 8
    TableSize = 2
    Boot = {0, 1}
    Available = {2, 3, 4, 5, 6, 7}
    MapPages = {9, 12}
    Workloads <- MCWorkloads
    MapsAlone = TRUE
    Absent = Absent
    Garbage = Garbage
    NoTable = NoTable
    NoTask = NoTask
INVARIANTS
    AllocationsMapped
    
    NothingLeaks
    TablesReachable
    KernelIdentity
    InterruptsRestored
CHECK_DEADLOCK FALSE
