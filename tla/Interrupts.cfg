SPECIFICATION FairSpec
CONSTANTS
    mainTask = main
    Created = {tty, program}
    NULL = NULL
    Line = {0, 1, 7, 12}
    Fault = {2, 14}
    Callers = {program}
INVARIANT StopsOnlyFor
INVARIANT AcknowledgedInTime
 
 
CHECK_DEADLOCK FALSE
