SPECIFICATION FairSpec
CONSTANTS
    maxElements = 3
    Key = {k1, k2}
    Garbage = Garbage
    MaxPresses = 6
CHECK_DEADLOCK FALSE
INVARIANTS PopFindsElement NoExtraKey
PROPERTIES KeysInOrder BufferDrained
