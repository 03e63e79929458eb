SPECIFICATION LoaderSpec
CONSTANTS
    PAGE_SIZE = 4
    NumPages = 24
    Maps <- GoodMaps
    Modules <- MCModules
    __start = 8
    _kernel_end = 13
    Requests = {1, 2}
    Files <- MCFiles
    FieldLimit = 8
    StackPages = 1
    Absent = Absent
INVARIANTS FreeIsAvailable UsedTracksBitmap ReservedStaysReserved GrantsDisjoint
    LossBoundedByHoles  ImagesIntact
 
