SPECIFICATION Spec
CONSTANTS
    TagSize = 1
    l_pageSize = 8
    l_pageCount = 2
    MINEXP = 1
    MAXEXP = 6
    MAXCOMPLETE = 1
    ArenaPages = 5
    Sizes = {4, 7, 17}
INVARIANTS
    TagsTile
    GrantsHold
    ListsConsistent
    Coalesced
    CompleteCounted
