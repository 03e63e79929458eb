---------------------------- MODULE PhysicalMemory ----------------------------
(***************************************************************************)
(* The life of physical memory: MemoryManager::init fills the bitmap from  *)
(* the memory map of the boot loader and reserves the kernel, the low      *)
(* memory and the modules; after that, pages are allocated and freed.      *)
(***************************************************************************)
EXTENDS PhysicalAllocator, Sequences

CONSTANTS
    Maps,       \* the memory maps the boot loader may pass
    Modules,    \* the modules it loaded, a sequence of [modStart, modEnd]
    __start, _kernel_end,   \* where the linker put the kernel
    Requests    \* the numbers of pages asked for at once

ASSUME MapAssumption ==
    Maps \subseteq Seq([type : Nat, address : Nat, length : Nat])

ASSUME ModuleAssumption ==
    /\ Modules \in Seq([modStart : Nat, modEnd : Nat])
    /\ \A i \in 1 .. Len(Modules) : Modules[i].modStart <= Modules[i].modEnd

ASSUME KernelAssumption == __start \in Nat /\ _kernel_end \in Nat /\ __start <= _kernel_end

ASSUME RequestAssumption == Requests \subseteq Nat \ {0}

VARIABLES
    memManData,
    map,        \* the memory map, a sequence of [type, address, length]
    index,      \* the entry or module the loop is at
    total,      \* the local variable totalFreeMemory
    pc,         \* the part of init that is running; "up" after it
    grants,     \* the allocations not yet freed: [page, numPages]
    failed      \* the last request, when it could not be met; else 0

vars == <<memManData, map, index, total, pc, grants, failed>>

Init ==
    /\ memManData = EmptyData
    /\ map \in Maps
    /\ index = 1 /\ total = 0 /\ pc = "map"
    /\ grants = {} /\ failed = 0

-----------------------------------------------------------------------------
\* The part of an available region that loadMemoryMap frees.  The fields are
\* truncated to 32 bits, and the length may wrap below zero.
AlignUp(address) ==
    IF address % PAGE_SIZE > 0 THEN PAGE_SIZE - (address % PAGE_SIZE) ELSE 0

\* Mutant: the end of the region is not aligned down.
Usable_LastPage(region) ==
    [address |-> Plus(region.address, AlignUp(region.address)),
     length |-> PAGE_ALIGN(Minus(region.length, AlignUp(region.address)))]

Usable(region) ==
    LET up == AlignUp(region.address) IN
    [address |-> Plus(region.address, up),
     length |-> Minus(Minus(region.length % AddressSpace, up), region.length % PAGE_SIZE)]

\* Mutant: the memory of the last region only.
LoadEntry_LastOnly ==
    /\ pc = "map" /\ index <= Len(map)
    /\ IF map[index].type = 1
       THEN LET area == Usable(map[index]) IN
            /\ memManData' = physicalFree(memManData, PageOf(area.address),
                                          area.length \div PAGE_SIZE)
            /\ total' = area.length
       ELSE UNCHANGED <<memManData, total>>
    /\ index' = index + 1
    /\ UNCHANGED <<map, pc, grants, failed>>

(* One round of the loop of loadMemoryMap.                                 *)
LoadEntry ==
    /\ pc = "map" /\ index <= Len(map)
    /\ IF map[index].type = 1
       THEN LET area == Usable(map[index]) IN
            /\ memManData' = physicalFree(memManData, PageOf(area.address),
                                          area.length \div PAGE_SIZE)
            /\ total' = Plus(total, area.length)
       ELSE UNCHANGED <<memManData, total>>
    /\ index' = index + 1
    /\ UNCHANGED <<map, pc, grants, failed>>

LoadEnd ==
    /\ pc = "map" /\ index > Len(map)
    /\ memManData' = [memManData EXCEPT !.TotalMemory = total]
    /\ pc' = "kernel"
    /\ UNCHANGED <<map, index, total, grants, failed>>

\* The physical side of identityMap(address, size).
Identity(m, address, size) ==
    physicalAllocateAt(m, PageOf(address), PAGE_ALIGN(size) \div PAGE_SIZE)

KernelSize == LET size == (_kernel_end - __start) + (__start % PAGE_SIZE)
              IN  PAGE_ALIGN(size)

mapKernelMemory ==
    /\ pc = "kernel"
    /\ memManData' = Identity(memManData, __start - (__start % PAGE_SIZE), KernelSize)
    /\ pc' = "low"
    /\ UNCHANGED <<map, index, total, grants, failed>>

(* init: the first megabyte.                                               *)
mapLowMemory ==
    /\ pc = "low"
    /\ memManData' = Identity(memManData, 0, __start)
    /\ pc' = "modules" /\ index' = 1
    /\ UNCHANGED <<map, total, grants, failed>>

\* Mutant: the module is freed and not taken again.
reserveModule_OnlyFrees ==
    /\ pc = "modules" /\ index <= Len(Modules)
    /\ LET module == Modules[index]
           size == module.modEnd - module.modStart
       IN  memManData' = physicalFree(memManData, PageOf(module.modStart), size \div PAGE_SIZE)
    /\ index' = index + 1
    /\ UNCHANGED <<map, total, pc, grants, failed>>

(* One round of the loop of reserveModuleMemory.                           *)
reserveModule ==
    /\ pc = "modules" /\ index <= Len(Modules)
    /\ LET module == Modules[index]
           size == module.modEnd - module.modStart
       IN  memManData' = Identity(
               physicalFree(memManData, PageOf(module.modStart), size \div PAGE_SIZE),
               module.modStart, size)
    /\ index' = index + 1
    /\ UNCHANGED <<map, total, pc, grants, failed>>

reserveEnd ==
    /\ pc = "modules" /\ index > Len(Modules)
    /\ pc' = "up"
    /\ UNCHANGED <<memManData, map, index, total, grants, failed>>

-----------------------------------------------------------------------------
(* After init: requests for pages, and their return.                       *)
Allocate(numPages) ==
    /\ pc = "up"
    /\ memManData' = physicalAllocate(memManData, numPages)
    /\ LET page == FirstPlace(memManData, numPages)
       IN  IF page > 0
           THEN grants' = grants \cup {[page |-> page, numPages |-> numPages]}
                /\ failed' = 0
           ELSE failed' = numPages /\ UNCHANGED grants
    /\ UNCHANGED <<map, index, total, pc>>

Free(grant) ==
    /\ pc = "up"
    /\ memManData' = physicalFree(memManData, grant.page, grant.numPages)
    /\ grants' = grants \ {grant}
    /\ failed' = 0
    /\ UNCHANGED <<map, index, total, pc>>

Next ==
    \/ LoadEntry \/ LoadEnd \/ mapKernelMemory \/ mapLowMemory
    \/ reserveModule \/ reserveEnd
    \/ \E numPages \in Requests : Allocate(numPages)
    \/ \E grant \in grants : Free(grant)

Spec == Init /\ [][Next]_vars
-----------------------------------------------------------------------------
TypeOK ==
    /\ memManData \in MemoryManagerData
    /\ map \in Maps /\ index \in Nat \ {0} /\ total \in 0 .. AddressSpace - 1
    /\ pc \in {"map", "kernel", "low", "modules", "up"}
    /\ grants \subseteq [page : Page, numPages : Requests]
    /\ failed \in Requests \cup {0}

\* The pages all of whose bytes the boot loader reported available.
Available ==
    {page \in Page :
        \E i \in 1 .. Len(map) :
            /\ map[i].type = 1
            /\ map[i].address <= page * PAGE_SIZE
            /\ (page + 1) * PAGE_SIZE <= map[i].address + map[i].length}

\* What init must keep: the kernel, everything below it, and the modules.
Reserved ==
    {page \in Page :
        \/ page * PAGE_SIZE < _kernel_end
        \/ \E i \in 1 .. Len(Modules) :
               /\ Modules[i].modStart < (page + 1) * PAGE_SIZE
               /\ page * PAGE_SIZE < Modules[i].modEnd}

Granted(grant) == Pages(grant.page, grant.numPages)

\* loadMemoryMap frees whole pages of available memory only, whatever the
\* alignment of the regions.
FreeIsAvailable == Page \ memManData.used \subseteq Available

\* The counter and the bitmap agree, modulo 2^32, through boot, allocation of
\* pages that are already used and freeing: each page of the bitmap that
\* becomes free takes PAGE_SIZE off the counter once.
UsedTracksBitmap == CounterTracks(memManData)

\* After init no grant touches the kernel, the first megabyte, a module or
\* memory that does not exist.
ReservedStaysReserved ==
    pc = "up" => /\ Reserved \subseteq memManData.used
                 /\ \A grant \in grants : Granted(grant) \subseteq Available \ Reserved

\* No page belongs to two grants, and the pages of a grant are marked used.
GrantsDisjoint ==
    /\ \A g, h \in grants : g # h => Granted(g) \cap Granted(h) = {}
    /\ \A g \in grants : Granted(g) \subseteq memManData.used

\* The pages that loadMemoryMap freed, and the holes between them.
Loaded ==
    UNION {Pages(PageOf(Usable(map[i]).address), Usable(map[i]).length \div PAGE_SIZE) :
               i \in {j \in 1 .. Len(map) : map[j].type = 1}}

Holes == {page \in Page \ Loaded : \E above \in Loaded : page < above}

\* physicalAllocate searches up to the sum of the available regions and not to
\* the end of the last one: a request for one page may fail while pages are
\* free, but never more of them than there are pages in the holes of the map.
LossBoundedByHoles == failed = 1 => Cardinality(Page \ memManData.used) <= Cardinality(Holes)
===============================================================================
