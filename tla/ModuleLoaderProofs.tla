-------------------------- MODULE ModuleLoaderProofs --------------------------
(***************************************************************************)
(* Proofs about boot and the loading of modules, for every page size,      *)
(* number of pages, memory map, list of modules and contents of modules.   *)
(***************************************************************************)
EXTENDS ModuleLoader, PhysicalMemoryProofs

(* Physical memory with the loader on top.                                 *)

\* The loops of loadModules and load are at a module and a program header.
LoaderType ==
    /\ files \in Files[map] /\ mod \in Nat \ {0} /\ sec \in Nat
    /\ pc # "up" => sec = 0

\* The fields of a module.
LEMMA ModuleFields ==
    ASSUME NEW i \in 1 .. Len(Modules)
    PROVE  Modules[i].modStart \in Nat /\ Modules[i].modEnd \in Nat /\ ModuleSize(i) \in Nat
           /\ Modules[i].modEnd = Modules[i].modStart + ModuleSize(i)
<1>1. Modules[i] \in [modStart : Nat, modEnd : Nat] /\ Modules[i].modStart <= Modules[i].modEnd
    BY ModuleAssumption, ElementOfSeq, Zenon
<1> QED
    BY <1>1 DEF ModuleSize

\* The program headers of a module.
LEMMA SegmentFields ==
    ASSUME map \in Maps, LoaderType, NEW m \in 1 .. Len(Modules)
    PROVE  /\ files[m] \in File /\ files[m].phoff \in Nat /\ Len(files[m].segments) \in Nat
           /\ \A i \in 1 .. Len(files[m].segments) :
                  /\ files[m].segments[i].offset \in Nat /\ files[m].segments[i].vaddr \in Nat
                  /\ files[m].segments[i].filesz \in Nat
                  /\ files[m].segments[i].filesz % FieldLimit \in Nat
                  /\ files[m].segments[i].filesz % FieldLimit < FieldLimit
<1>1. files[m] \in File
    BY FileAssumption, Zenon DEF LoaderType
<1>2. files[m].segments \in Seq(Segment) /\ files[m].phoff \in Nat
    BY <1>1, Zenon DEF File
<1>3. \A i \in 1 .. Len(files[m].segments) : files[m].segments[i] \in Segment
    BY <1>2, ElementOfSeq, Zenon
<1>4. \A s \in Segment : /\ s.offset \in Nat /\ s.vaddr \in Nat /\ s.filesz \in Nat
    BY Zenon DEF Segment
<1>5. \A a \in Nat : a % FieldLimit \in Nat /\ a % FieldLimit < FieldLimit
    BY FileAssumption, DivBounds, Zenon
<1>6. Len(files[m].segments) \in Nat
    BY <1>2
<1> QED
    BY <1>1, <1>2, <1>3, <1>4, <1>5, <1>6, Zenon

\* The invariants of physical memory, with the loader's.
LoaderInv == MemoryInv /\ BootInv /\ LoaderType

\* loadModules and load take pages and free none.
LEMMA LoadTakes ==
    ASSUME LoaderInv, LoadModule \/ LoadSegment
    PROVE  /\ memManData' \in MemoryManagerData /\ CounterTracks(memManData')
           /\ memManData.used \subseteq memManData'.used
<1>1. memManData \in MemoryManagerData /\ CounterTracks(memManData) /\ map \in Maps
    BY Zenon DEF LoaderInv, MemoryInv, TypeOK, UsedTracksBitmap
<1>2. CASE LoadModule
    <2> DEFINE mapped == Identity(memManData, Modules[mod].modStart, ModuleSize(mod))
    <2>1. mod \in 1 .. Len(Modules)
        BY <1>2, ModuleAssumption DEF LoadModule, LoaderInv, LoaderType
    <2>2. Modules[mod].modStart \in Nat /\ ModuleSize(mod) \in Nat
        BY <2>1, ModuleFields, Zenon
    <2>3. /\ mapped \in MemoryManagerData /\ CounterTracks(mapped)
          /\ memManData.used \subseteq mapped.used
        <3>1. \A s, t \in Nat : LET m == Identity(memManData, s, t) IN
                  /\ m \in MemoryManagerData /\ CounterTracks(m)
                  /\ m.used = memManData.used \cup Pages(PageOf(s), PAGE_ALIGN(t) \div PAGE_SIZE)
            BY <1>1, IdentityTakes, Zenon
        <3>2. \A s, t \in Nat : LET m == Identity(memManData, s, t) IN
                  /\ m \in MemoryManagerData /\ CounterTracks(m)
                  /\ memManData.used \subseteq m.used
            BY <3>1, Zenon
        <3> QED
            BY <2>2, <3>2, Zenon
    <2>4. memManData' = mapped \/ memManData' = physicalAllocate(mapped, StackPages)
        BY <1>2, Zenon DEF LoadModule
    <2> HIDE DEF mapped
    <2>5. StackPages \in Nat
        BY FileAssumption, Zenon
    <2>6. /\ physicalAllocate(mapped, StackPages) \in MemoryManagerData
          /\ CounterTracks(physicalAllocate(mapped, StackPages))
          /\ mapped.used \subseteq physicalAllocate(mapped, StackPages).used
        BY <2>3, <2>5, AllocateFirst, Zenon
    <2> QED
        BY <2>3, <2>4, <2>6, Zenon
<1>3. CASE LoadSegment
    <2> DEFINE size == files[mod].segments[sec].filesz % FieldLimit
    <2>1. mod \in 1 .. Len(Modules) /\ sec \in 1 .. Len(files[mod].segments)
        <3>1. mod \in Nat \ {0} /\ mod <= Len(Modules) /\ sec \in 1 .. Len(files[mod].segments)
            BY <1>3, Zenon DEF LoadSegment, AtSegment, LoaderInv, LoaderType
        <3>2. Len(Modules) \in Nat
            BY ModuleAssumption
        <3> QED
            BY <3>1, <3>2
    <2>2. size \in Nat
        BY <1>1, <2>1, SegmentFields, Zenon DEF LoaderInv
    <2>3. memManData' = physicalAllocate(memManData, NumPagesOf(size))
        BY <1>3, Zenon DEF LoadSegment, MapAndCopy
    <2> HIDE DEF size
    <2>4. NumPagesOf(size) \in Nat
        BY <2>2, NumPagesType, Zenon
    <2> QED
        BY <1>1, <2>3, <2>4, AllocateFirst, Zenon
<1> QED
    BY <1>2, <1>3, Zenon

\* Boot, other tasks and the loader keep the memory in order.
LEMMA LoaderStep == LoaderInv /\ [LoaderNext]_allVars => LoaderInv'
<1> SUFFICES ASSUME LoaderInv, [LoaderNext]_allVars PROVE LoaderInv'
    BY Zenon
<1>a. ASSUME [Next]_vars PROVE MemoryInv' /\ BootInv'
    BY <1>a, MemoryStep, BootStep, Zenon DEF LoaderInv
<1>1. CASE BootMap
    <2>1. [Next]_vars /\ map' = map /\ pc # "up"
        BY <1>1, Zenon DEF BootMap, Next, LoadEntry, LoadEnd, reserveEnd, mapKernelMemory,
                    mapLowMemory, reserveModule
    <2>2. LoaderType'
        BY <1>1, <2>1, Zenon DEF BootMap, LoaderInv, LoaderType
    <2> QED
        BY <1>a, <2>1, <2>2, Zenon DEF LoaderInv
<1>2. CASE OtherTask
    <2>1. [Next]_vars /\ map' = map /\ pc' = pc
        BY <1>2, Zenon DEF OtherTask, Next, Allocate, Free
    <2>2. LoaderType'
        BY <1>2, <2>1, Zenon DEF OtherTask, LoaderInv, LoaderType
    <2> QED
        BY <1>a, <2>1, <2>2, Zenon DEF LoaderInv
<1>3. CASE LoadModule \/ LoadSegment
    <2>1. UNCHANGED <<map, index, total, pc, grants, failed>> /\ pc = "up"
        BY <1>3, Zenon DEF LoadModule, LoadSegment, NextSegment, AtSegment
    <2>2. /\ memManData' \in MemoryManagerData /\ CounterTracks(memManData')
          /\ memManData.used \subseteq memManData'.used
        BY <1>3, LoadTakes, Zenon
    <2>3. BootInv'
        BY <2>1, <2>2, TakingKeeps, Zenon DEF LoaderInv
    <2>4. MemoryInv'
        BY <2>1, <2>2, Zenon DEF LoaderInv, MemoryInv, TypeOK, UsedTracksBitmap, GrantsDisjoint,
                          NoGrantsBefore, Granted
    <2>5. files' = files /\ mod' \in Nat \ {0} /\ sec' \in Nat
        <3>1. files' = files /\ (mod' = mod \/ mod' = mod + 1)
              /\ (sec' = 1 \/ sec' = sec \/ sec' = sec + 1)
            BY <1>3, Zenon DEF LoadModule, LoadSegment, NextSegment
        <3>2. mod \in Nat \ {0} /\ sec \in Nat
            BY Zenon DEF LoaderInv, LoaderType
        <3> QED
            BY <3>1, <3>2
    <2>6. LoaderType'
        BY <2>1, <2>5, Zenon DEF LoaderInv, LoaderType
    <2> QED
        BY <2>3, <2>4, <2>6, Zenon DEF LoaderInv
<1>4. CASE LoadEndModule
    <2>1. [Next]_vars /\ map' = map /\ pc' = pc
        BY <1>4, Zenon DEF LoadEndModule, vars
    <2>2. LoaderType'
        BY <1>4, <2>1 DEF LoadEndModule, LoaderInv, LoaderType
    <2> QED
        BY <1>a, <2>1, <2>2, Zenon DEF LoaderInv
<1>5. CASE UNCHANGED allVars
    <2>1. [Next]_vars /\ map' = map /\ pc' = pc
        BY <1>5, Zenon DEF allVars, vars
    <2>2. LoaderType'
        BY <1>5, <2>1, Zenon DEF allVars, loaderVars, LoaderInv, LoaderType
    <2> QED
        BY <1>a, <2>1, <2>2, Zenon DEF LoaderInv
<1> QED
    BY <1>1, <1>2, <1>3, <1>4, <1>5, Zenon DEF LoaderNext

\* The invariant of memory under the loader.
THEOREM LoaderInvariant == LoaderSpec => []LoaderInv
<1>1. LoaderInit => LoaderInv
    BY MemoryInit, BootInit DEF LoaderInit, LoaderInv, LoaderType
<1> QED
    BY <1>1, LoaderStep, PTL DEF LoaderSpec

\* For such a map, the pages that loadMemoryMap frees are available.
LEMMA LoadedAvailable ==
    ASSUME MapsFit, LoaderInv
    PROVE  Loaded \subseteq Available
<1>1. map \in Maps /\ map \in Seq([type : Nat, address : Nat, length : Nat])
    BY MapAssumption, Zenon DEF LoaderInv, MemoryInv, TypeOK
<1> SUFFICES ASSUME NEW i \in 1 .. Len(map), map[i].type = 1
             PROVE  UsablePages(map[i]) \subseteq Available
    BY Zenon DEF Loaded, UsablePages
<1>2. map[i] \in [type : Nat, address : Nat, length : Nat] /\ Fits(map[i])
    BY <1>1, ElementOfSeq, Zenon DEF MapsFit
<1>3. PICK q \in Nat, n \in Nat :
           /\ UsablePages(map[i]) = q .. q + n - 1 /\ q + n <= NumPages
           /\ n > 0 => /\ map[i].address <= q * PAGE_SIZE
                       /\ (q + n) * PAGE_SIZE <= map[i].address + map[i].length
    BY <1>2, UsableInside, Zenon
<1> SUFFICES ASSUME NEW page \in q .. q + n - 1 PROVE page \in Available
    BY <1>3, Zenon
<1>4. page \in Page /\ page \in Nat /\ n > 0 /\ q <= page /\ page + 1 <= q + n
    BY <1>3, PageAssumption DEF Page
<1>5. q * PAGE_SIZE <= page * PAGE_SIZE /\ (page + 1) * PAGE_SIZE <= (q + n) * PAGE_SIZE
    <2>1. page + 1 \in Nat /\ q + n \in Nat
        BY <1>4
    <2> QED
        BY <1>4, <2>1, Monotone, PageAssumption, Zenon
<1>6. map[i].address <= page * PAGE_SIZE
      /\ (page + 1) * PAGE_SIZE <= map[i].address + map[i].length
    <2>1. /\ q * PAGE_SIZE \in Nat /\ page * PAGE_SIZE \in Nat
          /\ (page + 1) * PAGE_SIZE \in Nat /\ (q + n) * PAGE_SIZE \in Nat
          /\ map[i].address \in Nat /\ map[i].length \in Nat
        <3>1. \A a \in Nat : a * PAGE_SIZE \in Nat
            BY PageAssumption
        <3>2. page + 1 \in Nat /\ q + n \in Nat
            BY <1>4
        <3>3. map[i].address \in Nat /\ map[i].length \in Nat
            BY <1>2, Zenon
        <3> QED
            BY <1>4, <3>1, <3>2, <3>3, Zenon
    <2> DEFINE a == map[i].address
               l == map[i].length
               b == q * PAGE_SIZE
               c == page * PAGE_SIZE
               d == (page + 1) * PAGE_SIZE
               e == (q + n) * PAGE_SIZE
    <2>2. a <= b /\ e <= a + l /\ b <= c /\ d <= e
        BY <1>3, <1>4, <1>5, Zenon
    <2>3. a \in Nat /\ l \in Nat /\ b \in Nat /\ c \in Nat /\ d \in Nat /\ e \in Nat
        BY <2>1, Zenon
    <2> HIDE DEF a, b, c, d, e, l
    <2>4. a <= c /\ d <= a + l
        BY <2>2, <2>3
    <2> QED
        BY <2>4, Zenon DEF a, b, c, d, e, l
<1> QED
    BY <1>4, <1>6, Zenon DEF Available

\* loadMemoryMap, reserveModuleMemory and all that is freed later: a page that
\* is free is one whose bytes the boot loader all reported available, for any
\* map whose regions lie in the address space and are not cut down to less
\* than nothing by the alignment.
THEOREM OnlyAvailableIsFree ==
    ASSUME MapsFit
    PROVE  LoaderSpec => []FreeIsAvailable
<1>1. LoaderInv => FreeIsAvailable
    BY LoadedAvailable, Zenon DEF LoaderInv, BootInv, LoadedInv, FreeIsAvailable
<1> QED
    BY <1>1, LoaderInvariant, PTL

\* mapKernelMemory, init, reserveModuleMemory: when the system is up, the
\* kernel, all below it and the modules are used, and stay so whatever is
\* loaded, allocated and freed; a grant lies in available memory.  The
\* modules must begin at a page: reserveModuleMemory counts the pages of a
\* module from its size alone.
THEOREM ReservedForGood ==
    ASSUME MapsFit, ModulesAligned
    PROVE  LoaderSpec => []ReservedStaysReserved
<1>1. LoaderInv => ReservedStaysReserved
    <2>1. LoaderInv => Loaded \subseteq Available
        BY LoadedAvailable, Zenon
    <2> QED
        BY <2>1, Zenon DEF LoaderInv, BootInv, LoadedInv, ReservedInv, ReservedStaysReserved
<1> QED
    BY <1>1, LoaderInvariant, PTL

-----------------------------------------------------------------------------
(* What the search of physicalAllocate leaves out.                         *)

\* The inductive invariant: the sum is at most the bytes reported and at least
\* the pages freed, and after a request for one page has failed, no page that
\* the search looks at is free.
TotalInv ==
    /\ pc = "map" => /\ total <= Cardinality(Reported(index))
                     /\ Cardinality(LoadedTo(index)) * PAGE_SIZE <= total
    /\ pc # "map" => /\ memManData.TotalMemory = total
                     /\ Cardinality(Loaded) * PAGE_SIZE <= total
    /\ pc # "up" => failed = 0
    /\ failed = 1 => \A p \in Page : p < total \div PAGE_SIZE => p \in memManData.used

\* A failed request for one page while more is free: the bound.
LEMMA TotalBounds ==
    ASSUME LoaderInv, TotalInv
    PROVE  LossBoundedByHoles
<1> SUFFICES ASSUME failed = 1
             PROVE  Cardinality(Page \ memManData.used) <= Cardinality(Holes)
    BY Zenon DEF LossBoundedByHoles
<1>1. pc = "up" /\ pc # "map"
    BY DEF TotalInv
<1> DEFINE F == Page \ memManData.used
           T == total \div PAGE_SIZE
<1>2. total \in Nat /\ total < AddressSpace
    BY SpaceIsPositive DEF LoaderInv, MemoryInv, TypeOK
<1>3. T \in Nat /\ T * PAGE_SIZE <= total /\ total < (T + 1) * PAGE_SIZE
    BY <1>2, DivBounds, PageAssumption, Zenon
<1> HIDE DEF T
<1>4. T <= NumPages
    <2>1. T * PAGE_SIZE \in Nat
        BY <1>3, PageAssumption
    <2>2. T * PAGE_SIZE < NumPages * PAGE_SIZE
        BY <1>2, <1>3, <2>1, SpaceIsPositive DEF AddressSpace
    <2>3. T < NumPages
        BY <1>3, <2>2, Monotone, PageAssumption, Zenon
    <2> QED
        BY <1>3, <2>3, PageAssumption
<1>5. Loaded \subseteq Page
    <2>1. map \in Maps /\ map \in Seq([type : Nat, address : Nat, length : Nat])
        BY MapAssumption, Zenon DEF LoaderInv, MemoryInv, TypeOK
    <2>2. ASSUME NEW i \in 1 .. Len(map) PROVE UsablePages(map[i]) \subseteq Page
        BY <2>1, <2>2, UsableIsPages, ElementOfSeq, Zenon
    <2> QED
        BY <2>2, Zenon DEF Loaded, UsablePages
<1>6. Cardinality(Loaded) <= T
    <2> DEFINE c == Cardinality(Loaded)
    <2>1. IsFiniteSet(Loaded)
        BY <1>5, PageIsFinite, FS_Subset, Zenon
    <2>2. c \in Nat
        BY <2>1, FS_CardinalityType, Zenon
    <2>3. c * PAGE_SIZE <= total
        BY <1>1, Zenon DEF TotalInv
    <2> HIDE DEF c
    <2>4. c * PAGE_SIZE \in Nat /\ (T + 1) * PAGE_SIZE \in Nat
        BY <1>3, <2>2, PageAssumption
    <2>5. c * PAGE_SIZE < (T + 1) * PAGE_SIZE
        BY <1>2, <1>3, <2>3, <2>4
    <2>6. c < T + 1
        <3>1. T + 1 \in Nat
            BY <1>3
        <3> QED
            BY <2>2, <2>5, <3>1, Monotone, PageAssumption, Zenon
    <2> QED
        BY <1>3, <2>2, <2>6 DEF c
<1>7. F \in SUBSET Loaded
    BY Zenon DEF LoaderInv, BootInv, LoadedInv
<1>8. \A p \in Page : p < T => p \notin F
    BY Zenon DEF TotalInv, T
<1> HIDE DEF F
<1>9. Loaded \in SUBSET Page
    BY <1>5, Zenon
<1>10. Cardinality(F) <= Cardinality({p \in Page \ Loaded : \E above \in Loaded : p < above})
    BY <1>3, <1>4, <1>6, <1>7, <1>8, <1>9, HolesBound, Zenon
<1> QED
    BY <1>10, Zenon DEF Holes, F

\* Every step after loadMemoryMap keeps the size of memory and the map.
LEMMA SizeKept ==
    ASSUME LoaderInv, [LoaderNext]_allVars, pc # "map"
    PROVE  memManData'.TotalMemory = memManData.TotalMemory /\ UNCHANGED <<map, total>> /\ pc' # "map"
<1>1. "TotalMemory" \in DOMAIN memManData
    BY Zenon DEF LoaderInv, MemoryInv, TypeOK, MemoryManagerData
<1>2. SUFFICES SameTotal(memManData, memManData') /\ UNCHANGED <<map, total>> /\ pc' # "map"
    BY <1>1, Zenon DEF SameTotal
<1>3. CASE BootMap
    <2>1. ~ LoadEntry /\ ~ LoadEnd
        BY Zenon DEF LoadEntry, LoadEnd
    <2>2. CASE reserveEnd
        BY <2>2, Zenon DEF reserveEnd, SameTotal
    <2>3. CASE mapKernelMemory
        BY <2>3, TotalKept, Zenon DEF mapKernelMemory
    <2>4. CASE mapLowMemory
        BY <2>4, TotalKept, Zenon DEF mapLowMemory
    <2>5. CASE reserveModule
        <3> DEFINE size == Modules[index].modEnd - Modules[index].modStart
                   freed == physicalFree(memManData, PageOf(Modules[index].modStart), size \div PAGE_SIZE)
        <3>1. memManData' = Identity(freed, Modules[index].modStart, size)
            BY <2>5, Zenon DEF reserveModule
        <3>2. SameTotal(memManData, freed)
            BY TotalKept, Zenon
        <3> HIDE DEF freed, size
        <3>3. SameTotal(freed, memManData')
            BY <3>1, TotalKept, Zenon
        <3>4. SameTotal(memManData, memManData')
            BY <3>2, <3>3, Zenon DEF SameTotal
        <3> QED
            BY <2>5, <3>4, Zenon DEF reserveModule
    <2> QED
        BY <1>3, <2>1, <2>2, <2>3, <2>4, <2>5, Zenon DEF BootMap
<1>4. CASE OtherTask
    <2>1. ASSUME NEW numPages \in Requests, Allocate(numPages)
          PROVE  SameTotal(memManData, memManData') /\ UNCHANGED <<map, total>> /\ pc' # "map"
        <3>1. memManData' = physicalAllocate(memManData, numPages) /\ UNCHANGED <<map, total, pc>>
            BY <2>1, Zenon DEF Allocate
        <3> QED
            BY <3>1, TotalKept, Zenon
    <2>2. ASSUME NEW grant \in grants, Free(grant)
          PROVE  SameTotal(memManData, memManData') /\ UNCHANGED <<map, total>> /\ pc' # "map"
        <3>1. /\ memManData' = physicalFree(memManData, grant.page, grant.numPages)
              /\ UNCHANGED <<map, total, pc>>
            BY <2>2, Zenon DEF Free
        <3> QED
            BY <3>1, TotalKept, Zenon
    <2> QED
        BY <1>4, <2>1, <2>2, Zenon DEF OtherTask
<1>5. CASE LoadModule
    <2> DEFINE mapped == Identity(memManData, Modules[mod].modStart, ModuleSize(mod))
    <2>1. SameTotal(memManData, mapped)
        BY TotalKept, Zenon
    <2>2. memManData' = mapped \/ memManData' = physicalAllocate(mapped, StackPages)
        BY <1>5, Zenon DEF LoadModule
    <2> HIDE DEF mapped
    <2>3. SameTotal(mapped, physicalAllocate(mapped, StackPages))
        BY TotalKept, Zenon
    <2>4. SameTotal(memManData, memManData')
        BY <2>1, <2>2, <2>3, Zenon DEF SameTotal
    <2> QED
        BY <1>5, <2>4, Zenon DEF LoadModule
<1>6. CASE LoadSegment
    <2>1. PICK n : memManData' = physicalAllocate(memManData, n)
        BY <1>6, Zenon DEF LoadSegment, MapAndCopy
    <2>2. UNCHANGED <<map, total, pc>>
        BY <1>6, Zenon DEF LoadSegment, NextSegment
    <2> QED
        BY <2>1, <2>2, TotalKept, Zenon
<1>7. CASE LoadEndModule \/ UNCHANGED allVars
    BY <1>7, Zenon DEF LoadEndModule, allVars, vars, SameTotal
<1> QED
    BY <1>3, <1>4, <1>5, <1>6, <1>7, Zenon DEF LoaderNext

\* A request for one page that fails has seen every page below the limit in
\* use: page 0, which would be taken for a failure too, is never free.
LEMMA FailureSeesAll ==
    ASSUME LoaderInv, pc = "up", FirstPlace(memManData, 1) = 0
    PROVE  /\ physicalAllocate(memManData, 1) = memManData
           /\ \A p \in Page : p < memManData.TotalMemory \div PAGE_SIZE => p \in memManData.used
<1>1. memManData \in MemoryManagerData /\ 1 \in Nat
    BY Zenon DEF LoaderInv, MemoryInv, TypeOK
<1>2. \A p \in Page : p \in Pages(p, 1)
    <2>1. ASSUME NEW p \in Page PROVE p \in Nat /\ p <= p /\ p < p + 1
        BY DEF Page
    <2> QED
        BY <1>1, <2>1, PageTouched, Zenon
<1>3. 0 \in Page /\ 0 * PAGE_SIZE < _kernel_end
    BY LimitAssumption, FileAssumption, KernelAssumption, PageAssumption DEF Page
<1>4. 0 \in memManData.used
    BY <1>3, Zenon DEF LoaderInv, BootInv, ReservedInv
<1>5. Places(memManData, 1) = {}
    <2> SUFFICES ASSUME Places(memManData, 1) # {} PROVE FALSE
        BY Zenon
    <2>1. Pages(0, 1) \cap memManData.used = {}
        BY <1>1, FirstFree, Zenon
    <2> QED
        BY <1>2, <1>3, <1>4, <2>1, Zenon
<1>6. ASSUME NEW p \in Page, p < memManData.TotalMemory \div PAGE_SIZE, p \notin memManData.used
      PROVE  FALSE
    <2>1. p % NumPages = p /\ p + 0 = p
        BY ModSmall, PageAssumption DEF Page
    <2>2. 0 .. 1 - 1 = {0}
        OBVIOUS
    <2>3. Pages(p, 1) = {p}
        <3>1. Pages(p, 1) = {(p + i) % NumPages : i \in {0}}
            BY <2>2, Zenon DEF Pages
        <3>2. (p + 0) % NumPages = p
            BY <2>1, Zenon
        <3> QED
            BY <3>1, <3>2, Zenon
    <2>4. p \in Places(memManData, 1)
        BY <1>6, <2>3, Zenon DEF Places, isPhysicalFree
    <2> QED
        BY <1>5, <2>4, Zenon
<1> QED
    BY <1>5, <1>6, Zenon DEF physicalAllocate

\* Before the first entry nothing was reported.
LEMMA TotalInit == LoaderInit => TotalInv
<1> SUFFICES ASSUME LoaderInit PROVE TotalInv
    BY Zenon
<1>1. pc = "map" /\ index = 1 /\ total = 0 /\ failed = 0
    BY Zenon DEF LoaderInit, Init
<1>2. \A j \in 1 .. Len(map) : ~ (j < 1)
    OBVIOUS
<1>3. Before(index) = {}
    BY <1>1, <1>2, Zenon DEF Before
<1>4. Reported(index) = {} /\ LoadedTo(index) = {}
    BY <1>3, Zenon DEF Reported, LoadedTo
<1>5. Cardinality(Reported(index)) = 0 /\ Cardinality(LoadedTo(index)) = 0
    BY <1>4, FS_EmptySet, Zenon
<1>6. 0 <= 0 /\ 0 * PAGE_SIZE <= 0 /\ 0 # 1
    BY PageAssumption
<1> QED
    BY <1>1, <1>5, <1>6, Zenon DEF TotalInv

\* loadMemoryMap at an entry: the sum does not wrap around.
LEMMA EntryStep ==
    ASSUME MapsFit, MapsApart, LoaderInv, TotalInv, LoadEntry
    PROVE  TotalInv'
<1>1. /\ pc = "map" /\ pc' = "map" /\ index' = index + 1 /\ UNCHANGED <<map, failed>>
      /\ failed = 0 /\ 0 # 1
    BY DEF LoadEntry, TotalInv
<1>2. index \in 1 .. Len(map) /\ map \in Maps
    <2>1. index \in Nat \ {0} /\ index <= Len(map) /\ map \in Maps
        BY Zenon DEF LoadEntry, LoaderInv, MemoryInv, TypeOK
    <2>2. Len(map) \in Nat
        BY <2>1, MapAssumption
    <2> QED
        BY <2>1, <2>2
<1>3. Reported(index)' = Reported(index + 1) /\ LoadedTo(index)' = LoadedTo(index + 1)
    BY <1>1, Zenon DEF Reported, LoadedTo, Before, Span, UsablePages, Usable
<1>4. /\ total <= Cardinality(Reported(index))
      /\ Cardinality(LoadedTo(index)) * PAGE_SIZE <= total
    BY <1>1, Zenon DEF TotalInv
<1> SUFFICES /\ total' <= Cardinality(Reported(index + 1))
             /\ Cardinality(LoadedTo(index + 1)) * PAGE_SIZE <= total'
    BY <1>1, <1>3, Zenon DEF TotalInv
<1>5. CASE map[index].type = 1
    <2> DEFINE len == Usable(map[index]).length
               r == Cardinality(Reported(index))
               s == Cardinality(Reported(index + 1))
               c == Cardinality(LoadedTo(index)) * PAGE_SIZE
               d == Cardinality(LoadedTo(index + 1)) * PAGE_SIZE
    <2>1. len \in Nat /\ r + len <= s /\ d <= c + len
        BY <1>2, <1>5, RegionStep, Zenon
    <2>2. r \in Nat /\ s \in Nat /\ s < AddressSpace
        BY <1>2, ReportedBounded, Zenon
    <2>3. c \in Nat /\ d \in Nat
        BY <1>2, LoadedToFinite, Monotone, PageAssumption, Zenon
    <2>4. total \in Nat
        BY SpaceIsPositive DEF LoaderInv, MemoryInv, TypeOK
    <2>5. total' = (total + len) % AddressSpace
        BY <1>5, Zenon DEF LoadEntry, Plus
    <2>6. total <= r /\ c <= total
        BY <1>4, Zenon
    <2> HIDE DEF len, r, s, c, d
    <2>7. total + len \in Nat /\ total + len <= s /\ d <= total + len /\ total + len < AddressSpace
        BY <2>1, <2>2, <2>3, <2>4, <2>6, SpaceIsPositive
    <2>8. total' = total + len
        BY <2>5, <2>7, ModSmall, SpaceIsPositive, Zenon
    <2> QED
        BY <2>7, <2>8, Zenon DEF s, d
<1>6. CASE map[index].type # 1
    <2>1. Before(index + 1) = Before(index)
        BY <1>2, <1>6, BeforeNext, Zenon
    <2>2. Reported(index + 1) = Reported(index) /\ LoadedTo(index + 1) = LoadedTo(index)
        BY <2>1, Zenon DEF Reported, LoadedTo
    <2>3. total' = total
        BY <1>6, Zenon DEF LoadEntry
    <2> QED
        BY <1>4, <2>2, <2>3, Zenon
<1> QED
    BY <1>5, <1>6, Zenon

\* At the end of the map every entry was seen.
LEMMA EndStep ==
    ASSUME LoaderInv, TotalInv, LoadEnd
    PROVE  TotalInv'
<1>1. /\ pc = "map" /\ pc' = "kernel" /\ "kernel" # "map" /\ "kernel" # "up" /\ 0 # 1
      /\ memManData' = [memManData EXCEPT !.TotalMemory = total]
      /\ UNCHANGED <<map, total, failed>> /\ failed = 0
    BY DEF LoadEnd, TotalInv
<1>2. memManData'.TotalMemory = total
    BY <1>1, Zenon DEF LoaderInv, MemoryInv, TypeOK, MemoryManagerData
<1>3. \A j \in 1 .. Len(map) : j < index
    <2>1. index \in Nat \ {0} /\ index > Len(map) /\ map \in Maps
        BY Zenon DEF LoadEnd, LoaderInv, MemoryInv, TypeOK
    <2>2. Len(map) \in Nat
        BY <2>1, MapAssumption
    <2> QED
        BY <2>1, <2>2
<1>4. Before(index) = {j \in 1 .. Len(map) : map[j].type = 1}
    BY <1>3, Zenon DEF Before
<1>5. LoadedTo(index) = Loaded
    BY <1>4, Zenon DEF LoadedTo, Loaded, UsablePages
<1>6. Cardinality(Loaded) * PAGE_SIZE <= total
    BY <1>1, <1>5, Zenon DEF TotalInv
<1>7. Loaded' = Loaded
    BY <1>1, Zenon DEF Loaded, Usable
<1> QED
    BY <1>1, <1>2, <1>6, <1>7, Zenon DEF TotalInv

\* Later steps: a request that fails has searched all of it.
LEMMA LaterStep ==
    ASSUME LoaderInv, TotalInv, [LoaderNext]_allVars, pc # "map"
    PROVE  TotalInv'
<1>1. memManData'.TotalMemory = memManData.TotalMemory /\ UNCHANGED <<map, total>> /\ pc' # "map"
    BY SizeKept, Zenon
<1>2. Loaded' = Loaded
    BY <1>1, Zenon DEF Loaded, Usable
<1>3. /\ memManData'.TotalMemory = total' /\ Cardinality(Loaded)' * PAGE_SIZE <= total'
      /\ memManData.TotalMemory = total
    BY <1>1, <1>2, Zenon DEF TotalInv
<1> SUFFICES /\ pc' # "up" => failed' = 0
             /\ failed' = 1 => \A p \in Page : p < total \div PAGE_SIZE => p \in memManData'.used
    BY <1>1, <1>3, Zenon DEF TotalInv
<1>4. 0 # 1
    OBVIOUS
<1>5. CASE BootMap
    <2>1. pc # "up" /\ failed' = failed
        BY <1>5, Zenon DEF BootMap, LoadEntry, LoadEnd, reserveEnd, mapKernelMemory,
                    mapLowMemory, reserveModule
    <2> QED
        BY <1>4, <2>1, Zenon DEF TotalInv
<1>6. ASSUME NEW numPages \in Requests, Allocate(numPages), failed' = 1
      PROVE  \A p \in Page : p < total \div PAGE_SIZE => p \in memManData'.used
    <2>1. pc = "up" /\ memManData' = physicalAllocate(memManData, numPages)
        BY <1>6, Zenon DEF Allocate
    <2>2. ~ (FirstPlace(memManData, numPages) > 0) /\ numPages = 1
        BY <1>4, <1>6, Zenon DEF Allocate
    <2>3. memManData \in MemoryManagerData /\ 1 \in Nat
        BY Zenon DEF LoaderInv, MemoryInv, TypeOK
    <2>4. FirstPlace(memManData, 1) \in Page
        BY <2>3, FirstFree, Zenon
    <2>5. FirstPlace(memManData, 1) = 0
        BY <2>2, <2>4 DEF Page
    <2> QED
        BY <1>3, <2>1, <2>2, <2>5, FailureSeesAll, Zenon
<1>7. CASE OtherTask
    <2>1. pc = "up" /\ pc' = "up"
        BY <1>7, Zenon DEF OtherTask, Allocate, Free
    <2>2. ASSUME NEW grant \in grants, Free(grant) PROVE failed' = 0
        BY <2>2, Zenon DEF Free
    <2> QED
        BY <1>4, <1>6, <1>7, <2>1, <2>2, Zenon DEF OtherTask
<1>8. CASE LoadModule \/ LoadSegment
    <2>1. memManData.used \subseteq memManData'.used
        BY <1>8, LoadTakes, Zenon
    <2>2. failed' = failed /\ pc' = pc
        BY <1>8, Zenon DEF LoadModule, LoadSegment, NextSegment
    <2> QED
        BY <2>1, <2>2, Zenon DEF TotalInv
<1>9. CASE LoadEndModule \/ UNCHANGED allVars
    <2>1. failed' = failed /\ pc' = pc /\ memManData' = memManData
        BY <1>9, Zenon DEF LoadEndModule, allVars, vars
    <2> QED
        BY <2>1, Zenon DEF TotalInv
<1> QED
    BY <1>5, <1>7, <1>8, <1>9, Zenon DEF LoaderNext

\* loadMemoryMap and physicalAllocate, for any memory map whose available
\* regions are apart: a request for one page that fails leaves no more pages
\* free than the map has holes, for the search stops at the sum of the regions
\* and this sum is no smaller than the pages that were freed.
THEOREM LossBounded ==
    ASSUME MapsFit, MapsApart
    PROVE  LoaderSpec => []LossBoundedByHoles
<1>1. LoaderInv /\ TotalInv /\ [LoaderNext]_allVars => TotalInv'
    <2> SUFFICES ASSUME LoaderInv, TotalInv, [LoaderNext]_allVars PROVE TotalInv'
        BY Zenon
    <2>1. CASE pc # "map"
        BY <2>1, LaterStep, Zenon
    <2>2. CASE LoadEntry \/ LoadEnd
        BY <2>2, EntryStep, EndStep, Zenon
    <2>3. CASE UNCHANGED allVars
        <3>1. UNCHANGED <<memManData, map, index, total, pc, failed>>
            BY <2>3, Zenon DEF allVars, vars
        <3>2. Reported(index)' = Reported(index) /\ LoadedTo(index)' = LoadedTo(index)
            BY <3>1, Zenon DEF Reported, LoadedTo, Before, Span, UsablePages, Usable
        <3>3. Loaded' = Loaded
            BY <3>1, Zenon DEF Loaded, Usable
        <3> QED
            BY <3>1, <3>2, <3>3, Zenon DEF TotalInv
    <2>4. pc = "map" /\ LoaderNext => LoadEntry \/ LoadEnd
        BY DEF LoaderNext, BootMap, OtherTask, LoadModule, LoadSegment, AtSegment,
               LoadEndModule, mapKernelMemory, mapLowMemory, reserveModule, reserveEnd,
               Allocate, Free
    <2> QED
        BY <2>1, <2>2, <2>3, <2>4, Zenon
<1>2. LoaderInv /\ TotalInv => LossBoundedByHoles
    BY TotalBounds, Zenon
<1> QED
    BY <1>1, <1>2, TotalInit, LoaderInvariant, PTL DEF LoaderSpec

-----------------------------------------------------------------------------
(* Addresses, page tables and memcpy.                                      *)

\* The page tables: for each page the frame behind it.
Table == [Page -> Nat \cup {Absent}]

\* VirtualMap sets the entries of n pages from v on, and no other.
LEMMA MapsOthers ==
    ASSUME NEW table \in Table, NEW v \in Page, NEW p \in Nat, NEW n \in Nat,
           NEW w \in Page, w \notin Pages(v, n)
    PROVE  VirtualMap(table, v, p, n)[w] = table[w]
<1> DEFINE s == w + NumPages - v
           i == s % NumPages
<1>0. v \in Nat /\ w \in Nat /\ w < NumPages /\ v < NumPages
    BY PageAssumption DEF Page
<1>1. VirtualMap(table, v, p, n)[w] = IF i < n THEN (p + i) % NumPages ELSE table[w]
    BY Zenon DEF VirtualMap
<1>2. i \in Nat /\ s \in Int
    BY <1>0, PageAssumption
<1>3. (v + i) % NumPages = w
    <2>1. v + i = i + v /\ s + v = w + NumPages * 1 /\ v \in Int /\ w \in Int /\ 1 \in Int
        BY <1>0, <1>2, PageAssumption
    <2>2. (i + v) % NumPages = (s + v) % NumPages
        <3> HIDE DEF s
        <3> QED
            BY <1>2, <2>1, ModAdd, PageAssumption, Zenon
    <2>3. (w + NumPages * 1) % NumPages = w % NumPages /\ w % NumPages = w
        BY <1>0, <2>1, ModShift, ModSmall, PageAssumption, Zenon
    <2> HIDE DEF i, s
    <2> QED
        BY <2>1, <2>2, <2>3, Zenon
<1> HIDE DEF i
<1>4. ~ (i < n)
    <2> SUFFICES ASSUME i < n PROVE FALSE
        BY Zenon
    <2>1. i \in 0 .. n - 1
        BY <1>2
    <2> QED
        BY <1>3, <2>1, Zenon DEF Pages
<1> QED
    BY <1>1, <1>4, Zenon

\* A place in a frame.
LEMMA Located ==
    ASSUME NEW f \in Page, NEW r \in Nat, r < PAGE_SIZE
    PROVE  /\ f * PAGE_SIZE + r \in Byte
           /\ PageOf(f * PAGE_SIZE + r) = f /\ (f * PAGE_SIZE + r) % PAGE_SIZE = r
<1>1. f \in Nat /\ f < NumPages
    BY PageAssumption DEF Page
<1>2. f % NumPages = f
    BY <1>1, ModSmall, PageAssumption, Zenon
<1>3. PageOf(f * PAGE_SIZE + r) = f /\ (f * PAGE_SIZE + r) % PAGE_SIZE = r
    BY <1>1, <1>2, PageOfParts, Zenon
<1>4. f * PAGE_SIZE \in Nat /\ (f + 1) * PAGE_SIZE = f * PAGE_SIZE + PAGE_SIZE
    BY <1>1, Monotone, PageAssumption, Zenon
<1>5. (f + 1) * PAGE_SIZE <= NumPages * PAGE_SIZE
    <2>1. f + 1 \in Nat /\ f + 1 <= NumPages
        BY <1>1, PageAssumption
    <2> QED
        BY <2>1, Monotone, PageAssumption, Zenon
<1>6. f * PAGE_SIZE + r \in Byte
    BY <1>4, <1>5, SpaceIsPositive, PageAssumption DEF Byte, AddressSpace
<1> QED
    BY <1>3, <1>6, Zenon

\* An address whose page is identity mapped.
LEMMA SelfTranslate ==
    ASSUME NEW table \in Table, NEW a \in Byte, table[PageOf(a)] = PageOf(a)
    PROVE  Translate(table, a) = a
<1>1. a \in Nat /\ a < AddressSpace
    BY SpaceIsPositive DEF Byte
<1>2. PageOf(a) = a \div PAGE_SIZE
    BY <1>1, PageOfSmall, Zenon
<1>3. a = (a \div PAGE_SIZE) * PAGE_SIZE + (a % PAGE_SIZE)
    BY <1>1, DivBounds, PageAssumption, Zenon
<1> QED
    BY <1>2, <1>3, Zenon DEF Translate

\* The frames behind byte k of size bytes that the table T maps to pages from
\* p on.
MappedRight(T, to, p, size, k) ==
    LET n == NumPagesOf(size)
        j == (k \div PAGE_SIZE) % NumPages
    IN  /\ T[PageOf(to + k)] = (p + j) % NumPages /\ j \in 0 .. n - 1
        /\ T[PageOf(to + k)] \in Pages(p, n) /\ T[PageOf(to + k)] \in Page
        /\ Translate(T, to + k) = ((p + j) % NumPages) * PAGE_SIZE + (k % PAGE_SIZE)
        /\ Translate(T, to + k) \in Byte
        /\ PageOf(Translate(T, to + k)) = T[PageOf(to + k)]
        /\ Translate(T, to + k) % PAGE_SIZE = k % PAGE_SIZE
        /\ PageOf(to + k) \in Pages(PageOf(to), n)

\* VirtualMap makes such a table.
LEMMA MappedBytes ==
    ASSUME NEW table \in Table, NEW to \in Nat, to % PAGE_SIZE = 0, NEW p \in Page,
           NEW size \in Nat, NEW k \in 0 .. size - 1
    PROVE  MappedRight(VirtualMap(table, PageOf(to), p, NumPagesOf(size)), to, p, size, k)
<1> DEFINE n == NumPagesOf(size)
           v == PageOf(to)
           T == VirtualMap(table, v, p, n)
           c == k \div PAGE_SIZE
           j == c % NumPages
           w == PageOf(to + k)
           r == k % PAGE_SIZE
<1>0. k \in Nat /\ p \in Nat
    BY DEF Page
<1>1. /\ w = (v + c) % NumPages /\ (to + k) % PAGE_SIZE = r
      /\ c \in Nat /\ v \in Page
    BY <1>0, PageSteps, Zenon
<1>2. n \in Nat /\ c < n
    BY EnoughPages, Zenon
<1>3. r \in Nat /\ r < PAGE_SIZE
    BY <1>0, DivBounds, PageAssumption, Zenon
<1> HIDE DEF n, c, w, r, v
<1>4. T[w] = (p + j) % NumPages /\ j \in Nat /\ j < n
    <2>1. /\ w \in Page /\ (w + NumPages - v) % NumPages = j /\ j \in Nat /\ j <= c
        BY <1>1, Unshift, Zenon
    <2>2. j < n
        BY <1>1, <1>2, <2>1
    <2>3. T[w] = IF j < n THEN (p + j) % NumPages ELSE table[w]
        <3> HIDE DEF j
        <3> QED
            BY <2>1, Zenon DEF VirtualMap
    <2> QED
        BY <2>1, <2>2, <2>3, Zenon
<1>5. j \in 0 .. n - 1
    BY <1>2, <1>4
<1>6. c \in 0 .. n - 1
    BY <1>1, <1>2
<1>7. (p + j) % NumPages \in Pages(p, n) /\ w \in Pages(v, n)
    <2> HIDE DEF j
    <2> QED
        BY <1>1, <1>5, <1>6, Zenon DEF Pages
<1>8. (p + j) % NumPages \in Page
    BY <1>0, <1>2, <1>7, PagesInPage, Zenon
<1> DEFINE f == (p + j) % NumPages
<1> HIDE DEF f, T, j
<1>9. /\ f * PAGE_SIZE + r \in Byte
      /\ PageOf(f * PAGE_SIZE + r) = f /\ (f * PAGE_SIZE + r) % PAGE_SIZE = r
    BY <1>3, <1>8, Located, Zenon DEF f
<1>10. Translate(T, to + k) = f * PAGE_SIZE + r
    BY <1>1, <1>4, Zenon DEF Translate, w, f
<1>11. /\ T[w] = f /\ j \in 0 .. n - 1 /\ f \in Pages(p, n) /\ f \in Page
       /\ w \in Pages(v, n)
    BY <1>4, <1>5, <1>7, <1>8, Zenon DEF f
<1>12. /\ T[w] = f /\ j \in 0 .. n - 1
       /\ T[w] \in Pages(p, n) /\ T[w] \in Page
       /\ Translate(T, to + k) = f * PAGE_SIZE + r
       /\ Translate(T, to + k) \in Byte
       /\ PageOf(Translate(T, to + k)) = T[w]
       /\ Translate(T, to + k) % PAGE_SIZE = r
       /\ w \in Pages(v, n)
    BY <1>9, <1>10, <1>11, Zenon
<1> QED
    BY <1>12, Zenon DEF MappedRight, f, n, T, c, j, w, r, v

\* What memcpy does through a table.
CopyRight(contents, T, to, from, size) ==
    LET result == Copy(contents, T, to, from, size) IN
    /\ Faults(T, to, size) = {} /\ DOMAIN result = Byte
    /\ \A b \in Byte :
           \/ /\ result[b] = contents[b]
              /\ \A k \in 0 .. size - 1 : Translate(T, to + k) # b
           \/ \E k \in 0 .. size - 1 : /\ Translate(T, to + k) = b
                                       /\ result[b] = contents[Translate(T, from + k)]

\* memcpy to pages just mapped.
LEMMA CopyEffect ==
    ASSUME NEW contents, DOMAIN contents = Byte, NEW table \in Table,
           NEW to \in Nat, to % PAGE_SIZE = 0, NEW p \in Page, NEW size \in Nat, NEW from
    PROVE  CopyRight(contents, VirtualMap(table, PageOf(to), p, NumPagesOf(size)), to, from, size)
<1> DEFINE T == VirtualMap(table, PageOf(to), p, NumPagesOf(size))
           result == Copy(contents, T, to, from, size)
           hit(b) == {k \in 0 .. size - 1 : Translate(T, to + k) = b}
<1>1. \A k \in 0 .. size - 1 : T[PageOf(to + k)] \in Nat
    <2>1. \A k \in 0 .. size - 1 : T[PageOf(to + k)] \in Page
        BY MappedBytes, Zenon DEF MappedRight
    <2>2. Page \subseteq Nat
        BY DEF Page
    <2> QED
        BY <2>1, <2>2, Zenon
<1> HIDE DEF T
<1>2. ~ \E k \in 0 .. size - 1 : T[PageOf(to + k)] = Absent
    BY <1>1, FileAssumption, Zenon
<1>3. result = [b \in Byte |-> IF hit(b) = {} THEN contents[b]
                             ELSE contents[Translate(T, from + (CHOOSE k \in hit(b) : TRUE))]]
    BY <1>2, Zenon DEF Copy
<1>4. DOMAIN result = Byte /\ Faults(T, to, size) = {}
    BY <1>2, <1>3, Zenon DEF Faults
<1> HIDE DEF result
<1>5. ASSUME NEW b \in Byte
      PROVE  \/ /\ result[b] = contents[b]
                /\ \A k \in 0 .. size - 1 : Translate(T, to + k) # b
             \/ \E k \in 0 .. size - 1 : /\ Translate(T, to + k) = b
                                         /\ result[b] = contents[Translate(T, from + k)]
    <2>1. CASE hit(b) = {}
        BY <1>3, <2>1, Zenon
    <2>2. CASE hit(b) # {}
        <3> DEFINE k0 == CHOOSE k \in hit(b) : TRUE
        <3>1. k0 \in hit(b)
            BY <2>2, Zenon
        <3>2. result[b] = contents[Translate(T, from + k0)]
            BY <1>3, <2>2, Zenon
        <3>3. k0 \in 0 .. size - 1 /\ Translate(T, to + k0) = b
            BY <3>1, Zenon
        <3> HIDE DEF k0
        <3> QED
            BY <3>2, <3>3, Zenon
    <2> QED
        BY <2>1, <2>2, Zenon
<1> QED
    BY <1>4, <1>5, Zenon DEF CopyRight, T, result

-----------------------------------------------------------------------------
(* The images of the modules and the steps of load.                        *)

\* A byte of a module's image.
LEMMA ImageByte ==
    ASSUME NEW m \in 1 .. Len(Modules), NEW k \in 0 .. ModuleSize(m) - 1
    PROVE  LET a == Modules[m].modStart + k IN
           /\ a \in Byte /\ a \in Nat /\ PageOf(a) \in Image(m) /\ PageOf(a) \in Page
           /\ PageOf(a) \in ModulePages(m) /\ ~ (a < __start)
<1> DEFINE start == Modules[m].modStart
           size == ModuleSize(m)
           a == start + k
           q == a \div PAGE_SIZE
<1>1. start \in Nat /\ size \in Nat /\ Modules[m].modEnd = start + size
    BY ModuleFields, Zenon
<1>2. __start <= start /\ start + size <= AddressSpace
    BY <1>1, ImageAssumption, Zenon
<1>3. PageOf(a) \in Image(m)
    BY Zenon DEF Image
<1> HIDE DEF start, size
<1>4. k \in 0 .. size - 1
    BY Zenon DEF size
<1>5. a \in Nat /\ a < AddressSpace /\ a < start + size /\ start <= a /\ ~ (a < __start)
    BY <1>1, <1>2, <1>4, SpaceIsPositive, KernelAssumption
<1>6. a \in Byte
    BY <1>5, SpaceIsPositive DEF Byte
<1> HIDE DEF a
<1>7. PageOf(a) = q
    BY <1>5, PageOfSmall, Zenon
<1>8. q \in Nat /\ q * PAGE_SIZE <= a /\ a < (q + 1) * PAGE_SIZE
    BY <1>5, DivBounds, PageAssumption, Zenon
<1> HIDE DEF q
<1>9. q * PAGE_SIZE \in Nat /\ (q + 1) * PAGE_SIZE \in Nat
    BY <1>8, PageAssumption
<1>10. start < (q + 1) * PAGE_SIZE /\ q * PAGE_SIZE < start + size /\ q * PAGE_SIZE < AddressSpace
    BY <1>1, <1>5, <1>8, <1>9, SpaceIsPositive
<1>11. q \in Page
    BY <1>8, <1>10, PageFits, Zenon
<1>12. q \in ModulePages(m)
    BY <1>1, <1>10, <1>11, Zenon DEF ModulePages, start
<1>13. /\ a \in Byte /\ a \in Nat /\ PageOf(a) \in Image(m) /\ PageOf(a) \in Page
       /\ PageOf(a) \in ModulePages(m) /\ ~ (a < __start)
    BY <1>3, <1>5, <1>6, <1>7, <1>11, <1>12, Zenon
<1> QED
    BY <1>13, Zenon DEF a, start

\* The images are among the pages that init keeps.
LEMMA ImageUsed ==
    ASSUME LoaderInv, ModulesAligned, pc = "up", NEW m \in 1 .. Len(Modules)
    PROVE  Image(m) \subseteq memManData.used /\ Image(m) \subseteq Page
           /\ Image(m) \subseteq Reserved
<1>1. Image(m) \subseteq ModulePages(m) /\ Image(m) \subseteq Page
    BY ImageByte, Zenon DEF Image
<1>2. ModulePages(m) \subseteq Reserved
    BY Zenon DEF ModulePages, Reserved
<1>3. Reserved \subseteq memManData.used
    BY Zenon DEF LoaderInv, BootInv, ReservedInv
<1> QED
    BY <1>1, <1>2, <1>3, Zenon

\* identityMap of an image maps its pages to themselves.
LEMMA ImageMapped ==
    ASSUME ModulesAligned, NEW m \in 1 .. Len(Modules), NEW table \in Table, NEW p \in Image(m)
    PROVE  identityMap(table, Modules[m].modStart, ModuleSize(m))[p] = p
<1> DEFINE start == Modules[m].modStart
           size == ModuleSize(m)
           v == PageOf(start)
           n == size \div PAGE_SIZE + 1
<1>1. start \in Nat /\ size \in Nat /\ start % PAGE_SIZE = 0
    BY ModuleFields, Zenon DEF ModulesAligned
<1>2. PICK k \in 0 .. size - 1 : p = PageOf(start + k)
    BY Zenon DEF Image
<1> HIDE DEF size, start
<1>3. k \in Nat
    BY <1>2
<1> DEFINE c == k \div PAGE_SIZE
           j == c % NumPages
<1>4. p = (v + c) % NumPages /\ c \in Nat /\ v \in Page
    BY <1>1, <1>2, <1>3, PageSteps, Zenon
<1>5. c < n /\ n \in Nat
    <2> DEFINE d == size \div PAGE_SIZE
    <2>1. d \in Nat /\ size < (d + 1) * PAGE_SIZE
        BY <1>1, DivBounds, PageAssumption, Zenon
    <2>2. c * PAGE_SIZE <= k
        BY <1>3, DivBounds, PageAssumption, Zenon
    <2> HIDE DEF c, d
    <2>3. c * PAGE_SIZE \in Nat /\ (d + 1) * PAGE_SIZE \in Nat
        BY <1>4, <2>1, PageAssumption
    <2>4. c * PAGE_SIZE < (d + 1) * PAGE_SIZE
        BY <1>1, <1>2, <2>1, <2>2, <2>3
    <2>5. c < d + 1
        <3>1. d + 1 \in Nat
            BY <2>1
        <3> QED
            BY <1>4, <2>4, <3>1, Monotone, PageAssumption, Zenon
    <2> QED
        BY <2>1, <2>5 DEF d
<1>6. identityMap(table, start, size) = VirtualMap(table, v, v, n)
    BY <1>1, AlignedPages, Zenon DEF identityMap
<1> HIDE DEF v, n, c
<1>7. /\ p \in Page /\ (p + NumPages - v) % NumPages = j /\ j \in Nat /\ j <= c
    BY <1>4, Unshift, Zenon
<1>8. j < n
    BY <1>4, <1>5, <1>7
<1>9. VirtualMap(table, v, v, n)[p] = (v + j) % NumPages
    <2> HIDE DEF j
    <2> QED
        BY <1>7, <1>8, Zenon DEF VirtualMap
<1>10. (v + j) % NumPages = p
    <2>1. v \in Int /\ c \in Int /\ v + j = j + v /\ v + c = c + v
        BY <1>4, <1>7 DEF Page
    <2>2. (j + v) % NumPages = (c + v) % NumPages
        BY <2>1, ModAdd, PageAssumption, Zenon
    <2> QED
        BY <1>4, <2>1, <2>2, Zenon
<1>11. identityMap(table, start, size)[p] = p
    BY <1>6, <1>9, <1>10, Zenon
<1> QED
    BY <1>11, Zenon DEF start, size

\* VirtualMap returns a page table.
LEMMA TableKept ==
    ASSUME NEW table \in Table, NEW v \in Page, NEW p \in Nat, NEW n \in Nat
    PROVE  VirtualMap(table, v, p, n) \in Table
<1>1. ASSUME NEW w \in Page
      PROVE  (p + ((w + NumPages - v) % NumPages)) % NumPages \in Nat
    BY PageAssumption DEF Page
<1>2. \A w \in Page : table[w] \in Nat \cup {Absent}
    BY Zenon DEF Table
<1> QED
    BY <1>1, <1>2, Zenon DEF VirtualMap, Table

\* So does identityMap.
LEMMA IdentityKept ==
    ASSUME NEW table \in Table, NEW address \in Nat, NEW size \in Nat
    PROVE  identityMap(table, address, size) \in Table
<1>1. PageOf(address) \in Page
    BY PageOfIsPage, Zenon
<1>2. PAGE_ALIGN(size) \div PAGE_SIZE \in Nat
    <2>1. size \div PAGE_SIZE + 1 \in Nat
        BY PageAssumption
    <2> QED
        BY <2>1, AlignedPages, Zenon
<1>3. Page \subseteq Nat
    BY DEF Page
<1> QED
    BY <1>1, <1>2, <1>3, TableKept, Zenon DEF identityMap

\* The program header that load is at: its segment, how many bytes and pages
\* it takes, the address rounded down, and the page table with its pages.
AtHeader == files[mod].segments[sec]
AtSize == AtHeader.filesz % FieldLimit
AtPages == NumPagesOf(AtSize)
AtAddress == AtHeader.vaddr - (AtHeader.vaddr % PAGE_SIZE)
AtFrame == FirstPlace(memManData, AtPages)
AtTable == VirtualMap(kernelPageTable, PageOf(AtAddress), AtFrame, AtPages)

\* While load goes through the headers of an image, it is identity mapped.
SelfMapped ==
    sec > 0 => mod \in 1 .. Len(Modules) /\ \A p \in Image(mod) : kernelPageTable[p] = p

\* The inductive invariant for the copies of load.
CopyInv ==
    /\ LoaderInv /\ kernelPageTable \in Table /\ DOMAIN memory = Byte
    /\ SelfMapped /\ "fault" \notin mishap

\* The fields of the header load is at.
LEMMA HeaderFields ==
    ASSUME LoaderInv, AtSegment
    PROVE  /\ mod \in 1 .. Len(Modules) /\ sec \in 1 .. Len(files[mod].segments)
           /\ AtSize \in Nat /\ AtSize < FieldLimit /\ AtPages \in Nat /\ AtPages <= NumPages
           /\ AtHeader.vaddr \in Nat /\ AtHeader.offset \in Nat
           /\ AtHeader.offset + AtSize <= ModuleSize(mod)
           /\ files[mod].phoff + sec - 1 \in 0 .. ModuleSize(mod) - 1
<1>1. mod \in 1 .. Len(Modules) /\ sec \in 1 .. Len(files[mod].segments)
    <2>1. mod \in Nat \ {0} /\ mod <= Len(Modules) /\ sec \in 1 .. Len(files[mod].segments)
        BY Zenon DEF AtSegment, LoaderInv, LoaderType
    <2>2. Len(Modules) \in Nat
        BY ModuleAssumption
    <2> QED
        BY <2>1, <2>2
<1>2. map \in Maps /\ LoaderType /\ files \in Files[map]
    BY Zenon DEF LoaderInv, MemoryInv, TypeOK, LoaderType
<1>3. /\ AtHeader.vaddr \in Nat /\ AtHeader.offset \in Nat /\ AtSize \in Nat
      /\ AtSize < FieldLimit /\ files[mod].phoff \in Nat /\ Len(files[mod].segments) \in Nat
    BY <1>1, <1>2, SegmentFields, Zenon DEF AtHeader, AtSize
<1>4. /\ files[mod].phoff + Len(files[mod].segments) <= ModuleSize(mod)
      /\ AtHeader.offset + AtSize <= ModuleSize(mod)
    BY <1>1, <1>2, FileAssumption, Zenon DEF AtHeader, AtSize
<1>5. Modules[mod].modStart \in Nat /\ ModuleSize(mod) \in Nat
      /\ Modules[mod].modStart + ModuleSize(mod) <= AddressSpace
    BY <1>1, ModuleFields, ImageAssumption, Zenon
<1>6. AtSize <= AddressSpace
    BY <1>3, <1>4, <1>5, SpaceIsPositive
<1>7. AtPages \in Nat /\ AtPages <= NumPages
    BY <1>3, <1>6, EnoughPages, Zenon DEF AtPages
<1>8. files[mod].phoff + sec - 1 \in 0 .. ModuleSize(mod) - 1
    <2> DEFINE f == files[mod].phoff
               l == Len(files[mod].segments)
               s == ModuleSize(mod)
    <2>1. f \in Nat /\ l \in Nat /\ s \in Nat /\ f + l <= s /\ sec \in 1 .. l
        BY <1>1, <1>3, <1>4, <1>5, Zenon
    <2> HIDE DEF f, l, s
    <2>2. f + sec - 1 \in 0 .. s - 1
        BY <2>1
    <2> QED
        BY <2>2, Zenon DEF f, s
<1> QED
    BY <1>1, <1>3, <1>4, <1>7, <1>8, Zenon

\* The address rounded down is in the same page.
LEMMA HeaderAddress ==
    ASSUME LoaderInv, AtSegment
    PROVE  /\ AtAddress \in Nat /\ AtAddress % PAGE_SIZE = 0
           /\ PageOf(AtAddress) = PageOf(AtHeader.vaddr)
           /\ AtHeader.vaddr % PAGE_SIZE = 0 => AtAddress = AtHeader.vaddr
           /\ Image(mod) \cap Pages(PageOf(AtAddress), AtPages) = {}
<1> DEFINE a == AtHeader.vaddr
           q == a \div PAGE_SIZE
           r == a % PAGE_SIZE
<1>1. a \in Nat
    BY HeaderFields, Zenon
<1>2. q \in Nat /\ r \in Nat /\ r < PAGE_SIZE /\ a = q * PAGE_SIZE + r
    <2> HIDE DEF a
    <2> QED
        BY <1>1, DivBounds, PageAssumption, Zenon
<1>3. AtAddress = a - r
    BY Zenon DEF AtAddress
<1> HIDE DEF a, q, r
<1>4. q * PAGE_SIZE \in Nat /\ 0 \in Nat /\ 0 < PAGE_SIZE
    BY <1>2, PageAssumption
<1>5. AtAddress = q * PAGE_SIZE + 0 /\ AtAddress \in Nat /\ (r = 0 => AtAddress = a)
    BY <1>1, <1>2, <1>3, <1>4
<1>6. PageOf(q * PAGE_SIZE + 0) = q % NumPages /\ (q * PAGE_SIZE + 0) % PAGE_SIZE = 0
    BY <1>2, <1>4, PageOfParts, Zenon
<1>7. PageOf(q * PAGE_SIZE + r) = q % NumPages
    BY <1>2, PageOfParts, Zenon
<1>8. PageOf(AtAddress) = PageOf(a) /\ AtAddress % PAGE_SIZE = 0
    <2> DEFINE x == q * PAGE_SIZE + 0
               y == q * PAGE_SIZE + r
    <2>1. PageOf(x) = PageOf(y) /\ x % PAGE_SIZE = 0 /\ AtAddress = x /\ a = y
        BY <1>2, <1>5, <1>6, <1>7, Zenon
    <2> HIDE DEF x, y
    <2> QED
        BY <2>1, Zenon
<1>9. Image(mod) \cap Pages(PageOf(a), AtPages) = {}
    <2>1. mod \in 1 .. Len(Modules) /\ sec \in 1 .. Len(files[mod].segments)
        BY HeaderFields, Zenon
    <2>2. map \in Maps /\ files \in Files[map]
        BY Zenon DEF LoaderInv, MemoryInv, TypeOK, LoaderType
    <2> QED
        BY <2>1, <2>2, FileAssumption, Zenon DEF AtHeader, AtSize, AtPages, a
<1> QED
    BY <1>5, <1>8, <1>9, Zenon DEF a, r

\* What load does with a program header, in these terms.
LEMMA SegmentStep ==
    ASSUME LoadSegment
    PROVE  /\ AtSegment /\ memManData' = physicalAllocate(memManData, AtPages)
           /\ kernelPageTable' = AtTable
           /\ memory' = Copy(RoundHeader, AtTable, AtAddress,
                             Modules[mod].modStart + AtHeader.offset, AtSize)
           /\ mishap' = mishap \cup Clash(AtTable) \cup Faults(AtTable, AtAddress, AtSize)
                        \cup (IF AtPages > 0 /\ AtFrame = 0 THEN {"exhausted"} ELSE {})
           /\ sec' = sec + 1
           /\ UNCHANGED <<map, index, total, pc, grants, failed, files, mod, loaded>>
    BY Zenon DEF LoadSegment, MapAndCopy, NextSegment, AtHeader, AtSize, AtPages, AtAddress,
                 AtFrame, AtTable

\* The header itself is in the image.
LEMMA HeaderPage ==
    ASSUME LoaderInv, AtSegment
    PROVE  /\ mod \in 1 .. Len(Modules) /\ sec > 0
           /\ FieldOf(mod, sec) = Modules[mod].modStart + (files[mod].phoff + sec - 1)
           /\ FieldOf(mod, sec) \in Byte /\ PageOf(FieldOf(mod, sec)) \in Image(mod)
<1> DEFINE a == FieldOf(mod, sec)
           k == files[mod].phoff + sec - 1
<1>1. /\ mod \in 1 .. Len(Modules) /\ k \in 0 .. ModuleSize(mod) - 1
      /\ sec \in 1 .. Len(files[mod].segments)
    BY HeaderFields, Zenon
<1>2. map \in Maps /\ LoaderType /\ sec \in Nat
    BY Zenon DEF LoaderInv, MemoryInv, TypeOK, LoaderType
<1>3. files[mod].phoff \in Nat /\ Modules[mod].modStart \in Nat
    BY <1>1, <1>2, SegmentFields, ModuleFields, Zenon
<1>4. sec > 0 /\ a = Modules[mod].modStart + k
    BY <1>1, <1>2, <1>3 DEF FieldOf
<1> HIDE DEF a, k
<1>5. a \in Byte /\ PageOf(a) \in Image(mod)
    BY <1>1, <1>4, ImageByte, Zenon
<1> QED
    BY <1>1, <1>4, <1>5, Zenon DEF a, k

\* load changes no byte of memory but its header when it rounds the address.
LEMMA RoundEffect ==
    ASSUME CopyInv, AtSegment
    PROVE  /\ DOMAIN RoundHeader = Byte
           /\ \A b \in Byte : \/ RoundHeader[b] = memory[b]
                              \/ b = FieldOf(mod, sec) /\ AtHeader.vaddr % PAGE_SIZE # 0
<1>1. CASE AtHeader.vaddr % PAGE_SIZE = 0
    BY <1>1, Zenon DEF CopyInv, RoundHeader, AtHeader
<1>2. CASE AtHeader.vaddr % PAGE_SIZE # 0
    <2> DEFINE a == FieldOf(mod, sec)
    <2>1. mod \in 1 .. Len(Modules) /\ sec > 0 /\ a \in Byte /\ PageOf(a) \in Image(mod)
        BY HeaderPage, Zenon DEF CopyInv
    <2> HIDE DEF a
    <2>4. kernelPageTable[PageOf(a)] = PageOf(a)
        BY <2>1, Zenon DEF CopyInv, SelfMapped
    <2>5. Translate(kernelPageTable, a) = a
        BY <2>1, <2>4, SelfTranslate, Zenon DEF CopyInv
    <2>6. RoundHeader = [memory EXCEPT ![a] = Rounded]
        BY <1>2, <2>5, Zenon DEF RoundHeader, AtHeader, a
    <2>7. DOMAIN memory = Byte
        BY Zenon DEF CopyInv
    <2> QED
        BY <1>2, <2>6, <2>7, Zenon DEF a
<1> QED
    BY <1>1, <1>2, Zenon

\* The first frames hold the first bytes: where a copy goes that was given
\* page 0.
LEMMA LowCopy ==
    ASSUME NEW k \in Nat, NEW p, p = 0
    PROVE  ((p + ((k \div PAGE_SIZE) % NumPages)) % NumPages) * PAGE_SIZE + (k % PAGE_SIZE) <= k
<1> DEFINE c == k \div PAGE_SIZE
           j == c % NumPages
           r == k % PAGE_SIZE
<1>1. c \in Nat /\ r \in Nat /\ k = c * PAGE_SIZE + r
    BY DivBounds, PageAssumption, Zenon
<1> HIDE DEF c, r
<1>2. j \in Nat /\ j < NumPages /\ j <= c
    <2>1. 0 \in Page
        BY PageAssumption DEF Page
    <2> QED
        BY <1>1, <2>1, Unshift, Zenon
<1> HIDE DEF j
<1>3. p + j = j
    BY <1>2
<1>4. j % NumPages = j
    BY <1>2, ModSmall, PageAssumption, Zenon
<1>5. j * PAGE_SIZE <= c * PAGE_SIZE /\ j * PAGE_SIZE \in Nat /\ c * PAGE_SIZE \in Nat
    BY <1>1, <1>2, Monotone, PageAssumption, Zenon
<1>6. j * PAGE_SIZE + r <= k
    BY <1>1, <1>5
<1>7. ((p + j) % NumPages) * PAGE_SIZE + r <= k
    BY <1>3, <1>4, <1>6, Zenon
<1> QED
    BY <1>7, Zenon DEF c, j, r

\* What load changes for one program header.
LEMMA SegmentChange ==
    ASSUME CopyInv, LoadSegment, NEW b \in Byte, memory'[b] # memory[b]
    PROVE  \/ PageOf(b) \notin memManData.used
           \/ b = FieldOf(mod, sec) /\ AtHeader.vaddr % PAGE_SIZE # 0
           \/ "exhausted" \in mishap' /\ b < __start
<1> DEFINE from == Modules[mod].modStart + AtHeader.offset
<1>1. /\ AtSegment /\ LoaderInv /\ kernelPageTable \in Table /\ memManData \in MemoryManagerData
      /\ memory' = Copy(RoundHeader, AtTable, AtAddress, from, AtSize)
    BY SegmentStep, Zenon DEF CopyInv, LoaderInv, MemoryInv, TypeOK
<1>2. AtSize \in Nat /\ AtSize < FieldLimit /\ AtPages \in Nat
    BY <1>1, HeaderFields, Zenon
<1>3. AtAddress \in Nat /\ AtAddress % PAGE_SIZE = 0
    BY <1>1, HeaderAddress, Zenon
<1>4. /\ AtFrame \in Page
      /\ Places(memManData, AtPages) # {} => Pages(AtFrame, AtPages) \cap memManData.used = {}
      /\ Places(memManData, AtPages) = {} => AtFrame = 0
    BY <1>1, <1>2, FirstFree, Zenon DEF AtFrame
<1>5. DOMAIN RoundHeader = Byte
    BY <1>1, RoundEffect, Zenon
<1> HIDE DEF from
<1>6. \/ memory'[b] = RoundHeader[b]
      \/ \E k \in 0 .. AtSize - 1 : Translate(AtTable, AtAddress + k) = b
    <2>1. CopyRight(RoundHeader, AtTable, AtAddress, from, AtSize)
        BY <1>1, <1>2, <1>3, <1>4, <1>5, CopyEffect, Zenon DEF AtTable, AtPages
    <2> QED
        BY <1>1, <2>1, Zenon DEF CopyRight
<1>7. CASE memory'[b] = RoundHeader[b]
    BY <1>1, <1>7, RoundEffect, Zenon
<1>8. ASSUME NEW k \in 0 .. AtSize - 1, Translate(AtTable, AtAddress + k) = b
      PROVE  PageOf(b) \notin memManData.used \/ ("exhausted" \in mishap' /\ b < __start)
    <2> DEFINE j == (k \div PAGE_SIZE) % NumPages
    <2>1. /\ j \in 0 .. AtPages - 1 /\ PageOf(b) \in Pages(AtFrame, AtPages)
          /\ b = ((AtFrame + j) % NumPages) * PAGE_SIZE + (k % PAGE_SIZE)
        <3>1. /\ j \in 0 .. AtPages - 1
              /\ AtTable[PageOf(AtAddress + k)] \in Pages(AtFrame, AtPages)
              /\ PageOf(Translate(AtTable, AtAddress + k)) = AtTable[PageOf(AtAddress + k)]
              /\ Translate(AtTable, AtAddress + k)
                     = ((AtFrame + j) % NumPages) * PAGE_SIZE + (k % PAGE_SIZE)
            <4>1. MappedRight(AtTable, AtAddress, AtFrame, AtSize, k)
                BY <1>1, <1>2, <1>3, <1>4, MappedBytes, Zenon DEF AtTable, AtPages
            <4> QED
                BY <4>1, Zenon DEF MappedRight, AtPages
        <3> HIDE DEF j
        <3> QED
            BY <1>8, <3>1, Zenon
    <2>2. CASE Places(memManData, AtPages) # {}
        BY <1>4, <2>1, <2>2, Zenon
    <2>3. CASE Places(memManData, AtPages) = {}
        <3>1. AtFrame = 0 /\ AtPages > 0
            BY <1>2, <1>4, <2>1, <2>3
        <3>2. "exhausted" \in mishap'
            BY <3>1, SegmentStep, Zenon
        <3>3. k \in Nat /\ k < AtSize
            BY <1>2
        <3>4. b <= k
            BY <2>1, <3>1, <3>3, LowCopy, Zenon
        <3>5. b < __start
            BY <1>2, <3>3, <3>4, LimitAssumption, FileAssumption, KernelAssumption,
               SpaceIsPositive DEF Byte
        <3> QED
            BY <3>2, <3>5, Zenon
    <2> QED
        BY <2>2, <2>3, Zenon
<1> QED
    BY <1>6, <1>7, <1>8, Zenon

\* What a step changes in memory.
LEMMA MemoryChange ==
    ASSUME CopyInv, [LoaderNext]_allVars, NEW b \in Byte, memory'[b] # memory[b]
    PROVE  /\ pc = "up"
           /\ \/ PageOf(b) \notin memManData.used
              \/ AtSegment /\ b = FieldOf(mod, sec) /\ AtHeader.vaddr % PAGE_SIZE # 0
              \/ "exhausted" \in mishap' /\ b < __start
<1>0. memManData \in MemoryManagerData
    BY Zenon DEF CopyInv, LoaderInv, MemoryInv, TypeOK
<1>1. CASE BootMap \/ LoadEndModule \/ UNCHANGED allVars
    BY <1>1, Zenon DEF BootMap, LoadEndModule, allVars, loaderVars
<1>2. CASE OtherTask
    <2>1. PICK numPages \in Requests : Allocate(numPages) /\ Overwrite(memManData'.used \ memManData.used)
        BY <1>2, Zenon DEF OtherTask
    <2>2. pc = "up" /\ PageOf(b) \in memManData'.used \ memManData.used
        BY <2>1, Zenon DEF Overwrite, Allocate
    <2> QED
        BY <2>2, Zenon
<1>3. CASE LoadModule
    <2> DEFINE mapped == Identity(memManData, Modules[mod].modStart, ModuleSize(mod))
    <2>1. pc = "up" /\ (memory' = memory \/ Overwrite(memManData'.used \ mapped.used))
        BY <1>3, Zenon DEF LoadModule
    <2>2. mod \in 1 .. Len(Modules)
        BY <1>3, ModuleAssumption DEF LoadModule, CopyInv, LoaderInv, LoaderType
    <2>3. Modules[mod].modStart \in Nat /\ ModuleSize(mod) \in Nat
        BY <2>2, ModuleFields, Zenon
    <2>4. memManData.used \subseteq mapped.used
        <3>1. mapped.used = memManData.used
                  \cup Pages(PageOf(Modules[mod].modStart), PAGE_ALIGN(ModuleSize(mod)) \div PAGE_SIZE)
            BY <1>0, <2>3, IdentityTakes, Zenon
        <3> HIDE DEF mapped
        <3> QED
            BY <3>1, Zenon
    <2> HIDE DEF mapped
    <2> QED
        BY <2>1, <2>4, Zenon DEF Overwrite
<1>4. CASE LoadSegment
    <2>1. AtSegment /\ pc = "up"
        BY <1>4, SegmentStep, Zenon DEF AtSegment
    <2> QED
        BY <1>4, <2>1, SegmentChange, Zenon
<1> QED
    BY <1>1, <1>2, <1>3, <1>4, Zenon DEF LoaderNext

\* The page tables that init sets.
LEMMA BootTable ==
    ASSUME LoaderInv, kernelPageTable \in Table, BootMap
    PROVE  kernelPageTable' \in Table
<1>1. CASE UNCHANGED kernelPageTable
    BY <1>1, Zenon
<1>2. CASE mapKernelMemory /\ kernelPageTable' =
              identityMap(kernelPageTable, __start - (__start % PAGE_SIZE), KernelSize)
    <2>1. /\ __start % PAGE_SIZE \in Nat /\ __start % PAGE_SIZE <= __start
        <3> DEFINE r == __start % PAGE_SIZE
                   q == __start \div PAGE_SIZE
        <3>1. q \in Nat /\ r \in Nat /\ __start = q * PAGE_SIZE + r
            BY KernelAssumption, PageAssumption, DivBounds, Zenon
        <3> HIDE DEF q, r
        <3>2. q * PAGE_SIZE \in Nat
            BY <3>1, PageAssumption
        <3>3. r \in Nat /\ r <= __start
            BY <3>1, <3>2
        <3> QED
            BY <3>3, Zenon DEF r
    <2>2. __start - (__start % PAGE_SIZE) \in Nat
          /\ (_kernel_end - __start) + (__start % PAGE_SIZE) \in Nat
        BY <2>1, KernelAssumption
    <2>3. KernelSize \in Nat
        BY <2>2, Unsigned, Zenon DEF KernelSize
    <2> QED
        BY <1>2, <2>2, <2>3, IdentityKept, Zenon
<1>3. CASE mapLowMemory /\ kernelPageTable' = identityMap(kernelPageTable, 0, __start)
    <2>1. 0 \in Nat /\ __start \in Nat
        BY KernelAssumption
    <2> QED
        BY <1>3, <2>1, IdentityKept, Zenon
<1>4. CASE reserveModule /\ kernelPageTable' =
              identityMap(kernelPageTable, Modules[index].modStart, ModuleSize(index))
    <2>1. index \in 1 .. Len(Modules)
        BY <1>4, ModuleAssumption DEF reserveModule, LoaderInv, MemoryInv, TypeOK
    <2>2. Modules[index].modStart \in Nat /\ ModuleSize(index) \in Nat
        BY <2>1, ModuleFields, Zenon
    <2> QED
        BY <1>4, <2>2, IdentityKept, Zenon
<1> QED
    BY <1>1, <1>2, <1>3, <1>4, Zenon DEF BootMap

\* load at a program header: the copy finds its pages mapped, and the image
\* stays where it is.
LEMMA SegmentKeeps ==
    ASSUME CopyInv, LoadSegment
    PROVE  /\ AtTable \in Table /\ DOMAIN memory' = Byte
           /\ Faults(AtTable, AtAddress, AtSize) = {}
           /\ \A p \in Image(mod) : AtTable[p] = kernelPageTable[p]
<1> DEFINE from == Modules[mod].modStart + AtHeader.offset
<1>1. /\ AtSegment /\ LoaderInv /\ kernelPageTable \in Table /\ memManData \in MemoryManagerData
      /\ memory' = Copy(RoundHeader, AtTable, AtAddress, from, AtSize)
    BY SegmentStep, Zenon DEF CopyInv, LoaderInv, MemoryInv, TypeOK
<1>2. AtSize \in Nat /\ AtPages \in Nat /\ mod \in 1 .. Len(Modules)
    BY <1>1, HeaderFields, Zenon
<1>3. AtAddress \in Nat /\ AtAddress % PAGE_SIZE = 0
      /\ Image(mod) \cap Pages(PageOf(AtAddress), AtPages) = {}
    BY <1>1, HeaderAddress, Zenon
<1>4. AtFrame \in Page /\ AtFrame \in Nat
    <2>1. AtFrame \in Page
        BY <1>1, <1>2, FirstFree, Zenon DEF AtFrame
    <2> QED
        BY <2>1 DEF Page
<1>5. DOMAIN RoundHeader = Byte
    BY <1>1, RoundEffect, Zenon
<1> HIDE DEF from
<1>6. CopyRight(RoundHeader, AtTable, AtAddress, from, AtSize)
    BY <1>1, <1>2, <1>3, <1>4, <1>5, CopyEffect, Zenon DEF AtTable, AtPages
<1>7. PageOf(AtAddress) \in Page
    <2>1. 0 \in Nat
        OBVIOUS
    <2> QED
        BY <1>3, <2>1, PageSteps, Zenon
<1>8. AtTable \in Table
    BY <1>1, <1>2, <1>4, <1>7, TableKept, Zenon DEF AtTable
<1>9. ASSUME NEW p \in Image(mod) PROVE AtTable[p] = kernelPageTable[p]
    <2>1. p \in Page
        BY <1>2, ImageByte, Zenon DEF Image
    <2>2. p \notin Pages(PageOf(AtAddress), AtPages)
        BY <1>3, <1>9, Zenon
    <2> DEFINE v == PageOf(AtAddress)
    <2>3. v \in Page /\ kernelPageTable \in Table /\ AtFrame \in Nat /\ AtPages \in Nat
          /\ p \notin Pages(v, AtPages)
        BY <1>1, <1>2, <1>4, <1>7, <2>2, Zenon
    <2> HIDE DEF v
    <2>4. VirtualMap(kernelPageTable, v, AtFrame, AtPages)[p] = kernelPageTable[p]
        BY <2>1, <2>3, MapsOthers, Zenon
    <2> QED
        BY <2>4, Zenon DEF AtTable, v
<1> QED
    BY <1>1, <1>6, <1>8, <1>9, Zenon DEF CopyRight

\* loadModules maps the image before load reads it.
LEMMA ModuleStep ==
    ASSUME ModulesAligned, CopyInv, LoadModule
    PROVE  /\ mod \in 1 .. Len(Modules) /\ kernelPageTable' \in Table /\ DOMAIN memory' = Byte
           /\ \A p \in Image(mod) : kernelPageTable'[p] = p
           /\ mishap' \subseteq mishap \cup {"clash"}
           /\ (sec' = 0 /\ mod' = mod + 1) \/ (sec' = 1 /\ mod' = mod)
<1>1. /\ kernelPageTable' = identityMap(kernelPageTable, Modules[mod].modStart, ModuleSize(mod))
      /\ mishap' \subseteq mishap \cup {"clash"} /\ sec = 0
      /\ (sec' = 0 /\ mod' = mod + 1 /\ memory' = memory)
         \/ (sec' = 1 /\ mod' = mod /\ DOMAIN memory' = Byte)
    <2>1. mishap' = mishap \cup
              Clash(identityMap(kernelPageTable, Modules[mod].modStart, ModuleSize(mod)))
        BY Zenon DEF LoadModule
    <2>2. \A table : Clash(table) \subseteq {"clash"}
        BY Zenon DEF Clash
    <2>3. mishap' \subseteq mishap \cup {"clash"}
        BY <2>1, <2>2, Zenon
    <2> QED
        BY <2>3, Zenon DEF LoadModule, Overwrite
<1>2. mod \in 1 .. Len(Modules)
    BY ModuleAssumption DEF LoadModule, CopyInv, LoaderInv, LoaderType
<1>3. Modules[mod].modStart \in Nat /\ ModuleSize(mod) \in Nat /\ kernelPageTable \in Table
    BY <1>2, ModuleFields, Zenon DEF CopyInv
<1>4. kernelPageTable' \in Table
    BY <1>1, <1>3, IdentityKept, Zenon
<1>5. \A p \in Image(mod) : kernelPageTable'[p] = p
    BY <1>1, <1>2, <1>3, ImageMapped, Zenon
<1> QED
    BY <1>1, <1>2, <1>4, <1>5, Zenon DEF CopyInv

\* The invariant for the copies is kept.
LEMMA CopyStep ==
    ASSUME ModulesAligned, CopyInv, [LoaderNext]_allVars
    PROVE  CopyInv'
<1>0. LoaderInv'
    BY LoaderStep, Zenon DEF CopyInv
<1>1. CASE BootMap
    <2>1. pc # "up"
        BY <1>1, Zenon DEF BootMap, LoadEntry, LoadEnd, reserveEnd, mapKernelMemory,
                    mapLowMemory, reserveModule
    <2>2. sec' = 0
        BY <1>1, <2>1, Zenon DEF BootMap, CopyInv, LoaderInv, LoaderType
    <2>3. kernelPageTable' \in Table
        BY <1>1, BootTable, Zenon DEF CopyInv
    <2>4. memory' = memory /\ mishap' = mishap /\ ~ (0 > 0)
        BY <1>1 DEF BootMap
    <2> QED
        BY <1>0, <2>2, <2>3, <2>4, Zenon DEF CopyInv, SelfMapped
<1>2. CASE OtherTask
    <2>1. /\ UNCHANGED <<kernelPageTable, mod, sec, mishap>>
          /\ memory' = memory \/ DOMAIN memory' = Byte
        BY <1>2, Zenon DEF OtherTask, Overwrite
    <2> QED
        BY <1>0, <2>1, Zenon DEF CopyInv, SelfMapped, Image
<1>3. CASE LoadModule
    <2>1. /\ mod \in 1 .. Len(Modules) /\ kernelPageTable' \in Table /\ DOMAIN memory' = Byte
          /\ \A p \in Image(mod) : kernelPageTable'[p] = p
          /\ mishap' \subseteq mishap \cup {"clash"}
          /\ (sec' = 0 /\ mod' = mod + 1) \/ (sec' = 1 /\ mod' = mod)
        BY <1>3, ModuleStep, Zenon
    <2>2. "fault" \notin mishap'
        BY <2>1, Zenon DEF CopyInv
    <2>3. ~ (0 > 0)
        OBVIOUS
    <2>4. SelfMapped'
        BY <2>1, <2>3, Zenon DEF SelfMapped, Image
    <2> QED
        BY <1>0, <2>1, <2>2, <2>4, Zenon DEF CopyInv
<1>4. CASE LoadSegment
    <2>1. /\ AtTable \in Table /\ DOMAIN memory' = Byte
          /\ Faults(AtTable, AtAddress, AtSize) = {}
          /\ \A p \in Image(mod) : AtTable[p] = kernelPageTable[p]
        BY <1>4, SegmentKeeps, Zenon
    <2>2. /\ AtSegment /\ kernelPageTable' = AtTable /\ mod' = mod
          /\ mishap' = mishap \cup Clash(AtTable) \cup Faults(AtTable, AtAddress, AtSize)
                        \cup (IF AtPages > 0 /\ AtFrame = 0 THEN {"exhausted"} ELSE {})
        BY <1>4, SegmentStep, Zenon
    <2>3. "fault" \notin mishap'
        BY <2>1, <2>2, Zenon DEF CopyInv, Clash
    <2>4. mod \in 1 .. Len(Modules) /\ sec > 0
        BY <2>2, HeaderPage, Zenon DEF CopyInv
    <2>5. SelfMapped'
        BY <2>1, <2>2, <2>4, Zenon DEF CopyInv, SelfMapped, Image
    <2> QED
        BY <1>0, <2>1, <2>2, <2>3, <2>5, Zenon DEF CopyInv
<1>5. CASE LoadEndModule
    <2>1. sec' = 0 /\ UNCHANGED <<kernelPageTable, memory, mishap>> /\ ~ (0 > 0)
        BY <1>5 DEF LoadEndModule
    <2> QED
        BY <1>0, <2>1, Zenon DEF CopyInv, SelfMapped
<1>6. CASE UNCHANGED allVars
    <2>1. UNCHANGED <<kernelPageTable, memory, mishap, mod, sec>>
        BY <1>6, Zenon DEF allVars, loaderVars
    <2> QED
        BY <1>0, <2>1, Zenon DEF CopyInv, SelfMapped, Image
<1> QED
    BY <1>1, <1>2, <1>3, <1>4, <1>5, <1>6, Zenon DEF LoaderNext

\* The loader starts with no page mapped.
LEMMA CopyInit == LoaderInit => CopyInv
<1> SUFFICES ASSUME LoaderInit PROVE CopyInv
    BY Zenon
<1>1. LoaderInv
    BY MemoryInit, BootInit DEF LoaderInit, LoaderInv, LoaderType
<1>2. /\ kernelPageTable = [v \in Page |-> Absent] /\ sec = 0 /\ mishap = {}
      /\ DOMAIN memory = Byte
    BY Zenon DEF LoaderInit
<1>3. kernelPageTable \in Table
    BY <1>2, Zenon DEF Table
<1>4. SelfMapped
    BY <1>2 DEF SelfMapped
<1> QED
    BY <1>1, <1>2, <1>3, <1>4, Zenon DEF CopyInv

\* The invariant for the copies.
THEOREM CopyInvariant ==
    ASSUME ModulesAligned
    PROVE  LoaderSpec => []CopyInv
<1>1. CopyInv /\ [LoaderNext]_allVars => CopyInv'
    BY CopyStep, Zenon
<1> QED
    BY <1>1, CopyInit, PTL DEF LoaderSpec

\* memoryMap and memcpy in load, for any number of modules, segments and pages
\* of memory: no copy of load touches a page that is not mapped, and what
\* changes in memory is in frames that were free, is the header that load
\* rounds, or, when physical memory has run out, is below the kernel.
THEOREM CopiesInside ==
    ASSUME ModulesAligned
    PROVE  LoaderSpec => CopyStaysInside
<1> DEFINE A == /\ "fault" \notin mishap'
                /\ \A b \in Byte : memory'[b] # memory[b] =>
                       \/ PageOf(b) \notin memManData.used
                       \/ sec > 0 /\ b = FieldOf(mod, sec)
                       \/ "exhausted" \in mishap' /\ b < __start
<1>1. ASSUME CopyInv, CopyInv', [LoaderNext]_allVars PROVE [A]_allVars
    <2>1. AtSegment => sec > 0
        BY <1>1, HeaderPage, Zenon DEF CopyInv
    <2>2. "fault" \notin mishap'
        BY <1>1, Zenon DEF CopyInv
    <2>3. \A b \in Byte : memory'[b] # memory[b] =>
              \/ PageOf(b) \notin memManData.used
              \/ sec > 0 /\ b = FieldOf(mod, sec)
              \/ "exhausted" \in mishap' /\ b < __start
        BY <1>1, <2>1, MemoryChange, Zenon
    <2> QED
        BY <2>2, <2>3, Zenon
<1> HIDE DEF A
<1>2. LoaderSpec => [][A]_allVars
    BY <1>1, CopyInvariant, PTL DEF LoaderSpec
<1> QED
    BY <1>2, Zenon DEF CopyStaysInside, A

-----------------------------------------------------------------------------
(* The images of the modules.                                              *)

\* Where the boot loader put a module, its bytes are.
LEMMA PlacedRight ==
    ASSUME NEW m \in 1 .. Len(Modules), NEW k \in 0 .. ModuleSize(m) - 1
    PROVE  Placed(Modules[m].modStart + k) = <<m, k>>
<1> DEFINE start == Modules[m].modStart
           b == start + k
           holding == {i \in 1 .. Len(Modules) : Modules[i].modStart <= b /\ b < Modules[i].modEnd}
<1>1. start \in Nat /\ Modules[m].modEnd = start + ModuleSize(m) /\ ModuleSize(m) \in Nat
    BY ModuleFields, Zenon
<1>2. b \in Nat /\ start <= b /\ b < start + ModuleSize(m) /\ b - start = k
    BY <1>1
<1>3. m \in holding
    BY <1>1, <1>2, Zenon
<1>4. ASSUME NEW i \in holding PROVE i = m
    <2>1. i \in 1 .. Len(Modules) /\ Modules[i].modStart <= b /\ b < Modules[i].modEnd
        BY <1>4, Zenon
    <2>2. Modules[i].modStart \in Nat /\ Modules[i].modEnd \in Nat
        BY <2>1, ModuleFields, Zenon
    <2>3. i # m => Modules[m].modEnd <= Modules[i].modStart
                   \/ Modules[i].modEnd <= Modules[m].modStart
        BY <2>1, ImageAssumption, Zenon
    <2> DEFINE s == Modules[i].modStart
               e == Modules[i].modEnd
               size == ModuleSize(m)
    <2>4. /\ s \in Nat /\ e \in Nat /\ size \in Nat /\ b \in Nat /\ start \in Nat
          /\ s <= b /\ b < e /\ start <= b /\ b < start + size
          /\ i # m => start + size <= s \/ e <= start
        BY <1>1, <1>2, <2>1, <2>2, <2>3, Zenon
    <2> HIDE DEF s, e, b, start, size, holding
    <2> QED
        BY <2>4
<1>5. holding = {m}
    BY <1>3, <1>4, Zenon
<1>6. (CHOOSE i \in holding : TRUE) = m /\ holding # {}
    BY <1>5, Zenon
<1> HIDE DEF b
<1>7. Placed(b) = <<m, b - start>>
    BY <1>6, Zenon DEF Placed
<1> QED
    BY <1>2, <1>7, Zenon DEF b

\* Two modules share no byte, so the header that load rounds is in its own.
LEMMA HeaderIsOwn ==
    ASSUME LoaderInv, AtSegment, AtHeader.vaddr % PAGE_SIZE # 0,
           NEW m \in 1 .. Len(Modules), NEW k \in 0 .. ModuleSize(m) - 1,
           Modules[m].modStart + k = FieldOf(mod, sec)
    PROVE  k \in Unaligned(m)
<1> DEFINE j == files[mod].phoff + sec - 1
<1>1. /\ mod \in 1 .. Len(Modules) /\ sec \in 1 .. Len(files[mod].segments)
      /\ j \in 0 .. ModuleSize(mod) - 1
    BY HeaderFields, Zenon
<1>2. FieldOf(mod, sec) = Modules[mod].modStart + j
    BY HeaderPage, Zenon
<1> HIDE DEF j
<1>3. Placed(Modules[m].modStart + k) = <<m, k>>
    BY PlacedRight, Zenon
<1>4. Placed(Modules[mod].modStart + j) = <<mod, j>>
    BY <1>1, PlacedRight, Zenon
<1>5. m = mod /\ k = j
    <2>1. <<m, k>> = <<mod, j>>
        BY <1>2, <1>3, <1>4, Zenon
    <2> QED
        BY <2>1
<1>6. sec \in {i \in 1 .. Len(files[mod].segments) : files[mod].segments[i].vaddr % PAGE_SIZE # 0}
    BY <1>1, Zenon DEF AtHeader
<1>7. j \in Unaligned(mod)
    BY <1>6, Zenon DEF Unaligned, j
<1> QED
    BY <1>5, <1>7, Zenon

\* reserveModuleMemory and loadModules, for any number of modules: nothing
\* overwrites the images but load, in the addresses it rounds.
THEOREM ImagesStay ==
    ASSUME ModulesAligned
    PROVE  LoaderSpec => []ImagesIntact
<1>1. LoaderInit => ImagesIntact
    <2> SUFFICES ASSUME LoaderInit, NEW m \in 1 .. Len(Modules), NEW k \in 0 .. ModuleSize(m) - 1
                 PROVE  memory[Modules[m].modStart + k] = <<m, k>>
        BY Zenon DEF ImagesIntact
    <2>1. Modules[m].modStart + k \in Byte
        BY ImageByte, Zenon
    <2>2. memory[Modules[m].modStart + k] = Placed(Modules[m].modStart + k)
        BY <2>1, Zenon DEF LoaderInit
    <2> QED
        BY <2>2, PlacedRight, Zenon
<1>2. ASSUME CopyInv, [LoaderNext]_allVars, ImagesIntact PROVE ImagesIntact'
    <2>1. files' = files
        BY <1>2, Zenon DEF LoaderNext, BootMap, OtherTask, LoadModule, LoadSegment, NextSegment,
                    LoadEndModule, allVars, loaderVars
    <2> SUFFICES ASSUME NEW m \in 1 .. Len(Modules), NEW k \in 0 .. ModuleSize(m) - 1
                 PROVE  memory'[Modules[m].modStart + k] = <<m, k>> \/ k \in Unaligned(m)
        BY <2>1, Zenon DEF ImagesIntact, Unaligned
    <2> DEFINE b == Modules[m].modStart + k
    <2>2. memory[b] = <<m, k>> \/ k \in Unaligned(m)
        BY <1>2, Zenon DEF ImagesIntact
    <2>3. b \in Byte /\ PageOf(b) \in Image(m) /\ ~ (b < __start)
        BY ImageByte, Zenon
    <2> SUFFICES ASSUME memory'[b] # memory[b] PROVE k \in Unaligned(m)
        BY <2>2, Zenon
    <2>4. /\ pc = "up"
          /\ \/ PageOf(b) \notin memManData.used
             \/ AtSegment /\ b = FieldOf(mod, sec) /\ AtHeader.vaddr % PAGE_SIZE # 0
             \/ "exhausted" \in mishap' /\ b < __start
        BY <1>2, <2>3, MemoryChange, Zenon
    <2>5. PageOf(b) \in memManData.used
        BY <1>2, <2>3, <2>4, ImageUsed, Zenon DEF CopyInv
    <2>6. AtSegment /\ b = FieldOf(mod, sec) /\ AtHeader.vaddr % PAGE_SIZE # 0
        BY <2>3, <2>4, <2>5, Zenon
    <2> QED
        BY <1>2, <2>6, HeaderIsOwn, Zenon DEF CopyInv
<1> QED
    BY <1>1, <1>2, CopyInvariant, PTL DEF LoaderSpec

-----------------------------------------------------------------------------
(* The programs that were loaded.                                          *)

\* No two bytes of a segment that is no longer than memory share an address.
LEMMA OneByte ==
    ASSUME NEW p \in Page, NEW size \in Nat, NumPagesOf(size) <= NumPages, NEW T, NEW to,
           NEW k \in 0 .. size - 1, NEW l \in 0 .. size - 1,
           MappedRight(T, to, p, size, k), MappedRight(T, to, p, size, l),
           Translate(T, to + k) = Translate(T, to + l)
    PROVE  k = l
<1> DEFINE c == k \div PAGE_SIZE
           d == l \div PAGE_SIZE
<1>1. (p + (c % NumPages)) % NumPages = (p + (d % NumPages)) % NumPages
      /\ k % PAGE_SIZE = l % PAGE_SIZE
    BY Zenon DEF MappedRight
<1>2. k \in Nat /\ l \in Nat
    OBVIOUS
<1>3. /\ c \in Nat /\ k = c * PAGE_SIZE + (k % PAGE_SIZE)
      /\ d \in Nat /\ l = d * PAGE_SIZE + (l % PAGE_SIZE)
    BY <1>2, DivBounds, PageAssumption, Zenon
<1>4. c < NumPagesOf(size) /\ d < NumPagesOf(size) /\ NumPagesOf(size) \in Nat
    BY EnoughPages, Zenon
<1> HIDE DEF c, d
<1>5. c < NumPages /\ d < NumPages
    BY <1>3, <1>4, PageAssumption
<1>6. c % NumPages = c /\ d % NumPages = d
    BY <1>3, <1>5, ModSmall, PageAssumption, Zenon
<1>7. /\ (((p + c) % NumPages) + NumPages - p) % NumPages = c
      /\ (((p + d) % NumPages) + NumPages - p) % NumPages = d
    BY <1>3, <1>6, Unshift, Zenon
<1>8. c = d
    BY <1>1, <1>6, <1>7, Zenon
<1> QED
    BY <1>1, <1>3, <1>8, Zenon

\* Byte o of module m is behind the address a, in a frame that is used, that
\* init does not keep and no other task has.
ByteRight(m, o, a) ==
    /\ kernelPageTable[PageOf(a)] \in memManData.used \ Reserved
    /\ \A g \in grants : kernelPageTable[PageOf(a)] \notin Granted(g)
    /\ memory[Translate(kernelPageTable, a)] = <<m, o>> \/ o \in Unaligned(m)

\* The bytes of a segment that starts a page and is below 64 KiB.
SegmentRight(m, seg) ==
    seg.vaddr % PAGE_SIZE = 0 /\ seg.filesz < FieldLimit =>
        \A k \in 0 .. seg.filesz - 1 : ByteRight(m, seg.offset + k, seg.vaddr + k)

\* The segments that load has copied.
Copied(m, i, seg) ==
    /\ m \in 1 .. Len(Modules) /\ i \in 1 .. Len(files[m].segments)
    /\ seg = files[m].segments[i]
    /\ m \in loaded \/ (m = mod /\ i < sec)

\* The inductive invariant for the programs that were loaded.
LinkedInv ==
    /\ loaded \subseteq 1 .. Len(Modules)
    /\ pc # "up" => loaded = {}
    /\ mishap = {} => \A m, i \in Nat : \A seg : Copied(m, i, seg) => SegmentRight(m, seg)

\* Pages that are used by no grant stay used, and are in no new grant.
LEMMA UsedStays ==
    ASSUME LoaderInv, [LoaderNext]_allVars, pc = "up",
           NEW f \in memManData.used, \A g \in grants : f \notin Granted(g)
    PROVE  f \in memManData'.used /\ \A g \in grants' : f \notin Granted(g)
<1>0. memManData \in MemoryManagerData
    BY Zenon DEF LoaderInv, MemoryInv, TypeOK
<1>1. CASE BootMap
    BY <1>1, Zenon DEF BootMap, LoadEntry, LoadEnd, reserveEnd, mapKernelMemory,
                mapLowMemory, reserveModule
<1>2. ASSUME NEW numPages \in Requests, Allocate(numPages)
      PROVE  f \in memManData'.used /\ \A g \in grants' : f \notin Granted(g)
    <2> DEFINE page == FirstPlace(memManData, numPages)
               grant == [page |-> page, numPages |-> numPages]
    <2>1. numPages \in Nat
        BY RequestAssumption, Zenon
    <2>2. /\ memManData.used \subseteq memManData'.used
          /\ page > 0 => Pages(page, numPages) \cap memManData.used = {}
        BY <1>0, <1>2, <2>1, AllocateFirst, Zenon DEF Allocate
    <2>3. Granted(grant) = Pages(page, numPages)
        BY Zenon DEF Granted
    <2>4. grants' = grants \/ (page > 0 /\ grants' = grants \cup {grant})
        BY <1>2, Zenon DEF Allocate
    <2> HIDE DEF grant, page
    <2> QED
        BY <2>2, <2>3, <2>4, Zenon
<1>3. ASSUME NEW grant \in grants, Free(grant)
      PROVE  f \in memManData'.used /\ \A g \in grants' : f \notin Granted(g)
    <2>1. grants' \subseteq grants
        BY <1>3, Zenon DEF Free
    <2>2. memManData'.used = memManData.used \ Granted(grant)
        BY <1>0, <1>3, Zenon DEF Free, physicalFree, MemoryManagerData, Granted
    <2> QED
        BY <2>1, <2>2, Zenon
<1>4. CASE LoadModule \/ LoadSegment
    <2>1. grants' = grants
        BY <1>4, Zenon DEF LoadModule, LoadSegment, NextSegment
    <2>2. memManData.used \subseteq memManData'.used
        BY <1>4, LoadTakes, Zenon
    <2> QED
        BY <2>1, <2>2, Zenon
<1>5. CASE LoadEndModule \/ UNCHANGED allVars
    <2>1. UNCHANGED <<memManData, grants>>
        BY <1>5, Zenon DEF LoadEndModule, allVars, vars
    <2> QED
        BY <2>1, Zenon
<1> QED
    BY <1>1, <1>2, <1>3, <1>4, <1>5, Zenon DEF LoaderNext, OtherTask

\* As long as nothing clashes, an entry that is present stays.
LEMMA EntryStays ==
    ASSUME [LoaderNext]_allVars, pc = "up", mishap' = {}, NEW v \in Page,
           kernelPageTable[v] # Absent
    PROVE  kernelPageTable'[v] = kernelPageTable[v]
<1>1. CASE BootMap
    BY <1>1, Zenon DEF BootMap, LoadEntry, LoadEnd, reserveEnd, mapKernelMemory,
                mapLowMemory, reserveModule
<1>2. CASE LoadModule \/ LoadSegment
    <2>1. Clash(kernelPageTable') \subseteq mishap'
        BY <1>2, Zenon DEF LoadModule, LoadSegment, MapAndCopy
    <2>2. ~ \E w \in Page : kernelPageTable[w] \notin {Absent, kernelPageTable'[w]}
        BY <2>1, Zenon DEF Clash
    <2> QED
        BY <2>2, Zenon
<1>3. CASE OtherTask \/ LoadEndModule \/ UNCHANGED allVars
    BY <1>3, Zenon DEF OtherTask, LoadEndModule, allVars, loaderVars
<1> QED
    BY <1>1, <1>2, <1>3, Zenon DEF LoaderNext

\* A mishap is not forgotten.
LEMMA MishapStays ==
    ASSUME [LoaderNext]_allVars PROVE mishap \subseteq mishap' /\ files' = files
<1>1. CASE LoadModule \/ LoadSegment
    BY <1>1, Zenon DEF LoadModule, LoadSegment, MapAndCopy, NextSegment
<1>2. CASE BootMap \/ OtherTask \/ LoadEndModule \/ UNCHANGED allVars
    BY <1>2, Zenon DEF BootMap, OtherTask, LoadEndModule, allVars, loaderVars
<1> QED
    BY <1>1, <1>2, Zenon DEF LoaderNext

\* A byte of a loaded program stays where it is.
LEMMA ByteStays ==
    ASSUME ModulesAligned, CopyInv, [LoaderNext]_allVars, pc = "up", mishap' = {},
           NEW m \in Nat, NEW o \in Nat, NEW a \in Nat, ByteRight(m, o, a)
    PROVE  ByteRight(m, o, a)'
<1> DEFINE v == PageOf(a)
           f == kernelPageTable[v]
           r == a % PAGE_SIZE
           b == f * PAGE_SIZE + r
<1>1. v \in Page /\ r \in Nat /\ r < PAGE_SIZE
    BY PageOfIsPage, DivBounds, PageAssumption, Zenon
<1>2. f \in memManData.used /\ f \notin Reserved /\ \A g \in grants : f \notin Granted(g)
    BY Zenon DEF ByteRight
<1>3. LoaderInv /\ memManData.used \subseteq Page
    BY Zenon DEF CopyInv, LoaderInv, MemoryInv, TypeOK, MemoryManagerData
<1>4. f \in Page /\ f # Absent
    <2>1. Page \subseteq Nat
        BY DEF Page
    <2> QED
        BY <1>2, <1>3, <2>1, FileAssumption, Zenon
<1>5. Translate(kernelPageTable, a) = b
    BY Zenon DEF Translate
<1>6. kernelPageTable'[v] = f
    BY <1>1, <1>4, EntryStays, Zenon
<1> HIDE DEF f, r, v
<1>7. b \in Byte /\ PageOf(b) = f
    BY <1>1, <1>4, Located, Zenon
<1>8. Translate(kernelPageTable', a) = b
    BY <1>6, Zenon DEF Translate, v, r
<1>9. f \in memManData'.used /\ \A g \in grants' : f \notin Granted(g)
    BY <1>2, <1>3, UsedStays, Zenon
<1> HIDE DEF b
<1>10. memory'[b] = memory[b]
    <2> SUFFICES ASSUME memory'[b] # memory[b] PROVE FALSE
        BY Zenon
    <2>1. /\ \/ PageOf(b) \notin memManData.used
             \/ AtSegment /\ b = FieldOf(mod, sec) /\ AtHeader.vaddr % PAGE_SIZE # 0
             \/ "exhausted" \in mishap' /\ b < __start
        BY <1>7, MemoryChange, Zenon
    <2>2. AtSegment /\ b = FieldOf(mod, sec)
        BY <1>2, <1>7, <2>1, Zenon
    <2>3. mod \in 1 .. Len(Modules) /\ PageOf(FieldOf(mod, sec)) \in Image(mod)
        BY <1>3, <2>2, HeaderPage, Zenon
    <2>4. Image(mod) \subseteq Reserved
        BY <1>3, <2>3, ImageUsed, Zenon
    <2> QED
        BY <1>2, <1>7, <2>2, <2>3, <2>4, Zenon
<1>11. files' = files
    BY MishapStays, Zenon
<1>12. memory'[b] = <<m, o>> \/ o \in Unaligned(m)
    BY <1>5, <1>10, Zenon DEF ByteRight
<1>13. Unaligned(m)' = Unaligned(m)
    BY <1>11, Zenon DEF Unaligned
<1> QED
    BY <1>2, <1>6, <1>8, <1>9, <1>12, <1>13, Zenon DEF ByteRight, v, Reserved, Granted

\* load copies a byte to the address it is linked for, out of the image.
LEMMA ByteArrives ==
    ASSUME ModulesAligned, CopyInv, ImagesIntact, LoadSegment, mishap' = {},
           AtHeader.vaddr % PAGE_SIZE = 0, AtHeader.filesz < FieldLimit,
           NEW k \in 0 .. AtHeader.filesz - 1, NEW m, m = mod, NEW seg, seg = AtHeader
    PROVE  ByteRight(m, seg.offset + k, seg.vaddr + k)'
<1> DEFINE from == Modules[mod].modStart + AtHeader.offset
           o == seg.offset + k
           b == Translate(AtTable, AtAddress + k)
           f == AtTable[PageOf(AtAddress + k)]
<1>1. /\ AtSegment /\ LoaderInv /\ kernelPageTable \in Table /\ memManData \in MemoryManagerData
      /\ memory' = Copy(RoundHeader, AtTable, AtAddress, from, AtSize)
      /\ kernelPageTable' = AtTable /\ memManData' = physicalAllocate(memManData, AtPages)
      /\ grants' = grants /\ files' = files /\ mod' = mod /\ pc = "up"
    BY SegmentStep, Zenon DEF CopyInv, LoaderInv, MemoryInv, TypeOK, AtSegment
<1>2. /\ AtSize \in Nat /\ AtPages \in Nat /\ mod \in 1 .. Len(Modules)
      /\ AtPages <= NumPages /\ AtHeader.offset \in Nat
      /\ AtHeader.offset + AtSize <= ModuleSize(mod)
    BY <1>1, HeaderFields, Zenon
<1>3. AtAddress \in Nat /\ AtAddress % PAGE_SIZE = 0 /\ AtAddress = AtHeader.vaddr
    BY <1>1, HeaderAddress, Zenon
<1>4. AtSize = AtHeader.filesz
    <2>1. map \in Maps /\ LoaderType /\ sec \in 1 .. Len(files[mod].segments)
        BY <1>1, HeaderFields, Zenon DEF LoaderInv, MemoryInv, TypeOK
    <2>2. AtHeader.filesz \in Nat
        BY <1>2, <2>1, SegmentFields, Zenon DEF AtHeader
    <2> QED
        BY <2>2, ModSmall, FileAssumption, Zenon DEF AtSize
<1>5. k \in 0 .. AtSize - 1
    BY <1>4, Zenon
<1>6. /\ AtFrame \in Page
      /\ Places(memManData, AtPages) # {} =>
             /\ Pages(AtFrame, AtPages) \cap memManData.used = {}
             /\ memManData'.used = memManData.used \cup Pages(AtFrame, AtPages)
      /\ Places(memManData, AtPages) = {} => AtFrame = 0
    BY <1>1, <1>2, FirstFree, Zenon DEF AtFrame
<1>7. \A l \in 0 .. AtSize - 1 : MappedRight(AtTable, AtAddress, AtFrame, AtSize, l)
    BY <1>1, <1>2, <1>3, <1>6, MappedBytes, Zenon DEF AtTable, AtPages
<1>8. /\ f \in Pages(AtFrame, AtPages) /\ b \in Byte
      /\ (k \div PAGE_SIZE) % NumPages \in 0 .. AtPages - 1
    BY <1>5, <1>7, Zenon DEF MappedRight, AtPages
<1>9. Pages(AtFrame, AtPages) \cap memManData.used = {}
      /\ memManData'.used = memManData.used \cup Pages(AtFrame, AtPages)
    <2>1. AtPages > 0
        BY <1>2, <1>8
    <2>2. ~ (AtPages > 0 /\ AtFrame = 0)
        <3> SUFFICES ASSUME AtPages > 0 /\ AtFrame = 0 PROVE "exhausted" \in mishap'
            BY Zenon
        <3> QED
            BY SegmentStep, Zenon
    <2> QED
        BY <1>6, <2>1, <2>2, Zenon
<1>10. f \in memManData'.used /\ f \notin Reserved /\ \A g \in grants' : f \notin Granted(g)
    <2>1. Reserved \subseteq memManData.used /\ \A g \in grants : Granted(g) \subseteq memManData.used
        BY <1>1, Zenon DEF LoaderInv, BootInv, ReservedInv, MemoryInv, GrantsDisjoint
    <2> HIDE DEF f
    <2> QED
        BY <1>1, <1>8, <1>9, <2>1, Zenon
<1>11. memory' = Copy(memory, AtTable, AtAddress, from, AtSize)
    BY <1>1, Zenon DEF RoundHeader, AtHeader
<1>12. memory'[b] = memory[Translate(AtTable, from + k)]
    <2>1. CopyRight(memory, AtTable, AtAddress, from, AtSize)
        <3>1. DOMAIN memory = Byte
            BY Zenon DEF CopyInv
        <3> HIDE DEF from
        <3> QED
            BY <1>1, <1>2, <1>3, <1>6, <3>1, CopyEffect, Zenon DEF AtTable, AtPages
    <2> HIDE DEF from
    <2>2. PICK l \in 0 .. AtSize - 1 : /\ Translate(AtTable, AtAddress + l) = b
                                       /\ memory'[b] = memory[Translate(AtTable, from + l)]
        BY <1>5, <1>8, <1>11, <2>1, Zenon DEF CopyRight
    <2>3. l = k
        <3>1. MappedRight(AtTable, AtAddress, AtFrame, AtSize, l)
              /\ MappedRight(AtTable, AtAddress, AtFrame, AtSize, k)
            BY <1>5, <1>7, Zenon
        <3>2. Translate(AtTable, AtAddress + l) = Translate(AtTable, AtAddress + k)
            BY <2>2, Zenon
        <3>3. NumPagesOf(AtSize) <= NumPages
            BY <1>2, Zenon DEF AtPages
        <3> HIDE DEF b
        <3> QED
            BY <1>2, <1>5, <1>6, <3>1, <3>2, <3>3, OneByte, Zenon
    <2> QED
        BY <2>2, <2>3, Zenon
<1>13. o \in 0 .. ModuleSize(mod) - 1 /\ from + k = Modules[mod].modStart + o
    <2>1. Modules[mod].modStart \in Nat /\ ModuleSize(mod) \in Nat
        BY <1>2, ModuleFields, Zenon
    <2> DEFINE s == Modules[mod].modStart
               t == ModuleSize(mod)
               e == AtHeader.offset
    <2>2. s \in Nat /\ t \in Nat /\ e \in Nat /\ e + AtSize <= t /\ from = s + e /\ o = e + k
        BY <1>2, <2>1, Zenon
    <2> HIDE DEF s, t, e, from, o
    <2>3. o \in 0 .. t - 1 /\ from + k = s + o
        BY <1>2, <1>5, <2>2
    <2> QED
        BY <2>3, Zenon DEF s, t
<1> HIDE DEF o, from
<1>14. Translate(AtTable, from + k) = Modules[mod].modStart + o
    <2> DEFINE a == Modules[mod].modStart + o
    <2>1. a \in Byte /\ PageOf(a) \in Image(mod)
        BY <1>2, <1>13, ImageByte, Zenon
    <2> HIDE DEF a
    <2>2. AtTable \in Table /\ AtTable[PageOf(a)] = kernelPageTable[PageOf(a)]
        BY <2>1, SegmentKeeps, Zenon
    <2>3. kernelPageTable[PageOf(a)] = PageOf(a)
        <3>1. sec > 0
            BY <1>1, HeaderPage, Zenon
        <3> QED
            BY <2>1, <3>1, Zenon DEF CopyInv, SelfMapped
    <2>4. Translate(AtTable, a) = a
        BY <2>1, <2>2, <2>3, SelfTranslate, Zenon
    <2> QED
        BY <1>13, <2>4, Zenon DEF a
<1>15. memory[Modules[mod].modStart + o] = <<mod, o>> \/ o \in Unaligned(mod)
    BY <1>2, <1>13, Zenon DEF ImagesIntact
<1>16. memory'[b] = <<mod, o>> \/ o \in Unaligned(mod)
    BY <1>12, <1>14, <1>15, Zenon
<1>17. Unaligned(m)' = Unaligned(m)
    BY <1>1, Zenon DEF Unaligned
<1> DEFINE a == seg.vaddr + k
<1>18. AtAddress + k = a
    BY <1>3, Zenon
<1> HIDE DEF a
<1>19. kernelPageTable'[PageOf(a)] = f /\ Translate(kernelPageTable', a) = b
    BY <1>1, <1>18, Zenon
<1> HIDE DEF f, b
<1>20. ByteRight(m, o, a)'
    BY <1>10, <1>16, <1>17, <1>19, Zenon DEF ByteRight, Reserved, Granted
<1> QED
    BY <1>20, Zenon DEF a, o

\* A segment that was copied stays, byte by byte.
LEMMA SegmentStays ==
    ASSUME ModulesAligned, CopyInv, [LoaderNext]_allVars, pc = "up", mishap' = {},
           NEW m \in 1 .. Len(Modules), NEW i \in 1 .. Len(files[m].segments),
           NEW seg, seg = files[m].segments[i], SegmentRight(m, seg)
    PROVE  SegmentRight(m, seg)'
<1>1. map \in Maps /\ LoaderType
    BY Zenon DEF CopyInv, LoaderInv, MemoryInv, TypeOK
<1>2. seg.offset \in Nat /\ seg.vaddr \in Nat /\ seg.filesz \in Nat
    BY <1>1, SegmentFields, Zenon
<1>3. m \in Nat
    OBVIOUS
<1> SUFFICES ASSUME seg.vaddr % PAGE_SIZE = 0, seg.filesz < FieldLimit,
                    NEW k \in 0 .. seg.filesz - 1
             PROVE  ByteRight(m, seg.offset + k, seg.vaddr + k)'
    BY Zenon DEF SegmentRight
<1> DEFINE o == seg.offset + k
           a == seg.vaddr + k
<1>4. ByteRight(m, o, a)
    BY Zenon DEF SegmentRight
<1>5. o \in Nat /\ a \in Nat
    <2>1. k \in Nat
        OBVIOUS
    <2>2. \A x \in Nat : x + k \in Nat
        BY <2>1
    <2> QED
        BY <1>2, <2>2, Zenon
<1> HIDE DEF o, a
<1>6. ByteRight(m, o, a)'
    BY <1>3, <1>4, <1>5, ByteStays, Zenon
<1> QED
    BY <1>6, Zenon DEF o, a

\* The steps after which another segment counts as copied.
LEMMA CopiedBefore ==
    ASSUME LoaderInv, [LoaderNext]_allVars, pc = "up", NEW m \in Nat, NEW i \in Nat, NEW seg,
           Copied(m, i, seg)'
    PROVE  /\ m \in 1 .. Len(Modules) /\ i \in 1 .. Len(files[m].segments)
           /\ seg = files[m].segments[i]
           /\ Copied(m, i, seg) \/ (LoadSegment /\ m = mod /\ i = sec)
<1>0. files' = files
    BY MishapStays, Zenon
<1>1. /\ m \in 1 .. Len(Modules) /\ i \in 1 .. Len(files[m].segments)
      /\ seg = files[m].segments[i] /\ (m \in loaded' \/ (m = mod' /\ i < sec'))
    BY <1>0, Zenon DEF Copied
<1>2. sec \in Nat /\ ~ (i < 0) /\ ~ (i < 1)
    <2>1. sec \in Nat
        BY Zenon DEF LoaderInv, LoaderType
    <2>2. i \in 1 .. Len(files[m].segments)
        BY <1>1, Zenon
    <2> QED
        BY <2>1, <2>2
<1>3. CASE BootMap
    BY <1>3, Zenon DEF BootMap, LoadEntry, LoadEnd, reserveEnd, mapKernelMemory,
                mapLowMemory, reserveModule
<1>4. CASE OtherTask \/ UNCHANGED allVars
    <2>1. UNCHANGED <<loaded, mod, sec>>
        BY <1>4, Zenon DEF OtherTask, allVars, loaderVars
    <2> QED
        BY <1>1, <2>1, Zenon DEF Copied
<1>5. CASE LoadModule
    <2>1. loaded' = loaded /\ (sec' = 0 \/ sec' = 1)
        BY <1>5, Zenon DEF LoadModule
    <2> QED
        BY <1>1, <1>2, <2>1, Zenon DEF Copied
<1>6. CASE LoadSegment
    <2>1. loaded' = loaded /\ mod' = mod /\ sec' = sec + 1
        BY <1>6, SegmentStep, Zenon
    <2>2. i < sec + 1 => i < sec \/ i = sec
        BY <1>2
    <2> QED
        BY <1>1, <1>6, <2>1, <2>2, Zenon DEF Copied
<1>7. CASE LoadEndModule
    <2>1. loaded' = loaded \cup {mod} /\ sec' = 0 /\ sec > Len(files[mod].segments)
        BY <1>7, Zenon DEF LoadEndModule
    <2>2. m = mod => i < sec
        BY <1>1, <1>2, <2>1
    <2> QED
        BY <1>1, <1>2, <2>1, <2>2, Zenon DEF Copied
<1> QED
    BY <1>3, <1>4, <1>5, <1>6, <1>7, Zenon DEF LoaderNext

\* The modules that count as loaded.
LEMMA LoadedStep ==
    ASSUME LoaderInv, [LoaderNext]_allVars, loaded \subseteq 1 .. Len(Modules),
           pc # "up" => loaded = {}
    PROVE  /\ loaded' \subseteq 1 .. Len(Modules) /\ (pc' # "up" => loaded' = {})
           /\ pc # "up" => loaded' = {} /\ sec' = 0
<1>1. CASE BootMap
    <2>1. UNCHANGED <<loaded, sec>> /\ pc # "up"
        BY <1>1, Zenon DEF BootMap, LoadEntry, LoadEnd, reserveEnd, mapKernelMemory,
                    mapLowMemory, reserveModule
    <2> QED
        BY <2>1, Zenon DEF LoaderInv, LoaderType
<1>2. CASE OtherTask \/ LoadModule \/ LoadSegment
    <2>1. loaded' = loaded /\ pc = "up" /\ pc' = pc
        BY <1>2, Zenon DEF OtherTask, Allocate, Free, LoadModule, LoadSegment, NextSegment, AtSegment
    <2> QED
        BY <2>1, Zenon
<1>3. CASE LoadEndModule
    <2>1. loaded' = loaded \cup {mod} /\ pc = "up" /\ pc' = pc /\ mod <= Len(Modules)
        BY <1>3, Zenon DEF LoadEndModule, vars
    <2>2. mod \in 1 .. Len(Modules)
        BY <2>1, ModuleAssumption DEF LoaderInv, LoaderType
    <2> QED
        BY <2>1, <2>2, Zenon
<1>4. CASE UNCHANGED allVars
    <2>1. UNCHANGED <<loaded, pc, sec>>
        BY <1>4, Zenon DEF allVars, vars, loaderVars
    <2> QED
        BY <2>1, Zenon DEF LoaderInv, LoaderType
<1> QED
    BY <1>1, <1>2, <1>3, <1>4, Zenon DEF LoaderNext

\* The invariant for loaded programs is kept.
LEMMA LinkedStep ==
    ASSUME ModulesAligned, CopyInv, ImagesIntact, LinkedInv, [LoaderNext]_allVars
    PROVE  LinkedInv'
<1>0. LoaderInv
    BY Zenon DEF CopyInv
<1>1. /\ loaded' \subseteq 1 .. Len(Modules) /\ (pc' # "up" => loaded' = {})
      /\ pc # "up" => loaded' = {} /\ sec' = 0
    BY <1>0, LoadedStep, Zenon DEF LinkedInv
<1>2. mishap \subseteq mishap' /\ files' = files
    BY MishapStays, Zenon
<1> SUFFICES ASSUME mishap' = {}, NEW m \in Nat, NEW i \in Nat, NEW seg, Copied(m, i, seg)'
             PROVE  SegmentRight(m, seg)'
    BY <1>1, Zenon DEF LinkedInv
<1>3. pc = "up"
    <2> SUFFICES ASSUME pc # "up" PROVE FALSE
        BY Zenon
    <2>1. loaded' = {} /\ sec' = 0 /\ ~ (i < 0)
        BY <1>1
    <2> QED
        BY <2>1, Zenon DEF Copied
<1>4. /\ m \in 1 .. Len(Modules) /\ i \in 1 .. Len(files[m].segments)
      /\ seg = files[m].segments[i]
      /\ Copied(m, i, seg) \/ (LoadSegment /\ m = mod /\ i = sec)
    BY <1>0, <1>3, CopiedBefore, Zenon
<1>6. CASE Copied(m, i, seg)
    <2>1. SegmentRight(m, seg)
        BY <1>2, <1>6, Zenon DEF LinkedInv
    <2> QED
        BY <1>3, <1>4, <2>1, SegmentStays, Zenon
<1>7. CASE LoadSegment /\ m = mod /\ i = sec
    <2>1. seg = AtHeader
        BY <1>4, <1>7, Zenon DEF AtHeader
    <2> SUFFICES ASSUME seg.vaddr % PAGE_SIZE = 0, seg.filesz < FieldLimit,
                        NEW k \in 0 .. seg.filesz - 1
                 PROVE  ByteRight(m, seg.offset + k, seg.vaddr + k)'
        BY Zenon DEF SegmentRight
    <2> QED
        BY <1>7, <2>1, ByteArrives, Zenon
<1> QED
    BY <1>4, <1>6, <1>7, Zenon

\* load, for any number of modules, segments and tasks beside it: a program
\* that was started finds its segments where it is linked for, byte by byte,
\* unless a page was mapped over another one or memory ran out.
THEOREM ProgramsAsLinked ==
    ASSUME ModulesAligned
    PROVE  LoaderSpec => []LoadedAsLinked
<1>1. LoaderInit => LinkedInv
    <2> SUFFICES ASSUME LoaderInit PROVE LinkedInv
        BY Zenon
    <2>1. loaded = {} /\ sec = 0 /\ \A i \in Nat : ~ (i < 0)
        BY DEF LoaderInit
    <2> QED
        BY <2>1, Zenon DEF LinkedInv, Copied
<1>2. CopyInv /\ ImagesIntact /\ LinkedInv /\ [LoaderNext]_allVars => LinkedInv'
    BY LinkedStep, Zenon
<1>3. LinkedInv => LoadedAsLinked
    <2> SUFFICES ASSUME LinkedInv, mishap = {}, NEW m \in loaded, NEW seg \in Linked(m),
                        seg.vaddr % PAGE_SIZE = 0, seg.filesz < FieldLimit,
                        NEW k \in 0 .. seg.filesz - 1
                 PROVE  \/ memory[Translate(kernelPageTable, seg.vaddr + k)] = <<m, seg.offset + k>>
                        \/ seg.offset + k \in Unaligned(m)
        BY Zenon DEF LoadedAsLinked
    <2>1. m \in 1 .. Len(Modules)
        BY Zenon DEF LinkedInv
    <2>2. PICK i \in 1 .. Len(files[m].segments) : seg = files[m].segments[i]
        BY Zenon DEF Linked
    <2>3. m \in Nat /\ i \in Nat
        BY <2>1
    <2>4. SegmentRight(m, seg)
        BY <2>1, <2>2, <2>3, Zenon DEF LinkedInv, Copied
    <2> QED
        BY <2>4, Zenon DEF SegmentRight, ByteRight
<1> QED
    BY <1>1, <1>2, <1>3, CopyInvariant, ImagesStay, PTL DEF LoaderSpec
===============================================================================
