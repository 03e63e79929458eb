----------------------------- MODULE MemoryManager -----------------------------
(***************************************************************************)
(* Virtual memory after boot: MemoryManager.cpp on top of                  *)
(* VirtualMemoryManager.cpp and PhysicalAllocator.cpp, called by several   *)
(* tasks.  Libk::atomicEnable is cli and atomicDisable is sti, and they do *)
(* not nest: holder is the task that runs with interrupts disabled, and    *)
(* the other tasks run only when there is none.  Every step of a task that *)
(* can be interrupted somewhere is an action; a section that cannot is     *)
(* one.  Pages are numbers; the tables of the kernel, pages below          *)
(* UserStart, are shared by all directories.                               *)
(***************************************************************************)
EXTENDS PhysicalAllocator, FiniteSetsExt

CONSTANTS Task, Dir,
          KernelStart,   \* KERNEL_START_ADDRESS
          UserStart,     \* the first page after the kernel's page tables
          TableSize,     \* PAGE_TABLE_ENTRY_COUNT
          Boot,          \* the pages init mapped to themselves
          Available,     \* the pages of memory that are free after init
          MapPages,      \* where callers of memoryMap want their memory
          Workloads,     \* what the tasks may do with the memory
          MapsAlone,     \* does nobody interrupt memoryMap while it looks for pages?
          Absent, Garbage, NoTable, NoTask

ASSUME LayoutAssumption ==
    /\ UserStart \in 1 .. NumPages - 1 /\ KernelStart \in 1 .. UserStart - 1
    /\ TableSize \in Nat \ {0} /\ UserStart % TableSize = 0
    /\ NumPages % TableSize = 0
    /\ Boot \subseteq 0 .. UserStart - 1
    /\ 0 \in Boot

\* No more than the memory that the kernel's page tables can map: an address
\* behind it has no page table, and making one would call VirtualMap again
\* without end.
ASSUME MemoryAssumption == Available \subseteq (0 .. UserStart - 1) \ Boot

\* A workload is the calls that are made, the sizes they ask for, the
\* directories each task works on, and a bound on the allocations alive.
ASSUME CallAssumption ==
    /\ MapPages \subseteq UserStart .. NumPages - 1 /\ MapsAlone \in BOOLEAN
    /\ \A w \in Workloads :
           /\ DOMAIN w = {"calls", "sizes", "uses", "maxAllocations"}
           /\ w.calls \subseteq {"allocate", "allocateUser", "directory", "map", "free"}
           /\ w.sizes \subseteq Nat /\ w.maxAllocations \in Nat
           /\ w.uses \in [Task -> SUBSET Dir]

ASSUME MarkAssumption ==
    {Absent, Garbage, NoTable} \cap Page = {} /\ Absent # Garbage /\ NoTask \notin Task

VARIABLES workload,         \* chosen at first and kept
          memManData,
          kernelPageTable,  \* the entries of the shared tables
          entries,          \* the page table of a directory entry, by directory
          pageTable,        \* the entries of the page tables in user memory
          holder, job,
          allocations,      \* what callers were given and have not freed
          outOfMemory       \* an allocation has failed

vars == <<workload, memManData, kernelPageTable, entries, pageTable, holder, job,
          allocations, outOfMemory>>

KernelPage == 0 .. UserStart - 1
TableIndex == UserStart \div TableSize .. NumPages \div TableSize - 1
Entry == Page \cup {Absent, Garbage}

Idle == [op |-> "idle", dir |-> NoTable, start |-> 0, first |-> 0, n |-> 0, i |-> 0,
         table |-> NoTable, size |-> 0]

Job == [op : {"idle", "allocate", "directory", "map", "mapSearch"}, dir : Dir \cup {NoTable},
        start : Page, first : Page, n : Nat, i : Nat, table : Page \cup {NoTable}, size : Nat]

TypeOK ==
    /\ workload \in Workloads
    /\ memManData \in MemoryManagerData
    /\ kernelPageTable \in [KernelPage -> Entry]
    /\ entries \in [Dir -> [TableIndex -> Page \cup {NoTable}]]
    /\ pageTable \in [Page -> [0 .. TableSize - 1 -> Entry]]
    /\ holder \in Task \cup {NoTask}
    /\ job \in [Task -> Job]
    /\ outOfMemory \in BOOLEAN

Init ==
    /\ workload \in Workloads
    /\ memManData = [used |-> Page \ Available,
                     UsedMemory |-> Minus(0, PAGE_SIZE * Cardinality(Available)),
                     TotalMemory |-> PAGE_SIZE * UserStart]
    /\ kernelPageTable = [v \in KernelPage |-> IF v \in Boot THEN v ELSE Absent]
    /\ entries = [d \in Dir |-> [x \in TableIndex |-> NoTable]]
    /\ pageTable = [f \in Page |-> [x \in 0 .. TableSize - 1 |-> Absent]]
    /\ holder = NoTask
    /\ job = [t \in Task |-> Idle]
    /\ allocations = {}
    /\ outOfMemory = FALSE

-----------------------------------------------------------------------------
(* Lookups: GetPageDirectoryEntry, GetPageTable, GetPageTableEntry.        *)
PAGE_DIR_INDEX(v) == v \div TableSize
PAGE_TABLE_INDEX(v) == v % TableSize

TableOf(d, v) == IF v \in KernelPage THEN 0 ELSE entries[d][PAGE_DIR_INDEX(v)]

GetPageTableEntry(d, v) ==
    IF v \in KernelPage THEN kernelPageTable[v]
    ELSE pageTable[TableOf(d, v)][PAGE_TABLE_INDEX(v)]

IsPagePresent(d, v) == TableOf(d, v) # NoTable /\ GetPageTableEntry(d, v) # Absent

\* The entries of the pages in V become those that e gives.
SetEntries(d, V, e) ==
    /\ kernelPageTable' =
           [v \in KernelPage |-> IF v \in V THEN e[v] ELSE kernelPageTable[v]]
    /\ pageTable' =
           [f \in Page |-> [x \in 0 .. TableSize - 1 |->
               LET hit == {v \in V \ KernelPage :
                              TableOf(d, v) = f /\ PAGE_TABLE_INDEX(v) = x}
               IN  IF hit = {} THEN pageTable[f][x] ELSE e[CHOOSE v \in hit : TRUE]]]

\* The frame behind a present page.
GetPhysicalAddress(d, v) == GetPageTableEntry(d, v)

VirtualFree(d, V) == SetEntries(d, V, [v \in V |-> Absent])

\* The runs of n pages without a present one that start in the set from.
FreeRuns(d, n, from) ==
    {v \in from : v + n - 1 \in from /\ \A i \in 0 .. n - 1 : ~IsPagePresent(d, v + i)}

(* VirtualAllocate's search.  Behind the last user page the address wraps  *)
(* around and the search goes on from page 0; a search that finds nothing  *)
(* there either does not end.                                              *)
SearchVirtual(d, n, user) ==
    LET range == IF user THEN UserStart .. NumPages - 1 ELSE KernelStart .. UserStart - 1
        free  == FreeRuns(d, n, range)
        wrapped == FreeRuns(d, n, Page)
    IN  IF free # {} THEN {Min(free)}
        ELSE IF user /\ wrapped # {} THEN {Min(wrapped)}
        ELSE {}

Runs(t) ==
    /\ holder \in {NoTask, t}
    /\ MapsAlone => \A u \in Task \ {t} : job[u].op # "mapSearch"

Ready(t, call) == Runs(t) /\ job[t] = Idle /\ call \in workload.calls
                  /\ Cardinality(allocations) < workload.maxAllocations

Start(op, d, v, p, size) ==
    [Idle EXCEPT !.op = op, !.dir = d, !.start = v, !.first = p, !.n = NumPagesOf(size),
                 !.size = size]

-----------------------------------------------------------------------------
(* memoryAllocate up to the call of VirtualMap.  Without physical memory   *)
(* it returns with interrupts disabled, except to createUserPageDirectory, *)
(* which enables them.                                                     *)
OutOfPages(t, op, size) ==
    /\ FirstPlace(memManData, NumPagesOf(size)) = 0
    /\ holder' = IF op = "directory" THEN NoTask ELSE t
    /\ outOfMemory' = TRUE
    /\ UNCHANGED <<memManData, kernelPageTable, entries, pageTable, job, allocations>>

OutOfVirtual(d, size) ==
    /\ FirstPlace(memManData, NumPagesOf(size)) # 0
    /\ SearchVirtual(d, NumPagesOf(size), FALSE) = {}
    /\ holder' = NoTask
    /\ outOfMemory' = TRUE
    /\ UNCHANGED <<memManData, kernelPageTable, entries, pageTable, job, allocations>>

\* Mutant: the pages are found before interrupts are disabled.
Reserve_Unlocked(t, op, d, size, user) ==
    LET n == NumPagesOf(size)
        p == FirstPlace(memManData, n)
    IN  /\ p # 0
        /\ \E v \in SearchVirtual(d, n, user) :
               job' = [job EXCEPT ![t] = Start(op, d, v, p, size)]
        /\ memManData' = physicalAllocate(memManData, n)
        /\ UNCHANGED <<kernelPageTable, entries, pageTable, holder, allocations, outOfMemory>>

Reserve(t, op, d, size, user) ==
    LET n == NumPagesOf(size)
        p == FirstPlace(memManData, n)
    IN  /\ p # 0
        /\ \E v \in SearchVirtual(d, n, user) :
               job' = [job EXCEPT ![t] = Start(op, d, v, p, size)]
        /\ memManData' = physicalAllocate(memManData, n)
        /\ holder' = t
        /\ UNCHANGED <<kernelPageTable, entries, pageTable, allocations, outOfMemory>>

memoryAllocate(t, d, size, user) ==
    /\ Ready(t, IF user THEN "allocateUser" ELSE "allocate")
    /\ \/ OutOfPages(t, "allocate", size)
       \/ ~user /\ OutOfVirtual(d, size)
       \/ Reserve(t, "allocate", d, size, user)

createUserPageDirectory(t, d) ==
    /\ Ready(t, "directory")
    /\ \/ OutOfPages(t, "directory", PAGE_SIZE)
       \/ OutOfVirtual(d, PAGE_SIZE)
       \/ Reserve(t, "directory", d, PAGE_SIZE, FALSE)

(* memoryMap takes its pages in two steps: interrupts stay as they are.    *)
memoryMap(t, d, v, size) ==
    /\ Ready(t, "map")
    /\ v + NumPagesOf(size) <= NumPages
    /\ job' = [job EXCEPT ![t] = Start("mapSearch", d, v,
                                       FirstPlace(memManData, NumPagesOf(size)), size)]
    /\ UNCHANGED <<memManData, kernelPageTable, entries, pageTable, holder, allocations,
                   outOfMemory>>

\* Mutant: the pages are mapped and not taken.
memoryMapTake_Forgets(t) ==
    /\ Runs(t) /\ job[t].op = "mapSearch"
    /\ job' = [job EXCEPT ![t].op = "map"]
    /\ UNCHANGED <<memManData, kernelPageTable, entries, pageTable, holder, allocations,
                   outOfMemory>>

memoryMapTake(t) ==
    /\ Runs(t) /\ job[t].op = "mapSearch"
    /\ job' = [job EXCEPT ![t].op = "map"]
    /\ memManData' = IF job[t].first = 0 THEN memManData
                     ELSE physicalAllocateAt(memManData, job[t].first, job[t].n)
    /\ outOfMemory' = (outOfMemory \/ job[t].first = 0)
    /\ UNCHANGED <<kernelPageTable, entries, pageTable, holder, allocations>>

-----------------------------------------------------------------------------
(* VirtualMap, one page of its loop at a time.                             *)
Mapping(t) == Runs(t) /\ job[t].op \in {"allocate", "directory", "map"} /\ job[t].i < job[t].n
MapAt(t) == job[t].start + job[t].i

\* Mutant: the page table is not mapped.
MakeTable_Unmapped(t) ==
    LET f == FirstPlace(memManData, 1) IN
    /\ Mapping(t) /\ TableOf(job[t].dir, MapAt(t)) = NoTable /\ job[t].table = NoTable
    /\ memManData' = physicalAllocate(memManData, 1)
    /\ holder' = NoTask
    /\ job' = [job EXCEPT ![t].table = f]
    /\ UNCHANGED <<kernelPageTable, pageTable, entries, allocations, outOfMemory>>

(* A page table that is missing is allocated and mapped to itself.  The    *)
(* identityMap inside enables interrupts when it returns.                  *)
MakeTable(t) ==
    LET f == FirstPlace(memManData, 1) IN
    /\ Mapping(t) /\ TableOf(job[t].dir, MapAt(t)) = NoTable /\ job[t].table = NoTable
    /\ memManData' = physicalAllocate(memManData, 1)
    /\ kernelPageTable' = [kernelPageTable EXCEPT ![f] = f]
    /\ holder' = NoTask
    /\ job' = [job EXCEPT ![t].table = f]
    /\ outOfMemory' = (outOfMemory \/ f = 0)
    /\ UNCHANGED <<entries, pageTable, allocations>>

\* The frames that hold page tables.
TableFrames == {entries[d][x] : d \in Dir, x \in TableIndex} \ {NoTable}

\* Nobody clears the new page table.
EnterTable(t) ==
    LET f == job[t].table
        d == job[t].dir
    IN  /\ Mapping(t) /\ f # NoTable
        /\ entries' = [entries EXCEPT ![d][PAGE_DIR_INDEX(MapAt(t))] = f]
        /\ \E old \in [0 .. TableSize - 1 -> {Absent, Garbage}] :
               pageTable' = IF f \in TableFrames THEN pageTable
                            ELSE [pageTable EXCEPT ![f] = old]
        /\ job' = [job EXCEPT ![t].table = NoTable]
        /\ UNCHANGED <<memManData, kernelPageTable, holder, allocations, outOfMemory>>

MapPage(t) ==
    LET v == MapAt(t) IN
    /\ Mapping(t) /\ TableOf(job[t].dir, v) # NoTable /\ job[t].table = NoTable
    /\ SetEntries(job[t].dir, {v}, [x \in {v} |-> (job[t].first + job[t].i) % NumPages])
    /\ job' = [job EXCEPT ![t].i = @ + 1]
    /\ UNCHANGED <<memManData, entries, holder, allocations, outOfMemory>>

\* What a call has given its caller; memoryMap without memory gives nothing,
\* although it has mapped page 0.
Result(j) ==
    IF j.first = 0 THEN {}
    ELSE {[dir |-> j.dir, start |-> j.start, first |-> j.first, n |-> j.n, size |-> j.size]}

\* Mutant: interrupts stay disabled.
MapEnd_Locked(t) ==
    /\ Runs(t) /\ job[t].op # "mapSearch" /\ job[t] # Idle /\ job[t].i = job[t].n
    /\ allocations' = allocations \cup Result(job[t])
    /\ job' = [job EXCEPT ![t] = Idle]
    /\ UNCHANGED <<memManData, kernelPageTable, entries, pageTable, holder, outOfMemory>>

\* The callers of VirtualMap return; memoryMap leaves interrupts alone.
MapEnd(t) ==
    /\ Runs(t) /\ job[t].op # "mapSearch" /\ job[t] # Idle /\ job[t].i = job[t].n
    /\ allocations' = allocations \cup Result(job[t])
    /\ holder' = IF job[t].op = "map" THEN holder ELSE NoTask
    /\ job' = [job EXCEPT ![t] = Idle]
    /\ UNCHANGED <<memManData, kernelPageTable, entries, pageTable, outOfMemory>>

-----------------------------------------------------------------------------
\* physicalFree of one frame after the other.
FreeFrames(m, frames) ==
    [m EXCEPT !.used = @ \ frames,
              !.UsedMemory = Minus(@, PAGE_SIZE * Cardinality(frames \cap m.used))]

\* Mutant: the entries stay present.
memoryFree_KeepsEntries(t, a) ==
    LET V == {v \in a.start .. a.start + a.size \div PAGE_SIZE - 1 :
                  IsPagePresent(a.dir, v)}
        frames == {GetPhysicalAddress(a.dir, v) : v \in V} \ {Garbage}
    IN  /\ Runs(t) /\ job[t] = Idle /\ "free" \in workload.calls
        /\ memManData' = FreeFrames(memManData, frames)
        /\ holder' = NoTask
        /\ allocations' = allocations \ {a}
        /\ UNCHANGED <<kernelPageTable, pageTable, entries, job, outOfMemory>>

\* Mutant: the last page is not freed.
memoryFree_ButLast(t, a) ==
    LET V == {v \in a.start .. a.start + a.size \div PAGE_SIZE - 2 :
                  IsPagePresent(a.dir, v)}
        frames == {GetPhysicalAddress(a.dir, v) : v \in V} \ {Garbage}
    IN  /\ Runs(t) /\ job[t] = Idle /\ "free" \in workload.calls
        /\ memManData' = FreeFrames(memManData, frames)
        /\ VirtualFree(a.dir, V)
        /\ holder' = NoTask
        /\ allocations' = allocations \ {a}
        /\ UNCHANGED <<entries, job, outOfMemory>>

(* memoryFree of an allocation, with the size that was asked for.  An      *)
(* entry that nobody wrote stands for a page that cannot be known.         *)
memoryFree(t, a) ==
    LET V == {v \in a.start .. a.start + a.size \div PAGE_SIZE - 1 :
                  IsPagePresent(a.dir, v)}
        found == {GetPhysicalAddress(a.dir, v) : v \in V}
    IN  /\ Runs(t) /\ job[t] = Idle /\ "free" \in workload.calls
        /\ \E unknown \in IF Garbage \in found THEN Page ELSE {0} :
               LET frames == IF Garbage \in found THEN (found \ {Garbage}) \cup {unknown}
                             ELSE found
               IN  memManData' = FreeFrames(memManData, frames)
        /\ VirtualFree(a.dir, V)
        /\ holder' = NoTask
        /\ allocations' = allocations \ {a}
        /\ UNCHANGED <<entries, job, outOfMemory>>

-----------------------------------------------------------------------------
Overlaps(d, v, n) ==
    \E a \in allocations : a.dir = d /\ (v .. v + n - 1) \cap (a.start .. a.start + a.n - 1) # {}

Next ==
    /\ UNCHANGED workload
    /\ \E t \in Task :
         \/ \E d \in workload.uses[t], size \in workload.sizes, user \in BOOLEAN :
                memoryAllocate(t, d, size, user)
         \/ \E d \in workload.uses[t] : createUserPageDirectory(t, d)
         \/ \E d \in workload.uses[t], v \in MapPages, size \in workload.sizes :
                ~Overlaps(d, v, NumPagesOf(size)) /\ memoryMap(t, d, v, size)
         \/ memoryMapTake(t) \/ MakeTable(t) \/ EnterTable(t) \/ MapPage(t) \/ MapEnd(t)
         \/ \E a \in allocations : memoryFree(t, a)

Spec == Init /\ [][Next]_vars

-----------------------------------------------------------------------------
Frames(a) == a.first .. a.first + a.n - 1

\* The frames of the calls that are under way.
InFlight ==
    (UNION {IF job[t].op \in {"idle", "mapSearch"} THEN {} ELSE Frames(job[t]) : t \in Task})
    \cup ({job[t].table : t \in Task} \ {NoTable})

\* Every page of an allocation is mapped to its own frame until it is freed:
\* neither another task's VirtualMap, nor the identityMap of a page table, nor
\* memoryFree of something else changes its page table entries.  VirtualMap
\* does not check that it got memory for a page table: the promise ends when
\* page 0 has become one.
AllocationsMapped ==
    0 \notin TableFrames =>
        \A a \in allocations : \A i \in 0 .. a.n - 1 :
            /\ IsPagePresent(a.dir, a.start + i)
            /\ GetPageTableEntry(a.dir, a.start + i) = a.first + i

\* A frame belongs to one allocation, to one page table or to nobody, and the
\* bitmap has it as used: no two results of physicalAllocate overlap, whatever
\* was freed in between.
FramesExclusive ==
    /\ \A a, b \in allocations : a # b => Frames(a) \cap Frames(b) = {}
    /\ \A a \in allocations : Frames(a) \cap (TableFrames \cup Boot) = {}
    /\ (UNION {Frames(a) : a \in allocations}) \cup TableFrames \subseteq memManData.used

\* A frame the bitmap has as used and that was available at boot is in an
\* allocation, a page table or a call under way: memoryFree gives back every
\* page that memoryAllocate took for the same size.
NothingLeaks ==
    memManData.used \cap Available
        \subseteq (UNION {Frames(a) : a \in allocations}) \cup TableFrames \cup InFlight

\* While all memory is the kernel's, a page of it is mapped to the frame of its
\* own number, whatever is allocated and freed.  The code relies on it:
\* createTask sets cr3 through the number of the page of a directory, as if it
\* were a physical address.  Memory mapped elsewhere leaves frames whose number
\* is not that of the next free page, and the identity ends.
KernelIdentity ==
    workload.calls \cap {"allocateUser", "map"} = {} =>
        \A v \in KernelPage : kernelPageTable[v] \in {v, Absent}

\* The page tables of user memory can be reached at their physical address,
\* where GetPageTable looks for them.
TablesReachable == \A f \in TableFrames : kernelPageTable[f] = f

\* Interrupts are disabled only inside a call, or after one that failed for
\* want of memory: no path through the nested atomic sections forgets sti.
InterruptsRestored == holder # NoTask => job[holder] # Idle \/ outOfMemory
===============================================================================
