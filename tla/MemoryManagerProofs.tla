-------------------------- MODULE MemoryManagerProofs --------------------------
(***************************************************************************)
(* Proofs about virtual memory after boot, for any number of tasks,        *)
(* directories, pages and calls.                                           *)
(***************************************************************************)
EXTENDS MemoryManager, WellFoundedInduction, TLAPS

\* The workloads the promises are about: kernel memory only, allocated and
\* freed, or any memory, never freed, with nobody between the two steps of
\* memoryMap.
KernelOnly(w) == w.calls \cap {"allocateUser", "map"} = {}
NeverFrees(w) == "free" \notin w.calls /\ (MapsAlone \/ "map" \notin w.calls)

\* What init leaves: below the last free page a page of the kernel's memory is
\* either free or mapped to itself, and no page below KERNEL_START_ADDRESS is
\* free.
Below == {v \in KernelStart .. UserStart - 1 : \E f \in Available : v <= f}
Tight == Available \subseteq KernelStart .. UserStart - 1 /\ Below \subseteq Boot \cup Available

\* What a caller was given.
Allocation == [dir : Dir \cup {NoTable}, start : Page, first : Page, n : Nat, size : Nat]

\* The fields of memManData, and no others.
IsData(m) == m = [used |-> m.used, UsedMemory |-> m.UsedMemory, TotalMemory |-> m.TotalMemory]

\* What holds of the variables in every workload.
BaseInv ==
    /\ workload \in Workloads
    /\ IsData(memManData) /\ memManData.used \subseteq Page
    /\ memManData.TotalMemory = PAGE_SIZE * UserStart
    /\ kernelPageTable = [v \in KernelPage |-> kernelPageTable[v]]
    /\ entries \in [Dir -> [TableIndex -> Page \cup {NoTable}]]
    /\ holder \in Task \cup {NoTask}
    /\ job \in [Task -> Job] /\ \A t \in Task : job[t].op = "idle" => job[t] = Idle
    /\ allocations \subseteq Allocation /\ outOfMemory \in BOOLEAN

Active(t) == job[t].op \in {"allocate", "directory", "map"}

\* The pages a call has still to map.
Pending(t, v) == Active(t) /\ job[t].start + job[t].i <= v /\ v < job[t].start + job[t].n

\* The frames that a call has taken, and the new page table it has not entered.
Taken(t) == IF Active(t) /\ job[t].first # 0 THEN Frames(job[t]) ELSE {}
NewTable(t) == {job[t].table} \ {NoTable, 0}

\* What the calls under way have asked for.
CallInv ==
    /\ \A t \in Task : job[t].op # "idle" =>
           /\ job[t].dir \in workload.uses[t] /\ job[t].dir \in Dir
           /\ job[t].start + job[t].n <= NumPages /\ job[t].i <= job[t].n
    /\ \A t \in Task : job[t].op \in {"map", "mapSearch"} =>
           "map" \in workload.calls /\ job[t].start >= UserStart
    /\ \A t \in Task : job[t].op = "mapSearch" => job[t].table = NoTable

\* Every frame has one owner: an allocation, a page table or a call.
Owners ==
    /\ \A a \in allocations : Frames(a) \subseteq memManData.used \ Boot
    /\ \A t \in Task : /\ Taken(t) \subseteq memManData.used \ Boot
                       /\ NewTable(t) \subseteq memManData.used
    /\ TableFrames \subseteq memManData.used
    /\ \A a, b \in allocations : a # b => Frames(a) \cap Frames(b) = {}
    /\ \A a \in allocations : Frames(a) \cap TableFrames = {}
    /\ \A a \in allocations, t \in Task : Frames(a) \cap (Taken(t) \cup NewTable(t)) = {}
    /\ \A t, u \in Task : t # u => Taken(t) \cap Taken(u) = {}
    /\ \A t, u \in Task : Taken(t) \cap NewTable(u) = {}
    /\ \A t \in Task : Taken(t) \cap TableFrames = {}

\* The frames memoryMap has seen are free until it takes them.
ExclusiveInv ==
    /\ Page \ memManData.used \subseteq Available
    /\ Owners
    /\ \A t \in Task : job[t].op = "mapSearch" /\ job[t].first # 0 =>
           /\ Frames(job[t]) = Pages(job[t].first, job[t].n)
           /\ Frames(job[t]) \cap memManData.used = {}

\* Kernel memory: one call at a time, and pages have the numbers of their frames.
KernelInv ==
    /\ \A d \in Dir, x \in TableIndex : entries[d][x] = NoTable
    /\ \A t \in Task : job[t].table = NoTable /\ job[t].op \in {"idle", "allocate", "directory"}
    /\ \A t \in Task : job[t].op # "idle" =>
           /\ holder = t /\ job[t].start = job[t].first /\ job[t].n > 0
           /\ KernelStart <= job[t].start /\ job[t].start + job[t].n <= UserStart
           /\ job[t].start .. job[t].start + job[t].n - 1 \subseteq Below
           /\ job[t].i <= job[t].n /\ job[t].size \div PAGE_SIZE <= job[t].n
    /\ Page \ memManData.used \subseteq Below
    /\ \A t \in Task, v \in Page : Pending(t, v) => v \in memManData.used
    /\ \A v \in KernelPage : kernelPageTable[v] \in {v, Absent}
    /\ \A v \in Below :
           kernelPageTable[v] = Absent <=> v \notin memManData.used \/ \E t \in Task : Pending(t, v)
    /\ \A a \in allocations :
           /\ a.start = a.first /\ KernelStart <= a.start /\ a.start + a.n <= UserStart
           /\ a.size \div PAGE_SIZE <= a.n /\ a.start .. a.start + a.n - 1 \subseteq Below

\* Page tables are mapped to themselves, and a page the kernel is going to map
\* is not one of them.
ReachInv ==
    /\ \A f \in TableFrames : f \in KernelPage /\ kernelPageTable[f] = f
    /\ \A t \in Task : job[t].table # NoTable =>
           job[t].table \in KernelPage /\ kernelPageTable[job[t].table] = job[t].table
    /\ \A t \in Task : \A v \in KernelPage :
           Pending(t, v) => holder = t /\ kernelPageTable[v] = Absent

-----------------------------------------------------------------------------
(* Numbers of pages.                                                       *)

\* A set of numbers has a least one.
LEMMA LeastNumber ==
    ASSUME NEW S \in SUBSET Nat, S # {}
    PROVE  \E x \in S : \A y \in S : x <= y
<1> DEFINE Less == {ss \in Nat \X Nat : ss[1] < ss[2]}
<1>1. OpToRel(<, Nat) = Less
    BY Zenon DEF OpToRel
<1>2. \E x \in S : \A y \in S : ~ (<<y, x>> \in OpToRel(<, Nat))
    BY NatLessThanWellFounded, WFMin, Zenon
<1>3. \E x \in S : \A y \in S : ~ (<<y, x>> \in Less)
    BY <1>1, <1>2, Zenon
<1>4. \A x, y \in Nat : y < x => <<y, x>> \in Less
    BY Zenon
<1> HIDE DEF Less
<1>5. PICK x \in S : \A y \in S : ~ (<<y, x>> \in Less)
    BY <1>3, Zenon
<1>6. ASSUME NEW y \in S PROVE x <= y
    <2>1. ~ (<<y, x>> \in Less) /\ x \in Nat /\ y \in Nat
        BY <1>5, Zenon
    <2>2. ~ (y < x)
        BY <1>4, <2>1, Zenon
    <2> QED
        BY <2>1, <2>2
<1> QED
    BY <1>5, <1>6, Zenon

\* The layout in numbers.
LEMMA Layout ==
    /\ PAGE_SIZE \in Nat /\ PAGE_SIZE > 0 /\ NumPages \in Nat /\ UserStart \in Nat
    /\ KernelStart \in Nat /\ 0 < KernelStart /\ KernelStart < UserStart /\ UserStart < NumPages
    /\ KernelPage \subseteq Page /\ Page \subseteq Nat /\ 0 \in KernelPage /\ 0 \in Page
    /\ Boot \subseteq KernelPage /\ 0 \in Boot /\ Available \subseteq KernelPage \ Boot
  BY PageAssumption, LayoutAssumption, MemoryAssumption DEF KernelPage, Page

\* The marks are no pages.
LEMMA Marks ==
    /\ NoTable \notin Page /\ Absent \notin Page /\ Garbage \notin Page /\ Absent # Garbage
    /\ NoTask \notin Task
  BY MarkAssumption, Zenon

\* The number of pages of a size holds it.
LEMMA SizeInPages ==
    ASSUME NEW size \in Nat
    PROVE  NumPagesOf(size) \in Nat /\ size \div PAGE_SIZE \in Nat
           /\ size \div PAGE_SIZE <= NumPagesOf(size)
           /\ (size % PAGE_SIZE = 0 => NumPagesOf(size) = size \div PAGE_SIZE)
<1> DEFINE q == size \div PAGE_SIZE
           r == size % PAGE_SIZE
<1>1. q \in Nat /\ r \in 0 .. PAGE_SIZE - 1 /\ size = PAGE_SIZE * q + r
    BY PageAssumption
<1>2. CASE r = 0
    BY <1>1, <1>2 DEF NumPagesOf
<1>3. CASE r # 0
    <2> HIDE DEF q, r
    <2>1. size + PAGE_SIZE - r = (q + 1) * PAGE_SIZE
        BY <1>1, PageAssumption
    <2>2. ((q + 1) * PAGE_SIZE) \div PAGE_SIZE = q + 1
        BY <1>1, PageAssumption
    <2>3. PAGE_ALIGN(size) \div PAGE_SIZE = q + 1
        BY <2>1, <2>2, Zenon DEF PAGE_ALIGN, r
    <2>4. NumPagesOf(size) = q + 1
        BY <1>3, <2>3, Zenon DEF NumPagesOf, r
    <2> QED
        BY <1>1, <1>3, <2>4 DEF q, r
<1> QED
    BY <1>2, <1>3, Zenon

\* All pages below UserStart are searched.
LEMMA Searched == (PAGE_SIZE * UserStart) \div PAGE_SIZE = UserStart
  BY Layout

\* What physicalAllocate finds and takes.
LEMMA PlaceFound ==
    ASSUME NEW m, IsData(m), m.used \subseteq Page, m.TotalMemory = PAGE_SIZE * UserStart,
           NEW n \in Nat
    PROVE  /\ FirstPlace(m, n) \in Page /\ FirstPlace(m, n) \in KernelPage
           /\ FirstPlace(m, n) # 0 =>
                  /\ FirstPlace(m, n) \in Places(m, n)
                  /\ \A other \in Places(m, n) : FirstPlace(m, n) <= other
                  /\ physicalAllocate(m, n).used = m.used \cup Pages(FirstPlace(m, n), n)
           /\ FirstPlace(m, n) = 0 =>
                  physicalAllocate(m, n).used = m.used \/ 0 \in Places(m, n)
           /\ physicalAllocate(m, n).used \subseteq Page /\ m.used \subseteq physicalAllocate(m, n).used
           /\ IsData(physicalAllocate(m, n))
           /\ physicalAllocate(m, n).TotalMemory = PAGE_SIZE * UserStart
<1> DEFINE p == FirstPlace(m, n)
<1>1. ASSUME NEW page \in Nat
      PROVE  LET r == physicalAllocateAt(m, page, n) IN
             r.used = m.used \cup Pages(page, n) /\ r.TotalMemory = m.TotalMemory /\ IsData(r)
    <2> DEFINE U == m.used \cup Pages(page, n)
               V == Plus(m.UsedMemory, PAGE_SIZE * Cardinality(Pages(page, n) \ m.used))
               r == physicalAllocateAt(m, page, n)
    <2>1. r = [m EXCEPT !.used = U, !.UsedMemory = V]
        BY Zenon DEF physicalAllocateAt
    <2> HIDE DEF U, V, r
    <2>2. r = [used |-> U, UsedMemory |-> V, TotalMemory |-> m.TotalMemory]
        BY <2>1, Zenon DEF IsData
    <2>3. r.used = U /\ r.TotalMemory = m.TotalMemory /\ IsData(r)
        BY <2>2, Zenon DEF IsData
    <2> QED
        BY <2>3, Zenon DEF U, r
<1>2. \A page \in Nat : Pages(page, n) \subseteq Page
    BY PageAssumption DEF Pages, Page
<1>3. CASE Places(m, n) = {}
    BY <1>3, Layout, Zenon DEF FirstPlace, physicalAllocate
<1>4. CASE Places(m, n) # {}
    <2>1. Places(m, n) \in SUBSET Nat
        BY Layout, Zenon DEF Places
    <2>2. \E page \in Places(m, n) : \A other \in Places(m, n) : page <= other
        BY <1>4, <2>1, LeastNumber, Zenon
    <2>3. p \in Places(m, n) /\ \A other \in Places(m, n) : p <= other
        BY <1>4, <2>2, Zenon DEF FirstPlace
    <2>4. p \in Page /\ p < UserStart /\ p \in Nat
        BY <2>3, Searched, Layout, Zenon DEF Places
    <2>5. p \in KernelPage
        BY <2>4, Layout DEF KernelPage
    <2>6. physicalAllocate(m, n) = physicalAllocateAt(m, p, n)
        BY <1>4, Zenon DEF physicalAllocate
    <2> HIDE DEF p
    <2>7. LET r == physicalAllocate(m, n) IN
          /\ r.used = m.used \cup Pages(p, n) /\ r.TotalMemory = m.TotalMemory /\ IsData(r)
          /\ Pages(p, n) \subseteq Page
        BY <1>1, <1>2, <2>4, <2>6, Zenon
    <2>8. /\ physicalAllocate(m, n).used \subseteq Page /\ m.used \subseteq physicalAllocate(m, n).used
        BY <2>7, Zenon
    <2> QED
        BY <2>3, <2>4, <2>5, <2>7, <2>8, Zenon DEF p
<1> QED
    BY <1>3, <1>4, Zenon

\* A call at its beginning.
LEMMA StartFields ==
    ASSUME NEW op \in {"allocate", "directory", "mapSearch"}, NEW d \in Dir, NEW v \in Page,
           NEW p \in Page, NEW size \in Nat
    PROVE  LET j == Start(op, d, v, p, size) IN
           /\ j \in Job /\ j.op = op /\ j.dir = d /\ j.start = v /\ j.first = p
           /\ j.n = NumPagesOf(size) /\ j.i = 0 /\ j.table = NoTable /\ j.size = size
<1>1. NumPagesOf(size) \in Nat
    BY SizeInPages, Zenon
<1> QED
    BY <1>1, Zenon DEF Start, Idle, Job

\* A task at rest.
LEMMA IdleFields == Idle \in Job /\ Idle.op = "idle" /\ Idle.table = NoTable /\ Idle.first = 0
  BY Layout, Zenon DEF Idle, Job

-----------------------------------------------------------------------------
(* What the steps of a task do, field by field.                            *)

Others(t) == job' = [u \in Task |-> job'[u]] /\ \A u \in Task : u # t => job'[u] = job[u]

\* The fields of a job that most steps leave alone.
SameCall(j, k) == /\ j.dir = k.dir /\ j.start = k.start /\ j.first = k.first /\ j.n = k.n
                  /\ j.size = k.size

\* memoryAllocate or createUserPageDirectory fails.
Fails(t) ==
    /\ Runs(t) /\ job[t] = Idle /\ holder' \in {t, NoTask} /\ outOfMemory' = TRUE
    /\ UNCHANGED <<memManData, kernelPageTable, entries, job, allocations>>

\* A call begins.
Begins(t, op, d, v, p, size) ==
    /\ Runs(t) /\ job[t] = Idle /\ Others(t) /\ d \in workload.uses[t] /\ d \in Dir
    /\ v \in Page /\ p \in Page /\ size \in Nat /\ size \in workload.sizes \cup {PAGE_SIZE}
    /\ LET j == job'[t] IN
           /\ j \in Job /\ j.op = op /\ j.dir = d /\ j.start = v /\ j.first = p
           /\ j.n = NumPagesOf(size) /\ j.i = 0 /\ j.table = NoTable /\ j.size = size
    /\ UNCHANGED <<kernelPageTable, entries, allocations, outOfMemory>>

\* It has taken its frames.
Reserves(t, op, d, v, size, user) ==
    LET n == NumPagesOf(size) IN
    /\ op \in {"allocate", "directory"} /\ user \in BOOLEAN
    /\ user => "allocateUser" \in workload.calls
    /\ Begins(t, op, d, v, FirstPlace(memManData, n), size)
    /\ FirstPlace(memManData, n) # 0 /\ v \in SearchVirtual(d, n, user)
    /\ memManData' = physicalAllocate(memManData, n) /\ holder' = t

\* memoryMap has only looked for them.
Looks(t, d, v, size) ==
    /\ "map" \in workload.calls /\ v >= UserStart /\ v + NumPagesOf(size) <= NumPages
    /\ Begins(t, "mapSearch", d, v, FirstPlace(memManData, NumPagesOf(size)), size)
    /\ UNCHANGED <<memManData, holder>>

\* memoryMap takes the frames it has seen.
Takes(t) ==
    /\ Runs(t) /\ job[t].op = "mapSearch" /\ Others(t)
    /\ SameCall(job'[t], job[t]) /\ job'[t] \in Job /\ job'[t].op = "map"
    /\ job'[t].i = job[t].i /\ job'[t].table = job[t].table
    /\ memManData' = IF job[t].first = 0 THEN memManData
                     ELSE physicalAllocateAt(memManData, job[t].first, job[t].n)
    /\ outOfMemory' = (outOfMemory \/ job[t].first = 0)
    /\ UNCHANGED <<kernelPageTable, entries, holder, allocations>>

\* VirtualMap makes a page table, enters it, or maps a page.
Makes(t, f) ==
    /\ Runs(t) /\ Active(t) /\ job[t].i < job[t].n /\ Others(t)
    /\ TableOf(job[t].dir, MapAt(t)) = NoTable /\ job[t].table = NoTable
    /\ SameCall(job'[t], job[t]) /\ job'[t] \in Job /\ job'[t].op = job[t].op
    /\ job'[t].i = job[t].i /\ job'[t].table = f
    /\ f = FirstPlace(memManData, 1) /\ memManData' = physicalAllocate(memManData, 1)
    /\ kernelPageTable' = [v \in KernelPage |-> IF v = f THEN f ELSE kernelPageTable[v]]
    /\ holder' = NoTask /\ outOfMemory' \in BOOLEAN /\ (outOfMemory => outOfMemory')
    /\ UNCHANGED <<entries, allocations>>

Enters(t) ==
    /\ Runs(t) /\ Active(t) /\ job[t].i < job[t].n /\ Others(t) /\ job[t].table # NoTable
    /\ SameCall(job'[t], job[t]) /\ job'[t] \in Job /\ job'[t].op = job[t].op
    /\ job'[t].i = job[t].i /\ job'[t].table = NoTable
    /\ entries' \in [Dir -> [TableIndex -> Page \cup {NoTable}]]
    /\ \A d \in Dir, x \in TableIndex :
           entries'[d][x] = IF d = job[t].dir /\ x = PAGE_DIR_INDEX(MapAt(t)) THEN job[t].table
                            ELSE entries[d][x]
    /\ UNCHANGED <<memManData, kernelPageTable, holder, allocations, outOfMemory>>

MapsOne(t) ==
    /\ Runs(t) /\ Active(t) /\ job[t].i < job[t].n /\ Others(t)
    /\ TableOf(job[t].dir, MapAt(t)) # NoTable /\ job[t].table = NoTable
    /\ SameCall(job'[t], job[t]) /\ job'[t] \in Job /\ job'[t].op = job[t].op
    /\ job'[t].i = job[t].i + 1 /\ job'[t].table = NoTable
    /\ kernelPageTable' = [v \in KernelPage |-> IF v = MapAt(t)
                              THEN (job[t].first + job[t].i) % NumPages ELSE kernelPageTable[v]]
    /\ UNCHANGED <<memManData, entries, holder, allocations, outOfMemory>>

\* A call ends.
Ends(t) ==
    /\ Runs(t) /\ Active(t) /\ job[t].i = job[t].n /\ Others(t) /\ job'[t] = Idle
    /\ allocations' = allocations \cup Result(job[t])
    /\ holder' = IF job[t].op = "map" THEN holder ELSE NoTask
    /\ UNCHANGED <<memManData, kernelPageTable, entries, outOfMemory>>

\* memoryFree: the pages V of a that are present, and the frames behind them.
Frees(t, a, V, frames) ==
    /\ Runs(t) /\ job[t] = Idle /\ "free" \in workload.calls
    /\ V = {v \in a.start .. a.start + a.size \div PAGE_SIZE - 1 : IsPagePresent(a.dir, v)}
    /\ \/ frames = {GetPhysicalAddress(a.dir, v) : v \in V}
       \/ Garbage \in {GetPhysicalAddress(a.dir, v) : v \in V}
    /\ memManData' = FreeFrames(memManData, frames)
    /\ kernelPageTable' = [v \in KernelPage |-> IF v \in V THEN Absent ELSE kernelPageTable[v]]
    /\ holder' = NoTask /\ allocations' = allocations \ {a}
    /\ UNCHANGED <<entries, job, outOfMemory>>

\* A change of one task's job.
LEMMA JobChanges ==
    ASSUME job \in [Task -> Job], NEW t \in Task, NEW j, job' = [job EXCEPT ![t] = j]
    PROVE  job'[t] = j /\ Others(t)
  BY Zenon DEF Others

\* What the workload of a task is made of.
LEMMA WorkloadFields ==
    ASSUME BaseInv, NEW t \in Task
    PROVE  /\ workload.uses[t] \subseteq Dir /\ workload.sizes \subseteq Nat
<1>1. workload \in Workloads
    BY Zenon DEF BaseInv
<1>2. workload.uses \in [Task -> SUBSET Dir] /\ workload.sizes \subseteq Nat
    BY <1>1, CallAssumption, Zenon
<1> QED
    BY <1>2, Zenon

\* What a search for virtual pages finds.
LEMMA VirtualFound ==
    ASSUME NEW d, NEW n \in Nat, NEW user \in BOOLEAN, NEW v \in SearchVirtual(d, n, user)
    PROVE  \/ v \in Page /\ user /\ v \in FreeRuns(d, n, UserStart .. NumPages - 1)
           \/ v \in Page /\ user /\ v \in FreeRuns(d, n, Page)
           \/ /\ v \in Page /\ ~user /\ v \in FreeRuns(d, n, KernelStart .. UserStart - 1)
              /\ \A w \in FreeRuns(d, n, KernelStart .. UserStart - 1) : v <= w
<1>1. ASSUME NEW from \in SUBSET Page, FreeRuns(d, n, from) # {}
      PROVE  LET S == FreeRuns(d, n, from) IN
             Min(S) \in S /\ Min(S) \in Page /\ \A w \in S : Min(S) <= w
    <2>1. FreeRuns(d, n, from) \subseteq from
        BY Zenon DEF FreeRuns
    <2>2. FreeRuns(d, n, from) \in SUBSET Nat
        BY <2>1, Layout, Zenon
    <2>3. \E x \in FreeRuns(d, n, from) : \A y \in FreeRuns(d, n, from) : x <= y
        BY <1>1, <2>2, LeastNumber, Zenon
    <2> QED
        BY <2>1, <2>3, Zenon DEF Min
<1>2. UserStart .. NumPages - 1 \in SUBSET Page /\ KernelStart .. UserStart - 1 \in SUBSET Page
      /\ Page \in SUBSET Page
    BY Layout DEF Page
<1>3. CASE user
    <2>1. \/ FreeRuns(d, n, UserStart .. NumPages - 1) # {}
             /\ v = Min(FreeRuns(d, n, UserStart .. NumPages - 1))
          \/ FreeRuns(d, n, Page) # {} /\ v = Min(FreeRuns(d, n, Page))
        BY <1>3, Zenon DEF SearchVirtual
    <2> QED
        BY <1>1, <1>2, <1>3, <2>1, Zenon
<1>4. CASE ~user
    <2>1. FreeRuns(d, n, KernelStart .. UserStart - 1) # {}
          /\ v = Min(FreeRuns(d, n, KernelStart .. UserStart - 1))
        BY <1>4, Zenon DEF SearchVirtual
    <2> QED
        BY <1>1, <1>2, <1>4, <2>1, Zenon
<1> QED
    BY <1>3, <1>4, Zenon

\* memoryAllocate and createUserPageDirectory.
LEMMA AllocateEffect ==
    ASSUME BaseInv, NEW t \in Task, NEW op \in {"allocate", "directory"}, NEW d \in workload.uses[t],
           NEW size \in Nat, size \in workload.sizes \cup {PAGE_SIZE},
           NEW user \in BOOLEAN, user => "allocateUser" \in workload.calls,
           Runs(t), job[t] = Idle,
           \/ OutOfPages(t, op, size) \/ OutOfVirtual(d, size) \/ Reserve(t, op, d, size, user)
    PROVE  Fails(t) \/ \E v \in Page : Reserves(t, op, d, v, size, user)
<1>1. CASE OutOfPages(t, op, size) \/ OutOfVirtual(d, size)
    BY <1>1, Zenon DEF OutOfPages, OutOfVirtual, Fails
<1>2. CASE Reserve(t, op, d, size, user)
    <2> DEFINE n == NumPagesOf(size)
               p == FirstPlace(memManData, n)
    <2>1. n \in Nat /\ job \in [Task -> Job] /\ d \in Dir
        BY SizeInPages, WorkloadFields, Zenon DEF BaseInv
    <2>2. p \in Page
        BY <2>1, PlaceFound, Zenon DEF BaseInv
    <2>3. PICK v \in SearchVirtual(d, n, user) : job' = [job EXCEPT ![t] = Start(op, d, v, p, size)]
        BY <1>2, Zenon DEF Reserve
    <2>4. v \in Page
        BY <2>1, VirtualFound, Zenon
    <2>5. p # 0 /\ memManData' = physicalAllocate(memManData, n) /\ holder' = t
          /\ UNCHANGED <<kernelPageTable, entries, allocations, outOfMemory>>
        BY <1>2, Zenon DEF Reserve
    <2>6. job'[t] = Start(op, d, v, p, size) /\ Others(t)
        BY <2>1, <2>3, JobChanges, Zenon
    <2> HIDE DEF n, p
    <2>7. LET j == Start(op, d, v, p, size) IN
          /\ j \in Job /\ j.op = op /\ j.dir = d /\ j.start = v /\ j.first = p
          /\ j.n = NumPagesOf(size) /\ j.i = 0 /\ j.table = NoTable /\ j.size = size
        BY <2>1, <2>2, <2>4, StartFields
    <2>8. Begins(t, op, d, v, p, size)
        BY <2>1, <2>2, <2>4, <2>5, <2>6, <2>7, Zenon DEF Begins
    <2> QED
        BY <2>3, <2>4, <2>5, <2>8, Zenon DEF Reserves, n, p
<1> QED
    BY <1>1, <1>2, Zenon

\* memoryMap.
LEMMA MapEffect ==
    ASSUME BaseInv, NEW t \in Task, NEW d \in workload.uses[t], NEW v \in MapPages,
           NEW size \in workload.sizes, memoryMap(t, d, v, size)
    PROVE  Looks(t, d, v, size)
<1> DEFINE n == NumPagesOf(size)
           p == FirstPlace(memManData, n)
<1>1. size \in Nat /\ job \in [Task -> Job] /\ d \in Dir
    BY WorkloadFields, Zenon DEF BaseInv
<1>2. n \in Nat
    BY <1>1, SizeInPages, Zenon
<1>3. p \in Page
    BY <1>2, PlaceFound, Zenon DEF BaseInv
<1>4. v \in Page /\ v >= UserStart
    BY CallAssumption, Layout DEF Page
<1>5. /\ Runs(t) /\ job[t] = Idle /\ "map" \in workload.calls /\ v + n <= NumPages
      /\ job' = [job EXCEPT ![t] = Start("mapSearch", d, v, p, size)]
      /\ UNCHANGED <<memManData, kernelPageTable, entries, holder, allocations, outOfMemory>>
    BY Zenon DEF memoryMap, Ready
<1>6. job'[t] = Start("mapSearch", d, v, p, size) /\ Others(t)
    BY <1>1, <1>5, JobChanges, Zenon
<1> HIDE DEF n, p
<1>7. LET j == Start("mapSearch", d, v, p, size) IN
      /\ j \in Job /\ j.op = "mapSearch" /\ j.dir = d /\ j.start = v /\ j.first = p
      /\ j.n = NumPagesOf(size) /\ j.i = 0 /\ j.table = NoTable /\ j.size = size
    BY <1>1, <1>3, <1>4, StartFields
<1>8. Begins(t, "mapSearch", d, v, p, size)
    BY <1>1, <1>3, <1>4, <1>5, <1>6, <1>7, Zenon DEF Begins
<1> QED
    BY <1>4, <1>5, <1>8, Zenon DEF Looks, n, p

\* memoryMap, its second step.
LEMMA TakeEffect ==
    ASSUME BaseInv, NEW t \in Task, memoryMapTake(t)
    PROVE  Takes(t)
<1> DEFINE j == [job[t] EXCEPT !.op = "map"]
<1>1. job \in [Task -> Job] /\ job[t] \in Job
    BY Zenon DEF BaseInv
<1>2. job' = [job EXCEPT ![t] = j]
    BY Zenon DEF memoryMapTake
<1>3. j \in Job /\ j.op = "map" /\ SameCall(j, job[t]) /\ j.i = job[t].i /\ j.table = job[t].table
    BY <1>1, Zenon DEF Job, SameCall
<1> HIDE DEF j
<1>4. job'[t] = j /\ Others(t)
    BY <1>1, <1>2, JobChanges, Zenon
<1> QED
    BY <1>3, <1>4, Zenon DEF memoryMapTake, Takes

\* VirtualMap makes a page table.
LEMMA MakeEffect ==
    ASSUME BaseInv, NEW t \in Task, MakeTable(t)
    PROVE  Makes(t, FirstPlace(memManData, 1))
<1> DEFINE f == FirstPlace(memManData, 1)
           j == [job[t] EXCEPT !.table = f]
<1>1. job \in [Task -> Job] /\ job[t] \in Job /\ kernelPageTable = [v \in KernelPage |-> kernelPageTable[v]]
      /\ outOfMemory \in BOOLEAN
    BY Zenon DEF BaseInv
<1>2. f \in Page
    BY PlaceFound, Zenon DEF BaseInv
<1>3. job' = [job EXCEPT ![t] = j]
    BY Zenon DEF MakeTable
<1>4. /\ Runs(t) /\ Active(t) /\ job[t].i < job[t].n
      /\ TableOf(job[t].dir, MapAt(t)) = NoTable /\ job[t].table = NoTable
      /\ memManData' = physicalAllocate(memManData, 1)
      /\ kernelPageTable' = [kernelPageTable EXCEPT ![f] = f]
      /\ holder' = NoTask /\ UNCHANGED <<entries, allocations>>
    BY Zenon DEF MakeTable, Mapping, Active
<1>5. outOfMemory' \in BOOLEAN /\ (outOfMemory => outOfMemory')
    BY <1>1, Zenon DEF MakeTable
<1> HIDE DEF f
<1>6. j \in Job /\ j.op = job[t].op /\ SameCall(j, job[t]) /\ j.i = job[t].i /\ j.table = f
    BY <1>1, <1>2, Zenon DEF Job, SameCall
<1> HIDE DEF j
<1>7. job'[t] = j /\ Others(t)
    BY <1>1, <1>3, JobChanges, Zenon
<1>8. kernelPageTable' = [v \in KernelPage |-> IF v = f THEN f ELSE kernelPageTable[v]]
    BY <1>1, <1>4, Zenon
<1> QED
    BY <1>4, <1>5, <1>6, <1>7, <1>8, Zenon DEF Makes, f

\* It enters the page table.
LEMMA EnterEffect ==
    ASSUME BaseInv, NEW t \in Task, EnterTable(t)
    PROVE  Enters(t)
<1> DEFINE f == job[t].table
           e == job[t].dir
           y == PAGE_DIR_INDEX(MapAt(t))
           j == [job[t] EXCEPT !.table = NoTable]
<1>1. job \in [Task -> Job] /\ job[t] \in Job
      /\ entries \in [Dir -> [TableIndex -> Page \cup {NoTable}]]
    BY Zenon DEF BaseInv
<1>2. job' = [job EXCEPT ![t] = j]
    BY Zenon DEF EnterTable
<1>3. /\ Runs(t) /\ Active(t) /\ job[t].i < job[t].n /\ f # NoTable
      /\ entries' = [entries EXCEPT ![e][y] = f]
      /\ UNCHANGED <<memManData, kernelPageTable, holder, allocations, outOfMemory>>
    BY Zenon DEF EnterTable, Mapping, Active
<1>4. j \in Job /\ j.op = job[t].op /\ SameCall(j, job[t]) /\ j.i = job[t].i /\ j.table = NoTable
      /\ f \in Page \cup {NoTable}
    BY <1>1, Zenon DEF Job, SameCall
<1> HIDE DEF j, f, e, y
<1>5. job'[t] = j /\ Others(t)
    BY <1>1, <1>2, JobChanges, Zenon
<1>6. entries' = [d \in Dir |-> IF d = e THEN [entries[d] EXCEPT ![y] = f] ELSE entries[d]]
    BY <1>1, <1>3, Zenon
<1>7. \A d \in Dir : [entries[d] EXCEPT ![y] = f]
                     = [x \in TableIndex |-> IF x = y THEN f ELSE entries[d][x]]
    BY <1>1, Zenon
<1>8. /\ entries' \in [Dir -> [TableIndex -> Page \cup {NoTable}]]
      /\ \A d \in Dir, x \in TableIndex :
             entries'[d][x] = IF d = e /\ x = y THEN f ELSE entries[d][x]
    BY <1>1, <1>4, <1>6, <1>7, Zenon
<1> QED
    BY <1>3, <1>4, <1>5, <1>8, Zenon DEF Enters, f, e, y

\* It maps a page.
LEMMA MapPageEffect ==
    ASSUME BaseInv, NEW t \in Task, MapPage(t)
    PROVE  MapsOne(t)
<1> DEFINE j == [job[t] EXCEPT !.i = @ + 1]
           w == MapAt(t)
           q == (job[t].first + job[t].i) % NumPages
<1>1. job \in [Task -> Job] /\ job[t] \in Job
    BY Zenon DEF BaseInv
<1>2. job' = [job EXCEPT ![t] = j]
    BY Zenon DEF MapPage
<1>3. /\ Runs(t) /\ Active(t) /\ job[t].i < job[t].n
      /\ TableOf(job[t].dir, MapAt(t)) # NoTable /\ job[t].table = NoTable
      /\ UNCHANGED <<memManData, entries, holder, allocations, outOfMemory>>
      /\ SetEntries(job[t].dir, {w}, [x \in {w} |-> q])
    BY Zenon DEF MapPage, Mapping, Active
<1>4. j \in Job /\ j.op = job[t].op /\ SameCall(j, job[t]) /\ j.i = job[t].i + 1 /\ j.table = NoTable
    BY <1>1, <1>3 DEF Job, SameCall
<1> HIDE DEF j, w, q
<1>5. job'[t] = j /\ Others(t)
    BY <1>1, <1>2, JobChanges, Zenon
<1>6. kernelPageTable' = [v \in KernelPage |-> IF v = w THEN q ELSE kernelPageTable[v]]
    BY <1>3, Zenon DEF SetEntries
<1> QED
    BY <1>3, <1>4, <1>5, <1>6, Zenon DEF MapsOne, w, q

\* The call ends.
LEMMA EndEffect ==
    ASSUME BaseInv, NEW t \in Task, MapEnd(t)
    PROVE  Ends(t)
<1>1. job \in [Task -> Job] /\ job[t] \in Job /\ (job[t].op = "idle" => job[t] = Idle)
    BY Zenon DEF BaseInv
<1>2. job' = [job EXCEPT ![t] = Idle]
    BY Zenon DEF MapEnd
<1>3. job'[t] = Idle /\ Others(t)
    BY <1>1, <1>2, JobChanges, Zenon
<1>4. Active(t)
    BY <1>1, Zenon DEF MapEnd, Active, Job
<1> QED
    BY <1>3, <1>4, Zenon DEF MapEnd, Ends

\* memoryFree.
LEMMA FreeEffect ==
    ASSUME BaseInv, NEW t \in Task, NEW a \in allocations, memoryFree(t, a)
    PROVE  \E V, frames : Frees(t, a, V, frames)
<1> DEFINE V == {v \in a.start .. a.start + a.size \div PAGE_SIZE - 1 : IsPagePresent(a.dir, v)}
           found == {GetPhysicalAddress(a.dir, v) : v \in V}
<1>1. PICK frames : /\ memManData' = FreeFrames(memManData, frames)
                    /\ frames = found \/ Garbage \in found
    BY Zenon DEF memoryFree
<1>2. VirtualFree(a.dir, V)
    BY Zenon DEF memoryFree
<1> HIDE DEF V
<1>3. kernelPageTable' = [v \in KernelPage |-> IF v \in V THEN Absent ELSE kernelPageTable[v]]
    BY <1>2, Zenon DEF VirtualFree, SetEntries
<1>4. /\ Runs(t) /\ job[t] = Idle /\ "free" \in workload.calls
      /\ holder' = NoTask /\ allocations' = allocations \ {a}
      /\ UNCHANGED <<entries, job, outOfMemory>>
    BY Zenon DEF memoryFree
<1>5. V = {v \in a.start .. a.start + a.size \div PAGE_SIZE - 1 : IsPagePresent(a.dir, v)}
    BY Zenon DEF V
<1> QED
    BY <1>1, <1>3, <1>4, <1>5, Zenon DEF Frees

\* One step of task t, in these terms.
TaskStep(t) ==
    \/ Fails(t)
    \/ \E op, d, v, size, user : Reserves(t, op, d, v, size, user)
    \/ \E d, v, size : Looks(t, d, v, size)
    \/ Takes(t) \/ (\E f : Makes(t, f)) \/ Enters(t) \/ MapsOne(t) \/ Ends(t)
    \/ \E a \in allocations : \E V, frames : Frees(t, a, V, frames)

\* Every step of the system is one of them.
LEMMA NextEffects ==
    ASSUME BaseInv, Next
    PROVE  workload' = workload /\ \E t \in Task : TaskStep(t)
<1>0. workload' = workload
    BY Zenon DEF Next
<1>1. PICK t \in Task :
         \/ \E d \in workload.uses[t], size \in workload.sizes, user \in BOOLEAN :
                memoryAllocate(t, d, size, user)
         \/ \E d \in workload.uses[t] : createUserPageDirectory(t, d)
         \/ \E d \in workload.uses[t], v \in MapPages, size \in workload.sizes :
                memoryMap(t, d, v, size)
         \/ memoryMapTake(t) \/ MakeTable(t) \/ EnterTable(t) \/ MapPage(t) \/ MapEnd(t)
         \/ \E a \in allocations : memoryFree(t, a)
    BY Zenon DEF Next
<1>2. ASSUME NEW d \in workload.uses[t], NEW size \in workload.sizes, NEW user \in BOOLEAN,
             memoryAllocate(t, d, size, user)
      PROVE  TaskStep(t)
    <2>1. size \in Nat /\ size \in workload.sizes \cup {PAGE_SIZE}
        BY WorkloadFields, Zenon
    <2>2. Runs(t) /\ job[t] = Idle /\ (user => "allocateUser" \in workload.calls)
        BY <1>2, Zenon DEF memoryAllocate, Ready
    <2>3. \/ OutOfPages(t, "allocate", size) \/ OutOfVirtual(d, size)
          \/ Reserve(t, "allocate", d, size, user)
        BY <1>2, Zenon DEF memoryAllocate
    <2>4. "allocate" \in {"allocate", "directory"}
        BY Zenon
    <2>5. Fails(t) \/ \E v \in Page : Reserves(t, "allocate", d, v, size, user)
        BY <2>1, <2>2, <2>3, <2>4, AllocateEffect, Zenon
    <2> QED
        BY <2>5, Zenon DEF TaskStep
<1>3. ASSUME NEW d \in workload.uses[t], createUserPageDirectory(t, d)
      PROVE  TaskStep(t)
    <2>1. PAGE_SIZE \in Nat /\ PAGE_SIZE \in workload.sizes \cup {PAGE_SIZE} /\ FALSE \in BOOLEAN /\ "directory" \in {"allocate", "directory"}
        BY Layout, Zenon
    <2>2. Runs(t) /\ job[t] = Idle
        BY <1>3, Zenon DEF createUserPageDirectory, Ready
    <2>3. \/ OutOfPages(t, "directory", PAGE_SIZE) \/ OutOfVirtual(d, PAGE_SIZE)
          \/ Reserve(t, "directory", d, PAGE_SIZE, FALSE)
        BY <1>3, Zenon DEF createUserPageDirectory
    <2>5. Fails(t) \/ \E v \in Page : Reserves(t, "directory", d, v, PAGE_SIZE, FALSE)
        BY <2>1, <2>2, <2>3, AllocateEffect, Zenon
    <2> QED
        BY <2>5, Zenon DEF TaskStep
<1>4. ASSUME NEW d \in workload.uses[t], NEW v \in MapPages, NEW size \in workload.sizes,
             memoryMap(t, d, v, size)
      PROVE  TaskStep(t)
    BY <1>4, MapEffect, Zenon DEF TaskStep
<1>5. ASSUME memoryMapTake(t) \/ EnterTable(t) \/ MapPage(t) \/ MapEnd(t) PROVE TaskStep(t)
    BY <1>5, TakeEffect, EnterEffect, MapPageEffect, EndEffect, Zenon DEF TaskStep
<1>6. ASSUME MakeTable(t) PROVE TaskStep(t)
    BY <1>6, MakeEffect, Zenon DEF TaskStep
<1>7. ASSUME NEW a \in allocations, memoryFree(t, a) PROVE TaskStep(t)
    BY <1>7, FreeEffect, Zenon DEF TaskStep
<1>8. TaskStep(t)
    BY <1>1, <1>2, <1>3, <1>4, <1>5, <1>6, <1>7, Zenon
<1> QED
    BY <1>0, <1>8, Zenon

-----------------------------------------------------------------------------
(* What holds in every workload.                                           *)

\* It holds after boot.
LEMMA BaseStarts == Init => BaseInv
<1> SUFFICES ASSUME Init PROVE BaseInv
    BY Zenon
<1>1. memManData.used \subseteq Page /\ memManData.TotalMemory = PAGE_SIZE * UserStart
      /\ IsData(memManData)
    BY Zenon DEF Init, IsData
<1>2. entries \in [Dir -> [TableIndex -> Page \cup {NoTable}]]
    BY Zenon DEF Init
<1>3. job \in [Task -> Job] /\ \A t \in Task : job[t].op = "idle" => job[t] = Idle
    BY IdleFields, Zenon DEF Init
<1>4. kernelPageTable = [v \in KernelPage |-> kernelPageTable[v]]
    BY Zenon DEF Init
<1> QED
    BY <1>1, <1>2, <1>3, <1>4, Zenon DEF Init, BaseInv

\* A change of one job keeps their types.
LEMMA JobsKept ==
    ASSUME BaseInv, NEW t \in Task, Others(t), job'[t] \in Job, job'[t].op = "idle" => job'[t] = Idle
    PROVE  job' \in [Task -> Job] /\ \A u \in Task : job'[u].op = "idle" => job'[u] = Idle
<1>1. \A u \in Task : job'[u] \in Job /\ (job'[u].op = "idle" => job'[u] = Idle)
    BY Zenon DEF BaseInv, Others
<1>2. job' = [u \in Task |-> job'[u]]
    BY Zenon DEF Others
<1> QED
    BY <1>1, <1>2, Zenon

\* physicalAllocateAt keeps the shape of the data.
LEMMA TakenAt ==
    ASSUME NEW m, IsData(m), NEW page \in Nat, NEW n \in Nat
    PROVE  LET r == physicalAllocateAt(m, page, n) IN
           /\ r.used = m.used \cup Pages(page, n) /\ r.TotalMemory = m.TotalMemory /\ IsData(r)
           /\ Pages(page, n) \subseteq Page
<1> DEFINE U == m.used \cup Pages(page, n)
           V == Plus(m.UsedMemory, PAGE_SIZE * Cardinality(Pages(page, n) \ m.used))
           r == physicalAllocateAt(m, page, n)
<1>1. r = [m EXCEPT !.used = U, !.UsedMemory = V]
    BY Zenon DEF physicalAllocateAt
<1> HIDE DEF U, V, r
<1>2. r = [used |-> U, UsedMemory |-> V, TotalMemory |-> m.TotalMemory]
    BY <1>1, Zenon DEF IsData
<1>3. r.used = U /\ r.TotalMemory = m.TotalMemory /\ IsData(r)
    BY <1>2, Zenon DEF IsData
<1>4. Pages(page, n) \subseteq Page
    BY PageAssumption DEF Pages, Page
<1> QED
    BY <1>3, <1>4, Zenon DEF U, r

\* And so does FreeFrames.
LEMMA GivenBack ==
    ASSUME NEW m, IsData(m), NEW frames
    PROVE  LET r == FreeFrames(m, frames) IN
           r.used = m.used \ frames /\ r.TotalMemory = m.TotalMemory /\ IsData(r)
<1> DEFINE U == m.used \ frames
           V == Minus(m.UsedMemory, PAGE_SIZE * Cardinality(frames \cap m.used))
           r == FreeFrames(m, frames)
<1>1. r = [m EXCEPT !.used = U, !.UsedMemory = V]
    BY Zenon DEF FreeFrames
<1> HIDE DEF U, V, r
<1>2. r = [used |-> U, UsedMemory |-> V, TotalMemory |-> m.TotalMemory]
    BY <1>1, Zenon DEF IsData
<1>3. r.used = U /\ r.TotalMemory = m.TotalMemory /\ IsData(r)
    BY <1>2, Zenon DEF IsData
<1> QED
    BY <1>3, Zenon DEF U, r

\* What a call gives its caller.
LEMMA ResultType ==
    ASSUME NEW j \in Job
    PROVE  Result(j) \subseteq Allocation
  BY DEF Result, Job, Allocation

\* Every step of a task keeps it.
LEMMA BaseStep ==
    ASSUME BaseInv, Next
    PROVE  BaseInv'
<1>0. PICK t \in Task : workload' = workload /\ TaskStep(t)
    BY NextEffects, Zenon
<1>b. /\ workload \in Workloads /\ IsData(memManData) /\ memManData.used \subseteq Page
      /\ memManData.TotalMemory = PAGE_SIZE * UserStart
      /\ kernelPageTable = [v \in KernelPage |-> kernelPageTable[v]]
      /\ entries \in [Dir -> [TableIndex -> Page \cup {NoTable}]]
      /\ holder \in Task \cup {NoTask}
      /\ job \in [Task -> Job] /\ (\A u \in Task : job[u].op = "idle" => job[u] = Idle)
      /\ allocations \subseteq Allocation /\ outOfMemory \in BOOLEAN
    BY Zenon DEF BaseInv
<1>1. CASE Fails(t)
    BY <1>0, <1>1, <1>b, Zenon DEF BaseInv, Fails
<1>2. ASSUME NEW op, NEW d, NEW v, NEW size, NEW user, Reserves(t, op, d, v, size, user)
      PROVE  BaseInv'
    <2> DEFINE n == NumPagesOf(size)
    <2>1. size \in Nat /\ n \in Nat
        BY <1>2, SizeInPages, Zenon DEF Reserves, Begins
    <2> HIDE DEF n
    <2>2. LET m == physicalAllocate(memManData, n) IN
          m.used \subseteq Page /\ IsData(m) /\ m.TotalMemory = PAGE_SIZE * UserStart
        BY <1>b, <2>1, PlaceFound, Zenon
    <2>3. Others(t) /\ job'[t] \in Job /\ job'[t].op = op /\ op # "idle"
          /\ UNCHANGED <<kernelPageTable, entries, allocations, outOfMemory>>
          /\ memManData' = physicalAllocate(memManData, n) /\ holder' = t
        BY <1>2, Zenon DEF Reserves, Begins, n
    <2>4. job' \in [Task -> Job] /\ \A u \in Task : job'[u].op = "idle" => job'[u] = Idle
        BY <2>3, JobsKept, Zenon
    <2> QED
        BY <1>0, <1>b, <2>2, <2>3, <2>4, Zenon DEF BaseInv
<1>3. ASSUME NEW d, NEW v, NEW size, Looks(t, d, v, size)
      PROVE  BaseInv'
    <2>3. Others(t) /\ job'[t] \in Job /\ job'[t].op = "mapSearch"
          /\ UNCHANGED <<kernelPageTable, entries, allocations, outOfMemory, memManData, holder>>
        BY <1>3, Zenon DEF Looks, Begins
    <2>4. job' \in [Task -> Job] /\ \A u \in Task : job'[u].op = "idle" => job'[u] = Idle
        BY <2>3, JobsKept, Zenon
    <2> QED
        BY <1>0, <1>b, <2>3, <2>4, Zenon DEF BaseInv
<1>4. CASE Takes(t)
    <2>1. job[t].first \in Nat /\ job[t].n \in Nat
        BY <1>b, Layout, Zenon DEF Job
    <2>2. memManData' = memManData
          \/ memManData' = physicalAllocateAt(memManData, job[t].first, job[t].n)
        BY <1>4, Zenon DEF Takes
    <2>3. IsData(memManData') /\ memManData'.used \subseteq Page
          /\ memManData'.TotalMemory = PAGE_SIZE * UserStart
        BY <1>b, <2>1, <2>2, TakenAt
    <2>4. Others(t) /\ job'[t] \in Job /\ job'[t].op = "map" /\ outOfMemory' \in BOOLEAN
          /\ UNCHANGED <<kernelPageTable, entries, holder, allocations>>
        BY <1>4, <1>b, Zenon DEF Takes
    <2>5. job' \in [Task -> Job] /\ \A u \in Task : job'[u].op = "idle" => job'[u] = Idle
        BY <2>4, JobsKept, Zenon
    <2> QED
        BY <1>0, <1>b, <2>3, <2>4, <2>5, Zenon DEF BaseInv
<1>5. ASSUME NEW f, Makes(t, f)
      PROVE  BaseInv'
    <2>2. LET m == physicalAllocate(memManData, 1) IN
          m.used \subseteq Page /\ IsData(m) /\ m.TotalMemory = PAGE_SIZE * UserStart
        BY <1>b, PlaceFound, Zenon
    <2>3. Others(t) /\ job'[t] \in Job /\ job'[t].op \in {"allocate", "directory", "map"}
          /\ UNCHANGED <<entries, allocations>> /\ outOfMemory' \in BOOLEAN
          /\ memManData' = physicalAllocate(memManData, 1) /\ holder' = NoTask
          /\ kernelPageTable' = [v \in KernelPage |-> kernelPageTable'[v]]
        BY <1>5, Zenon DEF Makes, Active
    <2>4. job' \in [Task -> Job] /\ \A u \in Task : job'[u].op = "idle" => job'[u] = Idle
        BY <2>3, JobsKept, Zenon
    <2> QED
        BY <1>0, <1>b, <2>2, <2>3, <2>4, Zenon DEF BaseInv
<1>6. CASE Enters(t)
    <2>3. Others(t) /\ job'[t] \in Job /\ job'[t].op \in {"allocate", "directory", "map"}
          /\ UNCHANGED <<memManData, kernelPageTable, holder, allocations, outOfMemory>>
          /\ entries' \in [Dir -> [TableIndex -> Page \cup {NoTable}]]
        BY <1>6, Zenon DEF Enters, Active
    <2>4. job' \in [Task -> Job] /\ \A u \in Task : job'[u].op = "idle" => job'[u] = Idle
        BY <2>3, JobsKept, Zenon
    <2> QED
        BY <1>0, <1>b, <2>3, <2>4, Zenon DEF BaseInv
<1>7. CASE MapsOne(t)
    <2>3. Others(t) /\ job'[t] \in Job /\ job'[t].op \in {"allocate", "directory", "map"}
          /\ UNCHANGED <<memManData, entries, holder, allocations, outOfMemory>>
          /\ kernelPageTable' = [v \in KernelPage |-> kernelPageTable'[v]]
        BY <1>7, Zenon DEF MapsOne, Active
    <2>4. job' \in [Task -> Job] /\ \A u \in Task : job'[u].op = "idle" => job'[u] = Idle
        BY <2>3, JobsKept, Zenon
    <2> QED
        BY <1>0, <1>b, <2>3, <2>4, Zenon DEF BaseInv
<1>8. CASE Ends(t)
    <2>1. Result(job[t]) \subseteq Allocation
        BY <1>b, ResultType, Zenon
    <2>3. Others(t) /\ job'[t] = Idle /\ allocations' = allocations \cup Result(job[t])
          /\ UNCHANGED <<memManData, kernelPageTable, entries, outOfMemory>>
          /\ holder' \in {holder, NoTask}
        BY <1>8, Zenon DEF Ends
    <2>4. job' \in [Task -> Job] /\ \A u \in Task : job'[u].op = "idle" => job'[u] = Idle
        BY <2>3, JobsKept, IdleFields, Zenon
    <2> QED
        BY <1>0, <1>b, <2>1, <2>3, <2>4, Zenon DEF BaseInv
<1>9. ASSUME NEW a \in allocations, NEW V, NEW frames, Frees(t, a, V, frames)
      PROVE  BaseInv'
    <2>1. LET m == FreeFrames(memManData, frames) IN
          m.used \subseteq Page /\ IsData(m) /\ m.TotalMemory = PAGE_SIZE * UserStart
        BY <1>b, GivenBack
    <2>2. /\ memManData' = FreeFrames(memManData, frames) /\ allocations' \subseteq allocations
          /\ kernelPageTable' = [v \in KernelPage |-> kernelPageTable'[v]]
          /\ holder' = NoTask /\ UNCHANGED <<entries, job, outOfMemory>>
        BY <1>9, Zenon DEF Frees
    <2> QED
        BY <1>0, <1>b, <2>1, <2>2, Zenon DEF BaseInv
<1> QED
    BY <1>0, <1>1, <1>2, <1>3, <1>4, <1>5, <1>6, <1>7, <1>8, <1>9, Zenon DEF TaskStep

\* A step that changes nothing keeps it.
LEMMA BaseStutters == BaseInv /\ UNCHANGED vars => BaseInv'
  BY Zenon DEF BaseInv, vars

-----------------------------------------------------------------------------
(* Interrupts.                                                             *)

\* Who holds them off is inside a call that is going to allow them again.
LockInv == holder # NoTask => job[holder].op \in {"allocate", "directory"} \/ outOfMemory

\* Every step of a task keeps it: the others cannot run.
LEMMA LockStep ==
    ASSUME BaseInv, LockInv, Next
    PROVE  LockInv'
<1>0. PICK t \in Task : workload' = workload /\ TaskStep(t)
    BY NextEffects, Zenon
<1>1. CASE Fails(t)
    BY <1>1, Zenon DEF LockInv, Fails
<1>2. ASSUME NEW op, NEW d, NEW v, NEW size, NEW user, Reserves(t, op, d, v, size, user)
      PROVE  LockInv'
    BY <1>2, Zenon DEF LockInv, Reserves, Begins
<1>3. ASSUME NEW d, NEW v, NEW size, Looks(t, d, v, size)
      PROVE  LockInv'
    BY <1>3, IdleFields, Zenon DEF LockInv, Looks, Begins, Runs
<1>4. CASE Takes(t)
    BY <1>4, Zenon DEF LockInv, Takes, Runs
<1>5. ASSUME NEW f, Makes(t, f)
      PROVE  LockInv'
    BY <1>5, Zenon DEF LockInv, Makes
<1>6. CASE Enters(t)
    BY <1>6, Zenon DEF LockInv, Enters, Runs
<1>7. CASE MapsOne(t)
    BY <1>7, Zenon DEF LockInv, MapsOne, Runs
<1>8. CASE Ends(t)
    BY <1>8, Zenon DEF LockInv, Ends, Runs
<1>9. ASSUME NEW a \in allocations, NEW V, NEW frames, Frees(t, a, V, frames)
      PROVE  LockInv'
    BY <1>9, Zenon DEF LockInv, Frees
<1> QED
    BY <1>0, <1>1, <1>2, <1>3, <1>4, <1>5, <1>6, <1>7, <1>8, <1>9, Zenon DEF TaskStep

\* Whatever the tasks do, no path through memoryAllocate,
\* createUserPageDirectory, memoryMap, VirtualMap and memoryFree forgets to
\* enable interrupts, but for those on which memory ran out.
THEOREM InterruptsComeBack == Spec => []InterruptsRestored
<1>1. Init => BaseInv /\ LockInv
    BY BaseStarts, Zenon DEF Init, LockInv
<1>2. BaseInv /\ LockInv /\ [Next]_vars => (BaseInv /\ LockInv)'
    <2> SUFFICES ASSUME BaseInv, LockInv, [Next]_vars PROVE (BaseInv /\ LockInv)'
        BY Zenon
    <2>1. CASE Next
        BY <2>1, BaseStep, LockStep, Zenon
    <2>2. CASE UNCHANGED vars
        BY <2>2, BaseStutters, Zenon DEF LockInv, vars
    <2> QED
        BY <2>1, <2>2, Zenon
<1>3. BaseInv /\ LockInv => InterruptsRestored
    BY IdleFields, Zenon DEF LockInv, InterruptsRestored, BaseInv
<1> QED
    BY <1>1, <1>2, <1>3, PTL DEF Spec

-----------------------------------------------------------------------------
(* Kernel memory.                                                          *)

\* The pages of the kernel's tables are present when their entry is.
LEMMA KernelPresent ==
    ASSUME NEW d, NEW v \in KernelPage
    PROVE  /\ TableOf(d, v) # NoTable /\ GetPageTableEntry(d, v) = kernelPageTable[v]
           /\ IsPagePresent(d, v) <=> kernelPageTable[v] # Absent
  BY Layout, Marks, Zenon DEF TableOf, GetPageTableEntry, IsPagePresent

\* Pages without a wrap around.
LEMMA PagesInRow ==
    ASSUME NEW p \in Nat, NEW n \in Nat, p + n <= NumPages
    PROVE  Pages(p, n) = p .. p + n - 1
<1>1. \A i \in 0 .. n - 1 : (p + i) % NumPages = p + i
    BY Layout
<1>2. \A x \in p .. p + n - 1 : x - p \in 0 .. n - 1 /\ p + (x - p) = x
    OBVIOUS
<1>3. \A x \in p .. p + n - 1 : x \in Pages(p, n)
    BY <1>1, <1>2, Zenon DEF Pages
<1>4. \A i \in 0 .. n - 1 : p + i \in p .. p + n - 1
    OBVIOUS
<1>5. \A x \in Pages(p, n) : x \in p .. p + n - 1
    BY <1>1, <1>4, Zenon DEF Pages
<1> QED
    BY <1>3, <1>5, Zenon

\* No pages are always free at page 0.
LEMMA NoPages ==
    ASSUME NEW m, m.TotalMemory = PAGE_SIZE * UserStart, NEW n \in Nat, FirstPlace(m, n) # 0,
           m.used \subseteq Page, IsData(m)
    PROVE  n > 0
<1> SUFFICES ASSUME n = 0 PROVE FALSE
    OBVIOUS
<1>1. Pages(0, n) = {}
    BY DEF Pages
<1>2. 0 \in Places(m, n)
    BY <1>1, Searched, Layout DEF Places, isPhysicalFree
<1>3. FirstPlace(m, n) <= 0 /\ FirstPlace(m, n) \in Nat
    BY <1>2, PlaceFound, Layout, Zenon
<1> QED
    BY <1>3

\* When all free pages are the kernel's, a place of free pages has no wrap around.
LEMMA PlaceInRow ==
    ASSUME NEW m, m.TotalMemory = PAGE_SIZE * UserStart, NEW n \in Nat, n > 0,
           Page \ m.used \subseteq KernelStart .. UserStart - 1, NEW p \in Places(m, n)
    PROVE  /\ p \in Nat /\ KernelStart <= p /\ p + n <= UserStart
           /\ \A i \in 0 .. n - 1 : p + i \in Page \ m.used
<1>1. p \in Nat /\ p < UserStart /\ Pages(p, n) \cap m.used = {}
    BY Searched, Layout, Zenon DEF Places, isPhysicalFree
<1>2. UserStart \in Page /\ UserStart \in m.used
    BY Layout DEF Page
<1>3. p + n <= UserStart
    <2> SUFFICES ASSUME UserStart < p + n PROVE FALSE
        BY <1>1, Layout
    <2>1. UserStart - p \in 0 .. n - 1 /\ (p + (UserStart - p)) % NumPages = UserStart
        BY <1>1, Layout
    <2>2. UserStart \in Pages(p, n)
        BY <2>1, Zenon DEF Pages
    <2> QED
        BY <1>1, <1>2, <2>2, Zenon
<1>4. Pages(p, n) = p .. p + n - 1
    BY <1>1, <1>3, PagesInRow, Layout
<1>5. \A i \in 0 .. n - 1 : p + i \in p .. p + n - 1 /\ p + i \in Page
    BY <1>1, <1>3, Layout DEF Page
<1>6. \A i \in 0 .. n - 1 : p + i \in Page \ m.used
    BY <1>1, <1>4, <1>5, Zenon
<1>7. p + 0 \in Page \ m.used
    BY <1>6
<1>8. KernelStart <= p
    BY <1>1, <1>7, Layout
<1> QED
    BY <1>1, <1>3, <1>6, <1>8, Zenon

\* When nobody is inside a call and pages have the numbers of their frames,
\* the two searches find the same place.
LEMMA SamePlace ==
    ASSUME BaseInv, Page \ memManData.used \subseteq Below,
           \A v \in Below : kernelPageTable[v] = Absent <=> v \notin memManData.used,
           NEW d, NEW n \in Nat, FirstPlace(memManData, n) # 0,
           NEW v \in SearchVirtual(d, n, FALSE)
    PROVE  /\ n > 0 /\ v = FirstPlace(memManData, n) /\ v \in Nat
           /\ KernelStart <= v /\ v + n <= UserStart
           /\ Pages(v, n) = v .. v + n - 1 /\ Pages(v, n) \cap memManData.used = {}
           /\ v .. v + n - 1 \subseteq Below
<1> DEFINE p == FirstPlace(memManData, n)
           range == KernelStart .. UserStart - 1
<1>0. /\ IsData(memManData) /\ memManData.used \subseteq Page
      /\ memManData.TotalMemory = PAGE_SIZE * UserStart
    BY Zenon DEF BaseInv
<1>1. p \in Places(memManData, n) /\ \A other \in Places(memManData, n) : p <= other
    BY <1>0, PlaceFound, Zenon
<1>2. n > 0
    BY <1>0, NoPages, Zenon
<1>3. \A w \in range : w \in KernelPage /\ w \in Page /\ w \in Nat
    BY Layout DEF KernelPage, Page
<1>4. \A w \in Below : w \in range /\ (~IsPagePresent(d, w) <=> w \notin memManData.used)
    <2>1. Below \subseteq range
        BY Zenon DEF Below
    <2> QED
        BY <1>3, <2>1, KernelPresent, Zenon
<1>5. v \in FreeRuns(d, n, range) /\ \A w \in FreeRuns(d, n, range) : v <= w
    BY VirtualFound, Zenon
<1> HIDE DEF p
<1>6. /\ p \in Nat /\ KernelStart <= p /\ p + n <= UserStart
      /\ \A i \in 0 .. n - 1 : p + i \in Page \ memManData.used
    <2>1. Below \subseteq KernelStart .. UserStart - 1
        BY Zenon DEF Below
    <2>2. Page \ memManData.used \subseteq KernelStart .. UserStart - 1
        BY <2>1, Zenon
    <2> QED
        BY <1>0, <1>1, <1>2, <2>2, PlaceInRow, Zenon
<1>7. p \in FreeRuns(d, n, range)
    <2>1. p \in range /\ p + n - 1 \in range
        BY <1>2, <1>6, Layout
    <2>2. \A i \in 0 .. n - 1 : ~IsPagePresent(d, p + i)
        BY <1>4, <1>6, Zenon
    <2> QED
        BY <2>1, <2>2, Zenon DEF FreeRuns
<1>8. v \in Nat /\ v \in range /\ v + n - 1 \in range /\ \A i \in 0 .. n - 1 : ~IsPagePresent(d, v + i)
    BY <1>3, <1>5, Zenon DEF FreeRuns
<1>9. v + n <= UserStart /\ KernelStart <= v /\ v < UserStart /\ v <= p
    BY <1>5, <1>7, <1>8, Layout
<1>10. Pages(v, n) = v .. v + n - 1
    BY <1>8, <1>9, PagesInRow, Layout
<1>11. v .. v + n - 1 \subseteq Below
    <2>1. p + (n - 1) \in Below
        BY <1>2, <1>6
    <2>2. PICK f \in Available : p + (n - 1) <= f
        BY <2>1, Zenon DEF Below
    <2>3. f \in Nat
        BY Layout, Zenon
    <2>4. \A x \in v .. v + n - 1 : x \in range /\ x <= f
        BY <1>6, <1>8, <1>9, <2>2, <2>3, Layout
    <2> QED
        BY <2>2, <2>4, Zenon DEF Below
<1>12. Pages(v, n) \cap memManData.used = {}
    <2> SUFFICES ASSUME NEW x \in v .. v + n - 1 PROVE x \notin memManData.used
        BY <1>10, Zenon
    <2>1. x - v \in 0 .. n - 1 /\ v + (x - v) = x
        BY <1>8, <1>9, Layout
    <2>2. ~IsPagePresent(d, x)
        BY <1>8, <2>1, Zenon
    <2> QED
        BY <1>4, <1>11, <2>2, Zenon
<1>13. v \in Places(memManData, n)
    BY <1>0, <1>3, <1>8, <1>9, <1>12, Searched, Zenon DEF Places, isPhysicalFree
<1>14. v = p
    BY <1>1, <1>5, <1>6, <1>7, <1>8, <1>13
<1> QED
    BY <1>2, <1>8, <1>9, <1>10, <1>11, <1>12, <1>14, Zenon DEF p

\* Kernel memory is in order after boot.
LEMMA KernelStarts ==
    ASSUME Tight, Init
    PROVE  KernelInv
<1>1. \A t \in Task : job[t] = Idle
    BY Zenon DEF Init
<1>2. \A t \in Task : job[t].op = "idle" /\ job[t].table = NoTable
    BY <1>1, IdleFields, Zenon
<1>3. \A t \in Task : \A v : ~Pending(t, v)
    BY <1>2, Zenon DEF Pending, Active
<1>4. memManData.used = Page \ Available
    BY Zenon DEF Init
<1>5. Page \ memManData.used \subseteq Below
    <2>1. Available \subseteq Below
        BY Layout DEF Tight, Below, KernelPage
    <2> QED
        BY <1>4, <2>1, Zenon
<1>6. \A v \in KernelPage : kernelPageTable[v] = IF v \in Boot THEN v ELSE Absent
    BY Zenon DEF Init
<1>7. \A v \in Below :
          v \in KernelPage /\ v # Absent /\ (v \in Boot \/ v \in Available) /\ v \in Page
          /\ ~(v \in Boot /\ v \in Available)
    <2>1. \A v \in Below : v \in KernelPage /\ v \in Page
        BY Layout DEF Below, KernelPage, Page
    <2>2. \A v \in Below : v \in Boot \/ v \in Available
        BY Zenon DEF Tight
    <2> QED
        BY <2>1, <2>2, Marks, Layout, Zenon
<1>8. \A v \in Below :
          kernelPageTable[v] = Absent <=> v \notin memManData.used \/ \E t \in Task : Pending(t, v)
    BY <1>3, <1>4, <1>6, <1>7, Zenon
<1>9. \A v \in KernelPage : kernelPageTable[v] \in {v, Absent}
    BY <1>6, Zenon
<1>10. \A d \in Dir, x \in TableIndex : entries[d][x] = NoTable
    BY Zenon DEF Init
<1>11. allocations = {}
    BY Zenon DEF Init
<1>12. \A t \in Task : job[t].op = "idle"
    BY <1>2, Zenon
<1> QED
    BY <1>2, <1>3, <1>5, <1>8, <1>9, <1>10, <1>11, <1>12, Zenon DEF KernelInv

\* A task that runs and is in no call is alone.
LEMMA AllIdle ==
    ASSUME BaseInv, KernelInv, NEW t \in Task, Runs(t), job[t] = Idle
    PROVE  /\ \A u \in Task : job[u].op = "idle"
           /\ \A v \in Below : kernelPageTable[v] = Absent <=> v \notin memManData.used
<1>1. \A u \in Task : job[u].op = "idle"
    <2> SUFFICES ASSUME NEW u \in Task, job[u].op # "idle" PROVE FALSE
        BY Zenon
    <2>1. holder = u
        BY Zenon DEF KernelInv
    <2>2. u = t
        BY <2>1, Marks, Zenon DEF Runs
    <2> QED
        BY <2>2, IdleFields, Zenon
<1>2. \A u \in Task : \A v : ~Pending(u, v)
    BY <1>1, Zenon DEF Pending, Active
<1>3. \A v \in Below :
          kernelPageTable[v] = Absent <=> v \notin memManData.used \/ \E u \in Task : Pending(u, v)
    BY Zenon DEF KernelInv
<1>4. \A v \in Below : kernelPageTable[v] = Absent <=> v \notin memManData.used
    BY <1>2, <1>3, Zenon
<1> QED
    BY <1>1, <1>4, Zenon

\* memoryAllocate keeps kernel memory in order.
LEMMA KernelReserves ==
    ASSUME BaseInv, KernelInv, KernelOnly(workload), NEW t \in Task, NEW op, NEW d, NEW v, NEW size,
           NEW user, Reserves(t, op, d, v, size, user)
    PROVE  KernelInv'
<1> DEFINE n == NumPagesOf(size)
<1>0. /\ IsData(memManData) /\ memManData.used \subseteq Page
      /\ memManData.TotalMemory = PAGE_SIZE * UserStart
    BY Zenon DEF BaseInv
<1>1. user = FALSE
    BY Zenon DEF Reserves, KernelOnly
<1>2. /\ Runs(t) /\ job[t] = Idle /\ Others(t) /\ size \in Nat
      /\ op \in {"allocate", "directory"} /\ holder' = t
      /\ FirstPlace(memManData, n) # 0 /\ v \in SearchVirtual(d, n, FALSE)
      /\ memManData' = physicalAllocate(memManData, n)
      /\ UNCHANGED <<kernelPageTable, entries, allocations>>
    BY <1>1, Zenon DEF Reserves, Begins
<1>3. LET j == job'[t] IN
          /\ j.op = op /\ j.start = v /\ j.first = FirstPlace(memManData, n)
          /\ j.n = n /\ j.i = 0 /\ j.table = NoTable /\ j.size = size
    BY Zenon DEF Reserves, Begins
<1>4. n \in Nat /\ size \div PAGE_SIZE <= n
    BY <1>2, SizeInPages, Zenon
<1> HIDE DEF n
<1>5. /\ \A u \in Task : job[u].op = "idle"
      /\ \A w \in Below : kernelPageTable[w] = Absent <=> w \notin memManData.used
    BY <1>2, AllIdle, Zenon
<1>6. Page \ memManData.used \subseteq Below
    BY Zenon DEF KernelInv
<1>7. /\ n > 0 /\ v = FirstPlace(memManData, n) /\ v \in Nat
      /\ KernelStart <= v /\ v + n <= UserStart
      /\ Pages(v, n) = v .. v + n - 1 /\ Pages(v, n) \cap memManData.used = {}
      /\ v .. v + n - 1 \subseteq Below
    BY <1>2, <1>4, <1>5, <1>6, SamePlace, Zenon
<1>8. memManData'.used = memManData.used \cup (v .. v + n - 1)
    BY <1>0, <1>2, <1>4, <1>7, PlaceFound, Zenon
<1>9. \A u \in Task : u # t => job'[u].op = "idle" /\ job'[u] = job[u]
    BY <1>2, <1>5, Zenon DEF Others
<1>10. \A w \in Nat, u \in Task : Pending(u, w)' <=> u = t /\ w \in v .. v + n - 1
    <2>1. \A w \in Nat, u \in Task : u # t => ~Pending(u, w)'
        BY <1>9, Zenon DEF Pending, Active
    <2>2. \A w \in Nat : Pending(t, w)' <=> v <= w /\ w < v + n
        <3>1. Active(t)' /\ job'[t].start = v /\ job'[t].i = 0 /\ job'[t].n = n
            BY <1>2, <1>3, Zenon DEF Active
        <3> QED
            BY <1>7, <3>1 DEF Pending
    <2>3. \A w \in Nat : v <= w /\ w < v + n <=> w \in v .. v + n - 1
        BY <1>4, <1>7
    <2> QED
        BY <2>1, <2>2, <2>3, Zenon
<1>11. \A w \in Below :
          kernelPageTable'[w] = Absent <=> w \notin memManData'.used \/ \E u \in Task : Pending(u, w)'
    <2> SUFFICES ASSUME NEW w \in Below
                 PROVE  kernelPageTable'[w] = Absent
                        <=> w \notin memManData'.used \/ \E u \in Task : Pending(u, w)'
        BY Zenon
    <2>1. w \in Nat
        BY Layout DEF Below
    <2>2. (\E u \in Task : Pending(u, w)') <=> w \in v .. v + n - 1
        BY <1>10, <2>1, Zenon
    <2>3. kernelPageTable'[w] = Absent <=> w \notin memManData.used
        BY <1>2, <1>5, Zenon
    <2>4. w \in v .. v + n - 1 => w \notin memManData.used
        BY <1>7, Zenon
    <2> QED
        BY <1>8, <2>2, <2>3, <2>4, Zenon
<1>12. \A u \in Task : job'[u].op # "idle" =>
           /\ holder' = u /\ job'[u].start = job'[u].first /\ job'[u].n > 0
           /\ KernelStart <= job'[u].start /\ job'[u].start + job'[u].n <= UserStart
           /\ job'[u].start .. job'[u].start + job'[u].n - 1 \subseteq Below
           /\ job'[u].i <= job'[u].n /\ job'[u].size \div PAGE_SIZE <= job'[u].n
    BY <1>2, <1>3, <1>4, <1>7, <1>9
<1>13. \A u \in Task : job'[u].table = NoTable /\ job'[u].op \in {"idle", "allocate", "directory"}
    BY <1>2, <1>3, <1>9, Zenon DEF KernelInv
<1>14. \A u \in Task, w \in Page : Pending(u, w)' => w \in memManData'.used
    BY <1>8, <1>10, Layout, Zenon
<1> QED
    BY <1>2, <1>6, <1>8, <1>11, <1>12, <1>13, <1>14, Zenon DEF KernelInv

\* VirtualMap maps a page of the kernel to the frame of its number.
LEMMA KernelMaps ==
    ASSUME BaseInv, KernelInv, NEW t \in Task, MapsOne(t)
    PROVE  KernelInv'
<1>1. /\ Active(t) /\ job[t].i < job[t].n /\ Others(t) /\ SameCall(job'[t], job[t])
      /\ job'[t].op = job[t].op /\ job'[t].i = job[t].i + 1 /\ job'[t].table = NoTable
      /\ UNCHANGED <<memManData, entries, holder, allocations>>
      /\ kernelPageTable' = [v \in KernelPage |-> IF v = MapAt(t)
                              THEN (job[t].first + job[t].i) % NumPages ELSE kernelPageTable[v]]
    BY Zenon DEF MapsOne
<1>2. job[t].start \in Nat /\ job[t].n \in Nat /\ job[t].i \in Nat /\ job[t].op # "idle"
    BY <1>1, Layout, Zenon DEF BaseInv, Job, Active
<1>3. /\ job[t].start = job[t].first /\ KernelStart <= job[t].start
      /\ job[t].start + job[t].n <= UserStart /\ job[t].n > 0 /\ holder = t
      /\ job[t].size \div PAGE_SIZE <= job[t].n
      /\ job[t].start .. job[t].start + job[t].n - 1 \subseteq Below
    BY <1>2, Zenon DEF KernelInv
<1>4. \A u \in Task : u # t => job'[u] = job[u]
    BY <1>1, Zenon DEF Others
<1> DEFINE w == MapAt(t)
<1>5. w \in Nat /\ KernelStart <= w /\ w < UserStart /\ w \in KernelPage
      /\ (job[t].first + job[t].i) % NumPages = w /\ w = job[t].start + job[t].i
    <2>1. w = job[t].start + job[t].i /\ w = job[t].first + job[t].i
        BY <1>3, Zenon DEF MapAt
    <2>2. w \in Nat /\ KernelStart <= w /\ w < UserStart
        BY <1>1, <1>2, <1>3, <2>1, Layout
    <2> HIDE DEF w
    <2>3. w \in KernelPage /\ w % NumPages = w
        BY <2>2, Layout DEF KernelPage
    <2> QED
        BY <2>1, <2>2, <2>3, Zenon
<1> HIDE DEF w
<1>6. \A v \in KernelPage : kernelPageTable'[v] = IF v = w THEN w ELSE kernelPageTable[v]
    BY <1>1, <1>5, Zenon DEF w
<1>7. \A v \in KernelPage : kernelPageTable'[v] \in {v, Absent}
    BY <1>6, Zenon DEF KernelInv
<1>8. \A v \in Nat, u \in Task : Pending(u, v)' <=> Pending(u, v) /\ ~(u = t /\ v = w)
    <2>1. \A v \in Nat, u \in Task : u # t => (Pending(u, v)' <=> Pending(u, v))
        BY <1>4, Zenon DEF Pending, Active
    <2>2. \A v \in Nat : Pending(t, v)' <=> job[t].start + (job[t].i + 1) <= v /\ v < job[t].start + job[t].n
        BY <1>1, Zenon DEF Pending, Active, SameCall
    <2>3. \A v \in Nat : Pending(t, v) <=> job[t].start + job[t].i <= v /\ v < job[t].start + job[t].n
        BY <1>1, Zenon DEF Pending
    <2>4. \A v \in Nat : Pending(t, v)' <=> Pending(t, v) /\ v # w
        BY <1>2, <1>5, <2>2, <2>3
    <2> QED
        BY <2>1, <2>4, Zenon
<1>9. \A u, r \in Task, v \in Nat : Pending(u, v) /\ Pending(r, v) => u = r
    <2>1. \A u \in Task, v \in Nat : Pending(u, v) => job[u].op # "idle"
        BY Zenon DEF Pending, Active
    <2>2. \A u \in Task, v \in Nat : Pending(u, v) => holder = u
        BY <2>1, Zenon DEF KernelInv
    <2> QED
        BY <2>2, Zenon
<1>10. Pending(t, w) /\ w \in memManData.used
    <2>1. Pending(t, w)
        BY <1>1, <1>2, <1>5 DEF Pending
    <2> QED
        BY <1>5, <2>1, Layout, Zenon DEF KernelInv
<1>11. \A v \in Below :
          kernelPageTable'[v] = Absent <=> v \notin memManData'.used \/ \E u \in Task : Pending(u, v)'
    <2> SUFFICES ASSUME NEW v \in Below
                 PROVE  kernelPageTable'[v] = Absent
                        <=> v \notin memManData'.used \/ \E u \in Task : Pending(u, v)'
        BY Zenon
    <2>1. v \in Nat /\ v \in KernelPage
        BY Layout DEF KernelPage, Below
    <2>2. kernelPageTable[v] = Absent <=> v \notin memManData.used \/ \E u \in Task : Pending(u, v)
        BY Zenon DEF KernelInv
    <2>3. CASE v = w
        <3>1. kernelPageTable'[v] # Absent
            BY <1>5, <1>6, <2>1, <2>3, Layout, Marks, Zenon
        <3>2. \A u \in Task : ~Pending(u, v)'
            BY <1>8, <1>9, <1>10, <2>1, <2>3, Zenon
        <3> QED
            BY <1>1, <1>10, <2>3, <3>1, <3>2, Zenon
    <2>4. CASE v # w
        <3>1. kernelPageTable'[v] = kernelPageTable[v]
            BY <1>6, <2>1, <2>4, Zenon
        <3>2. \A u \in Task : Pending(u, v)' <=> Pending(u, v)
            BY <1>8, <2>1, <2>4, Zenon
        <3> QED
            BY <1>1, <2>2, <3>1, <3>2, Zenon
    <2> QED
        BY <2>3, <2>4, Zenon
<1>12. \A u \in Task, v \in Page : Pending(u, v)' => v \in memManData'.used
    BY <1>1, <1>8, Layout, Zenon DEF KernelInv
<1>13. \A u \in Task : job'[u].op # "idle" =>
           /\ holder' = u /\ job'[u].start = job'[u].first /\ job'[u].n > 0
           /\ KernelStart <= job'[u].start /\ job'[u].start + job'[u].n <= UserStart
           /\ job'[u].start .. job'[u].start + job'[u].n - 1 \subseteq Below
           /\ job'[u].i <= job'[u].n /\ job'[u].size \div PAGE_SIZE <= job'[u].n
    <2>1. /\ holder' = t /\ job'[t].start = job'[t].first /\ job'[t].n > 0
          /\ KernelStart <= job'[t].start /\ job'[t].start + job'[t].n <= UserStart
          /\ job'[t].start .. job'[t].start + job'[t].n - 1 \subseteq Below
          /\ job'[t].i <= job'[t].n /\ job'[t].size \div PAGE_SIZE <= job'[t].n
        BY <1>1, <1>2, <1>3 DEF SameCall
    <2> QED
        BY <1>1, <1>4, <2>1, SMTT(25) DEF KernelInv
<1>14. \A u \in Task : job'[u].table = NoTable /\ job'[u].op \in {"idle", "allocate", "directory"}
    BY <1>1, <1>4, Zenon DEF KernelInv
<1> QED
    BY <1>1, <1>7, <1>11, <1>12, <1>13, <1>14, Zenon DEF KernelInv

\* A call that ends has mapped all its pages.
LEMMA KernelEnds ==
    ASSUME BaseInv, KernelInv, NEW t \in Task, Ends(t)
    PROVE  KernelInv'
<1>1. /\ Active(t) /\ job[t].i = job[t].n /\ Others(t) /\ job'[t] = Idle
      /\ allocations' = allocations \cup Result(job[t]) /\ holder' \in {holder, NoTask}
      /\ UNCHANGED <<memManData, kernelPageTable, entries>>
    BY Zenon DEF Ends
<1>2. job[t].start \in Nat /\ job[t].n \in Nat /\ job[t].i \in Nat /\ job[t].op # "idle"
    BY <1>1, Layout, Zenon DEF BaseInv, Job, Active
<1>3. /\ job[t].start = job[t].first /\ KernelStart <= job[t].start
      /\ job[t].start + job[t].n <= UserStart /\ holder = t
      /\ job[t].size \div PAGE_SIZE <= job[t].n
      /\ job[t].start .. job[t].start + job[t].n - 1 \subseteq Below
    BY <1>2, Zenon DEF KernelInv
<1>4. \A u \in Task : u # t => job'[u] = job[u] /\ job[u].op = "idle"
    BY <1>1, <1>3, Zenon DEF Others, KernelInv
<1>5. \A u \in Task : job'[u].op = "idle" /\ job'[u].table = NoTable
    BY <1>1, <1>4, IdleFields DEF KernelInv
<1>6. \A u \in Task, v \in Nat : ~Pending(u, v)' /\ ~Pending(u, v)
    <2>1. \A u \in Task, v \in Nat : ~Pending(u, v)'
        BY <1>5, Zenon DEF Pending, Active
    <2>2. \A u \in Task, v \in Nat : u # t => ~Pending(u, v)
        BY <1>4, Zenon DEF Pending, Active
    <2>3. \A v \in Nat : ~Pending(t, v)
        BY <1>1, <1>2 DEF Pending
    <2> QED
        BY <2>1, <2>2, <2>3, Zenon
<1>7. \A v \in Below : v \in Nat
    BY Layout DEF Below
<1>8. \A v \in Below :
          kernelPageTable'[v] = Absent <=> v \notin memManData'.used \/ \E u \in Task : Pending(u, v)'
    <2>1. \A v \in Below :
          kernelPageTable[v] = Absent <=> v \notin memManData.used \/ \E u \in Task : Pending(u, v)
        BY Zenon DEF KernelInv
    <2> QED
        BY <1>1, <1>6, <1>7, <2>1, Zenon
<1>9. \A a \in allocations' :
           /\ a.start = a.first /\ KernelStart <= a.start /\ a.start + a.n <= UserStart
           /\ a.size \div PAGE_SIZE <= a.n /\ a.start .. a.start + a.n - 1 \subseteq Below
    <2>1. \A a \in Result(job[t]) :
              a.start = job[t].start /\ a.first = job[t].first /\ a.n = job[t].n /\ a.size = job[t].size
        BY DEF Result
    <2>2. \A a \in allocations :
              /\ a.start = a.first /\ KernelStart <= a.start /\ a.start + a.n <= UserStart
              /\ a.size \div PAGE_SIZE <= a.n /\ a.start .. a.start + a.n - 1 \subseteq Below
        BY Zenon DEF KernelInv
    <2> QED
        BY <1>1, <1>3, <2>1, <2>2, Zenon
<1>10. \A u \in Task, v \in Page : Pending(u, v)' => v \in memManData'.used
    BY <1>6, Layout, Zenon
<1> QED
    BY <1>1, <1>5, <1>8, <1>9, <1>10, Zenon DEF KernelInv

\* memoryFree gives back the frames with the numbers of the pages.
LEMMA KernelFreed ==
    ASSUME BaseInv, KernelInv, NEW t \in Task, NEW a \in allocations, NEW V, NEW frames,
           Frees(t, a, V, frames)
    PROVE  /\ frames = V /\ V \subseteq Below
           /\ V \subseteq a.first .. a.first + a.n - 1
           /\ V = (a.start .. a.start + a.size \div PAGE_SIZE - 1) \cap memManData.used
<1>1. a \in Allocation /\ a.start \in Nat /\ a.n \in Nat /\ a.size \in Nat
    BY Layout, Zenon DEF BaseInv, Allocation
<1>2. /\ a.start = a.first /\ KernelStart <= a.start /\ a.start + a.n <= UserStart
      /\ a.size \div PAGE_SIZE <= a.n /\ a.start .. a.start + a.n - 1 \subseteq Below
    BY Zenon DEF KernelInv
<1>3. a.size \div PAGE_SIZE \in Nat
    BY <1>1, SizeInPages, Zenon
<1> DEFINE R == a.start .. a.start + a.size \div PAGE_SIZE - 1
<1>4. R \subseteq Below /\ R \subseteq a.first .. a.first + a.n - 1
    <2>1. R \subseteq a.start .. a.start + a.n - 1
        BY <1>1, <1>2, <1>3
    <2> QED
        BY <1>2, <2>1, Zenon
<1>5. \A v \in R : v \in KernelPage
    BY <1>4, Layout DEF KernelPage, Below
<1>6. V = {v \in R : IsPagePresent(a.dir, v)}
    BY Zenon DEF Frees
<1> HIDE DEF R
<1>7. \A v \in R : GetPhysicalAddress(a.dir, v) = kernelPageTable[v]
                   /\ (IsPagePresent(a.dir, v) <=> kernelPageTable[v] # Absent)
    BY <1>5, KernelPresent, Zenon DEF GetPhysicalAddress
<1>8. \A v \in V : v \in R /\ kernelPageTable[v] # Absent
    BY <1>6, <1>7, Zenon
<1>9. \A v \in V : kernelPageTable[v] = v
    BY <1>5, <1>8, Zenon DEF KernelInv
<1>10. \A v \in V : GetPhysicalAddress(a.dir, v) = v
    BY <1>7, <1>8, <1>9, Zenon
<1>11. {GetPhysicalAddress(a.dir, v) : v \in V} = V
    BY <1>10, Zenon
<1>12. Garbage \notin V
    BY <1>5, <1>8, Layout, Marks, Zenon
<1>13. frames = V
    BY <1>11, <1>12, Zenon DEF Frees
<1>14. \A v \in Below : kernelPageTable[v] = Absent <=> v \notin memManData.used
    BY AllIdle, Zenon DEF Frees
<1>15. V = R \cap memManData.used
    BY <1>4, <1>6, <1>7, <1>14, Zenon
<1> QED
    BY <1>4, <1>8, <1>13, <1>15, Zenon DEF R

\* memoryFree keeps kernel memory in order.
LEMMA KernelFrees ==
    ASSUME BaseInv, KernelInv, NEW t \in Task, NEW a \in allocations, NEW V, NEW frames,
           Frees(t, a, V, frames)
    PROVE  KernelInv'
<1>1. frames = V /\ V \subseteq Below
    BY KernelFreed, Zenon
<1>2. /\ memManData' = FreeFrames(memManData, frames) /\ UNCHANGED <<entries, job>>
      /\ kernelPageTable' = [v \in KernelPage |-> IF v \in V THEN Absent ELSE kernelPageTable[v]]
      /\ Runs(t) /\ job[t] = Idle /\ allocations' \subseteq allocations
    BY Zenon DEF Frees
<1>3. IsData(memManData)
    BY Zenon DEF BaseInv
<1>4. memManData'.used = memManData.used \ V
    BY <1>1, <1>2, <1>3, GivenBack, Zenon
<1>5. /\ \A u \in Task : job[u].op = "idle"
      /\ \A v \in Below : kernelPageTable[v] = Absent <=> v \notin memManData.used
    BY <1>2, AllIdle, Zenon
<1>6. \A u \in Task : \A v : ~Pending(u, v)'
    BY <1>2, <1>5, Zenon DEF Pending, Active
<1>7. \A v \in Below : v \in KernelPage
    BY Layout DEF KernelPage, Below
<1>8. \A v \in Below :
          kernelPageTable'[v] = Absent <=> v \notin memManData'.used \/ \E u \in Task : Pending(u, v)'
    BY <1>2, <1>4, <1>5, <1>6, <1>7, Zenon
<1>9. \A v \in KernelPage : kernelPageTable'[v] \in {v, Absent}
    BY <1>2, Zenon DEF KernelInv
<1>10. Page \ memManData'.used \subseteq Below
    BY <1>1, <1>4, Zenon DEF KernelInv
<1>11. \A u \in Task : job'[u].op = "idle"
    BY <1>2, <1>5, Zenon
<1> QED
    BY <1>2, <1>6, <1>8, <1>9, <1>10, <1>11, Zenon DEF KernelInv

\* A task that fails for want of memory was alone.
LEMMA KernelFails ==
    ASSUME BaseInv, KernelInv, NEW t \in Task, Fails(t)
    PROVE  KernelInv'
<1>1. \A u \in Task : job[u].op = "idle"
    BY AllIdle, Zenon DEF Fails
<1>2. UNCHANGED <<memManData, kernelPageTable, entries, job, allocations>>
    BY Zenon DEF Fails
<1>3. \A u \in Task : \A v : Pending(u, v)' <=> Pending(u, v)
    BY <1>2, Zenon DEF Pending, Active
<1> QED
    BY <1>1, <1>2, <1>3 DEF KernelInv

\* Kernel memory needs no page tables, and nobody calls memoryMap.
LEMMA KernelOnlySteps ==
    ASSUME BaseInv, KernelInv, KernelOnly(workload), NEW t \in Task
    PROVE  /\ \A d, v, size : ~Looks(t, d, v, size)
           /\ ~Takes(t) /\ (\A f : ~Makes(t, f)) /\ ~Enters(t)
<1>1. \A d, v, size : ~Looks(t, d, v, size)
    BY Zenon DEF Looks, KernelOnly
<1>2. job[t].table = NoTable /\ job[t].op \in {"idle", "allocate", "directory"}
    BY Zenon DEF KernelInv
<1>3. ~Takes(t) /\ ~Enters(t)
    BY <1>2, Zenon DEF Takes, Enters
<1>4. ASSUME Active(t), job[t].i < job[t].n PROVE TableOf(job[t].dir, MapAt(t)) # NoTable
    <2>1. job[t].start \in Nat /\ job[t].n \in Nat /\ job[t].i \in Nat /\ job[t].op # "idle"
        BY <1>4, Layout, Zenon DEF BaseInv, Job, Active
    <2>2. job[t].start + job[t].n <= UserStart
        BY <2>1, Zenon DEF KernelInv
    <2>3. MapAt(t) \in KernelPage
        BY <1>4, <2>1, <2>2, Layout DEF MapAt, KernelPage
    <2> QED
        BY <2>3, KernelPresent, Zenon
<1>5. \A f : ~Makes(t, f)
    BY <1>4, Zenon DEF Makes
<1> QED
    BY <1>1, <1>3, <1>5, Zenon

\* Every step of a task keeps kernel memory in order.
LEMMA KernelStep ==
    ASSUME BaseInv, KernelInv, KernelOnly(workload), Next
    PROVE  KernelInv'
<1>0. PICK t \in Task : TaskStep(t)
    BY NextEffects, Zenon
<1>1. CASE Fails(t)
    BY <1>1, KernelFails, Zenon
<1>2. ASSUME NEW op, NEW d, NEW v, NEW size, NEW user, Reserves(t, op, d, v, size, user)
      PROVE  KernelInv'
    BY <1>2, KernelReserves, Zenon
<1>3. CASE MapsOne(t)
    BY <1>3, KernelMaps, Zenon
<1>4. CASE Ends(t)
    BY <1>4, KernelEnds, Zenon
<1>5. ASSUME NEW a \in allocations, NEW V, NEW frames, Frees(t, a, V, frames)
      PROVE  KernelInv'
    BY <1>5, KernelFrees, Zenon
<1> QED
    BY <1>0, <1>1, <1>2, <1>3, <1>4, <1>5, KernelOnlySteps, Zenon DEF TaskStep

\* A step that changes nothing keeps it.
LEMMA KernelStutters == KernelInv /\ UNCHANGED vars => KernelInv'
<1> SUFFICES ASSUME KernelInv, UNCHANGED vars PROVE KernelInv'
    BY Zenon
<1>1. UNCHANGED <<memManData, kernelPageTable, entries, job, allocations, holder>>
    BY Zenon DEF vars
<1>2. \A u \in Task : \A v : Pending(u, v)' <=> Pending(u, v)
    BY <1>1, Zenon DEF Pending, Active
<1> QED
    BY <1>1, <1>2, Zenon DEF KernelInv

\* The invariant of kernel memory.
KernelWorld == BaseInv /\ (KernelOnly(workload) => KernelInv)

\* It holds for every number of tasks, directories and pages.
LEMMA KernelWorldHolds ==
    ASSUME Tight
    PROVE  Spec => []KernelWorld
<1>1. Init => KernelWorld
    BY BaseStarts, KernelStarts, Zenon DEF KernelWorld
<1>2. KernelWorld /\ [Next]_vars => KernelWorld'
    <2> SUFFICES ASSUME KernelWorld, [Next]_vars PROVE KernelWorld'
        BY Zenon
    <2>1. workload' = workload
        BY Zenon DEF Next, vars
    <2>2. KernelOnly(workload)' <=> KernelOnly(workload)
        BY <2>1, Zenon DEF KernelOnly
    <2>3. CASE Next
        BY <2>2, <2>3, BaseStep, KernelStep, Zenon DEF KernelWorld
    <2>4. CASE UNCHANGED vars
        BY <2>2, <2>4, BaseStutters, KernelStutters, Zenon DEF KernelWorld
    <2> QED
        BY <2>3, <2>4, Zenon
<1> QED
    BY <1>1, <1>2, PTL DEF Spec

\* When init has left the kernel's memory tight, and all memory is the
\* kernel's, memoryAllocate gives a page the frame of its own number, whatever
\* tasks allocate and free: createTask may use the address of a page directory
\* as a physical address.
THEOREM KernelMapsIdentity ==
    ASSUME Tight
    PROVE  Spec => []KernelIdentity
<1>1. KernelWorld => KernelIdentity
    BY Zenon DEF KernelWorld, KernelOnly, KernelInv, KernelIdentity
<1> QED
    BY <1>1, KernelWorldHolds, PTL

-----------------------------------------------------------------------------
(* The calls under way.                                                    *)

\* A task whose job changes has asked for something sensible.
LEMMA CallKept ==
    ASSUME BaseInv, CallInv, NEW t \in Task, Others(t), workload' = workload,
           job'[t].op # "idle" =>
               /\ job'[t].dir \in workload.uses[t] /\ job'[t].dir \in Dir
               /\ job'[t].start + job'[t].n <= NumPages /\ job'[t].i <= job'[t].n,
           job'[t].op \in {"map", "mapSearch"} => "map" \in workload.calls /\ job'[t].start >= UserStart,
           job'[t].op = "mapSearch" => job'[t].table = NoTable
    PROVE  CallInv'
<1>1. \A u \in Task : u # t => job'[u] = job[u]
    BY Zenon DEF Others
<1> QED
    BY <1>1, Zenon DEF CallInv

\* The same call, with its next page.
LEMMA CallGoesOn ==
    ASSUME BaseInv, CallInv, NEW t \in Task, Others(t), workload' = workload,
           SameCall(job'[t], job[t]), job[t].op # "idle",
           \/ job'[t].op = job[t].op /\ Active(t)
           \/ job'[t].op = "map" /\ job[t].op = "mapSearch",
           job'[t].i <= job[t].n
    PROVE  CallInv'
<1>1. /\ job[t].dir \in workload.uses[t] /\ job[t].dir \in Dir
      /\ job[t].start + job[t].n <= NumPages
      /\ job[t].op \in {"map", "mapSearch"} => "map" \in workload.calls /\ job[t].start >= UserStart
    BY Zenon DEF CallInv
<1>2. /\ job'[t].dir = job[t].dir /\ job'[t].start = job[t].start /\ job'[t].n = job[t].n
    BY Zenon DEF SameCall
<1>3. job'[t].op \in {"map", "mapSearch"} => job[t].op \in {"map", "mapSearch"}
    BY Zenon
<1>4. job'[t].op # "mapSearch"
    BY Zenon DEF Active
<1> QED
    BY <1>1, <1>2, <1>3, <1>4, CallKept, Zenon

\* Every step of a task keeps it.
LEMMA CallStep ==
    ASSUME BaseInv, CallInv, Next
    PROVE  CallInv'
<1>0. PICK t \in Task : workload' = workload /\ TaskStep(t)
    BY NextEffects, Zenon
<1>b. job[t] \in Job /\ job[t].i \in Nat /\ job[t].n \in Nat
    BY Zenon DEF BaseInv, Job
<1>1. CASE Fails(t)
    BY <1>0, <1>1, Zenon DEF CallInv, Fails
<1>2. ASSUME NEW op, NEW d, NEW v, NEW size, NEW user, Reserves(t, op, d, v, size, user)
      PROVE  CallInv'
    <2> DEFINE n == NumPagesOf(size)
    <2>1. /\ Others(t) /\ size \in Nat /\ d \in workload.uses[t] /\ d \in Dir
          /\ op \in {"allocate", "directory"} /\ v \in SearchVirtual(d, n, user)
          /\ user \in BOOLEAN /\ FirstPlace(memManData, n) # 0
          /\ job'[t].op = op /\ job'[t].dir = d /\ job'[t].start = v /\ job'[t].n = n
          /\ job'[t].i = 0
        BY <1>2, Zenon DEF Reserves, Begins
    <2>2. n \in Nat
        BY <2>1, SizeInPages, Zenon
    <2> HIDE DEF n
    <2>3. n > 0
        BY <2>1, <2>2, NoPages, Zenon DEF BaseInv
    <2>4. v \in Page /\ \E from : v \in FreeRuns(d, n, from) /\ from \subseteq Page
        <3>1. UserStart .. NumPages - 1 \subseteq Page /\ KernelStart .. UserStart - 1 \subseteq Page
              /\ Page \subseteq Page
            BY Layout DEF Page
        <3> QED
            BY <2>1, <2>2, <3>1, VirtualFound, Zenon
    <2>5. v + n - 1 \in Page
        BY <2>4, Zenon DEF FreeRuns
    <2>6. v + n <= NumPages
        BY <2>2, <2>3, <2>4, <2>5, Layout DEF Page
    <2> QED
        BY <1>0, <2>1, <2>2, <2>6, CallKept
<1>3. ASSUME NEW d, NEW v, NEW size, Looks(t, d, v, size)
      PROVE  CallInv'
    <2> DEFINE n == NumPagesOf(size)
    <2>1. /\ Others(t) /\ size \in Nat /\ d \in workload.uses[t] /\ d \in Dir
          /\ "map" \in workload.calls /\ v >= UserStart /\ v + n <= NumPages
          /\ job'[t].op = "mapSearch" /\ job'[t].dir = d /\ job'[t].start = v /\ job'[t].n = n
          /\ job'[t].i = 0 /\ job'[t].table = NoTable
        BY <1>3, Zenon DEF Looks, Begins
    <2>2. n \in Nat
        BY <2>1, SizeInPages, Zenon
    <2> QED
        BY <1>0, <2>1, <2>2, CallKept
<1>4. CASE Takes(t)
    <2>1. job[t].i <= job[t].n
        BY <1>4, Zenon DEF Takes, CallInv
    <2> QED
        BY <1>0, <1>4, <2>1, CallGoesOn, Zenon DEF Takes
<1>5. ASSUME NEW f, Makes(t, f)
      PROVE  CallInv'
    <2>1. job[t].op # "idle" /\ job'[t].i <= job[t].n
        BY <1>5, <1>b DEF Makes, Active
    <2>2. Others(t) /\ SameCall(job'[t], job[t]) /\ job'[t].op = job[t].op /\ Active(t)
        BY <1>5, Zenon DEF Makes
    <2> QED
        BY <1>0, <2>1, <2>2, CallGoesOn, Zenon
<1>6. CASE Enters(t)
    <2>1. job[t].op # "idle" /\ job'[t].i <= job[t].n
        BY <1>6, <1>b DEF Enters, Active
    <2>2. Others(t) /\ SameCall(job'[t], job[t]) /\ job'[t].op = job[t].op /\ Active(t)
        BY <1>6, Zenon DEF Enters
    <2> QED
        BY <1>0, <2>1, <2>2, CallGoesOn, Zenon
<1>7. CASE MapsOne(t)
    <2>1. job[t].op # "idle" /\ job'[t].i <= job[t].n
        BY <1>7, <1>b DEF MapsOne, Active
    <2>2. Others(t) /\ SameCall(job'[t], job[t]) /\ job'[t].op = job[t].op /\ Active(t)
        BY <1>7, Zenon DEF MapsOne
    <2> QED
        BY <1>0, <2>1, <2>2, CallGoesOn, Zenon
<1>8. CASE Ends(t)
    <2>1. Others(t) /\ job'[t].op = "idle"
        BY <1>8, IdleFields, Zenon DEF Ends
    <2> QED
        BY <1>0, <2>1, CallKept, Zenon
<1>9. ASSUME NEW a \in allocations, NEW V, NEW frames, Frees(t, a, V, frames)
      PROVE  CallInv'
    BY <1>0, <1>9, Zenon DEF CallInv, Frees
<1> QED
    BY <1>0, <1>1, <1>2, <1>3, <1>4, <1>5, <1>6, <1>7, <1>8, <1>9, Zenon DEF TaskStep

\* It holds after boot, and when nothing changes.
LEMMA CallStarts == Init => CallInv
<1> SUFFICES ASSUME Init PROVE CallInv
    BY Zenon
<1>1. \A t \in Task : job[t].op = "idle"
    BY IdleFields, Zenon DEF Init
<1> QED
    BY <1>1, Zenon DEF CallInv

\* A step that changes nothing keeps it.
LEMMA CallStutters == CallInv /\ UNCHANGED vars => CallInv'
  BY Zenon DEF CallInv, vars

-----------------------------------------------------------------------------
(* Owners of frames.                                                       *)

\* What physicalAllocate finds is in a row, free and available.
LEMMA FreshPlace ==
    ASSUME BaseInv, Page \ memManData.used \subseteq Available, NEW n \in Nat,
           FirstPlace(memManData, n) # 0
    PROVE  LET p == FirstPlace(memManData, n) IN
           /\ n > 0 /\ p \in Nat /\ Pages(p, n) = p .. p + n - 1
           /\ (p .. p + n - 1) \cap memManData.used = {} /\ p .. p + n - 1 \subseteq Available
           /\ physicalAllocate(memManData, n).used = memManData.used \cup (p .. p + n - 1)
<1> DEFINE p == FirstPlace(memManData, n)
<1>0. /\ IsData(memManData) /\ memManData.used \subseteq Page
      /\ memManData.TotalMemory = PAGE_SIZE * UserStart
    BY Zenon DEF BaseInv
<1>1. /\ p \in Places(memManData, n)
      /\ physicalAllocate(memManData, n).used = memManData.used \cup Pages(p, n)
    BY <1>0, PlaceFound, Zenon
<1>2. n > 0
    BY <1>0, NoPages, Zenon
<1> HIDE DEF p
<1>3. p \in Nat /\ p < UserStart /\ Pages(p, n) \cap memManData.used = {}
    BY <1>0, <1>1, Searched, Layout, Zenon DEF Places, isPhysicalFree
<1>4. UserStart \in Page /\ UserStart \in memManData.used
    BY Layout DEF Page, KernelPage
<1>5. p + n <= UserStart
    <2> SUFFICES ASSUME UserStart < p + n PROVE FALSE
        BY <1>3, Layout
    <2>1. UserStart - p \in 0 .. n - 1 /\ (p + (UserStart - p)) % NumPages = UserStart
        BY <1>3, Layout
    <2>2. UserStart \in Pages(p, n)
        BY <2>1, Zenon DEF Pages
    <2> QED
        BY <1>3, <1>4, <2>2, Zenon
<1>6. Pages(p, n) = p .. p + n - 1
    BY <1>3, <1>5, PagesInRow, Layout
<1>7. p .. p + n - 1 \subseteq Page
    BY <1>3, <1>5, Layout DEF Page
<1> QED
    BY <1>1, <1>2, <1>3, <1>6, <1>7, Zenon DEF p

\* A call that takes fresh frames, or none, leaves every frame one owner.
LEMMA OwnersKept ==
    ASSUME ExclusiveInv, NEW t \in Task, NEW F, F \cap (memManData.used \cup Boot) = {},
           memManData'.used = memManData.used \cup F,
           allocations' = allocations, TableFrames' = TableFrames,
           \A u \in Task : u # t => Taken(u)' = Taken(u) /\ NewTable(u)' = NewTable(u),
           Taken(t)' \subseteq Taken(t) \cup F, NewTable(t)' \subseteq NewTable(t) \cup F,
           Taken(t)' \cap NewTable(t)' = {}
    PROVE  Owners'
<1>1. Owners
    BY Zenon DEF ExclusiveInv
<1>2. \A a \in allocations : Frames(a) \subseteq memManData'.used \ Boot
    BY <1>1, Zenon DEF Owners
<1>3. \A u \in Task : /\ Taken(u)' \subseteq memManData'.used \ Boot
                      /\ NewTable(u)' \subseteq memManData'.used
    BY <1>1 DEF Owners
<1>4. TableFrames' \subseteq memManData'.used
    BY <1>1, Zenon DEF Owners
<1>5. \A a, b \in allocations : a # b => Frames(a) \cap Frames(b) = {}
    BY <1>1, Zenon DEF Owners
<1>6. \A a \in allocations : Frames(a) \cap TableFrames' = {}
    BY <1>1, Zenon DEF Owners
<1>7. \A a \in allocations, u \in Task : Frames(a) \cap (Taken(u)' \cup NewTable(u)') = {}
    <2>1. \A a \in allocations : Frames(a) \subseteq memManData.used
          /\ \A u \in Task : Frames(a) \cap (Taken(u) \cup NewTable(u)) = {}
        BY <1>1, Zenon DEF Owners
    <2>2. \A a \in allocations : Frames(a) \cap F = {}
        BY <2>1, Zenon
    <2> QED
        BY <2>1, <2>2, Zenon
<1>8. \A u, r \in Task : u # r => Taken(u)' \cap Taken(r)' = {}
    <2>1. \A u \in Task : Taken(u) \subseteq memManData.used
          /\ \A r \in Task : u # r => Taken(u) \cap Taken(r) = {}
        BY <1>1, Zenon DEF Owners
    <2>2. \A u \in Task : Taken(u) \cap F = {}
        BY <2>1, Zenon
    <2> QED
        BY <2>1, <2>2
<1>9. \A u, r \in Task : Taken(u)' \cap NewTable(r)' = {}
    <2>1. \A u \in Task : Taken(u) \subseteq memManData.used /\ NewTable(u) \subseteq memManData.used
          /\ \A r \in Task : Taken(u) \cap NewTable(r) = {}
        BY <1>1, Zenon DEF Owners
    <2>2. \A u \in Task : Taken(u) \cap F = {} /\ NewTable(u) \cap F = {}
        BY <2>1, Zenon
    <2> QED
        BY <2>1, <2>2
<1>10. \A u \in Task : Taken(u)' \cap TableFrames' = {}
    BY <1>1, Zenon DEF Owners
<1> QED
    BY <1>2, <1>3, <1>4, <1>5, <1>6, <1>7, <1>8, <1>9, <1>10, Zenon DEF Owners

\* A page table that is entered keeps its owner.
LEMMA OwnersEnter ==
    ASSUME ExclusiveInv, NEW t \in Task, 0 \in Boot, 0 \in memManData.used,
           memManData' = memManData, allocations' = allocations,
           \A u \in Task : u # t => Taken(u)' = Taken(u) /\ NewTable(u)' = NewTable(u),
           Taken(t)' = Taken(t), NewTable(t)' = {},
           TableFrames' \subseteq TableFrames \cup NewTable(t) \cup {0}
    PROVE  Owners'
<1>1. Owners
    BY Zenon DEF ExclusiveInv
<1>2. \A u \in Task : Taken(u)' = Taken(u) /\ NewTable(u)' \subseteq NewTable(u)
    BY Zenon
<1>3. \A a \in allocations : Frames(a) \cap TableFrames' = {}
    BY <1>1 DEF Owners
<1>4. \A u \in Task : Taken(u)' \cap TableFrames' = {}
    BY <1>1, <1>2 DEF Owners
<1>5. TableFrames' \subseteq memManData'.used
    BY <1>1, Zenon DEF Owners
<1>6. \A a \in allocations, u \in Task : Frames(a) \cap (Taken(u)' \cup NewTable(u)') = {}
    BY <1>1, <1>2 DEF Owners
<1>7. \A u, r \in Task : Taken(u)' \cap NewTable(r)' = {}
    BY <1>1, <1>2, Zenon DEF Owners
<1>8. \A u \in Task : /\ Taken(u)' \subseteq memManData'.used \ Boot
                      /\ NewTable(u)' \subseteq memManData'.used
    BY <1>1, <1>2 DEF Owners
<1>9. \A u, r \in Task : u # r => Taken(u)' \cap Taken(r)' = {}
    BY <1>1, <1>2, Zenon DEF Owners
<1> QED
    BY <1>1, <1>3, <1>4, <1>5, <1>6, <1>7, <1>8, <1>9, Zenon DEF Owners

\* A call that ends hands its frames to its caller.
LEMMA OwnersEnd ==
    ASSUME ExclusiveInv, NEW t \in Task,
           memManData' = memManData, TableFrames' = TableFrames,
           NEW R, allocations' = allocations \cup R, \A a, b \in R : a = b,
           \A a \in R : Frames(a) = Taken(t),
           \A u \in Task : u # t => Taken(u)' = Taken(u) /\ NewTable(u)' = NewTable(u),
           Taken(t)' = {}, NewTable(t)' = {}
    PROVE  Owners'
<1>1. Owners
    BY Zenon DEF ExclusiveInv
<1>2. \A a \in allocations' : a \in allocations \/ Frames(a) = Taken(t)
    BY Zenon
<1>3. \A a \in allocations' : Frames(a) \subseteq memManData'.used \ Boot
    BY <1>1, <1>2 DEF Owners
<1>4. \A a, b \in allocations' : a # b => Frames(a) \cap Frames(b) = {}
    <2>1. \A a, b \in allocations : a # b => Frames(a) \cap Frames(b) = {}
        BY <1>1, Zenon DEF Owners
    <2>2. \A a \in allocations : Frames(a) \cap Taken(t) = {}
        BY <1>1, Zenon DEF Owners
    <2>3. \A a, b \in allocations' : a # b =>
              \/ a \in allocations /\ b \in allocations
              \/ a \in allocations /\ Frames(b) = Taken(t)
              \/ b \in allocations /\ Frames(a) = Taken(t)
        BY Zenon
    <2> QED
        BY <2>1, <2>2, <2>3
<1>5. \A a \in allocations' : Frames(a) \cap TableFrames' = {}
    BY <1>1, <1>2, Zenon DEF Owners
<1>6. \A u \in Task : u # t => Taken(u)' = Taken(u) /\ NewTable(u)' = NewTable(u)
                               /\ Taken(t) \cap (Taken(u) \cup NewTable(u)) = {}
    BY <1>1, Zenon DEF Owners
<1>7. \A a \in allocations', u \in Task : Frames(a) \cap (Taken(u)' \cup NewTable(u)') = {}
    <2>1. \A a \in allocations, u \in Task : Frames(a) \cap (Taken(u) \cup NewTable(u)) = {}
        BY <1>1, Zenon DEF Owners
    <2> QED
        BY <1>2, <1>6, <2>1
<1>8. \A u \in Task : Taken(u)' \subseteq Taken(u) /\ NewTable(u)' \subseteq NewTable(u)
    BY <1>6, Zenon
<1>9. \A u \in Task : /\ Taken(u)' \subseteq memManData'.used \ Boot
                      /\ NewTable(u)' \subseteq memManData'.used
    BY <1>1, <1>8, Zenon DEF Owners
<1>10. \A u, r \in Task : u # r => Taken(u)' \cap Taken(r)' = {}
    BY <1>1, <1>8, Zenon DEF Owners
<1>11. \A u, r \in Task : Taken(u)' \cap NewTable(r)' = {}
    BY <1>1, <1>8, Zenon DEF Owners
<1>12. \A u \in Task : Taken(u)' \cap TableFrames' = {}
    BY <1>1, <1>8, Zenon DEF Owners
<1>13. TableFrames' \subseteq memManData'.used
    BY <1>1, Zenon DEF Owners
<1> QED
    BY <1>3, <1>4, <1>5, <1>7, <1>9, <1>10, <1>11, <1>12, <1>13, Zenon DEF Owners

\* memoryFree takes frames from the allocation that goes.
LEMMA OwnersFree ==
    ASSUME ExclusiveInv, NEW a \in allocations, NEW F, F \subseteq Frames(a),
           memManData'.used = memManData.used \ F, allocations' = allocations \ {a},
           TableFrames' = TableFrames,
           \A u \in Task : Taken(u)' = Taken(u) /\ NewTable(u)' = NewTable(u)
    PROVE  Owners'
<1>1. Owners
    BY Zenon DEF ExclusiveInv
<1>2. \A b \in allocations' : b \in allocations /\ Frames(b) \cap F = {}
    BY <1>1, Zenon DEF Owners
<1>3. \A u \in Task : Taken(u)' \cap F = {} /\ NewTable(u)' \cap F = {}
    BY <1>1 DEF Owners
<1>4. TableFrames' \cap F = {}
    BY <1>1, Zenon DEF Owners
<1>5. \A b \in allocations' : Frames(b) \subseteq memManData'.used \ Boot
    BY <1>1, <1>2, Zenon DEF Owners
<1>6. \A u \in Task : /\ Taken(u)' \subseteq memManData'.used \ Boot
                      /\ NewTable(u)' \subseteq memManData'.used
    BY <1>1, <1>3, Zenon DEF Owners
<1>7. TableFrames' \subseteq memManData'.used
    BY <1>1, <1>4, Zenon DEF Owners
<1>8. \A b, c \in allocations' : b # c => Frames(b) \cap Frames(c) = {}
    BY <1>1, <1>2, Zenon DEF Owners
<1>9. \A b \in allocations' : Frames(b) \cap TableFrames' = {}
    BY <1>1, <1>2, Zenon DEF Owners
<1>10. \A b \in allocations', u \in Task : Frames(b) \cap (Taken(u)' \cup NewTable(u)') = {}
    BY <1>1, <1>2, Zenon DEF Owners
<1>11. \A u, r \in Task : u # r => Taken(u)' \cap Taken(r)' = {}
    BY <1>1, Zenon DEF Owners
<1>12. \A u, r \in Task : Taken(u)' \cap NewTable(r)' = {}
    BY <1>1, Zenon DEF Owners
<1>13. \A u \in Task : Taken(u)' \cap TableFrames' = {}
    BY <1>1, Zenon DEF Owners
<1> QED
    BY <1>5, <1>6, <1>7, <1>8, <1>9, <1>10, <1>11, <1>12, <1>13 DEF Owners

\* The owners in numbers of one task do not depend on the jobs of others.
LEMMA OthersOwn ==
    ASSUME NEW t \in Task, Others(t)
    PROVE  \A u \in Task : u # t => Taken(u)' = Taken(u) /\ NewTable(u)' = NewTable(u)
  BY Zenon DEF Others, Taken, NewTable, Active, Frames

\* Page tables are where the entries say.
LEMMA SameTables ==
    ASSUME UNCHANGED entries
    PROVE  TableFrames' = TableFrames
  BY DEF TableFrames

\* The workloads a promise is made to.
Promised(w) == KernelOnly(w) \/ NeverFrees(w)

\* The invariants together.
World == /\ BaseInv /\ CallInv /\ ExclusiveInv /\ Promised(workload)
         /\ KernelOnly(workload) => KernelInv

\* While a task runs, no other is between the two steps of memoryMap.
LEMMA NobodyLooks ==
    ASSUME World, NEW t \in Task, Runs(t), NEW u \in Task, u # t
    PROVE  job[u].op # "mapSearch"
<1>1. CASE KernelOnly(workload)
    BY <1>1, Zenon DEF World, KernelInv
<1>2. CASE NeverFrees(workload)
    BY <1>2, Zenon DEF World, NeverFrees, CallInv, Runs
<1> QED
    BY <1>1, <1>2, Zenon DEF World, Promised

\* A step of a task keeps the invariant if it keeps the owners.
LEMMA ExclusiveKept ==
    ASSUME World, NEW t \in Task, Runs(t), Others(t), Owners',
           Page \ memManData'.used \subseteq Available,
           job'[t].op = "mapSearch" /\ job'[t].first # 0 =>
               /\ Frames(job'[t]) = Pages(job'[t].first, job'[t].n)
               /\ Frames(job'[t]) \cap memManData'.used = {}
    PROVE  ExclusiveInv'
<1>1. \A u \in Task : u # t => job'[u].op # "mapSearch"
    BY NobodyLooks, Zenon DEF Others
<1> QED
    BY <1>1, Zenon DEF ExclusiveInv

\* Page 0 is the boot's and never free.
LEMMA ZeroUsed ==
    ASSUME Page \ memManData.used \subseteq Available
    PROVE  0 \in memManData.used /\ Boot \subseteq memManData.used
  BY Layout, Zenon

\* Without a change of jobs.
LEMMA OwnersSame ==
    ASSUME ExclusiveInv, UNCHANGED <<memManData, entries, job, allocations>>
    PROVE  Owners' /\ ExclusiveInv'
<1>1. TableFrames' = TableFrames
    BY SameTables, Zenon
<1>2. \A u \in Task : Taken(u)' = Taken(u) /\ NewTable(u)' = NewTable(u)
    BY Zenon DEF Taken, NewTable, Active, Frames
<1>3. Owners'
    BY <1>1, <1>2, Zenon DEF ExclusiveInv, Owners
<1> QED
    BY <1>3, Zenon DEF ExclusiveInv

\* A call takes the fresh frames F, or none, and keeps what it has.
Fresh(t, F) ==
    /\ Runs(t) /\ Others(t) /\ job'[t].op # "mapSearch" /\ UNCHANGED <<entries, allocations>>
    /\ F \cap (memManData.used \cup Boot) = {} /\ memManData'.used = memManData.used \cup F
    /\ Taken(t)' \subseteq Taken(t) \cup F /\ NewTable(t)' \subseteq NewTable(t) \cup F
    /\ Taken(t)' \cap NewTable(t)' = {}
    /\ Taken(t) \cup NewTable(t) \cup F \subseteq Taken(t)' \cup NewTable(t)'

\* memoryAllocate takes fresh frames.
LEMMA FreshReserved ==
    ASSUME World, NEW t \in Task, NEW op, NEW d, NEW v, NEW size, NEW user,
           Reserves(t, op, d, v, size, user)
    PROVE  \E F : Fresh(t, F)
<1> DEFINE n == NumPagesOf(size)
           p == FirstPlace(memManData, n)
           F == p .. p + n - 1
<1>0. BaseInv /\ ExclusiveInv /\ Page \ memManData.used \subseteq Available
    BY Zenon DEF World, ExclusiveInv
<1>1. /\ Runs(t) /\ job[t] = Idle /\ Others(t) /\ size \in Nat /\ p # 0
      /\ op \in {"allocate", "directory"}
      /\ memManData' = physicalAllocate(memManData, n) /\ UNCHANGED <<entries, allocations>>
      /\ job'[t].op = op /\ job'[t].first = p /\ job'[t].n = n /\ job'[t].table = NoTable
    BY Zenon DEF Reserves, Begins
<1>2. n \in Nat
    BY <1>1, SizeInPages, Zenon
<1>3. p \in Nat /\ F \cap memManData.used = {} /\ F \subseteq Available
      /\ memManData'.used = memManData.used \cup F
    BY <1>0, <1>1, <1>2, FreshPlace, Zenon
<1>4. Taken(t)' = F /\ NewTable(t)' = {} /\ Taken(t) = {} /\ NewTable(t) = {}
    BY <1>1, IdleFields, Zenon DEF Taken, NewTable, Active, Frames
<1> HIDE DEF n, p, F
<1>5. F \cap (memManData.used \cup Boot) = {}
    BY <1>0, <1>3, ZeroUsed, Zenon
<1>6. job'[t].op # "mapSearch"
    BY <1>1, Zenon
<1>7. Fresh(t, F)
    BY <1>1, <1>3, <1>4, <1>5, <1>6, Zenon DEF Fresh
<1> QED
    BY <1>7, Zenon

\* memoryMap takes the frames it has seen, which are still free.
LEMMA FreshTaken ==
    ASSUME World, NEW t \in Task, Takes(t)
    PROVE  \E F : Fresh(t, F)
<1> DEFINE F == IF job[t].first = 0 THEN {} ELSE Frames(job[t])
<1>0. BaseInv /\ CallInv /\ ExclusiveInv /\ Page \ memManData.used \subseteq Available
      /\ IsData(memManData)
    BY Zenon DEF World, ExclusiveInv, BaseInv
<1>1. /\ Runs(t) /\ job[t].op = "mapSearch" /\ Others(t) /\ SameCall(job'[t], job[t])
      /\ job'[t].op = "map" /\ job'[t].table = job[t].table
      /\ memManData' = IF job[t].first = 0 THEN memManData
                       ELSE physicalAllocateAt(memManData, job[t].first, job[t].n)
      /\ UNCHANGED <<entries, allocations>>
    BY Zenon DEF Takes
<1>2. job[t].first \in Nat /\ job[t].n \in Nat
    BY <1>0, Layout, Zenon DEF BaseInv, Job
<1>3. job[t].table = NoTable
    BY <1>0, <1>1, Zenon DEF CallInv
<1>4. job[t].first # 0 => Frames(job[t]) = Pages(job[t].first, job[t].n)
                          /\ Frames(job[t]) \cap memManData.used = {}
                          /\ Pages(job[t].first, job[t].n) \subseteq Page
    BY <1>0, <1>1, <1>2, TakenAt, Zenon DEF ExclusiveInv
<1>5. memManData'.used = memManData.used \cup F /\ F \cap memManData.used = {}
    <2>1. CASE job[t].first = 0
        BY <1>1, <2>1, Zenon
    <2>2. CASE job[t].first # 0
        <3>1. physicalAllocateAt(memManData, job[t].first, job[t].n).used
                  = memManData.used \cup Pages(job[t].first, job[t].n)
            <4> DEFINE p == job[t].first
                       n == job[t].n
            <4>1. p \in Nat /\ n \in Nat /\ IsData(memManData)
                BY <1>0, <1>2, Zenon
            <4> HIDE DEF p, n
            <4>2. physicalAllocateAt(memManData, p, n).used = memManData.used \cup Pages(p, n)
                BY <4>1, TakenAt, Zenon
            <4> QED
                BY <4>2, Zenon DEF p, n
        <3> QED
            BY <1>1, <1>4, <2>2, <3>1, Zenon
    <2> QED
        BY <2>1, <2>2, Zenon
<1>6. Taken(t)' = F /\ NewTable(t)' = {} /\ Taken(t) = {} /\ NewTable(t) = {}
    BY <1>1, <1>3, Zenon DEF Taken, NewTable, Active, Frames, SameCall
<1> HIDE DEF F
<1>7. F \cap (memManData.used \cup Boot) = {}
    BY <1>0, <1>5, ZeroUsed, Zenon
<1>8. job'[t].op # "mapSearch"
    BY <1>1, Zenon
<1>9. Fresh(t, F)
    BY <1>1, <1>5, <1>6, <1>7, <1>8, Zenon DEF Fresh
<1> QED
    BY <1>9, Zenon

\* A new page table is a fresh frame, or page 0.
LEMMA FreshMade ==
    ASSUME World, NEW t \in Task, NEW f, Makes(t, f)
    PROVE  \E F : Fresh(t, F)
<1> DEFINE F == {f} \ {0}
<1>0. BaseInv /\ ExclusiveInv /\ Page \ memManData.used \subseteq Available
      /\ IsData(memManData) /\ memManData.used \subseteq Page
      /\ memManData.TotalMemory = PAGE_SIZE * UserStart
    BY Zenon DEF World, ExclusiveInv, BaseInv
<1>1. /\ Runs(t) /\ Active(t) /\ Others(t) /\ SameCall(job'[t], job[t])
      /\ job'[t].op = job[t].op /\ job'[t].table = f /\ job[t].table = NoTable
      /\ f = FirstPlace(memManData, 1) /\ memManData' = physicalAllocate(memManData, 1)
      /\ UNCHANGED <<entries, allocations>>
    BY Zenon DEF Makes
<1>2. 0 \in memManData.used /\ Boot \subseteq memManData.used
    BY <1>0, ZeroUsed, Zenon
<1>3. f \in Page
    BY <1>0, <1>1, PlaceFound
<1>4. memManData'.used = memManData.used \cup F /\ F \cap memManData.used = {}
    <2>1. CASE f = 0
        <3>1. 0 \notin Places(memManData, 1)
            <4>1. 0 \in Pages(0, 1)
                BY Layout DEF Pages
            <4> QED
                BY <1>2, <4>1, Zenon DEF Places, isPhysicalFree
        <3>2. physicalAllocate(memManData, 1).used = memManData.used
            BY <1>0, <1>1, <2>1, <3>1, PlaceFound, Zenon
        <3> QED
            BY <1>1, <2>1, <3>2, Zenon
    <2>2. CASE f # 0
        <3>1. (f .. f + 1 - 1) \cap memManData.used = {}
              /\ physicalAllocate(memManData, 1).used = memManData.used \cup (f .. f + 1 - 1)
            BY <1>0, <1>1, <2>2, FreshPlace, Zenon
        <3>2. f .. f + 1 - 1 = {f}
            BY <1>3, Layout
        <3> QED
            BY <1>1, <2>2, <3>1, <3>2, Zenon
    <2> QED
        BY <2>1, <2>2, Zenon
<1>5. NewTable(t)' = F /\ NewTable(t) = {}
    BY <1>1, <1>3, Marks, Zenon DEF NewTable
<1>6. Taken(t)' = Taken(t)
    BY <1>1, Zenon DEF Taken, Active, Frames, SameCall
<1> HIDE DEF F
<1>7. Taken(t) \subseteq memManData.used
    BY <1>0, Zenon DEF ExclusiveInv, Owners
<1>8. F \cap (memManData.used \cup Boot) = {} /\ Taken(t)' \cap NewTable(t)' = {}
    BY <1>2, <1>4, <1>5, <1>6, <1>7, Zenon
<1>9. job'[t].op # "mapSearch"
    BY <1>1, Zenon DEF Active
<1>10. Fresh(t, F)
    BY <1>1, <1>4, <1>5, <1>6, <1>8, <1>9, Zenon DEF Fresh
<1> QED
    BY <1>10, Zenon

\* A page that is mapped takes no frame.
LEMMA FreshMapped ==
    ASSUME World, NEW t \in Task, MapsOne(t)
    PROVE  Fresh(t, {})
<1>1. /\ Runs(t) /\ Active(t) /\ Others(t) /\ SameCall(job'[t], job[t])
      /\ job'[t].op = job[t].op /\ job'[t].table = NoTable /\ job[t].table = NoTable
      /\ UNCHANGED <<memManData, entries, allocations>>
    BY Zenon DEF MapsOne
<1>2. NewTable(t)' = {} /\ NewTable(t) = {} /\ Taken(t)' = Taken(t)
    BY <1>1, Zenon DEF Taken, NewTable, Active, Frames, SameCall
<1>3. job'[t].op # "mapSearch"
    BY <1>1, Zenon DEF Active
<1> QED
    BY <1>1, <1>2, <1>3, Zenon DEF Fresh

\* Fresh frames leave every frame one owner.
LEMMA ExclusiveFresh ==
    ASSUME World, NEW t \in Task, NEW F, Fresh(t, F)
    PROVE  ExclusiveInv'
<1>0. ExclusiveInv /\ Page \ memManData.used \subseteq Available
    BY Zenon DEF World, ExclusiveInv
<1>1. /\ Runs(t) /\ Others(t) /\ job'[t].op # "mapSearch" /\ UNCHANGED <<entries, allocations>>
      /\ F \cap (memManData.used \cup Boot) = {} /\ memManData'.used = memManData.used \cup F
      /\ Taken(t)' \subseteq Taken(t) \cup F /\ NewTable(t)' \subseteq NewTable(t) \cup F
      /\ Taken(t)' \cap NewTable(t)' = {}
    BY Zenon DEF Fresh
<1>2. TableFrames' = TableFrames
    BY <1>1, SameTables, Zenon
<1>3. \A u \in Task : u # t => Taken(u)' = Taken(u) /\ NewTable(u)' = NewTable(u)
    BY <1>1, OthersOwn, Zenon
<1>4. Owners'
    BY <1>0, <1>1, <1>2, <1>3, OwnersKept, Zenon
<1>5. Page \ memManData'.used \subseteq Available
    BY <1>0, <1>1, Zenon
<1> QED
    BY <1>1, <1>4, <1>5, ExclusiveKept, Zenon

\* memoryMap sees free frames.
LEMMA ExclusiveLooks ==
    ASSUME World, NEW t \in Task, NEW d, NEW v, NEW size, Looks(t, d, v, size)
    PROVE  ExclusiveInv'
<1> DEFINE n == NumPagesOf(size)
           p == FirstPlace(memManData, n)
           F == p .. p + n - 1
<1>0. BaseInv /\ ExclusiveInv /\ Page \ memManData.used \subseteq Available
    BY Zenon DEF World, ExclusiveInv
<1>1. /\ Runs(t) /\ job[t] = Idle /\ Others(t) /\ size \in Nat
      /\ UNCHANGED <<memManData, entries, allocations>>
      /\ job'[t].op = "mapSearch" /\ job'[t].first = p /\ job'[t].n = n /\ job'[t].table = NoTable
    BY Zenon DEF Looks, Begins
<1>2. n \in Nat
    BY <1>1, SizeInPages, Zenon
<1>3. p # 0 => Pages(p, n) = F /\ F \cap memManData.used = {}
    BY <1>0, <1>2, FreshPlace, Zenon
<1>4. Taken(t)' = {} /\ NewTable(t)' = {} /\ Frames(job'[t]) = F
    BY <1>1, Zenon DEF Taken, NewTable, Active, Frames
<1> HIDE DEF n, p, F
<1>5. {} \cap (memManData.used \cup Boot) = {} /\ memManData'.used = memManData.used \cup {}
    BY <1>1, Zenon
<1>6. Owners'
    BY <1>0, <1>1, <1>4, <1>5, OwnersKept, OthersOwn, SameTables, Zenon
<1>7. Page \ memManData'.used \subseteq Available
    BY <1>0, <1>1, Zenon
<1>8. job'[t].first # 0 =>
          Frames(job'[t]) = Pages(job'[t].first, job'[t].n) /\ Frames(job'[t]) \cap memManData'.used = {}
    BY <1>1, <1>3, <1>4, Zenon
<1> QED
    BY <1>1, <1>6, <1>7, <1>8, ExclusiveKept, Zenon

\* Page tables that are there are where they were.
LEMMA TablesAfterEnter ==
    ASSUME NEW t \in Task, Enters(t)
    PROVE  TableFrames' \subseteq TableFrames \cup NewTable(t) \cup {0}
<1>1. ASSUME NEW d \in Dir, NEW x \in TableIndex, entries'[d][x] # NoTable
      PROVE  entries'[d][x] \in TableFrames \cup NewTable(t) \cup {0}
    <2>1. entries'[d][x] = entries[d][x] \/ entries'[d][x] = job[t].table
        BY Zenon DEF Enters
    <2>2. entries'[d][x] = entries[d][x] => entries'[d][x] \in TableFrames
        BY <1>1 DEF TableFrames
    <2>3. entries'[d][x] = job[t].table => entries'[d][x] \in NewTable(t) \cup {0}
        BY <1>1, Zenon DEF NewTable
    <2> QED
        BY <2>1, <2>2, <2>3, Zenon
<1>2. \A f \in TableFrames' : \E d \in Dir, x \in TableIndex : f = entries'[d][x] /\ f # NoTable
    BY DEF TableFrames
<1> QED
    BY <1>1, <1>2

\* It is entered.
LEMMA ExclusiveEnters ==
    ASSUME World, NEW t \in Task, Enters(t)
    PROVE  ExclusiveInv'
<1>0. BaseInv /\ ExclusiveInv /\ Page \ memManData.used \subseteq Available
    BY Zenon DEF World, ExclusiveInv
<1>1. /\ Runs(t) /\ Active(t) /\ Others(t) /\ SameCall(job'[t], job[t])
      /\ job'[t].op = job[t].op /\ job'[t].table = NoTable
      /\ UNCHANGED <<memManData, allocations>>
    BY Zenon DEF Enters
<1>2. 0 \in memManData.used /\ 0 \in Boot
    BY <1>0, ZeroUsed, Layout, Zenon
<1>3. NewTable(t)' = {} /\ Taken(t)' = Taken(t)
    BY <1>1, Zenon DEF Taken, NewTable, Active, Frames, SameCall
<1>4. Owners'
    BY <1>0, <1>1, <1>2, <1>3, OwnersEnter, OthersOwn, TablesAfterEnter, Zenon
<1>5. Page \ memManData'.used \subseteq Available /\ job'[t].op # "mapSearch"
    BY <1>0, <1>1, Zenon DEF Active
<1> QED
    BY <1>1, <1>4, <1>5, ExclusiveKept, Zenon

\* What a call gives its caller is the frames it has taken.
LEMMA ExclusiveEnds ==
    ASSUME World, NEW t \in Task, Ends(t)
    PROVE  ExclusiveInv'
<1> DEFINE R == Result(job[t])
<1>0. BaseInv /\ ExclusiveInv /\ Page \ memManData.used \subseteq Available
    BY Zenon DEF World, ExclusiveInv
<1>1. /\ Runs(t) /\ Active(t) /\ Others(t) /\ job'[t] = Idle
      /\ allocations' = allocations \cup R /\ UNCHANGED <<memManData, entries>>
    BY Zenon DEF Ends
<1>2. \A a, b \in R : a = b
    BY Zenon DEF Result
<1>3. \A a \in R : job[t].first # 0 /\ a.first = job[t].first /\ a.n = job[t].n
    BY DEF Result
<1>4. \A a \in R : Frames(a) = Taken(t)
    BY <1>1, <1>3, Zenon DEF Taken, Frames
<1>5. Taken(t)' = {} /\ NewTable(t)' = {} /\ job'[t].op # "mapSearch"
    BY <1>1, IdleFields, Zenon DEF Taken, NewTable, Active
<1> HIDE DEF R
<1>6. Owners'
    BY <1>0, <1>1, <1>2, <1>4, <1>5, OwnersEnd, OthersOwn, SameTables, Zenon
<1>7. Page \ memManData'.used \subseteq Available
    BY <1>0, <1>1, Zenon
<1> QED
    BY <1>1, <1>5, <1>6, <1>7, ExclusiveKept, Zenon

\* memoryFree of kernel memory gives back frames of that allocation only.
LEMMA ExclusiveFrees ==
    ASSUME Tight, World, NEW t \in Task, NEW a \in allocations, NEW V, NEW frames,
           Frees(t, a, V, frames)
    PROVE  ExclusiveInv'
<1>0. BaseInv /\ ExclusiveInv /\ Page \ memManData.used \subseteq Available /\ IsData(memManData)
    BY Zenon DEF World, ExclusiveInv, BaseInv
<1>1. /\ Runs(t) /\ job[t] = Idle /\ "free" \in workload.calls
      /\ memManData' = FreeFrames(memManData, frames) /\ allocations' = allocations \ {a}
      /\ UNCHANGED <<entries, job>>
    BY Zenon DEF Frees
<1>2. KernelOnly(workload) /\ KernelInv
    BY <1>1, Zenon DEF World, Promised, NeverFrees
<1>3. frames = V /\ V \subseteq Below /\ V \subseteq Frames(a)
    BY <1>0, <1>2, KernelFreed, Zenon DEF Frames
<1>4. memManData'.used = memManData.used \ V
    BY <1>0, <1>1, <1>3, GivenBack, Zenon
<1>5. \A u \in Task : Taken(u)' = Taken(u) /\ NewTable(u)' = NewTable(u)
    BY <1>1, Zenon DEF Taken, NewTable, Active, Frames
<1>6. Owners'
    BY <1>0, <1>1, <1>3, <1>4, <1>5, OwnersFree, SameTables, Zenon
<1>7. V \subseteq Available
    BY <1>0, <1>3, Zenon DEF Tight, ExclusiveInv, Owners
<1>8. Page \ memManData'.used \subseteq Available
    BY <1>0, <1>4, <1>7, Zenon
<1>9. \A u \in Task : job'[u].op # "mapSearch"
    BY <1>1, <1>2, Zenon DEF KernelInv
<1> QED
    BY <1>6, <1>8, <1>9, Zenon DEF ExclusiveInv

\* Every step of a task leaves every frame one owner.
LEMMA ExclusiveStep ==
    ASSUME Tight, World, Next
    PROVE  ExclusiveInv'
<1>0. PICK t \in Task : TaskStep(t)
    BY NextEffects, Zenon DEF World
<1>1. CASE Fails(t)
    BY <1>1, OwnersSame, Zenon DEF Fails, World
<1>2. ASSUME NEW op, NEW d, NEW v, NEW size, NEW user, Reserves(t, op, d, v, size, user)
      PROVE  ExclusiveInv'
    BY <1>2, FreshReserved, ExclusiveFresh, Zenon
<1>3. ASSUME NEW d, NEW v, NEW size, Looks(t, d, v, size)
      PROVE  ExclusiveInv'
    BY <1>3, ExclusiveLooks, Zenon
<1>4. ASSUME NEW f, Makes(t, f)
      PROVE  ExclusiveInv'
    BY <1>4, FreshMade, ExclusiveFresh, Zenon
<1>5. CASE Takes(t) \/ MapsOne(t)
    BY <1>5, FreshTaken, FreshMapped, ExclusiveFresh, Zenon
<1>6. CASE Enters(t) \/ Ends(t)
    BY <1>6, ExclusiveEnters, ExclusiveEnds, Zenon
<1>7. ASSUME NEW a \in allocations, NEW V, NEW frames, Frees(t, a, V, frames)
      PROVE  ExclusiveInv'
    BY <1>7, ExclusiveFrees, Zenon
<1> QED
    BY <1>0, <1>1, <1>2, <1>3, <1>4, <1>5, <1>6, <1>7, Zenon DEF TaskStep

\* Nobody owns a frame after boot.
LEMMA ExclusiveStarts == Init => ExclusiveInv
<1> SUFFICES ASSUME Init PROVE ExclusiveInv
    BY Zenon
<1>1. Page \ memManData.used \subseteq Available
    BY Zenon DEF Init
<1>2. \A t \in Task : job[t].op = "idle" /\ job[t].table = NoTable
    BY IdleFields, Zenon DEF Init
<1>3. \A t \in Task : Taken(t) = {} /\ NewTable(t) = {}
    BY <1>2, Zenon DEF Taken, NewTable, Active
<1>4. TableFrames = {}
    BY DEF Init, TableFrames
<1>5. allocations = {}
    BY Zenon DEF Init
<1>6. Owners
    BY <1>3, <1>4, <1>5, Zenon DEF Owners
<1> QED
    BY <1>1, <1>2, <1>6, Zenon DEF ExclusiveInv

\* The invariants hold together in the workloads a promise is made to.
LEMMA WorldHolds ==
    ASSUME Tight, \A w \in Workloads : Promised(w)
    PROVE  Spec => []World
<1>1. Init => World
    <2> SUFFICES ASSUME Init PROVE World
        BY Zenon
    <2>1. BaseInv /\ CallInv /\ ExclusiveInv /\ KernelInv
        BY BaseStarts, CallStarts, ExclusiveStarts, KernelStarts, Zenon
    <2>2. workload \in Workloads
        BY Zenon DEF Init
    <2> QED
        BY <2>1, <2>2, Zenon DEF World
<1>2. World /\ [Next]_vars => World'
    <2> SUFFICES ASSUME World, [Next]_vars PROVE World'
        BY Zenon
    <2>1. workload' = workload
        BY Zenon DEF Next, vars
    <2>2. (KernelOnly(workload)' <=> KernelOnly(workload)) /\ (Promised(workload)' <=> Promised(workload))
        BY <2>1, Zenon DEF KernelOnly, Promised, NeverFrees
    <2>3. CASE Next
        <3>1. BaseInv' /\ CallInv' /\ ExclusiveInv'
            BY <2>3, BaseStep, CallStep, ExclusiveStep, Zenon DEF World
        <3>2. KernelOnly(workload) => KernelInv'
            BY <2>3, KernelStep, Zenon DEF World
        <3> QED
            BY <2>2, <3>1, <3>2, Zenon DEF World
    <2>4. CASE UNCHANGED vars
        <3>1. UNCHANGED <<memManData, entries, job, allocations>>
            BY <2>4, Zenon DEF vars
        <3>2. BaseInv' /\ CallInv' /\ ExclusiveInv'
            BY <2>4, <3>1, BaseStutters, CallStutters, OwnersSame, Zenon DEF World
        <3>3. KernelOnly(workload) => KernelInv'
            BY <2>4, KernelStutters, Zenon DEF World
        <3> QED
            BY <2>2, <3>2, <3>3, Zenon DEF World
    <2> QED
        BY <2>3, <2>4, Zenon
<1> QED
    BY <1>1, <1>2, PTL DEF Spec

\* In these workloads no two results of physicalAllocate overlap, whatever tasks
\* interleave and whatever was freed in between: a frame belongs to one
\* allocation, to one page table or to nobody, and the bitmap has it as used.
THEOREM FramesHaveOneOwner ==
    ASSUME Tight, \A w \in Workloads : Promised(w)
    PROVE  Spec => []FramesExclusive
<1>1. World => FramesExclusive
    <2> SUFFICES ASSUME Owners PROVE FramesExclusive
        BY Zenon DEF World, ExclusiveInv
    <2>1. \A a, b \in allocations : a # b => Frames(a) \cap Frames(b) = {}
        BY Zenon DEF Owners
    <2>2. \A a \in allocations : Frames(a) \cap (TableFrames \cup Boot) = {}
        BY Zenon DEF Owners
    <2>3. \A a \in allocations : Frames(a) \subseteq memManData.used
        BY Zenon DEF Owners
    <2>4. (UNION {Frames(a) : a \in allocations}) \cup TableFrames \subseteq memManData.used
        <3> DEFINE all == UNION {Frames(a) : a \in allocations}
        <3>1. \A f \in all : \E a \in allocations : f \in Frames(a)
            BY Zenon
        <3> HIDE DEF all
        <3>2. TableFrames \subseteq memManData.used
            BY Zenon DEF Owners
        <3>3. all \cup TableFrames \subseteq memManData.used
            BY <2>3, <3>1, <3>2, Zenon
        <3> QED
            BY <3>3, Zenon DEF all
    <2> QED
        BY <2>1, <2>2, <2>4, Zenon DEF FramesExclusive
<1> QED
    BY <1>1, WorldHolds, PTL

\* While all memory is the kernel's, every page of an allocation stays mapped to
\* its own frame until it is freed, whatever other tasks allocate and free.
THEOREM KernelStaysMapped ==
    ASSUME Tight, \A w \in Workloads : Promised(w)
    PROVE  Spec => [](KernelOnly(workload) => AllocationsMapped)
<1>1. World => (KernelOnly(workload) => AllocationsMapped)
    <2> SUFFICES ASSUME World, KernelOnly(workload), NEW a \in allocations, NEW i \in 0 .. a.n - 1
                 PROVE  /\ IsPagePresent(a.dir, a.start + i)
                        /\ GetPageTableEntry(a.dir, a.start + i) = a.first + i
        BY Zenon DEF AllocationsMapped
    <2>1. BaseInv /\ KernelInv /\ Owners
        BY Zenon DEF World, BaseInv, ExclusiveInv
    <2>2. a.start \in Nat /\ a.n \in Nat
        BY <2>1, Layout, Zenon DEF BaseInv, Allocation
    <2>3. a.start = a.first /\ a.start .. a.start + a.n - 1 \subseteq Below
        BY <2>1, Zenon DEF KernelInv
    <2> DEFINE v == a.start + i
    <2>4. v \in Nat /\ v \in a.start .. a.start + a.n - 1 /\ v \in Frames(a)
        BY <2>2, <2>3 DEF Frames
    <2> HIDE DEF v
    <2>5. v \in Below /\ v \in KernelPage
        BY <2>3, <2>4, Layout DEF Below, KernelPage
    <2>6. v \in memManData.used
        BY <2>1, <2>4, Zenon DEF Owners
    <2>7. ASSUME NEW u \in Task, Pending(u, v) PROVE FALSE
        <3>1. job[u] \in Job /\ Active(u) /\ job[u].start + job[u].i <= v /\ v < job[u].start + job[u].n
            BY <2>1, <2>7, Zenon DEF Pending, BaseInv
        <3>2. job[u].start \in Nat /\ job[u].i \in Nat /\ job[u].n \in Nat /\ job[u].op # "idle"
            BY <3>1, Layout, Zenon DEF Job, Active
        <3>3. job[u].start = job[u].first /\ KernelStart <= job[u].start
            BY <2>1, <3>2, Zenon DEF KernelInv
        <3>4. job[u].first # 0 /\ v \in Frames(job[u])
            BY <2>4, <3>1, <3>2, <3>3, Layout DEF Frames
        <3>5. v \in Taken(u)
            BY <3>1, <3>4, Zenon DEF Taken
        <3> QED
            BY <2>1, <2>4, <3>5, Zenon DEF Owners
    <2>8. kernelPageTable[v] # Absent /\ kernelPageTable[v] \in {v, Absent}
        BY <2>1, <2>5, <2>6, <2>7, Zenon DEF KernelInv
    <2>9. IsPagePresent(a.dir, v) /\ GetPageTableEntry(a.dir, v) = v
        BY <2>5, <2>8, KernelPresent, Zenon
    <2> QED
        BY <2>3, <2>9, Zenon DEF v
<1> QED
    BY <1>1, WorldHolds, PTL

-----------------------------------------------------------------------------
(* Page tables.                                                            *)

\* While a task runs, no other has pages of the kernel to map.
LEMMA NobodyMaps ==
    ASSUME BaseInv, ReachInv, NEW t \in Task, Runs(t), NEW u \in Task, u # t, NEW v \in KernelPage
    PROVE  ~Pending(u, v)
  BY Marks, Zenon DEF ReachInv, Runs

\* A step of a task keeps the page tables mapped.
LEMMA ReachKept ==
    ASSUME BaseInv, ReachInv, NEW t \in Task, Runs(t), Others(t),
           \A f \in TableFrames' : f \in KernelPage /\ kernelPageTable'[f] = f,
           \A u \in Task : job'[u].table # NoTable =>
               job'[u].table \in KernelPage /\ kernelPageTable'[job'[u].table] = job'[u].table,
           \A v \in KernelPage : Pending(t, v)' => holder' = t /\ kernelPageTable'[v] = Absent
    PROVE  ReachInv'
<1>1. \A u \in Task : u # t => \A v \in KernelPage : ~Pending(u, v)'
    <2>1. \A u \in Task : u # t => \A v \in KernelPage : ~Pending(u, v) /\ (Pending(u, v)' <=> Pending(u, v))
        BY NobodyMaps, Zenon DEF Others, Pending, Active
    <2> QED
        BY <2>1, Zenon
<1> QED
    BY <1>1, Zenon DEF ReachInv

\* The tables stay as they are.
LEMMA ReachSame ==
    ASSUME BaseInv, ReachInv, NEW t \in Task, Runs(t), Others(t), job'[t].table = NoTable,
           UNCHANGED <<kernelPageTable, entries>>,
           \A v \in KernelPage : Pending(t, v)' => holder' = t /\ kernelPageTable[v] = Absent
    PROVE  ReachInv'
<1>1. TableFrames' = TableFrames
    BY SameTables, Zenon
<1>2. \A f \in TableFrames' : f \in KernelPage /\ kernelPageTable'[f] = f
    BY <1>1, Zenon DEF ReachInv
<1>3. \A u \in Task : job'[u].table # NoTable =>
               job'[u].table \in KernelPage /\ kernelPageTable'[job'[u].table] = job'[u].table
    BY Zenon DEF ReachInv, Others
<1> QED
    BY <1>2, <1>3, ReachKept, Zenon

\* A call that begins has pages that are not present.
LEMMA ReachReserves ==
    ASSUME BaseInv, ReachInv, NEW t \in Task, NEW op, NEW d, NEW v, NEW size, NEW user,
           Reserves(t, op, d, v, size, user)
    PROVE  ReachInv'
<1> DEFINE n == NumPagesOf(size)
<1>1. /\ Runs(t) /\ Others(t) /\ size \in Nat /\ user \in BOOLEAN
      /\ v \in SearchVirtual(d, n, user) /\ holder' = t /\ UNCHANGED <<kernelPageTable, entries>>
      /\ job'[t].start = v /\ job'[t].n = n /\ job'[t].i = 0 /\ job'[t].table = NoTable
    BY Zenon DEF Reserves, Begins
<1>2. n \in Nat
    BY <1>1, SizeInPages, Zenon
<1> HIDE DEF n
<1>3. v \in Page /\ \E from : v \in FreeRuns(d, n, from)
    BY <1>1, <1>2, VirtualFound, Zenon
<1>4. v \in Nat /\ \A i \in 0 .. n - 1 : ~IsPagePresent(d, v + i)
    BY <1>3, Layout, Zenon DEF FreeRuns
<1>5. ASSUME NEW w \in KernelPage, Pending(t, w)'
      PROVE  holder' = t /\ kernelPageTable[w] = Absent
    <2>1. v <= w /\ w < v + n /\ w \in Nat
        <3>1. job'[t].start = v /\ job'[t].n = n /\ job'[t].i = 0
            BY <1>1, Zenon
        <3>2. v + 0 <= w /\ w < v + n
            BY <1>5, <3>1, Zenon DEF Pending
        <3>3. v \in Nat /\ w \in Nat
            BY <1>4, Layout, Zenon
        <3> QED
            BY <3>2, <3>3
    <2>2. w - v \in 0 .. n - 1 /\ v + (w - v) = w
        <3>1. v \in Nat
            BY <1>4, Zenon
        <3> QED
            BY <1>2, <2>1, <3>1
    <2>3. ~IsPagePresent(d, w)
        BY <1>4, <2>2, Zenon
    <2> QED
        BY <1>1, <2>3, KernelPresent, Zenon
<1> QED
    BY <1>1, <1>5, ReachSame, Zenon

\* A new page table is mapped to itself.
LEMMA ReachMakes ==
    ASSUME BaseInv, ReachInv, NEW t \in Task, NEW f, Makes(t, f)
    PROVE  ReachInv'
<1>1. /\ Runs(t) /\ Active(t) /\ Others(t) /\ SameCall(job'[t], job[t]) /\ job'[t].i = job[t].i
      /\ TableOf(job[t].dir, MapAt(t)) = NoTable
      /\ job'[t].table = f /\ f = FirstPlace(memManData, 1) /\ UNCHANGED entries
      /\ kernelPageTable' = [v \in KernelPage |-> IF v = f THEN f ELSE kernelPageTable[v]]
    BY Zenon DEF Makes
<1>2. f \in KernelPage
    BY <1>1, PlaceFound DEF BaseInv
<1>3. TableFrames' = TableFrames
    BY <1>1, SameTables, Zenon
<1>4. \A v \in KernelPage : kernelPageTable'[v] = IF v = f THEN f ELSE kernelPageTable[v]
    BY <1>1, Zenon
<1>5. \A g \in TableFrames' : g \in KernelPage /\ kernelPageTable'[g] = g
    BY <1>3, <1>4, Zenon DEF ReachInv
<1>6. \A u \in Task : job'[u].table # NoTable =>
               job'[u].table \in KernelPage /\ kernelPageTable'[job'[u].table] = job'[u].table
    BY <1>1, <1>2, <1>4, Zenon DEF ReachInv, Others
<1>7. MapAt(t) \notin KernelPage
    BY <1>1, KernelPresent, Zenon
<1>8. job[t].start + job[t].i \in Nat
    BY Layout DEF BaseInv, Job
<1>9. job[t].start + job[t].i >= UserStart
    BY <1>7, <1>8, Layout DEF MapAt, KernelPage
<1>10. \A v \in KernelPage : ~Pending(t, v)'
    <2>1. \A v \in KernelPage : Pending(t, v)' => job[t].start + job[t].i <= v
        BY <1>1, Zenon DEF Pending, SameCall
    <2> QED
        BY <1>8, <1>9, <2>1, Layout DEF KernelPage
<1> QED
    BY <1>1, <1>5, <1>6, <1>10, ReachKept, Zenon

\* It stays so when it is entered.
LEMMA ReachEnters ==
    ASSUME BaseInv, ReachInv, NEW t \in Task, Enters(t)
    PROVE  ReachInv'
<1>1. /\ Runs(t) /\ Active(t) /\ Others(t) /\ SameCall(job'[t], job[t]) /\ job'[t].i = job[t].i
      /\ job'[t].op = job[t].op
      /\ job'[t].table = NoTable /\ job[t].table # NoTable /\ UNCHANGED <<kernelPageTable, holder>>
    BY Zenon DEF Enters
<1>2. \A f \in TableFrames' : f \in TableFrames \/ f = job[t].table
    <2>1. \A d \in Dir, x \in TableIndex :
              entries'[d][x] = entries[d][x] \/ entries'[d][x] = job[t].table
        BY Zenon DEF Enters
    <2> QED
        BY <2>1 DEF TableFrames
<1>3. \A f \in TableFrames' : f \in KernelPage /\ kernelPageTable'[f] = f
    BY <1>1, <1>2, Zenon DEF ReachInv
<1>4. \A u \in Task : job'[u].table # NoTable =>
               job'[u].table \in KernelPage /\ kernelPageTable'[job'[u].table] = job'[u].table
    BY <1>1 DEF ReachInv, Others
<1>5. \A v \in KernelPage : Pending(t, v)' => Pending(t, v)
    BY <1>1, Zenon DEF Pending, Active, SameCall
<1>6. \A v \in KernelPage : Pending(t, v)' => holder' = t /\ kernelPageTable'[v] = Absent
    BY <1>1, <1>5, Zenon DEF ReachInv
<1> QED
    BY <1>1, <1>3, <1>4, <1>6, ReachKept, Zenon

\* A page that the kernel maps is not the page of a page table.
LEMMA ReachMaps ==
    ASSUME BaseInv, ReachInv, NEW t \in Task, MapsOne(t)
    PROVE  ReachInv'
<1>1. /\ Runs(t) /\ Active(t) /\ Others(t) /\ SameCall(job'[t], job[t]) /\ job'[t].i = job[t].i + 1
      /\ job'[t].op = job[t].op /\ job[t].i < job[t].n
      /\ job'[t].table = NoTable /\ UNCHANGED <<entries, holder>>
    BY Zenon DEF MapsOne
<1>2. \A v \in KernelPage : v # MapAt(t) => kernelPageTable'[v] = kernelPageTable[v]
    BY Zenon DEF MapsOne
<1>3. job[t].start \in Nat /\ job[t].i \in Nat /\ job[t].n \in Nat
    BY Layout, Zenon DEF BaseInv, Job
<1>4. MapAt(t) \in KernelPage => Pending(t, MapAt(t))
    BY <1>1, <1>3 DEF Pending, MapAt
<1>5. MapAt(t) \in KernelPage => kernelPageTable[MapAt(t)] = Absent
    BY <1>4, Zenon DEF ReachInv
<1>6. Absent \notin KernelPage
    BY Layout, Marks, Zenon
<1>7. TableFrames' = TableFrames
    BY <1>1, SameTables, Zenon
<1>8. \A f \in TableFrames' : f \in KernelPage /\ kernelPageTable'[f] = f
    BY <1>2, <1>5, <1>6, <1>7, Zenon DEF ReachInv
<1>9. \A u \in Task : job'[u].table # NoTable =>
               job'[u].table \in KernelPage /\ kernelPageTable'[job'[u].table] = job'[u].table
    BY <1>1, <1>2, <1>5, <1>6 DEF ReachInv, Others
<1>10. \A v \in KernelPage : Pending(t, v)' => Pending(t, v) /\ v # MapAt(t)
    <2>1. \A v \in KernelPage : Pending(t, v)' =>
              job[t].start + (job[t].i + 1) <= v /\ v < job[t].start + job[t].n
        BY <1>1, Zenon DEF Pending, SameCall
    <2>2. \A v \in KernelPage : v \in Nat
        BY Layout, Zenon
    <2> QED
        BY <1>1, <1>3, <2>1, <2>2 DEF Pending, MapAt
<1>11. \A v \in KernelPage : Pending(t, v)' => holder' = t /\ kernelPageTable'[v] = Absent
    BY <1>1, <1>2, <1>10, Zenon DEF ReachInv
<1> QED
    BY <1>1, <1>8, <1>9, <1>11, ReachKept, Zenon

\* As long as nothing is freed, every step keeps the page tables mapped.
LEMMA ReachStep ==
    ASSUME BaseInv, CallInv, ReachInv, "free" \notin workload.calls, Next
    PROVE  ReachInv'
<1>0. PICK t \in Task : TaskStep(t)
    BY NextEffects, Zenon
<1>1. CASE Fails(t)
    <2>1. Runs(t) /\ job[t] = Idle /\ UNCHANGED <<kernelPageTable, entries, job>>
        BY <1>1, Zenon DEF Fails
    <2>2. Others(t)
        BY <2>1, Zenon DEF Others, BaseInv
    <2>3. job'[t].table = NoTable /\ \A v \in KernelPage : ~Pending(t, v)'
        BY <2>1, IdleFields, Zenon DEF Pending, Active
    <2> QED
        BY <2>1, <2>2, <2>3, ReachSame, Zenon
<1>2. ASSUME NEW op, NEW d, NEW v, NEW size, NEW user, Reserves(t, op, d, v, size, user)
      PROVE  ReachInv'
    BY <1>2, ReachReserves, Zenon
<1>3. ASSUME NEW d, NEW v, NEW size, Looks(t, d, v, size)
      PROVE  ReachInv'
    <2>1. Runs(t) /\ Others(t) /\ job'[t].op = "mapSearch" /\ job'[t].table = NoTable
          /\ UNCHANGED <<kernelPageTable, entries>>
        BY <1>3, Zenon DEF Looks, Begins
    <2>2. \A w \in KernelPage : ~Pending(t, w)'
        BY <2>1, Zenon DEF Pending, Active
    <2> QED
        BY <2>1, <2>2, ReachSame, Zenon
<1>4. CASE Takes(t)
    <2>1. Runs(t) /\ Others(t) /\ job[t].op = "mapSearch" /\ job'[t].table = job[t].table
          /\ SameCall(job'[t], job[t]) /\ job'[t].i = job[t].i
          /\ UNCHANGED <<kernelPageTable, entries>>
        BY <1>4, Zenon DEF Takes
    <2>2. job[t].table = NoTable /\ job[t].start >= UserStart
        BY <2>1, Zenon DEF CallInv
    <2>3. job[t].start \in Nat /\ job[t].i \in Nat
        BY Layout, Zenon DEF BaseInv, Job
    <2>4. \A w \in KernelPage : Pending(t, w)' => job[t].start + job[t].i <= w
        BY <2>1, Zenon DEF Pending, SameCall
    <2>5. \A w \in KernelPage : ~Pending(t, w)'
        BY <2>2, <2>3, <2>4, Layout DEF KernelPage
    <2> QED
        BY <2>1, <2>2, <2>5, ReachSame, Zenon
<1>5. ASSUME NEW f, Makes(t, f)
      PROVE  ReachInv'
    BY <1>5, ReachMakes, Zenon
<1>6. CASE Enters(t) \/ MapsOne(t)
    BY <1>6, ReachEnters, ReachMaps, Zenon
<1>7. CASE Ends(t)
    <2>1. Runs(t) /\ Others(t) /\ job'[t] = Idle /\ UNCHANGED <<kernelPageTable, entries>>
        BY <1>7, Zenon DEF Ends
    <2>2. job'[t].table = NoTable /\ \A w \in KernelPage : ~Pending(t, w)'
        BY <2>1, IdleFields, Zenon DEF Pending, Active
    <2> QED
        BY <2>1, <2>2, ReachSame, Zenon
<1>8. ASSUME NEW a \in allocations, NEW V, NEW frames, Frees(t, a, V, frames)
      PROVE  ReachInv'
    BY <1>8, Zenon DEF Frees
<1> QED
    BY <1>0, <1>1, <1>2, <1>3, <1>4, <1>5, <1>6, <1>7, <1>8, Zenon DEF TaskStep

\* There are no page tables after boot.
LEMMA ReachStarts == Init => ReachInv
<1> SUFFICES ASSUME Init PROVE ReachInv
    BY Zenon
<1>1. \A t \in Task : job[t].op = "idle" /\ job[t].table = NoTable
    BY IdleFields, Zenon DEF Init
<1>2. TableFrames = {}
    BY DEF Init, TableFrames
<1>3. \A t \in Task : \A v \in KernelPage : ~Pending(t, v)
    BY <1>1, Zenon DEF Pending, Active
<1> QED
    BY <1>1, <1>2, <1>3, Zenon DEF ReachInv

\* A step that changes nothing keeps them.
LEMMA ReachStutters == ReachInv /\ UNCHANGED vars => ReachInv'
<1> SUFFICES ASSUME ReachInv, UNCHANGED vars PROVE ReachInv'
    BY Zenon
<1>1. UNCHANGED <<kernelPageTable, entries, job, holder>>
    BY Zenon DEF vars
<1>2. TableFrames' = TableFrames
    BY <1>1, SameTables, Zenon
<1>3. \A u \in Task : \A v : Pending(u, v)' <=> Pending(u, v)
    BY <1>1, Zenon DEF Pending, Active
<1> QED
    BY <1>1, <1>2, <1>3, Zenon DEF ReachInv

\* Page tables of user memory stay mapped to themselves, whatever tasks allocate
\* and map, as long as nothing is freed; and kernel memory needs none.
THEOREM TablesStayReachable ==
    ASSUME Tight, \A w \in Workloads : KernelOnly(w) \/ "free" \notin w.calls
    PROVE  Spec => []TablesReachable
<1> DEFINE Inv == /\ KernelWorld /\ CallInv
                  /\ KernelOnly(workload) \/ ("free" \notin workload.calls /\ ReachInv)
<1>1. Init => Inv
    <2> SUFFICES ASSUME Init PROVE Inv
        BY Zenon
    <2>1. BaseInv /\ CallInv /\ KernelInv /\ ReachInv /\ workload \in Workloads
        BY BaseStarts, CallStarts, KernelStarts, ReachStarts, Zenon DEF Init
    <2> QED
        BY <2>1, Zenon DEF KernelWorld
<1>2. Inv /\ KernelWorld' /\ [Next]_vars => Inv'
    <2> SUFFICES ASSUME Inv, KernelWorld', [Next]_vars PROVE Inv'
        BY Zenon
    <2>1. workload' = workload /\ BaseInv
        BY Zenon DEF Next, vars, KernelWorld
    <2>2. KernelOnly(workload)' <=> KernelOnly(workload)
        BY <2>1, Zenon DEF KernelOnly
    <2>3. CallInv'
        BY <2>1, CallStep, CallStutters, Zenon
    <2>4. CASE KernelOnly(workload)
        BY <2>2, <2>3, <2>4, Zenon
    <2>5. CASE "free" \notin workload.calls /\ ReachInv
        <3>1. ReachInv'
            BY <2>1, <2>5, ReachStep, ReachStutters, Zenon
        <3> QED
            BY <2>1, <2>3, <2>5, <3>1, Zenon
    <2> QED
        BY <2>4, <2>5, Zenon
<1>3. Inv => TablesReachable
    <2> SUFFICES ASSUME Inv PROVE TablesReachable
        BY Zenon
    <2>1. CASE KernelOnly(workload)
        <3>1. \A d \in Dir, x \in TableIndex : entries[d][x] = NoTable
            BY <2>1, Zenon DEF KernelWorld, KernelInv
        <3>2. TableFrames = {}
            BY <3>1 DEF TableFrames
        <3> QED
            BY <3>2, Zenon DEF TablesReachable
    <2>2. CASE ReachInv
        BY <2>2, Zenon DEF ReachInv, TablesReachable
    <2> QED
        BY <2>1, <2>2, Zenon
<1> HIDE DEF Inv
<1> QED
    BY <1>1, <1>2, <1>3, KernelWorldHolds, PTL DEF Spec

-----------------------------------------------------------------------------
(* Nothing is lost.                                                        *)

\* The workloads in which every page is accounted for: what is freed was asked
\* for in whole pages, and no two tasks make page tables for one directory.
Accounted(w) ==
    /\ Promised(w)
    /\ "free" \in w.calls => \A size \in w.sizes : size % PAGE_SIZE = 0
    /\ KernelOnly(w) \/ \A t, u \in Task : t # u => w.uses[t] \cap w.uses[u] = {}

\* Calls and allocations have the pages of their size.
Sized(j) == j.n = NumPagesOf(j.size) /\ j.size \in workload.sizes \cup {PAGE_SIZE}
SizeInv == /\ \A t \in Task : job[t].op # "idle" => Sized(job[t])
           /\ \A a \in allocations : Sized(a)

\* Every step keeps their sizes.
LEMMA SizeStep ==
    ASSUME BaseInv, SizeInv, Next
    PROVE  SizeInv'
<1>0. PICK t \in Task : workload' = workload /\ TaskStep(t)
    BY NextEffects, Zenon
<1>1. \A j : Sized(j)' <=> Sized(j)
    BY <1>0, Zenon DEF Sized
<1>2. ASSUME Others(t), allocations' = allocations, job'[t].op # "idle" => Sized(job'[t])
      PROVE  SizeInv'
    <2>1. \A u \in Task : u # t => job'[u] = job[u]
        BY <1>2, Zenon DEF Others
    <2>2. \A u \in Task : job'[u].op # "idle" => Sized(job'[u])
        BY <1>2, <2>1, Zenon DEF SizeInv
    <2> QED
        BY <1>0, <1>2, <2>2, Zenon DEF SizeInv, Sized
<1>3. ASSUME job[t].op # "idle", SameCall(job'[t], job[t])
      PROVE  Sized(job'[t])
    <2>1. Sized(job[t])
        BY <1>3, Zenon DEF SizeInv
    <2> QED
        BY <1>3, <2>1, Zenon DEF Sized, SameCall
<1>4. CASE Fails(t)
    BY <1>0, <1>4, Zenon DEF Fails, SizeInv, Sized
<1>5. ASSUME NEW op, NEW d, NEW v, NEW p, NEW size, Begins(t, op, d, v, p, size)
      PROVE  SizeInv'
    <2>1. Sized(job'[t])
        BY <1>5, Zenon DEF Begins, Sized
    <2> QED
        BY <1>2, <1>5, <2>1, Zenon DEF Begins
<1>6. CASE Takes(t)
    BY <1>2, <1>3, <1>6, Zenon DEF Takes
<1>7. ASSUME NEW f, Makes(t, f) PROVE SizeInv'
    BY <1>2, <1>3, <1>7, Zenon DEF Makes, Active
<1>8. CASE Enters(t) \/ MapsOne(t)
    BY <1>2, <1>3, <1>8, Zenon DEF Enters, MapsOne, Active
<1>9. CASE Ends(t)
    <2>1. Others(t) /\ job'[t].op = "idle" /\ job[t].op # "idle"
          /\ allocations' = allocations \cup Result(job[t])
        BY <1>9, IdleFields, Zenon DEF Ends, Active
    <2>2. \A a \in Result(job[t]) : Sized(a)
        BY <2>1 DEF Result, SizeInv, Sized
    <2>3. \A a \in allocations' : Sized(a)
        BY <2>1, <2>2, Zenon DEF SizeInv
    <2>4. \A u \in Task : job'[u].op # "idle" => Sized(job'[u])
        BY <2>1, Zenon DEF SizeInv, Others
    <2> QED
        BY <1>0, <2>3, <2>4, Zenon DEF SizeInv, Sized
<1>10. ASSUME NEW a \in allocations, NEW V, NEW frames, Frees(t, a, V, frames)
      PROVE  SizeInv'
    BY <1>0, <1>10, Zenon DEF Frees, SizeInv, Sized
<1> QED
    BY <1>0, <1>4, <1>5, <1>6, <1>7, <1>8, <1>9, <1>10, Zenon DEF TaskStep, Reserves, Looks

\* A page of user memory has an entry of its directory.
LEMMA EntryOf ==
    ASSUME NEW v \in Nat, UserStart <= v, v < NumPages
    PROVE  PAGE_DIR_INDEX(v) \in TableIndex
<1> DEFINE T == TableSize
           q == v \div T
           lo == UserStart \div T
           hi == NumPages \div T
<1>1. T \in Nat /\ T > 0 /\ UserStart \in Nat /\ NumPages \in Nat
      /\ UserStart % T = 0 /\ NumPages % T = 0
    BY LayoutAssumption, Layout
<1> HIDE DEF T
<1>2. /\ q \in Nat /\ v = T * q + (v % T) /\ (v % T) \in 0 .. T - 1
      /\ lo \in Nat /\ UserStart = T * lo + (UserStart % T)
      /\ hi \in Nat /\ NumPages = T * hi + (NumPages % T)
    BY <1>1
<1> HIDE DEF q, lo, hi
<1> DEFINE r == v % T
<1> HIDE DEF r
<1>3. r \in 0 .. T - 1 /\ v = T * q + r /\ UserStart = T * lo /\ NumPages = T * hi
    BY <1>1, <1>2 DEF r
<1>4. lo <= q
    <2> SUFFICES ASSUME q + 1 <= lo PROVE FALSE
        BY <1>2
    <2>1. T * (q + 1) <= T * lo
        BY <1>1, <1>2
    <2>2. T * (q + 1) = T * q + T
        BY <1>1, <1>2
    <2> QED
        BY <1>1, <1>2, <1>3, <2>1, <2>2
<1>5. q <= hi - 1
    <2> SUFFICES ASSUME hi <= q PROVE FALSE
        BY <1>2
    <2>1. T * hi <= T * q
        BY <1>1, <1>2
    <2> QED
        BY <1>1, <1>2, <1>3, <2>1
<1>6. q \in lo .. hi - 1
    BY <1>2, <1>4, <1>5
<1> QED
    BY <1>6, Zenon DEF PAGE_DIR_INDEX, TableIndex, q, lo, hi, T

\* A page table that is not entered yet is for an entry that has none.
TableInv ==
    \A t \in Task : job[t].table # NoTable =>
        /\ Active(t) /\ job[t].i < job[t].n /\ MapAt(t) \notin KernelPage
        /\ entries[job[t].dir][PAGE_DIR_INDEX(MapAt(t))] = NoTable

\* Every step keeps it.
LEMMA TableStep ==
    ASSUME World, Accounted(workload), TableInv, Next
    PROVE  TableInv'
<1>0. PICK t \in Task : workload' = workload /\ TaskStep(t)
    BY NextEffects, Zenon DEF World
<1>1. CASE KernelOnly(workload)
    <2>1. KernelInv'
        BY <1>1, KernelStep, Zenon DEF World
    <2> QED
        BY <2>1, Zenon DEF KernelInv, TableInv
<1>2. ASSUME ~KernelOnly(workload) PROVE TableInv'
    <2>1. ASSUME Others(t), UNCHANGED entries, job'[t].table = NoTable
          PROVE  TableInv'
        BY <2>1, Zenon DEF TableInv, Others, Active, MapAt
    <2>2. CASE Fails(t)
        BY <2>2, Zenon DEF Fails, TableInv, Active, MapAt
    <2>3. ASSUME NEW op, NEW d, NEW v, NEW p, NEW size, Begins(t, op, d, v, p, size)
          PROVE  TableInv'
        BY <2>1, <2>3, Zenon DEF Begins
    <2>4. CASE Takes(t)
        <3>1. job[t].table = NoTable
            BY <2>4, Zenon DEF Takes, World, CallInv
        <3> QED
            BY <2>1, <2>4, <3>1, Zenon DEF Takes
    <2>5. ASSUME NEW f, Makes(t, f) PROVE TableInv'
        <3>1. /\ Others(t) /\ UNCHANGED entries /\ Active(t) /\ job[t].i < job[t].n
              /\ TableOf(job[t].dir, MapAt(t)) = NoTable /\ SameCall(job'[t], job[t])
              /\ job'[t].op = job[t].op /\ job'[t].i = job[t].i
            BY <2>5, Zenon DEF Makes
        <3>2. MapAt(t) \notin KernelPage
            BY <3>1, KernelPresent, Zenon
        <3>3. entries[job[t].dir][PAGE_DIR_INDEX(MapAt(t))] = NoTable
            BY <3>1, <3>2, Zenon DEF TableOf
        <3>4. /\ Active(t)' /\ job'[t].i < job'[t].n /\ MapAt(t)' = MapAt(t)
              /\ job'[t].dir = job[t].dir
            BY <3>1, Zenon DEF Active, MapAt, SameCall
        <3>5. /\ Active(t)' /\ job'[t].i < job'[t].n /\ MapAt(t)' \notin KernelPage
              /\ entries'[job'[t].dir][PAGE_DIR_INDEX(MapAt(t)')] = NoTable
            BY <3>1, <3>2, <3>3, <3>4, Zenon
        <3>6. \A u \in Task : u # t /\ job'[u].table # NoTable =>
                /\ Active(u)' /\ job'[u].i < job'[u].n /\ MapAt(u)' \notin KernelPage
                /\ entries'[job'[u].dir][PAGE_DIR_INDEX(MapAt(u)')] = NoTable
            BY <3>1, Zenon DEF TableInv, Others, Active, MapAt
        <3> QED
            BY <3>5, <3>6, Zenon DEF TableInv, PAGE_DIR_INDEX
    <2>6. CASE Enters(t)
        <3>1. Others(t) /\ job'[t].table = NoTable /\ Active(t)
            BY <2>6, Zenon DEF Enters
        <3>2. ASSUME NEW u \in Task, job'[u].table # NoTable
              PROVE  /\ Active(u)' /\ job'[u].i < job'[u].n /\ MapAt(u)' \notin KernelPage
                     /\ entries'[job'[u].dir][PAGE_DIR_INDEX(MapAt(u)')] = NoTable
            <4>1. u # t /\ job'[u] = job[u]
                BY <3>1, <3>2, Zenon DEF Others
            <4>2. /\ Active(u) /\ job[u].i < job[u].n /\ MapAt(u) \notin KernelPage
                  /\ entries[job[u].dir][PAGE_DIR_INDEX(MapAt(u))] = NoTable
                BY <3>2, <4>1, Zenon DEF TableInv
            <4>3. job[u].op # "idle" /\ job[t].op # "idle"
                BY <3>1, <4>2, Zenon DEF Active
            <4>4. /\ job[u].dir \in workload.uses[u] /\ job[t].dir \in workload.uses[t]
                  /\ job[u].dir \in Dir /\ job[u].start + job[u].n <= NumPages
                BY <4>3, Zenon DEF World, CallInv
            <4>5. job[u].dir # job[t].dir
                BY <1>2, <4>1, <4>4, Zenon DEF Accounted
            <4>6. MapAt(u) \in Nat /\ UserStart <= MapAt(u) /\ MapAt(u) < NumPages
                <5>1. job[u].start \in Nat /\ job[u].i \in Nat /\ job[u].n \in Nat
                    BY Layout, Zenon DEF World, BaseInv, Job
                <5> QED
                    BY <4>2, <4>4, <5>1, Layout DEF MapAt, KernelPage
            <4>7. PAGE_DIR_INDEX(MapAt(u)) \in TableIndex
                BY <4>6, EntryOf, Zenon
            <4>8. entries'[job[u].dir][PAGE_DIR_INDEX(MapAt(u))] = entries[job[u].dir][PAGE_DIR_INDEX(MapAt(u))]
                BY <2>6, <4>4, <4>5, <4>7, Zenon DEF Enters
            <4>9. MapAt(u)' = MapAt(u) /\ Active(u)'
                BY <4>1, <4>2, Zenon DEF MapAt, Active
            <4> QED
                BY <4>1, <4>2, <4>8, <4>9, Zenon
        <3> QED
            BY <3>2, Zenon DEF TableInv, PAGE_DIR_INDEX
    <2>7. CASE MapsOne(t)
        BY <2>1, <2>7, Zenon DEF MapsOne
    <2>8. CASE Ends(t)
        BY <2>1, <2>8, IdleFields, Zenon DEF Ends
    <2>9. ASSUME NEW a \in allocations, NEW V, NEW frames, Frees(t, a, V, frames)
          PROVE  TableInv'
        BY <2>9, Zenon DEF Frees, TableInv, Active, MapAt
    <2> QED
        BY <1>0, <2>2, <2>3, <2>4, <2>5, <2>6, <2>7, <2>8, <2>9, Zenon DEF TaskStep, Reserves, Looks
<1> QED
    BY <1>1, <1>2, Zenon

-----------------------------------------------------------------------------
\* The available pages that are used have an owner.
OwnedInv == \A f \in memManData.used \cap Available :
    \/ \E a \in allocations : f \in Frames(a)
    \/ f \in TableFrames
    \/ \E t \in Task : f \in Taken(t) \cup NewTable(t)

\* A step keeps it that hands every frame of the task on to an owner.
LEMMA OwnedKept ==
    ASSUME OwnedInv, NEW t \in Task, Others(t),
           memManData'.used \subseteq memManData.used \cup Taken(t)' \cup NewTable(t)',
           TableFrames \subseteq TableFrames', allocations \subseteq allocations',
           \A f \in Taken(t) \cup NewTable(t) :
               \/ f \in Taken(t)' \cup NewTable(t)' \cup TableFrames' \/ f \notin Available
               \/ \E a \in allocations' : f \in Frames(a)
    PROVE  OwnedInv'
<1>1. \A u \in Task : u # t => Taken(u)' = Taken(u) /\ NewTable(u)' = NewTable(u)
    BY OthersOwn, Zenon
<1> SUFFICES ASSUME NEW f \in memManData'.used \cap Available
             PROVE  \/ \E a \in allocations' : f \in Frames(a)
                    \/ f \in TableFrames'
                    \/ \E u \in Task : f \in Taken(u)' \cup NewTable(u)'
    BY Zenon DEF OwnedInv, Frames
<1>2. CASE f \in Taken(t)' \cup NewTable(t)'
    BY <1>2, Zenon
<1>3. CASE f \in memManData.used
    <2>1. CASE \E a \in allocations : f \in Frames(a)
        BY <2>1, Zenon
    <2>2. CASE f \in TableFrames
        BY <2>2, Zenon
    <2>3. ASSUME NEW u \in Task, f \in Taken(u) \cup NewTable(u)
          PROVE  \/ \E a \in allocations' : f \in Frames(a)
                 \/ f \in TableFrames'
                 \/ \E r \in Task : f \in Taken(r)' \cup NewTable(r)'
        <3>1. CASE u = t
            BY <2>3, <3>1, Zenon
        <3>2. CASE u # t
            BY <1>1, <2>3, <3>2, Zenon
        <3> QED
            BY <3>1, <3>2, Zenon
    <2> QED
        BY <1>3, <2>1, <2>2, <2>3, Zenon DEF OwnedInv
<1> QED
    BY <1>2, <1>3, Zenon

\* Fresh frames belong to the call that took them.
LEMMA OwnedFresh ==
    ASSUME OwnedInv, NEW t \in Task, NEW F, Fresh(t, F)
    PROVE  OwnedInv'
<1>1. TableFrames' = TableFrames
    BY SameTables, Zenon DEF Fresh
<1>2. /\ Others(t) /\ allocations' = allocations /\ memManData'.used = memManData.used \cup F
      /\ Taken(t) \cup NewTable(t) \cup F \subseteq Taken(t)' \cup NewTable(t)'
    BY Zenon DEF Fresh
<1>3. memManData'.used \subseteq memManData.used \cup Taken(t)' \cup NewTable(t)'
    BY <1>2, Zenon
<1>4. \A f \in Taken(t) \cup NewTable(t) : f \in Taken(t)' \cup NewTable(t)' \cup TableFrames'
    BY <1>2, Zenon
<1> QED
    BY <1>1, <1>2, <1>3, <1>4, OwnedKept, Zenon

\* A page table that is entered displaces none.
LEMMA OwnedEnters ==
    ASSUME World, TableInv, OwnedInv, NEW t \in Task, Enters(t)
    PROVE  OwnedInv'
<1> DEFINE d == job[t].dir
           x == PAGE_DIR_INDEX(MapAt(t))
<1>1. /\ Others(t) /\ Active(t) /\ job[t].table # NoTable /\ job[t].i < job[t].n
      /\ SameCall(job'[t], job[t]) /\ job'[t].op = job[t].op
      /\ UNCHANGED <<memManData, allocations>>
    BY Zenon DEF Enters
<1>2. MapAt(t) \notin KernelPage /\ entries[d][x] = NoTable
    BY <1>1, Zenon DEF TableInv
<1>3. d \in Dir /\ job[t].start + job[t].n <= NumPages
    BY <1>1, Zenon DEF Active, World, CallInv
<1>4. MapAt(t) \in Nat /\ UserStart <= MapAt(t) /\ MapAt(t) < NumPages
    <2>1. job[t].start \in Nat /\ job[t].i \in Nat /\ job[t].n \in Nat
        BY Layout, Zenon DEF World, BaseInv, Job
    <2> QED
        BY <1>1, <1>2, <1>3, <2>1, Layout, SMTT(25) DEF MapAt, KernelPage
<1>5. x \in TableIndex
    BY <1>4, EntryOf, Zenon
<1>6. \A e \in Dir, y \in TableIndex :
          entries'[e][y] = IF e = d /\ y = x THEN job[t].table ELSE entries[e][y]
    BY Zenon DEF Enters
<1> HIDE DEF d, x
<1>7. TableFrames \subseteq TableFrames'
    <2> SUFFICES ASSUME NEW f \in TableFrames PROVE f \in TableFrames'
        BY Zenon
    <2>1. PICK e \in Dir, y \in TableIndex : f = entries[e][y] /\ f # NoTable
        BY DEF TableFrames
    <2>2. ~(e = d /\ y = x)
        BY <1>2, <2>1, Zenon
    <2>3. entries'[e][y] = f
        BY <1>6, <2>1, <2>2
    <2> QED
        BY <2>1, <2>3 DEF TableFrames
<1>8. job[t].table \in TableFrames'
    <2>1. entries'[d][x] = job[t].table
        BY <1>3, <1>5, <1>6, Zenon DEF d
    <2>2. d \in Dir
        BY <1>3, Zenon DEF d
    <2> QED
        BY <1>1, <1>5, <2>1, <2>2 DEF TableFrames
<1>9. Taken(t)' = Taken(t)
    BY <1>1, Zenon DEF Taken, Active, Frames, SameCall
<1>10. \A f \in NewTable(t) : f \in TableFrames'
    BY <1>8, Zenon DEF NewTable
<1>11. memManData'.used \subseteq memManData.used \cup Taken(t)' \cup NewTable(t)'
    BY <1>1, Zenon
<1>12. \A f \in Taken(t) \cup NewTable(t) : f \in Taken(t)' \cup NewTable(t)' \cup TableFrames'
    BY <1>9, <1>10, Zenon
<1> QED
    BY <1>1, <1>7, <1>11, <1>12, OwnedKept, Zenon

\* A call that ends gives all it has taken.
LEMMA OwnedEnds ==
    ASSUME World, TableInv, OwnedInv, NEW t \in Task, Ends(t)
    PROVE  OwnedInv'
<1> DEFINE a == [dir |-> job[t].dir, start |-> job[t].start, first |-> job[t].first,
                 n |-> job[t].n, size |-> job[t].size]
<1>1. /\ Others(t) /\ job[t].i = job[t].n /\ allocations' = allocations \cup Result(job[t])
      /\ UNCHANGED <<memManData, entries>>
    BY Zenon DEF Ends
<1>2. job[t].i \in Nat /\ job[t].n \in Nat
    BY Zenon DEF World, BaseInv, Job
<1>3. NewTable(t) = {}
    BY <1>1, <1>2 DEF TableInv, NewTable
<1>4. job[t].first # 0 => a \in allocations'
    BY <1>1, Zenon DEF Result
<1>5. Frames(a) = Frames(job[t])
    BY Zenon DEF Frames
<1> HIDE DEF a
<1>6. \A f \in Taken(t) : \E b \in allocations' : f \in Frames(b)
    BY <1>4, <1>5, Zenon DEF Taken
<1>7. TableFrames' = TableFrames
    BY <1>1, SameTables, Zenon
<1>8. memManData'.used \subseteq memManData.used \cup Taken(t)' \cup NewTable(t)'
      /\ TableFrames \subseteq TableFrames' /\ allocations \subseteq allocations'
    BY <1>1, <1>7, Zenon
<1>9. \A f \in Taken(t) \cup NewTable(t) : \E b \in allocations' : f \in Frames(b)
    BY <1>3, <1>6, Zenon
<1> QED
    BY <1>1, <1>8, <1>9, OwnedKept, Zenon

\* memoryFree with whole pages gives all frames of the allocation back.
LEMMA OwnedFrees ==
    ASSUME World, Accounted(workload), SizeInv, OwnedInv, NEW t \in Task, NEW a \in allocations,
           NEW V, NEW frames, Frees(t, a, V, frames)
    PROVE  OwnedInv'
<1>1. /\ "free" \in workload.calls /\ memManData' = FreeFrames(memManData, frames)
      /\ allocations' = allocations \ {a} /\ UNCHANGED <<entries, job>>
    BY Zenon DEF Frees
<1>2. KernelOnly(workload) /\ KernelInv /\ BaseInv /\ Owners /\ IsData(memManData)
    BY <1>1, Zenon DEF World, Promised, NeverFrees, ExclusiveInv, BaseInv
<1>3. frames = V /\ V = (a.start .. a.start + a.size \div PAGE_SIZE - 1) \cap memManData.used
    BY <1>2, KernelFreed, Zenon
<1>4. a.n = NumPagesOf(a.size) /\ a.size \in workload.sizes \cup {PAGE_SIZE} /\ a.size \in Nat
    BY <1>2, Zenon DEF SizeInv, Sized, BaseInv, Allocation
<1>5. a.size % PAGE_SIZE = 0
    <2>1. PAGE_SIZE % PAGE_SIZE = 0
        BY Layout
    <2> QED
        BY <1>1, <1>4, <2>1, Zenon DEF Accounted
<1>6. a.size \div PAGE_SIZE = a.n
    BY <1>4, <1>5, SizeInPages, Zenon
<1>7. a.start = a.first /\ Frames(a) \subseteq memManData.used
    BY <1>2, Zenon DEF KernelInv, Owners
<1>8. V = Frames(a)
    BY <1>3, <1>6, <1>7, Zenon DEF Frames
<1>9. memManData'.used = memManData.used \ Frames(a)
    BY <1>1, <1>2, <1>3, <1>8, GivenBack
<1>10. TableFrames' = TableFrames
    BY <1>1, SameTables, Zenon
<1>11. \A u \in Task : Taken(u)' = Taken(u) /\ NewTable(u)' = NewTable(u)
    BY <1>1, Zenon DEF Taken, NewTable, Active, Frames
<1>12. ASSUME NEW f \in memManData'.used \cap Available
       PROVE  \/ \E b \in allocations' : f \in Frames(b)
              \/ f \in TableFrames'
              \/ \E u \in Task : f \in Taken(u)' \cup NewTable(u)'
    <2>1. f \in memManData.used \cap Available /\ f \notin Frames(a)
        BY <1>9, Zenon
    <2>2. \/ \E b \in allocations : f \in Frames(b)
          \/ f \in TableFrames
          \/ \E u \in Task : f \in Taken(u) \cup NewTable(u)
        BY <2>1, Zenon DEF OwnedInv
    <2> QED
        BY <1>1, <1>10, <1>11, <2>1, <2>2, Zenon
<1> QED
    BY <1>12, Zenon DEF OwnedInv, Frames

\* Every step of a task leaves every used page an owner.
LEMMA OwnedStep ==
    ASSUME World, Accounted(workload), TableInv, SizeInv, OwnedInv, Next
    PROVE  OwnedInv'
<1>0. PICK t \in Task : TaskStep(t)
    BY NextEffects, Zenon DEF World
<1>1. CASE Fails(t)
    <2>1. UNCHANGED <<memManData, entries, job, allocations>>
        BY <1>1, Zenon DEF Fails
    <2>2. TableFrames' = TableFrames /\ \A u \in Task : Taken(u)' = Taken(u) /\ NewTable(u)' = NewTable(u)
        BY <2>1, SameTables, Zenon DEF Taken, NewTable, Active, Frames
    <2> QED
        BY <2>1, <2>2, Zenon DEF OwnedInv, Frames
<1>2. ASSUME NEW op, NEW d, NEW v, NEW size, NEW user, Reserves(t, op, d, v, size, user)
      PROVE  OwnedInv'
    BY <1>2, FreshReserved, OwnedFresh, Zenon
<1>3. ASSUME NEW d, NEW v, NEW size, Looks(t, d, v, size)
      PROVE  OwnedInv'
    <2>1. Others(t) /\ job[t] = Idle /\ UNCHANGED <<memManData, entries, allocations>>
        BY <1>3, Zenon DEF Looks, Begins
    <2>2. Taken(t) = {} /\ NewTable(t) = {}
        BY <2>1, IdleFields, Zenon DEF Taken, NewTable, Active
    <2>3. TableFrames' = TableFrames
        BY <2>1, SameTables, Zenon
    <2>4. memManData'.used \subseteq memManData.used \cup Taken(t)' \cup NewTable(t)'
        BY <2>1, Zenon
    <2> QED
        BY <2>1, <2>2, <2>3, <2>4, OwnedKept, Zenon
<1>4. ASSUME NEW f, Makes(t, f)
      PROVE  OwnedInv'
    BY <1>4, FreshMade, OwnedFresh, Zenon
<1>5. CASE Takes(t) \/ MapsOne(t)
    BY <1>5, FreshTaken, FreshMapped, OwnedFresh, Zenon
<1>6. CASE Enters(t) \/ Ends(t)
    BY <1>6, OwnedEnters, OwnedEnds, Zenon
<1>7. ASSUME NEW a \in allocations, NEW V, NEW frames, Frees(t, a, V, frames)
      PROVE  OwnedInv'
    BY <1>7, OwnedFrees, Zenon
<1> QED
    BY <1>0, <1>1, <1>2, <1>3, <1>4, <1>5, <1>6, <1>7, Zenon DEF TaskStep

\* In the workloads that account for their pages no page is lost: one that was
\* available at boot and is used belongs to an allocation, a page table or a
\* call under way, whatever tasks interleave.
THEOREM NoPageLost ==
    ASSUME Tight, \A w \in Workloads : Accounted(w)
    PROVE  Spec => []NothingLeaks
<1> DEFINE Inv == TableInv /\ SizeInv /\ OwnedInv
<1>0. \A w \in Workloads : Promised(w)
    BY Zenon DEF Accounted
<1>1. Init => Inv
    <2> SUFFICES ASSUME Init PROVE Inv
        BY Zenon
    <2>1. \A t \in Task : job[t].op = "idle" /\ job[t].table = NoTable
        BY IdleFields, Zenon DEF Init
    <2>2. allocations = {} /\ memManData.used \cap Available = {}
        BY Zenon DEF Init
    <2> QED
        BY <2>1, <2>2, Zenon DEF TableInv, SizeInv, OwnedInv
<1>2. Inv /\ World /\ [Next]_vars => Inv'
    <2> SUFFICES ASSUME Inv, World, [Next]_vars PROVE Inv'
        BY Zenon
    <2>1. Accounted(workload)
        BY Zenon DEF World, BaseInv
    <2>2. CASE Next
        BY <2>1, <2>2, TableStep, SizeStep, OwnedStep, Zenon DEF World
    <2>3. CASE UNCHANGED vars
        <3>1. UNCHANGED <<workload, memManData, entries, job, allocations>>
            BY <2>3, Zenon DEF vars
        <3>2. TableFrames' = TableFrames /\ \A u \in Task : Taken(u)' = Taken(u) /\ NewTable(u)' = NewTable(u)
            BY <3>1, SameTables, Zenon DEF Taken, NewTable, Active, Frames
        <3>3. OwnedInv'
            BY <3>1, <3>2, Zenon DEF OwnedInv, Frames
        <3>4. TableInv'
            BY <3>1, Zenon DEF TableInv, Active, MapAt
        <3>5. SizeInv'
            BY <3>1, Zenon DEF SizeInv, Sized
        <3> QED
            BY <3>3, <3>4, <3>5, Zenon
    <2> QED
        BY <2>2, <2>3, Zenon
<1>3. Inv => NothingLeaks
    <2> SUFFICES ASSUME OwnedInv, NEW f \in memManData.used \cap Available
                 PROVE  f \in (UNION {Frames(a) : a \in allocations}) \cup TableFrames \cup InFlight
        BY Zenon DEF NothingLeaks
    <2>1. CASE \E a \in allocations : f \in Frames(a)
        BY <2>1, Zenon
    <2>2. CASE f \in TableFrames
        BY <2>2, Zenon
    <2>3. ASSUME NEW t \in Task, f \in Taken(t)
          PROVE  f \in InFlight
        <3> DEFINE G(u) == IF job[u].op \in {"idle", "mapSearch"} THEN {} ELSE Frames(job[u])
        <3>1. f \in G(t)
            BY <2>3, Zenon DEF Taken, Active
        <3>2. f \in UNION {G(u) : u \in Task}
            BY <3>1, Zenon
        <3> QED
            BY <3>2, Zenon DEF InFlight
    <2>4. ASSUME NEW t \in Task, f \in NewTable(t)
          PROVE  f \in InFlight
        <3>1. f = job[t].table /\ f # NoTable
            BY <2>4, Zenon DEF NewTable
        <3>2. f \in {job[u].table : u \in Task} \ {NoTable}
            BY <3>1, Zenon
        <3> QED
            BY <3>2, Zenon DEF InFlight
    <2>5. \/ \E a \in allocations : f \in Frames(a)
          \/ f \in TableFrames
          \/ \E t \in Task : f \in Taken(t) \/ f \in NewTable(t)
        BY Zenon DEF OwnedInv
    <2> QED
        BY <2>1, <2>2, <2>3, <2>4, <2>5, Zenon
<1> HIDE DEF Inv
<1>4. Spec => []World
    BY <1>0, WorldHolds, Zenon
<1> QED
    BY <1>1, <1>2, <1>3, <1>4, PTL DEF Spec
===============================================================================
