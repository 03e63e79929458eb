--------------------------- MODULE PhysicalAllocator ---------------------------
(***************************************************************************)
(* The bitmap allocator of physical pages, PhysicalAllocator.cpp, as       *)
(* operators on its data memManData: a record of the pages whose bit is    *)
(* set, and the two counters.  A page is given by its number, address      *)
(* divided by PAGE_SIZE.  Addresses and counters are unsigned and wrap     *)
(* around at AddressSpace, 2^32 in the kernel.                             *)
(***************************************************************************)
EXTENDS Naturals, FiniteSets

CONSTANTS PAGE_SIZE, NumPages

AddressSpace == NumPages * PAGE_SIZE

ASSUME PageAssumption == PAGE_SIZE \in Nat \ {0} /\ NumPages \in Nat \ {0}

Page == 0 .. NumPages - 1

MemoryManagerData ==
    [used : SUBSET Page, UsedMemory : 0 .. AddressSpace - 1,
     TotalMemory : 0 .. AddressSpace - 1]

PageOf(address) == (address % AddressSpace) \div PAGE_SIZE

\* Paging.h: the size goes up to the next multiple, also from a multiple.
PAGE_ALIGN(size) == size + PAGE_SIZE - (size % PAGE_SIZE)

\* PAGE_ALIGN only where the size is no multiple already: memoryAllocate, memoryMap.
NumPagesOf(size) ==
    IF size % PAGE_SIZE = 0 THEN size \div PAGE_SIZE ELSE PAGE_ALIGN(size) \div PAGE_SIZE

\* The pages a loop over numPages pages touches.
Pages(page, numPages) == {(page + i) % NumPages : i \in 0 .. numPages - 1}

Plus(a, b) == (a + b) % AddressSpace
Minus(a, b) == (a + AddressSpace - (b % AddressSpace)) % AddressSpace

\* The counter goes with the bitmap, up to the wrap around.
CounterTracks(m) == Plus(m.UsedMemory, PAGE_SIZE * Cardinality(Page \ m.used)) = 0

-----------------------------------------------------------------------------
(* physicalAllocatorInit before it loads the memory map.                   *)
EmptyData == [used |-> Page, UsedMemory |-> 0, TotalMemory |-> 0]

\* Mutant: the loop returns true at the first free page.
isPhysicalFree_Any(m, page, numPages) == Pages(page, numPages) \ m.used # {}

isPhysicalFree(m, page, numPages) == Pages(page, numPages) \cap m.used = {}

\* Mutant: a page that is already used is counted again.
physicalAllocateAt_Recount(m, page, numPages) ==
    [m EXCEPT !.used = @ \cup Pages(page, numPages),
              !.UsedMemory = Plus(@, PAGE_SIZE * Cardinality(Pages(page, numPages)))]

(* physicalAllocate(startAddress, numPages): pages already used stay so.   *)
physicalAllocateAt(m, page, numPages) ==
    [m EXCEPT !.used = @ \cup Pages(page, numPages),
              !.UsedMemory =
                  Plus(@, PAGE_SIZE * Cardinality(Pages(page, numPages) \ m.used))]

(* physicalAllocate(numPages): the first place below TotalMemory where the *)
(* pages are free; page 0 stands for failure.                              *)
Places(m, numPages) ==
    {page \in Page : page < m.TotalMemory \div PAGE_SIZE
                     /\ isPhysicalFree(m, page, numPages)}

FirstPlace(m, numPages) ==
    IF Places(m, numPages) = {} THEN 0
    ELSE CHOOSE page \in Places(m, numPages) :
             \A other \in Places(m, numPages) : page <= other

physicalAllocate(m, numPages) ==
    IF Places(m, numPages) = {} THEN m
    ELSE physicalAllocateAt(m, FirstPlace(m, numPages), numPages)

physicalFree(m, page, numPages) ==
    [m EXCEPT !.used = @ \ Pages(page, numPages),
              !.UsedMemory =
                  Minus(@, PAGE_SIZE * Cardinality(Pages(page, numPages) \cap m.used))]
===============================================================================
