------------------------- MODULE PhysicalMemoryProofs -------------------------
(***************************************************************************)
(* Proofs about the physical allocator, for every page size, number of     *)
(* pages, memory map and list of modules.                                  *)
(***************************************************************************)
EXTENDS PhysicalMemory, Integers, FiniteSetTheorems, TLAPS

(* Facts about numbers.                                                    *)

\* Division with remainder.
LEMMA DivMod ==
    ASSUME NEW a \in Int, NEW m \in Nat \ {0}
    PROVE  a = m * (a \div m) + (a % m) /\ a % m \in 0 .. m - 1 /\ a \div m \in Int
    OBVIOUS

\* The remainder is unique.
LEMMA ModUnique ==
    ASSUME NEW q \in Int, NEW m \in Nat \ {0}, NEW r \in 0 .. m - 1
    PROVE  (m * q + r) % m = r
    OBVIOUS

\* Multiples of the modulus do not count.
LEMMA ModShift ==
    ASSUME NEW a \in Int, NEW q \in Int, NEW m \in Nat \ {0}
    PROVE  (a + m * q) % m = a % m
<1>1. a = m * (a \div m) + (a % m) /\ a % m \in 0 .. m - 1 /\ a \div m \in Int
    BY DivMod, Zenon
<1>2. a + m * q = m * (a \div m + q) + (a % m)
    BY <1>1
<1>3. a \div m + q \in Int
    BY <1>1
<1> QED
    BY <1>1, <1>2, <1>3, ModUnique, Zenon

\* A sum may be reduced early.
LEMMA ModAdd ==
    ASSUME NEW a \in Int, NEW b \in Int, NEW m \in Nat \ {0}
    PROVE  ((a % m) + b) % m = (a + b) % m
<1> DEFINE q == a \div m
           r == a % m
<1>1. a = m * q + r /\ r \in 0 .. m - 1 /\ q \in Int
    BY DivMod, Zenon
<1>2. a + b = (r + b) + m * q /\ r + b \in Int
    BY <1>1
<1>3. ((r + b) + m * q) % m = (r + b) % m
    <2> HIDE DEF q, r
    <2> QED
        BY <1>1, <1>2, ModShift, Zenon
<1> QED
    BY <1>2, <1>3, Zenon

\* The elements of a sequence.
LEMMA ElementOfSeq ==
    ASSUME NEW S, NEW seq \in Seq(S), NEW n \in 1 .. Len(seq)
    PROVE  seq[n] \in S
    OBVIOUS

\* A set of numbers that is not empty has a least one.
LEMMA LeastNumber ==
    ASSUME NEW S \in SUBSET Nat, S # {}
    PROVE  \E x \in S : \A y \in S : x <= y
<1> DEFINE Less == {ss \in Nat \X Nat : ss[1] < ss[2]}
<1>1. OpToRel(<, Nat) = Less
    BY Zenon DEF OpToRel
<1>2. \E x \in S : \A y \in S : ~ (<<y, x>> \in OpToRel(<, Nat))
    BY NatLessThanWellFounded, WFMin, Zenon
<1>3. \E x \in S : \A y \in S : ~ (<<y, x>> \in Less)
    BY <1>1, <1>2, Zenon
<1>4. \A x, y \in Nat : y < x => <<y, x>> \in Less
    BY Zenon
<1> HIDE DEF Less
<1>5. PICK x \in S : \A y \in S : ~ (<<y, x>> \in Less)
    BY <1>3, Zenon
<1>6. ASSUME NEW y \in S PROVE x <= y
    <2>1. ~ (<<y, x>> \in Less) /\ x \in Nat /\ y \in Nat
        BY <1>5, Zenon
    <2>2. ~ (y < x)
        BY <1>4, <2>1, Zenon
    <2> QED
        BY <2>1, <2>2
<1> QED
    BY <1>6, Zenon

-----------------------------------------------------------------------------
(* Facts about the operators of PhysicalAllocator.                         *)

\* The modulus of the unsigned arithmetic.
LEMMA SpaceIsPositive == AddressSpace \in Nat \ {0}
    BY PageAssumption DEF AddressSpace

\* The loops touch pages of the address space only.
LEMMA PagesInPage ==
    ASSUME NEW page \in Nat, NEW n \in Nat
    PROVE  Pages(page, n) \subseteq Page
<1>1. ASSUME NEW i \in 0 .. n - 1
      PROVE  (page + i) % NumPages \in Page
    <2>1. page + i \in Int
        OBVIOUS
    <2> QED
        BY <2>1, DivMod, PageAssumption, Zenon DEF Page
<1> QED
    BY <1>1, Zenon DEF Pages

\* The bitmap has finitely many pages.
LEMMA PageIsFinite == IsFiniteSet(Page)
<1>1. 0 \in Int /\ NumPages - 1 \in Int
    BY PageAssumption
<1> QED
    BY <1>1, FS_Interval, Zenon DEF Page

\* Splitting the free pages splits their number.
LEMMA CountSplits ==
    ASSUME NEW S \in SUBSET Page, NEW T \in SUBSET S
    PROVE  /\ Cardinality(S) = Cardinality(S \ T) + Cardinality(T)
           /\ Cardinality(S \ T) \in Nat /\ Cardinality(T) \in Nat
<1>1. IsFiniteSet(S \ T) /\ IsFiniteSet(T)
    BY PageIsFinite, FS_Subset, Zenon
<1>2. (S \ T) \cup T = S /\ (S \ T) \cap T = {}
    BY Zenon
<1>3. Cardinality((S \ T) \cap T) = 0
    BY <1>2, FS_EmptySet, Zenon
<1>4. Cardinality(S \ T) \in Nat /\ Cardinality(T) \in Nat
    BY <1>1, FS_CardinalityType, Zenon
<1>5. Cardinality((S \ T) \cup T)
        = Cardinality(S \ T) + Cardinality(T) - Cardinality((S \ T) \cap T)
    BY <1>1, FS_Union, Zenon
<1>6. Cardinality((S \ T) \cup T) = Cardinality(S)
    BY <1>2, Zenon
<1> QED
    BY <1>3, <1>4, <1>5, <1>6

\* Taking pages keeps the data well formed and the counter right, whether the
\* pages were free or not.
LEMMA AllocateAt ==
    ASSUME NEW m \in MemoryManagerData, NEW page \in Nat, NEW n \in Nat
    PROVE  /\ physicalAllocateAt(m, page, n) \in MemoryManagerData
           /\ physicalAllocateAt(m, page, n).used = m.used \cup Pages(page, n)
           /\ physicalAllocateAt(m, page, n).TotalMemory = m.TotalMemory
           /\ CounterTracks(m) => CounterTracks(physicalAllocateAt(m, page, n))
<1> DEFINE new == Pages(page, n) \ m.used
           k == Cardinality(new)
           U == m.UsedMemory
           V == (U + PAGE_SIZE * k) % AddressSpace
           r == physicalAllocateAt(m, page, n)
           f == Cardinality(Page \ m.used)
           g == Cardinality(Page \ (m.used \cup Pages(page, n)))
<1>1. /\ m.used \in SUBSET Page /\ U \in 0 .. AddressSpace - 1
      /\ m.TotalMemory \in 0 .. AddressSpace - 1
      /\ DOMAIN m = {"used", "UsedMemory", "TotalMemory"}
    BY Zenon DEF MemoryManagerData
<1>2. Pages(page, n) \subseteq Page
    BY PagesInPage, Zenon
<1>3. f = g + k /\ g \in Nat /\ k \in Nat
    <2>1. Page \ (m.used \cup Pages(page, n)) = (Page \ m.used) \ new
        BY Zenon
    <2>2. new \in SUBSET (Page \ m.used)
        BY <1>2, Zenon
    <2>3. Page \ m.used \in SUBSET Page
        BY Zenon
    <2> QED
        BY <2>1, <2>2, <2>3, CountSplits, Zenon
<1>4. U + PAGE_SIZE * k \in Int /\ PAGE_SIZE * g \in Int
    BY <1>1, <1>3, PageAssumption, SpaceIsPositive
<1>5. V \in 0 .. AddressSpace - 1
    BY <1>4, DivMod, SpaceIsPositive, Zenon
<1>6. r.used = m.used \cup Pages(page, n) /\ r.UsedMemory = V /\ r.TotalMemory = m.TotalMemory
    BY <1>1, Zenon DEF physicalAllocateAt, Plus, MemoryManagerData
<1>7. r \in MemoryManagerData
    BY <1>1, <1>2, <1>5, Zenon DEF physicalAllocateAt, Plus, MemoryManagerData
<1>8. ASSUME CounterTracks(m) PROVE CounterTracks(r)
    <2>1. (U + PAGE_SIZE * f) % AddressSpace = 0
        BY <1>8, Zenon DEF CounterTracks, Plus
    <2>2. U + PAGE_SIZE * f = (U + PAGE_SIZE * k) + PAGE_SIZE * g
        BY <1>1, <1>3, PageAssumption, SpaceIsPositive
    <2>3. (V + PAGE_SIZE * g) % AddressSpace = ((U + PAGE_SIZE * k) + PAGE_SIZE * g) % AddressSpace
        <3> DEFINE a == U + PAGE_SIZE * k
                   b == PAGE_SIZE * g
        <3>1. a \in Int /\ b \in Int
            BY <1>4, Zenon
        <3> HIDE DEF a, b
        <3>2. ((a % AddressSpace) + b) % AddressSpace = (a + b) % AddressSpace
            BY <3>1, ModAdd, SpaceIsPositive, Zenon
        <3> QED
            BY <3>2, Zenon DEF a, b
    <2> QED
        BY <1>6, <2>1, <2>2, <2>3, Zenon DEF CounterTracks, Plus
<1> QED
    BY <1>6, <1>7, <1>8, Zenon

\* Freeing pages does too.
LEMMA FreePages ==
    ASSUME NEW m \in MemoryManagerData, NEW page \in Nat, NEW n \in Nat
    PROVE  /\ physicalFree(m, page, n) \in MemoryManagerData
           /\ physicalFree(m, page, n).used = m.used \ Pages(page, n)
           /\ physicalFree(m, page, n).TotalMemory = m.TotalMemory
           /\ CounterTracks(m) => CounterTracks(physicalFree(m, page, n))
<1> DEFINE old == Pages(page, n) \cap m.used
           k == Cardinality(old)
           U == m.UsedMemory
           x == PAGE_SIZE * k
           d == U + AddressSpace - (x % AddressSpace)
           V == d % AddressSpace
           r == physicalFree(m, page, n)
           f == Cardinality(Page \ m.used)
           g == Cardinality(Page \ (m.used \ Pages(page, n)))
<1>1. /\ m.used \in SUBSET Page /\ U \in 0 .. AddressSpace - 1
      /\ m.TotalMemory \in 0 .. AddressSpace - 1
      /\ DOMAIN m = {"used", "UsedMemory", "TotalMemory"}
    BY Zenon DEF MemoryManagerData
<1>2. g = f + k /\ f \in Nat /\ k \in Nat
    <2> DEFINE rest == Page \ (m.used \ Pages(page, n))
    <2>1. rest \ old = Page \ m.used /\ old \in SUBSET rest /\ rest \in SUBSET Page
        BY <1>1, Zenon
    <2> HIDE DEF rest, old
    <2>2. Cardinality(rest) = Cardinality(rest \ old) + Cardinality(old)
          /\ Cardinality(rest \ old) \in Nat /\ Cardinality(old) \in Nat
        BY <2>1, CountSplits, Zenon
    <2> QED
        BY <2>1, <2>2, Zenon DEF rest, old
<1>3. x \in Int /\ x % AddressSpace \in 0 .. AddressSpace - 1 /\ d \in Int
    <2>1. k \in Int /\ PAGE_SIZE \in Int /\ U \in Int /\ AddressSpace \in Int
        BY <1>1, <1>2, PageAssumption, SpaceIsPositive
    <2> HIDE DEF k, U
    <2>2. x \in Int
        BY <2>1
    <2> HIDE DEF x
    <2>3. x % AddressSpace \in 0 .. AddressSpace - 1
        BY <2>2, DivMod, SpaceIsPositive, Zenon
    <2> QED
        BY <2>1, <2>2, <2>3
<1>4. V \in 0 .. AddressSpace - 1
    BY <1>3, DivMod, SpaceIsPositive, Zenon
<1>5. r.used = m.used \ Pages(page, n) /\ r.UsedMemory = V /\ r.TotalMemory = m.TotalMemory
    BY <1>1, Zenon DEF physicalFree, Minus, MemoryManagerData
<1>6. r \in MemoryManagerData
    BY <1>1, <1>4, Zenon DEF physicalFree, Minus, MemoryManagerData
<1>7. ASSUME CounterTracks(m) PROVE CounterTracks(r)
    <2> DEFINE y == PAGE_SIZE * f
               q == x \div AddressSpace
    <2>1. (U + y) % AddressSpace = 0 /\ y \in Int
        BY <1>2, <1>7, PageAssumption DEF CounterTracks, Plus
    <2>2. PAGE_SIZE * g = y + x
        BY <1>2, PageAssumption
    <2>3. x = AddressSpace * q + (x % AddressSpace) /\ q \in Int
        <3> HIDE DEF x
        <3> QED
            BY <1>3, DivMod, SpaceIsPositive, Zenon
    <2>4. d + (y + x) = (U + y) + AddressSpace * (q + 1)
        <3> DEFINE w == x % AddressSpace
        <3>1. AddressSpace * (q + 1) = AddressSpace * q + AddressSpace
              /\ AddressSpace * q \in Int
            <4> HIDE DEF q
            <4> QED
                BY <2>3, SpaceIsPositive
        <3>2. x = AddressSpace * q + w /\ w \in Int /\ d = U + AddressSpace - w
            BY <1>3, <2>3, SpaceIsPositive
        <3>3. U \in Int /\ y \in Int /\ x \in Int /\ AddressSpace \in Int
            BY <1>1, <1>3, <2>1, SpaceIsPositive
        <3> HIDE DEF x, y, w, d, U, q
        <3> QED
            BY <3>1, <3>2, <3>3
    <2>5. ((U + y) + AddressSpace * (q + 1)) % AddressSpace = (U + y) % AddressSpace
        <3>1. U + y \in Int /\ q + 1 \in Int
            BY <1>1, <2>1, <2>3
        <3> HIDE DEF y, q
        <3> QED
            BY <3>1, ModShift, SpaceIsPositive, Zenon
    <2>6. (V + (y + x)) % AddressSpace = (d + (y + x)) % AddressSpace
        <3>1. y + x \in Int
            BY <1>3, <2>1
        <3> HIDE DEF d, x, y
        <3> QED
            BY <1>3, <3>1, ModAdd, SpaceIsPositive, Zenon
    <2>7. (V + PAGE_SIZE * g) % AddressSpace = 0
        BY <2>1, <2>2, <2>4, <2>5, <2>6, Zenon
    <2> QED
        BY <1>5, <2>7, Zenon DEF CounterTracks, Plus
<1> QED
    BY <1>5, <1>6, <1>7, Zenon

\* A request that is met gets pages that were free, and takes them.
LEMMA AllocateFirst ==
    ASSUME NEW m \in MemoryManagerData, NEW n \in Nat
    PROVE  /\ physicalAllocate(m, n) \in MemoryManagerData
           /\ CounterTracks(m) => CounterTracks(physicalAllocate(m, n))
           /\ m.used \subseteq physicalAllocate(m, n).used
           /\ FirstPlace(m, n) \in Page
           /\ FirstPlace(m, n) > 0 =>
                 /\ Pages(FirstPlace(m, n), n) \cap m.used = {}
                 /\ Pages(FirstPlace(m, n), n) \subseteq physicalAllocate(m, n).used
<1>1. CASE Places(m, n) = {}
    BY <1>1, PageAssumption DEF physicalAllocate, FirstPlace, Page
<1>2. CASE Places(m, n) # {}
    <2>1. Places(m, n) \in SUBSET Nat
        BY DEF Places, Page
    <2>2. \E page \in Places(m, n) : \A other \in Places(m, n) : page <= other
        BY <1>2, <2>1, LeastNumber, Zenon
    <2>3. FirstPlace(m, n) \in Places(m, n)
        BY <1>2, <2>2, Zenon DEF FirstPlace
    <2>4. FirstPlace(m, n) \in Page /\ isPhysicalFree(m, FirstPlace(m, n), n)
        BY <2>3, Zenon DEF Places
    <2>5. FirstPlace(m, n) \in Nat
        BY <2>4 DEF Page
    <2>6. physicalAllocate(m, n) = physicalAllocateAt(m, FirstPlace(m, n), n)
        BY <1>2, Zenon DEF physicalAllocate
    <2> DEFINE r == physicalAllocateAt(m, FirstPlace(m, n), n)
    <2>7. /\ r \in MemoryManagerData /\ r.used = m.used \cup Pages(FirstPlace(m, n), n)
          /\ CounterTracks(m) => CounterTracks(r)
        BY <2>5, AllocateAt, Zenon
    <2>8. Pages(FirstPlace(m, n), n) \cap m.used = {}
        BY <2>4, Zenon DEF isPhysicalFree
    <2> HIDE DEF r
    <2> QED
        BY <2>4, <2>6, <2>7, <2>8, Zenon DEF r
<1> QED
    BY <1>1, <1>2, Zenon

\* Results of the unsigned arithmetic are unsigned numbers.
LEMMA Unsigned ==
    ASSUME NEW a \in Nat, NEW b \in Nat
    PROVE  /\ Plus(a, b) \in 0 .. AddressSpace - 1
           /\ Minus(a, b) \in 0 .. AddressSpace - 1
           /\ PageOf(a) \in Nat /\ a \div PAGE_SIZE \in Nat
           /\ PAGE_ALIGN(a) \in Nat /\ AlignUp(a) \in Nat
<1>1. a + b \in Int /\ a \in Int /\ b \in Int
    OBVIOUS
<1>2. Plus(a, b) \in 0 .. AddressSpace - 1
    BY <1>1, DivMod, SpaceIsPositive, Zenon DEF Plus
<1>3. b % AddressSpace \in 0 .. AddressSpace - 1
    BY DivMod, SpaceIsPositive
<1>4. Minus(a, b) \in 0 .. AddressSpace - 1
    <2>1. a + AddressSpace - (b % AddressSpace) \in Int
        BY <1>3, SpaceIsPositive
    <2> QED
        BY <2>1, DivMod, SpaceIsPositive, Zenon DEF Minus
<1>5. \A c \in Nat : c \div PAGE_SIZE \in Nat
    BY PageAssumption
<1>6. a % AddressSpace \in Nat
    BY DivMod, SpaceIsPositive
<1>7. a % PAGE_SIZE \in 0 .. PAGE_SIZE - 1
    BY DivMod, PageAssumption
<1> QED
    BY <1>2, <1>4, <1>5, <1>6, <1>7, PageAssumption DEF PageOf, PAGE_ALIGN, AlignUp

-----------------------------------------------------------------------------
(* The invariants of the specification.                                    *)

NoGrantsBefore == pc # "up" => grants = {}

MemoryInv == TypeOK /\ UsedTracksBitmap /\ GrantsDisjoint /\ NoGrantsBefore

\* Before MemoryManager::init all pages are used and none is granted.
LEMMA MemoryInit == Init => MemoryInv
<1> SUFFICES ASSUME Init PROVE MemoryInv
    BY Zenon
<1>1. EmptyData \in MemoryManagerData
    BY SpaceIsPositive DEF EmptyData, MemoryManagerData
<1>2. CounterTracks(EmptyData)
    <2>1. Page \ EmptyData.used = {} /\ EmptyData.UsedMemory = 0
        BY Zenon DEF EmptyData
    <2>2. Cardinality({}) = 0
        BY FS_EmptySet, Zenon
    <2>3. PAGE_SIZE * 0 = 0 /\ (0 + 0) % AddressSpace = 0
        BY PageAssumption, SpaceIsPositive
    <2>4. Plus(0, PAGE_SIZE * Cardinality({})) = 0
        BY <2>2, <2>3, Zenon DEF Plus
    <2> QED
        BY <2>1, <2>4, Zenon DEF CounterTracks
<1> QED
    BY <1>1, <1>2, SpaceIsPositive
    DEF Init, MemoryInv, TypeOK, UsedTracksBitmap, GrantsDisjoint, NoGrantsBefore

\* identityMap takes its pages.
LEMMA IdentityTakes ==
    ASSUME NEW m \in MemoryManagerData, NEW address \in Nat, NEW size \in Nat
    PROVE  /\ Identity(m, address, size) \in MemoryManagerData
           /\ CounterTracks(m) => CounterTracks(Identity(m, address, size))
           /\ Identity(m, address, size).used =
                  m.used \cup Pages(PageOf(address), PAGE_ALIGN(size) \div PAGE_SIZE)
<1>1. PageOf(address) \in Nat /\ PAGE_ALIGN(size) \in Nat
    BY Unsigned, Zenon
<1>2. PAGE_ALIGN(size) \div PAGE_SIZE \in Nat
    BY <1>1, Unsigned, Zenon
<1> QED
    BY <1>1, <1>2, AllocateAt DEF Identity

\* Every step of init, and every request and release after it, preserves the
\* invariant.
LEMMA MemoryStep == MemoryInv /\ [Next]_vars => MemoryInv'
<1> SUFFICES ASSUME MemoryInv, [Next]_vars PROVE MemoryInv'
    BY Zenon
<1> USE DEF MemoryInv, NoGrantsBefore
<1>0. /\ memManData \in MemoryManagerData /\ CounterTracks(memManData) /\ TypeOK
      /\ index \in Nat \ {0} /\ total \in 0 .. AddressSpace - 1 /\ map \in Maps
    BY Zenon DEF TypeOK, UsedTracksBitmap
\* While nothing is granted, only the data and the counters are at stake.
<1>a. ASSUME memManData' \in MemoryManagerData, CounterTracks(memManData'),
             index' \in Nat \ {0}, total' \in 0 .. AddressSpace - 1,
             UNCHANGED <<map, grants, failed>>, grants = {},
             pc' \in {"map", "kernel", "low", "modules", "up"}
      PROVE  MemoryInv'
    BY <1>0, <1>a, Zenon DEF TypeOK, UsedTracksBitmap, GrantsDisjoint, CounterTracks
<1>1. CASE LoadEntry
    <2>1. /\ index \in 1 .. Len(map) /\ grants = {}
          /\ index' = index + 1 /\ UNCHANGED <<map, pc, grants, failed>>
        BY <1>0, <1>1 DEF LoadEntry
    <2>2. map[index] \in [type : Nat, address : Nat, length : Nat]
        <3>1. map \in Seq([type : Nat, address : Nat, length : Nat])
            BY <1>0, MapAssumption, Zenon
        <3> QED
            BY <2>1, <3>1, ElementOfSeq, Zenon
    <2> DEFINE area == Usable(map[index])
    <2>3. area.address \in 0 .. AddressSpace - 1 /\ area.length \in 0 .. AddressSpace - 1
        <3> DEFINE up == AlignUp(map[index].address)
                   l == map[index].length % AddressSpace
                   p == map[index].length % PAGE_SIZE
        <3>1. map[index].address \in Nat /\ map[index].length \in Nat
            BY <2>2, Zenon
        <3>2. up \in Nat
            BY <3>1, Unsigned, Zenon
        <3>3. l \in Nat /\ p \in Nat
            <4>1. \A a \in Nat : a % AddressSpace \in Nat /\ a % PAGE_SIZE \in Nat
                BY DivMod, SpaceIsPositive, PageAssumption
            <4> QED
                BY <3>1, <4>1, Zenon
        <3> HIDE DEF up, l, p
        <3>4. Plus(map[index].address, up) \in 0 .. AddressSpace - 1
            BY <3>1, <3>2, Unsigned, Zenon
        <3>5. Minus(l, up) \in 0 .. AddressSpace - 1
            BY <3>2, <3>3, Unsigned, Zenon
        <3>6. Minus(Minus(l, up), p) \in 0 .. AddressSpace - 1
            <4>1. Minus(l, up) \in Nat
                BY <3>5, SpaceIsPositive
            <4> QED
                BY <3>3, <4>1, Unsigned, Zenon
        <3> QED
            BY <3>4, <3>6, Zenon DEF Usable, up, l, p
    <2> HIDE DEF area
    <2>4. area.address \in Nat /\ area.length \in Nat
        BY <2>3, SpaceIsPositive
    <2>5. PageOf(area.address) \in Nat /\ area.length \div PAGE_SIZE \in Nat
        BY <2>4, Unsigned, Zenon
    <2>6. total \in Nat
        BY <1>0, SpaceIsPositive
    <2>7. Plus(total, area.length) \in 0 .. AddressSpace - 1
        BY <2>4, <2>6, Unsigned, Zenon
    <2>8. CASE map[index].type = 1
        <3>1. /\ memManData' = physicalFree(memManData, PageOf(area.address),
                                            area.length \div PAGE_SIZE)
              /\ total' = Plus(total, area.length)
            BY <1>1, <2>8, Zenon DEF LoadEntry, area
        <3>2. memManData' \in MemoryManagerData /\ CounterTracks(memManData')
            BY <1>0, <2>5, <3>1, FreePages, Zenon
        <3> QED
            BY <1>0, <1>a, <2>1, <2>7, <3>1, <3>2 DEF TypeOK
    <2>9. CASE map[index].type # 1
        BY <1>0, <1>1, <1>a, <2>1, <2>9 DEF LoadEntry, TypeOK
    <2> QED
        BY <2>8, <2>9, Zenon
<1>2. CASE LoadEnd
    <2>1. memManData' \in MemoryManagerData
        BY <1>0, <1>2, Zenon DEF LoadEnd, MemoryManagerData
    <2>2. CounterTracks(memManData')
        BY <1>0, <1>2, Zenon DEF LoadEnd, CounterTracks, MemoryManagerData
    <2> QED
        BY <1>0, <1>2, <1>a, <2>1, <2>2, Zenon DEF LoadEnd
<1>3. CASE mapKernelMemory
    <2>1. __start - (__start % PAGE_SIZE) \in Nat
        <3>1. __start = PAGE_SIZE * (__start \div PAGE_SIZE) + (__start % PAGE_SIZE)
              /\ __start % PAGE_SIZE \in 0 .. PAGE_SIZE - 1 /\ __start \div PAGE_SIZE \in Nat
            BY DivMod, KernelAssumption, PageAssumption
        <3>2. PAGE_SIZE * (__start \div PAGE_SIZE) \in Nat
            BY <3>1, PageAssumption
        <3> QED
            BY <3>1, <3>2, KernelAssumption, PageAssumption
    <2>2. KernelSize \in Nat
        <3>1. __start % PAGE_SIZE \in Nat
            BY DivMod, KernelAssumption, PageAssumption
        <3>2. (_kernel_end - __start) + (__start % PAGE_SIZE) \in Nat
            BY <3>1, KernelAssumption
        <3> QED
            BY <3>2, Unsigned, Zenon DEF KernelSize
    <2>3. memManData' \in MemoryManagerData /\ CounterTracks(memManData')
        BY <1>0, <1>3, <2>1, <2>2, IdentityTakes, Zenon DEF mapKernelMemory
    <2> QED
        BY <1>0, <1>3, <1>a, <2>3, Zenon DEF mapKernelMemory
<1>4. CASE mapLowMemory
    <2>1. memManData' \in MemoryManagerData /\ CounterTracks(memManData')
        BY <1>0, <1>4, KernelAssumption, IdentityTakes, Zenon DEF mapLowMemory
    <2> QED
        BY <1>0, <1>4, <1>a, <2>1 DEF mapLowMemory
<1>5. CASE reserveModule
    <2> DEFINE module == Modules[index]
               size == module.modEnd - module.modStart
               freed == physicalFree(memManData, PageOf(module.modStart), size \div PAGE_SIZE)
    <2>1. module.modStart \in Nat /\ size \in Nat
        <3>1. index \in 1 .. Len(Modules)
            BY <1>0, <1>5 DEF reserveModule
        <3>2. Modules[index] \in [modStart : Nat, modEnd : Nat]
            BY <3>1, ModuleAssumption, ElementOfSeq, Zenon
        <3>3. Modules[index].modStart <= Modules[index].modEnd
            BY <3>1, ModuleAssumption, Zenon
        <3> QED
            BY <3>2, <3>3
    <2>2. memManData' = Identity(freed, module.modStart, size)
        BY <1>5, Zenon DEF reserveModule
    <2> HIDE DEF module, size
    <2>3. freed \in MemoryManagerData /\ CounterTracks(freed)
        <3>1. PageOf(module.modStart) \in Nat /\ size \div PAGE_SIZE \in Nat
            BY <2>1, Unsigned, Zenon
        <3> QED
            BY <1>0, <3>1, FreePages, Zenon
    <2>4. memManData' \in MemoryManagerData /\ CounterTracks(memManData')
        <3> HIDE DEF freed
        <3> QED
            BY <2>1, <2>2, <2>3, IdentityTakes, Zenon
    <2> QED
        BY <1>0, <1>5, <1>a, <2>4 DEF reserveModule
<1>6. CASE reserveEnd
    BY <1>0, <1>6, <1>a, Zenon DEF reserveEnd
<1>7. ASSUME NEW numPages \in Requests, Allocate(numPages)
      PROVE  MemoryInv'
    <2> DEFINE page == FirstPlace(memManData, numPages)
               grant == [page |-> page, numPages |-> numPages]
    <2>1. numPages \in Nat
        BY RequestAssumption, Zenon
    <2>2. /\ memManData' \in MemoryManagerData /\ CounterTracks(memManData')
          /\ memManData.used \subseteq memManData'.used /\ page \in Page
        BY <1>0, <1>7, <2>1, AllocateFirst, Zenon DEF Allocate
    <2>3. UNCHANGED <<map, index, total, pc>> /\ pc = "up"
        BY <1>7, Zenon DEF Allocate
    <2>4. CASE page > 0
        <3>1. grants' = grants \cup {grant} /\ failed' = 0
            BY <1>7, <2>4, Zenon DEF Allocate
        <3>2. /\ Pages(page, numPages) \cap memManData.used = {}
              /\ Pages(page, numPages) \subseteq memManData'.used
            BY <1>0, <1>7, <2>1, <2>4, AllocateFirst, Zenon DEF Allocate
        <3>3. Granted(grant) = Pages(page, numPages)
            BY Zenon DEF Granted
        <3>4. grant \in [page : Page, numPages : Requests]
            BY <2>2, Zenon
        <3> HIDE DEF page, grant
        <3>5. GrantsDisjoint'
            BY <2>2, <3>1, <3>2, <3>3, Zenon DEF GrantsDisjoint, Granted
        <3> QED
            BY <1>0, <2>2, <2>3, <3>1, <3>4, <3>5, Zenon DEF TypeOK, UsedTracksBitmap, CounterTracks
    <2>5. CASE ~ (page > 0)
        <3>1. grants' = grants /\ failed' = numPages
            BY <1>7, <2>5, Zenon DEF Allocate
        <3>2. GrantsDisjoint'
            BY <2>2, <3>1, Zenon DEF GrantsDisjoint, Granted
        <3> QED
            BY <1>0, <2>2, <2>3, <3>1, <3>2, Zenon DEF TypeOK, UsedTracksBitmap, CounterTracks
    <2> QED
        BY <2>4, <2>5, Zenon
<1>8. ASSUME NEW grant \in grants, Free(grant)
      PROVE  MemoryInv'
    <2>1. grant.page \in Nat /\ grant.numPages \in Nat
        <3>1. grant \in [page : Page, numPages : Requests]
            BY <1>0, <1>8, Zenon DEF TypeOK
        <3>2. Page \subseteq Nat /\ Requests \subseteq Nat
            BY RequestAssumption DEF Page
        <3> QED
            BY <3>1, <3>2, Zenon
    <2>2. /\ memManData' \in MemoryManagerData /\ CounterTracks(memManData')
          /\ memManData'.used = memManData.used \ Granted(grant)
        <3>1. memManData' = physicalFree(memManData, grant.page, grant.numPages)
              /\ Granted(grant) = Pages(grant.page, grant.numPages)
            BY <1>8, Zenon DEF Free, Granted
        <3>2. \A n \in Nat : \A page \in Nat :
                  /\ physicalFree(memManData, page, n) \in MemoryManagerData
                  /\ physicalFree(memManData, page, n).used = memManData.used \ Pages(page, n)
                  /\ CounterTracks(physicalFree(memManData, page, n))
            BY <1>0, FreePages, Zenon
        <3> QED
            BY <2>1, <3>1, <3>2, Zenon
    <2>3. /\ grants' = grants \ {grant} /\ failed' = 0 /\ pc = "up"
          /\ UNCHANGED <<map, index, total, pc>>
        BY <1>8, Zenon DEF Free
    <2>4. GrantsDisjoint'
        BY <2>2, <2>3, Zenon DEF GrantsDisjoint, Granted
    <2> QED
        BY <1>0, <2>2, <2>3, <2>4, Zenon DEF TypeOK, UsedTracksBitmap, CounterTracks
<1>9. CASE UNCHANGED vars
    BY <1>0, <1>9, Zenon
    DEF vars, TypeOK, UsedTracksBitmap, CounterTracks, GrantsDisjoint, Granted
<1> QED
    BY <1>1, <1>2, <1>3, <1>4, <1>5, <1>6, <1>7, <1>8, <1>9, Zenon DEF Next

\* The invariant holds in every reachable state.
THEOREM MemoryInvariant == Spec => []MemoryInv
    BY MemoryInit, MemoryStep, PTL DEF Spec

\* Whatever the memory map, the bitmap and its counter stay well formed.
THEOREM MemoryTypeCorrect == Spec => []TypeOK
    BY MemoryInvariant, PTL DEF MemoryInv

\* The counter UsedMemory follows the bitmap modulo 2^32.
THEOREM CounterFollowsBitmap == Spec => []UsedTracksBitmap
    BY MemoryInvariant, PTL DEF MemoryInv

\* physicalAllocate never gives out a page twice.
THEOREM NoPageGrantedTwice == Spec => []GrantsDisjoint
    BY MemoryInvariant, PTL DEF MemoryInv

\* A product grows with its factor.
LEMMA Monotone ==
    ASSUME NEW a \in Nat, NEW b \in Nat, NEW m \in Nat \ {0}
    PROVE  /\ a <= b => a * m <= b * m
           /\ a < b <=> a * m < b * m
           /\ (a + b) * m = a * m + b * m /\ (a + 1) * m = a * m + m
           /\ a * m \in Nat
    OBVIOUS

\* Division rounds down.
LEMMA DivBounds ==
    ASSUME NEW a \in Nat, NEW m \in Nat \ {0}
    PROVE  /\ a \div m \in Nat /\ (a \div m) * m <= a /\ a < (a \div m + 1) * m
           /\ a % m \in Nat /\ a % m < m /\ a = (a \div m) * m + (a % m)
<1>1. a = m * (a \div m) + (a % m) /\ a % m \in 0 .. m - 1 /\ a \div m \in Int
    BY DivMod
<1>2. a \div m \in Nat
    OBVIOUS
<1>3. (a \div m) * m = m * (a \div m) /\ (a \div m + 1) * m = m * (a \div m) + m
      /\ m * (a \div m) \in Nat
    BY <1>2
<1> QED
    BY <1>1, <1>2, <1>3

\* Multiples divide without remainder.
LEMMA DivExact ==
    ASSUME NEW q \in Nat, NEW m \in Nat \ {0}
    PROVE  (q * m) \div m = q /\ (q * m) % m = 0
    OBVIOUS

\* Below the modulus nothing wraps around.
LEMMA ModSmall ==
    ASSUME NEW m \in Nat \ {0}, NEW a \in Nat, a < m
    PROVE  a % m = a
    OBVIOUS

\* The quotient tells between which multiples a number is.
LEMMA DivBelow ==
    ASSUME NEW a \in Nat, NEW b \in Nat, NEW m \in Nat \ {0}, b * m <= a
    PROVE  b <= a \div m
<1>1. a < (a \div m + 1) * m /\ a \div m + 1 \in Nat
    BY DivBounds
<1>2. b * m \in Nat /\ (a \div m + 1) * m \in Nat
    BY <1>1, Monotone, Zenon
<1>3. b * m < (a \div m + 1) * m
    BY <1>1, <1>2
<1>4. b < a \div m + 1
    BY <1>1, <1>3, Monotone, Zenon
<1> QED
    BY <1>1, <1>4, DivBounds

-----------------------------------------------------------------------------
(* Which pages the loops reach.                                            *)

\* The pages of an address below the address space.
LEMMA PageOfSmall ==
    ASSUME NEW a \in Nat, a < AddressSpace
    PROVE  PageOf(a) = a \div PAGE_SIZE
    BY ModSmall, SpaceIsPositive, Zenon DEF PageOf

\* Addresses of pages are below the address space.
LEMMA PageFits ==
    ASSUME NEW page \in Nat
    PROVE  page \in Page <=> page * PAGE_SIZE < AddressSpace
<1>1. page < NumPages <=> page * PAGE_SIZE < NumPages * PAGE_SIZE
    BY PageAssumption, Monotone, Zenon
<1> QED
    BY <1>1, PageAssumption DEF Page, AddressSpace

\* A longer loop touches more pages.
LEMMA PagesGrow ==
    ASSUME NEW page \in Nat, NEW n \in Nat
    PROVE  Pages(page, n) \subseteq Pages(page, n + 1)
    BY DEF Pages

\* A loop that begins at or below a page and is long enough touches it.
LEMMA PageTouched ==
    ASSUME NEW first \in Nat, NEW n \in Nat, NEW page \in Page, first <= page, page < first + n
    PROVE  page \in Pages(first, n)
<1>1. page - first \in 0 .. n - 1 /\ first + (page - first) = page
    BY PageAssumption DEF Page
<1>2. page % NumPages = page
    BY ModSmall, PageAssumption DEF Page
<1> QED
    BY <1>1, <1>2, Zenon DEF Pages

\* A loop that ends below the last page does not wrap around.
LEMMA PagesStraight ==
    ASSUME NEW first \in Nat, NEW n \in Nat, first + n <= NumPages
    PROVE  Pages(first, n) = first .. first + n - 1
<1>1. ASSUME NEW i \in 0 .. n - 1 PROVE (first + i) % NumPages = first + i
    <2>1. first + i \in Nat /\ first + i < NumPages
        BY PageAssumption
    <2> QED
        BY <2>1, ModSmall, PageAssumption, Zenon
<1>2. Pages(first, n) = {first + i : i \in 0 .. n - 1}
    BY <1>1, Zenon DEF Pages
<1>3. \A p \in first .. first + n - 1 : p - first \in 0 .. n - 1 /\ p = first + (p - first)
    OBVIOUS
<1>4. \A i \in 0 .. n - 1 : first + i \in first .. first + n - 1
    OBVIOUS
<1> QED
    BY <1>2, <1>3, <1>4, Zenon

\* PAGE_ALIGN goes one page beyond the size.
LEMMA AlignedPages ==
    ASSUME NEW size \in Nat
    PROVE  PAGE_ALIGN(size) \in Nat /\ PAGE_ALIGN(size) \div PAGE_SIZE = size \div PAGE_SIZE + 1
<1> DEFINE q == size \div PAGE_SIZE
<1>1. size = q * PAGE_SIZE + (size % PAGE_SIZE) /\ q \in Nat /\ size % PAGE_SIZE \in Nat
    BY DivBounds, PageAssumption, Zenon
<1>2. PAGE_ALIGN(size) = (q + 1) * PAGE_SIZE
    <2> HIDE DEF q
    <2>1. (q + 1) * PAGE_SIZE = q * PAGE_SIZE + PAGE_SIZE /\ q * PAGE_SIZE \in Nat
        BY <1>1, Monotone, PageAssumption, Zenon
    <2> QED
        BY <1>1, <2>1, PageAssumption DEF PAGE_ALIGN
<1> HIDE DEF q
<1>3. q + 1 \in Nat /\ (q + 1) * PAGE_SIZE \in Nat
    BY <1>1, Monotone, PageAssumption
<1> QED
    BY <1>1, <1>2, <1>3, DivExact, PageAssumption, Zenon DEF q

\* identityMap takes every page of the memory it is asked for.
LEMMA IdentityCovers ==
    ASSUME NEW m \in MemoryManagerData, NEW address \in Nat, NEW size \in Nat,
           address % PAGE_SIZE = 0
    PROVE  /\ m.used \subseteq Identity(m, address, size).used
           /\ \A page \in Page :
                  address <= page * PAGE_SIZE /\ page * PAGE_SIZE < address + size
                      => page \in Identity(m, address, size).used
<1> DEFINE q == address \div PAGE_SIZE
           n == size \div PAGE_SIZE + 1
<1>1. /\ q \in Nat /\ address = q * PAGE_SIZE
      /\ n \in Nat /\ size \div PAGE_SIZE \in Nat
    BY DivBounds, PageAssumption
<1>2. PAGE_ALIGN(size) \div PAGE_SIZE = n
    BY AlignedPages, Zenon
<1>3. Identity(m, address, size).used = m.used \cup Pages(PageOf(address), n)
    <2>1. PageOf(address) \in Nat
        BY Unsigned, Zenon
    <2>2. Identity(m, address, size) = physicalAllocateAt(m, PageOf(address), n)
        BY <1>2, Zenon DEF Identity
    <2> QED
        <3> HIDE DEF n
        <3>1. n \in Nat
            BY <1>1, Zenon
        <3>2. physicalAllocateAt(m, PageOf(address), n).used = m.used \cup Pages(PageOf(address), n)
            BY <2>1, <3>1, AllocateAt, Zenon
        <3> QED
            BY <2>2, <3>2, Zenon
<1>4. ASSUME NEW page \in Page, address <= page * PAGE_SIZE, page * PAGE_SIZE < address + size
      PROVE  page \in Pages(PageOf(address), n)
    <2>1. page \in Nat /\ page * PAGE_SIZE \in Nat /\ page * PAGE_SIZE < AddressSpace
        <3>1. page \in Nat
            BY DEF Page
        <3> QED
            BY <3>1, PageFits, Monotone, PageAssumption, Zenon
    <2>2. address < AddressSpace
        BY <1>4, <2>1, SpaceIsPositive
    <2>3. PageOf(address) = q
        BY <2>2, PageOfSmall, Zenon
    <2> HIDE DEF q, n
    <2>4. q <= page
        <3>1. ~ (page * PAGE_SIZE < q * PAGE_SIZE)
            BY <1>1, <1>4, <2>1
        <3>2. ~ (page < q)
            BY <1>1, <2>1, <3>1, Monotone, PageAssumption, Zenon
        <3> QED
            BY <1>1, <2>1, <3>2
    <2>5. page - q \in Nat /\ (page - q) * PAGE_SIZE <= size
        <3>1. page - q \in Nat /\ q + (page - q) = page
            BY <1>1, <2>1, <2>4
        <3>2. (q + (page - q)) * PAGE_SIZE = q * PAGE_SIZE + (page - q) * PAGE_SIZE
              /\ (page - q) * PAGE_SIZE \in Nat
            BY <1>1, <3>1, Monotone, PageAssumption
        <3>3. page * PAGE_SIZE = q * PAGE_SIZE + (page - q) * PAGE_SIZE
            BY <3>1, <3>2, Zenon
        <3> QED
            BY <1>1, <1>4, <2>1, <3>1, <3>2, <3>3
    <2>6. page - q <= size \div PAGE_SIZE
        BY <2>5, DivBelow, PageAssumption, Zenon
    <2>7. page < q + n
        BY <1>1, <2>1, <2>6 DEF n
    <2> QED
        BY <1>1, <2>3, <2>4, <2>7, PageTouched, Zenon
<1> QED
    BY <1>3, <1>4, Zenon

\* The part of a region that loadMemoryMap frees.
UsablePages(region) ==
    Pages(PageOf(Usable(region).address), Usable(region).length \div PAGE_SIZE)

\* A region that lies inside the address space and has room for what is lost
\* at its ends.
Fits(region) ==
    /\ region.address + region.length <= AddressSpace
    /\ AlignUp(region.address) + (region.length % PAGE_SIZE) <= region.length

\* An aligned address.
LEMMA AlignUpAligns ==
    ASSUME NEW a \in Nat
    PROVE  /\ AlignUp(a) \in Nat /\ AlignUp(a) < PAGE_SIZE
           /\ a + AlignUp(a) = ((a + AlignUp(a)) \div PAGE_SIZE) * PAGE_SIZE
<1> DEFINE q == a \div PAGE_SIZE
           r == a % PAGE_SIZE
           up == AlignUp(a)
<1>1. q \in Nat /\ r \in Nat /\ r < PAGE_SIZE /\ a = q * PAGE_SIZE + r
    BY DivBounds, PageAssumption, Zenon
<1>2. up = IF r > 0 THEN PAGE_SIZE - r ELSE 0
    BY Zenon DEF AlignUp
<1> HIDE DEF q, r, up
<1>3. q * PAGE_SIZE \in Nat /\ (q + 1) * PAGE_SIZE = q * PAGE_SIZE + PAGE_SIZE /\ q + 1 \in Nat
    BY <1>1, Monotone, PageAssumption
<1>4. up \in Nat /\ up < PAGE_SIZE /\ (a + up = q * PAGE_SIZE \/ a + up = (q + 1) * PAGE_SIZE)
    BY <1>1, <1>2, <1>3, PageAssumption
<1>5. (q * PAGE_SIZE) \div PAGE_SIZE = q /\ ((q + 1) * PAGE_SIZE) \div PAGE_SIZE = q + 1
    BY <1>1, <1>3, DivExact, PageAssumption, Zenon
<1> QED
    BY <1>4, <1>5, Zenon DEF up

\* Without wrap around, unsigned subtraction is subtraction.
LEMMA MinusSmall ==
    ASSUME NEW a \in Nat, NEW b \in Nat, a < AddressSpace, b <= a
    PROVE  Minus(a, b) = a - b
<1>1. b % AddressSpace = b
    BY ModSmall, SpaceIsPositive
<1>2. a + AddressSpace - b = (a - b) + AddressSpace * 1 /\ a - b \in Nat /\ a - b < AddressSpace
    BY SpaceIsPositive
<1>3. ((a - b) + AddressSpace * 1) % AddressSpace = (a - b) % AddressSpace
    <2> DEFINE c == a - b
    <2>1. c \in Int /\ 1 \in Int
        BY <1>2
    <2> HIDE DEF c
    <2>2. (c + AddressSpace * 1) % AddressSpace = c % AddressSpace
        BY <2>1, ModShift, SpaceIsPositive, Zenon
    <2> QED
        BY <2>2, Zenon DEF c
<1>4. (a - b) % AddressSpace = a - b
    BY <1>2, ModSmall, SpaceIsPositive, Zenon
<1> QED
    BY <1>1, <1>2, <1>3, <1>4, Zenon DEF Minus

\* loadMemoryMap frees consecutive pages that lie in the region with all their
\* bytes, and counts at least their bytes and no more than the region has.
LEMMA UsableInside ==
    ASSUME NEW region \in [type : Nat, address : Nat, length : Nat], Fits(region)
    PROVE  \E q \in Nat, n \in Nat :
               /\ UsablePages(region) = q .. q + n - 1 /\ q + n <= NumPages
               /\ n * PAGE_SIZE <= Usable(region).length
               /\ Usable(region).length <= region.length
               /\ n > 0 => /\ region.address <= q * PAGE_SIZE
                           /\ (q + n) * PAGE_SIZE <= region.address + region.length
<1> DEFINE a == region.address
           l == region.length
           up == AlignUp(a)
           r == l % PAGE_SIZE
           len == Usable(region).length
           n == len \div PAGE_SIZE
           q == (a + up) \div PAGE_SIZE
<1>1. a \in Nat /\ l \in Nat /\ a + l <= AddressSpace /\ up + r <= l
    BY Zenon DEF Fits
<1>2. up \in Nat /\ a + up = q * PAGE_SIZE /\ q \in Nat /\ r \in Nat
    <2>1. up \in Nat /\ a + up = q * PAGE_SIZE
        BY <1>1, AlignUpAligns, Zenon
    <2> QED
        BY <1>1, <2>1, DivBounds, PageAssumption
<1>3. /\ Usable(region).address = Plus(a, up)
      /\ len = Minus(Minus(l % AddressSpace, up), r)
    BY Zenon DEF Usable
<1>4. CASE l = AddressSpace
    <2>1. a = 0 /\ up = 0 /\ r = 0
        <3>1. a = 0
            BY <1>1, <1>4, SpaceIsPositive
        <3>2. AddressSpace % PAGE_SIZE = 0
            BY DivExact, PageAssumption, Zenon DEF AddressSpace
        <3>3. 0 % PAGE_SIZE = 0
            BY PageAssumption
        <3> QED
            BY <1>4, <3>1, <3>2, <3>3 DEF AlignUp
    <2>2. len = 0
        <3>1. l % AddressSpace = 0 /\ Minus(0, 0) = 0
            BY <1>4, MinusSmall, SpaceIsPositive
        <3> QED
            BY <1>3, <2>1, <3>1, Zenon
    <2>3. n = 0
        BY <2>2, PageAssumption
    <2>4. UsablePages(region) = {}
        <3>1. Pages(PageOf(Usable(region).address), 0) = {}
            BY DEF Pages
        <3> QED
            BY <2>3, <3>1, Zenon DEF UsablePages
    <2>5. UsablePages(region) = 0 .. 0 + 0 - 1 /\ 0 * PAGE_SIZE <= len /\ len <= l /\ 0 + 0 <= NumPages
        BY <1>1, <2>2, <2>4, PageAssumption
    <2> HIDE DEF len, n, q, a, l
    <2> QED
        BY <2>5 DEF len, l
<1>5. CASE l # AddressSpace
    <2>1. l < AddressSpace /\ l % AddressSpace = l
        <3>1. l < AddressSpace
            BY <1>1, <1>5, SpaceIsPositive
        <3> QED
            BY <1>1, <3>1, ModSmall, SpaceIsPositive, Zenon
    <2>2. len = l - up - r /\ len \in Nat
        <3>1. Minus(l, up) = l - up
            BY <1>1, <1>2, <2>1, MinusSmall
        <3>2. l - up \in Nat /\ l - up < AddressSpace /\ r <= l - up
            BY <1>1, <1>2, <2>1, SpaceIsPositive
        <3>3. Minus(l - up, r) = l - up - r
            <4> HIDE DEF l, up, r
            <4> QED
                BY <1>2, <3>2, MinusSmall, Zenon
        <3> QED
            BY <1>2, <1>3, <2>1, <3>1, <3>2, <3>3
    <2>3. n \in Nat /\ n * PAGE_SIZE <= len
        <3> HIDE DEF len
        <3> QED
            BY <2>2, DivBounds, PageAssumption, Zenon
    <2>4. q * PAGE_SIZE + n * PAGE_SIZE <= a + l /\ (q + n) * PAGE_SIZE = q * PAGE_SIZE + n * PAGE_SIZE
        <3> HIDE DEF len, q, n, a, l, r, up
        <3>1. (q + n) * PAGE_SIZE = q * PAGE_SIZE + n * PAGE_SIZE /\ n * PAGE_SIZE \in Nat
            BY <1>2, <2>3, Monotone, PageAssumption
        <3> QED
            BY <1>1, <1>2, <2>2, <2>3, <3>1
    <2>5. q + n <= NumPages
        <3> HIDE DEF len, q, n, a, l, r, up
        <3>1. q + n \in Nat /\ (q + n) * PAGE_SIZE <= NumPages * PAGE_SIZE /\ (q + n) * PAGE_SIZE \in Nat
            BY <1>1, <1>2, <2>3, <2>4, Monotone, PageAssumption DEF AddressSpace
        <3>2. ~ (NumPages < q + n)
            <4>1. NumPages * PAGE_SIZE \in Nat
                BY Monotone, PageAssumption, Zenon
            <4>2. ~ (NumPages * PAGE_SIZE < (q + n) * PAGE_SIZE)
                BY <3>1, <4>1
            <4> QED
                BY <3>1, <4>2, Monotone, PageAssumption, Zenon
        <3> QED
            BY <3>1, <3>2, PageAssumption
    <2>6. n > 0 => PageOf(Usable(region).address) = q
        <3> SUFFICES ASSUME n > 0 PROVE PageOf(Plus(a, up)) = q
            BY <1>3, Zenon
        <3> HIDE DEF len, q, n, a, l, r, up
        <3>1. n * PAGE_SIZE > 0 /\ n * PAGE_SIZE \in Nat
            BY <2>3, PageAssumption, Monotone
        <3>2. a + up \in Nat /\ a + up < AddressSpace
            BY <1>1, <1>2, <2>4, <3>1, SpaceIsPositive
        <3>3. Plus(a, up) = a + up
            BY <3>2, ModSmall, SpaceIsPositive, Zenon DEF Plus
        <3> QED
            BY <3>2, <3>3, PageOfSmall, Zenon DEF q
    <2>7. UsablePages(region) = q .. q + n - 1
        <3>1. CASE n > 0
            <4>1. UsablePages(region) = Pages(q, n)
                BY <2>6, <3>1, Zenon DEF UsablePages
            <4> HIDE DEF q, n
            <4> QED
                BY <1>2, <2>3, <2>5, <4>1, PagesStraight, Zenon
        <3>2. CASE ~ (n > 0)
            <4>1. n = 0
                <5> HIDE DEF n
                <5> QED
                    BY <2>3, <3>2
            <4>2. Pages(PageOf(Usable(region).address), 0) = {}
                BY DEF Pages
            <4>3. UsablePages(region) = {}
                BY <4>1, <4>2, Zenon DEF UsablePages
            <4> HIDE DEF q, n
            <4> QED
                BY <1>2, <4>1, <4>3
        <3> QED
            BY <3>1, <3>2, Zenon
    <2>8. len <= l /\ a <= q * PAGE_SIZE
        <3> HIDE DEF len, q, n, a, l, r, up
        <3> QED
            BY <1>1, <1>2, <2>2
    <2>9. (q + n) * PAGE_SIZE <= a + l
        BY <2>4, Zenon
    <2> HIDE DEF len, q, n, a, l, r, up
    <2> QED
        BY <1>2, <2>3, <2>5, <2>7, <2>8, <2>9, Zenon DEF len, a, l
<1> QED
    BY <1>4, <1>5, Zenon

-----------------------------------------------------------------------------
(* What is free, and what init keeps.                                      *)

\* The pages of a module.
ModulePages(i) ==
    {page \in Page : /\ Modules[i].modStart < (page + 1) * PAGE_SIZE
                     /\ page * PAGE_SIZE < Modules[i].modEnd}

\* What makes reserveModuleMemory cover the modules: the boot loader aligns
\* them to pages.
ModulesAligned == \A i \in 1 .. Len(Modules) : Modules[i].modStart % PAGE_SIZE = 0

\* Free pages, and those that were granted, come from the memory map.
LoadedInv ==
    /\ Page \ memManData.used \subseteq Loaded
    /\ \A grant \in grants : Granted(grant) \subseteq Loaded

\* What is reserved at each stage of init, and that grants keep away from it.
ReservedInv ==
    /\ pc \in {"low", "modules", "up"} =>
           \A page \in Page :
               __start <= page * PAGE_SIZE /\ page * PAGE_SIZE < _kernel_end
                   => page \in memManData.used
    /\ pc \in {"modules", "up"} =>
           \A page \in Page : page * PAGE_SIZE < _kernel_end => page \in memManData.used
    /\ \A grant \in grants : \A page \in Granted(grant) : ~ (page * PAGE_SIZE < _kernel_end)
    /\ ModulesAligned /\ pc = "modules" =>
           \A i \in 1 .. Len(Modules) : i < index => ModulePages(i) \subseteq memManData.used
    /\ ModulesAligned /\ pc = "up" =>
           /\ Reserved \subseteq memManData.used
           /\ \A grant \in grants : Granted(grant) \cap Reserved = {}

BootInv == LoadedInv /\ ReservedInv

\* A step that only takes pages keeps both.
LEMMA TakingKeeps ==
    ASSUME BootInv, memManData.used \subseteq memManData'.used, UNCHANGED <<map, index, grants, pc>>
    PROVE  BootInv'
<1>1. Loaded' = Loaded
    BY DEF Loaded, Usable, UsablePages
<1>2. LoadedInv'
    BY <1>1, Zenon DEF BootInv, LoadedInv, Granted
<1>3. ReservedInv'
    BY Zenon DEF BootInv, ReservedInv, Granted, ModulePages, Reserved
<1> QED
    BY <1>2, <1>3, Zenon DEF BootInv

\* mapKernelMemory takes the pages of the kernel.
LEMMA KernelTaken ==
    ASSUME MemoryInv, mapKernelMemory
    PROVE  /\ memManData.used \subseteq memManData'.used
           /\ \A page \in Page :
                  __start <= page * PAGE_SIZE /\ page * PAGE_SIZE < _kernel_end
                      => page \in memManData'.used
<1> DEFINE r == __start % PAGE_SIZE
           base == __start - r
           size == (_kernel_end - __start) + r
<1>1. memManData \in MemoryManagerData
    BY Zenon DEF MemoryInv, TypeOK
<1>2. memManData' = Identity(memManData, base, KernelSize)
    BY Zenon DEF mapKernelMemory
<1>3. r \in Nat /\ base \in Nat /\ base % PAGE_SIZE = 0 /\ base <= __start
    <2> DEFINE q == __start \div PAGE_SIZE
    <2>1. q \in Nat /\ r \in Nat /\ __start = q * PAGE_SIZE + r
        BY DivBounds, PageAssumption, KernelAssumption, Zenon
    <2> HIDE DEF q, r
    <2>2. q * PAGE_SIZE \in Nat /\ (q * PAGE_SIZE) % PAGE_SIZE = 0
        BY <2>1, Monotone, DivExact, PageAssumption, Zenon
    <2>3. base = q * PAGE_SIZE
        BY <2>1, <2>2, KernelAssumption
    <2> QED
        BY <2>1, <2>2, <2>3, KernelAssumption
<1>4. KernelSize \in Nat /\ base + KernelSize >= _kernel_end
    <2>1. KernelSize = PAGE_ALIGN(size)
        BY Zenon DEF KernelSize
    <2>2. size \in Nat
        BY <1>3, KernelAssumption
    <2>3. size % PAGE_SIZE \in Nat /\ size % PAGE_SIZE < PAGE_SIZE
        <3> HIDE DEF size
        <3> QED
            BY <2>2, DivBounds, PageAssumption, Zenon
    <2>4. PAGE_ALIGN(size) >= size /\ PAGE_ALIGN(size) \in Nat
        <3> HIDE DEF size
        <3> QED
            BY <2>2, <2>3, PageAssumption DEF PAGE_ALIGN
    <2> HIDE DEF r
    <2> QED
        BY <2>1, <2>4, <1>3, KernelAssumption
<1> HIDE DEF base
<1>5. /\ memManData.used \subseteq memManData'.used
      /\ \A page \in Page :
             base <= page * PAGE_SIZE /\ page * PAGE_SIZE < base + KernelSize
                 => page \in memManData'.used
    BY <1>1, <1>2, <1>3, <1>4, IdentityCovers, Zenon
<1>6. ASSUME NEW page \in Page, __start <= page * PAGE_SIZE, page * PAGE_SIZE < _kernel_end
      PROVE  page \in memManData'.used
    <2>1. page * PAGE_SIZE \in Nat
        BY PageAssumption, Monotone DEF Page
    <2>2. base <= page * PAGE_SIZE /\ page * PAGE_SIZE < base + KernelSize
        BY <1>3, <1>4, <1>6, <2>1, KernelAssumption
    <2> QED
        BY <1>5, <2>2, Zenon
<1> QED
    BY <1>5, <1>6, Zenon

\* init takes the pages below the kernel.
LEMMA LowTaken ==
    ASSUME MemoryInv, mapLowMemory
    PROVE  /\ memManData.used \subseteq memManData'.used
           /\ \A page \in Page : page * PAGE_SIZE < __start => page \in memManData'.used
<1>1. memManData \in MemoryManagerData /\ memManData' = Identity(memManData, 0, __start)
    BY Zenon DEF MemoryInv, TypeOK, mapLowMemory
<1>2. 0 % PAGE_SIZE = 0 /\ 0 \in Nat /\ __start \in Nat /\ 0 + __start = __start
    BY PageAssumption, KernelAssumption
<1>3. \A page \in Page : 0 <= page * PAGE_SIZE
    BY PageAssumption, Monotone DEF Page
<1>4. /\ memManData.used \subseteq memManData'.used
      /\ \A page \in Page :
             0 <= page * PAGE_SIZE /\ page * PAGE_SIZE < 0 + __start => page \in memManData'.used
    BY <1>1, <1>2, IdentityCovers, Zenon
<1> QED
    BY <1>2, <1>3, <1>4, Zenon

\* reserveModuleMemory takes back what it frees, and the pages of the module.
LEMMA ModuleTaken ==
    ASSUME MemoryInv, reserveModule
    PROVE  /\ memManData.used \subseteq memManData'.used
           /\ ModulesAligned => ModulePages(index) \subseteq memManData'.used
<1> DEFINE module == Modules[index]
           start == module.modStart
           size == module.modEnd - start
           n == size \div PAGE_SIZE
           freed == physicalFree(memManData, PageOf(start), n)
<1>1. memManData \in MemoryManagerData /\ index \in 1 .. Len(Modules)
    BY DEF MemoryInv, TypeOK, reserveModule
<1>2. start \in Nat /\ size \in Nat /\ module.modEnd = start + size
    <2>1. Modules[index] \in [modStart : Nat, modEnd : Nat]
        BY <1>1, ModuleAssumption, ElementOfSeq, Zenon
    <2>2. Modules[index].modStart <= Modules[index].modEnd
        BY <1>1, ModuleAssumption, Zenon
    <2> QED
        BY <1>1, <2>1, <2>2
<1>3. memManData' = Identity(freed, start, size)
    BY Zenon DEF reserveModule
<1> HIDE DEF module, start, size
<1>4. PageOf(start) \in Nat /\ n \in Nat
    BY <1>2, Unsigned, Zenon
<1>5. freed \in MemoryManagerData /\ freed.used = memManData.used \ Pages(PageOf(start), n)
    <2> HIDE DEF n
    <2> QED
        BY <1>1, <1>4, FreePages, Zenon
<1>6. Identity(freed, start, size).used = freed.used \cup Pages(PageOf(start), n + 1)
    <2>1. PAGE_ALIGN(size) \div PAGE_SIZE = n + 1
        BY <1>2, AlignedPages, Zenon
    <2>2. Identity(freed, start, size) = physicalAllocateAt(freed, PageOf(start), n + 1)
        BY <2>1, Zenon DEF Identity
    <2>3. n + 1 \in Nat
        BY <1>4
    <2> HIDE DEF n, freed
    <2>4. physicalAllocateAt(freed, PageOf(start), n + 1).used
              = freed.used \cup Pages(PageOf(start), n + 1)
        BY <1>4, <1>5, <2>3, AllocateAt, Zenon
    <2> QED
        BY <2>2, <2>4, Zenon
<1>7. memManData.used \subseteq memManData'.used
    <2>1. Pages(PageOf(start), n) \subseteq Pages(PageOf(start), n + 1)
        <3> HIDE DEF n
        <3> QED
            BY <1>4, PagesGrow, Zenon
    <2> HIDE DEF n, freed
    <2> QED
        BY <1>3, <1>5, <1>6, <2>1, Zenon
<1>8. ASSUME ModulesAligned PROVE ModulePages(index) \subseteq memManData'.used
    <2>0. start % PAGE_SIZE = 0
        BY <1>1, <1>8, Zenon DEF ModulesAligned, start, module
    <2> SUFFICES ASSUME NEW page \in Page, start < (page + 1) * PAGE_SIZE,
                        page * PAGE_SIZE < start + size
                 PROVE  page \in memManData'.used
        BY <1>2, Zenon DEF ModulePages, start, module
    <2> HIDE DEF freed
    <2>1. \A p \in Page : start <= p * PAGE_SIZE /\ p * PAGE_SIZE < start + size
                              => p \in memManData'.used
        BY <1>2, <1>3, <1>5, <2>0, IdentityCovers, Zenon
    <2>2. start <= page * PAGE_SIZE
        <3> DEFINE q == start \div PAGE_SIZE
        <3>1. q \in Nat /\ start = q * PAGE_SIZE /\ page \in Nat
            BY <1>2, <2>0, DivBounds, PageAssumption DEF Page
        <3> HIDE DEF q
        <3>2. q < page + 1
            BY <3>1, Monotone, PageAssumption
        <3>3. q <= page
            BY <3>1, <3>2
        <3> QED
            BY <3>1, <3>3, Monotone, PageAssumption, Zenon
    <2> QED
        BY <2>1, <2>2, Zenon
<1> QED
    BY <1>7, <1>8, Zenon

\* Nothing is free before the memory map is read.
LEMMA BootInit == Init => BootInv
<1> SUFFICES ASSUME Init PROVE BootInv
    BY Zenon
<1>1. memManData.used = Page /\ grants = {} /\ pc = "map"
    BY Zenon DEF Init, EmptyData
<1> QED
    BY <1>1, Zenon DEF BootInv, LoadedInv, ReservedInv

\* The pages of all modules are the reserved ones above the kernel.
LEMMA ReservedCases ==
    \A page \in Reserved :
        page \in Page /\ (page * PAGE_SIZE < _kernel_end
                          \/ \E i \in 1 .. Len(Modules) : page \in ModulePages(i))
    BY Zenon DEF Reserved, ModulePages

\* What is free stays inside the memory map, and what init has taken stays
\* taken, until the end of init and after it.
LEMMA BootStep ==
    MemoryInv /\ BootInv /\ [Next]_vars => BootInv'
<1> SUFFICES ASSUME MemoryInv, BootInv, [Next]_vars PROVE BootInv'
    BY Zenon
<1>0. /\ memManData \in MemoryManagerData /\ index \in Nat \ {0}
      /\ memManData.used \subseteq Page
      /\ pc \in {"map", "kernel", "low", "modules", "up"}
      /\ pc # "up" => grants = {}
    BY Zenon DEF MemoryInv, TypeOK, NoGrantsBefore, MemoryManagerData
<1>a. map' = map => Loaded' = Loaded
    BY Zenon DEF Loaded, Usable
<1>1. CASE LoadEntry
    <2>1. /\ pc = "map" /\ index \in 1 .. Len(map) /\ grants = {}
          /\ UNCHANGED <<map, pc, grants>>
        BY <1>0, <1>1 DEF LoadEntry
    <2>2. CASE map[index].type = 1
        <3>1. memManData' = physicalFree(memManData, PageOf(Usable(map[index]).address),
                                         Usable(map[index]).length \div PAGE_SIZE)
            BY <1>1, <2>2, Zenon DEF LoadEntry
        <3>2. UsablePages(map[index]) \subseteq Loaded
            BY <2>1, <2>2, Zenon DEF Loaded, UsablePages
        <3>3. memManData'.used = memManData.used \ UsablePages(map[index])
            BY <1>0, <3>1, Zenon DEF UsablePages, physicalFree, MemoryManagerData
        <3>4. LoadedInv'
            BY <1>a, <2>1, <3>2, <3>3, Zenon DEF BootInv, LoadedInv
        <3> QED
            BY <2>1, <3>4, Zenon DEF BootInv, ReservedInv
    <2>3. CASE map[index].type # 1
        <3>1. memManData' = memManData
            BY <1>1, <2>3, Zenon DEF LoadEntry
        <3>2. LoadedInv'
            BY <1>a, <2>1, <3>1, Zenon DEF BootInv, LoadedInv
        <3> QED
            BY <2>1, <3>2, Zenon DEF BootInv, ReservedInv
    <2> QED
        BY <2>2, <2>3, Zenon
<1>2. CASE LoadEnd
    <2>1. /\ memManData'.used = memManData.used /\ grants = {} /\ pc' = "kernel"
          /\ UNCHANGED <<map, grants>>
        BY <1>0, <1>2, Zenon DEF LoadEnd, MemoryManagerData
    <2>2. LoadedInv'
        BY <1>a, <2>1, Zenon DEF BootInv, LoadedInv
    <2> QED
        BY <2>1, <2>2, Zenon DEF BootInv, ReservedInv
<1>3. CASE mapKernelMemory
    <2>1. /\ memManData.used \subseteq memManData'.used
          /\ \A page \in Page :
                 __start <= page * PAGE_SIZE /\ page * PAGE_SIZE < _kernel_end
                     => page \in memManData'.used
        BY <1>3, KernelTaken, Zenon
    <2>2. grants = {} /\ pc' = "low" /\ UNCHANGED <<map, grants>>
        BY <1>0, <1>3, Zenon DEF mapKernelMemory
    <2>3. LoadedInv'
        BY <1>a, <2>1, <2>2, Zenon DEF BootInv, LoadedInv
    <2> QED
        BY <2>1, <2>2, <2>3, Zenon DEF BootInv, ReservedInv
<1>4. CASE mapLowMemory
    <2>1. /\ memManData.used \subseteq memManData'.used
          /\ \A page \in Page : page * PAGE_SIZE < __start => page \in memManData'.used
        BY <1>4, LowTaken, Zenon
    <2>2. grants = {} /\ pc = "low" /\ pc' = "modules" /\ index' = 1 /\ UNCHANGED <<map, grants>>
        BY <1>0, <1>4, Zenon DEF mapLowMemory
    <2>3. LoadedInv'
        BY <1>a, <2>1, <2>2, Zenon DEF BootInv, LoadedInv
    <2>4. \A page \in Page :
              __start <= page * PAGE_SIZE /\ page * PAGE_SIZE < _kernel_end
                  => page \in memManData'.used
        BY <2>1, <2>2, Zenon DEF BootInv, ReservedInv
    <2>5. \A page \in Page : page * PAGE_SIZE < _kernel_end => page \in memManData'.used
        <3>1. \A page \in Page : page * PAGE_SIZE \in Nat
            BY PageAssumption, Monotone DEF Page
        <3>2. \A page \in Page : page * PAGE_SIZE < __start \/ __start <= page * PAGE_SIZE
            BY <3>1, KernelAssumption
        <3> QED
            BY <2>1, <2>4, <3>2, Zenon
    <2>6. \A i \in 1 .. Len(Modules) : ~ (i < 1)
        OBVIOUS
    <2> QED
        BY <2>2, <2>3, <2>4, <2>5, <2>6, Zenon DEF BootInv, ReservedInv
<1>5. CASE reserveModule
    <2>1. /\ memManData.used \subseteq memManData'.used
          /\ ModulesAligned => ModulePages(index) \subseteq memManData'.used
        BY <1>5, ModuleTaken, Zenon
    <2>2. /\ grants = {} /\ pc = "modules" /\ index' = index + 1 /\ UNCHANGED <<map, grants, pc>>
          /\ index \in 1 .. Len(Modules)
        BY <1>0, <1>5 DEF reserveModule
    <2>3. LoadedInv'
        BY <1>a, <2>1, <2>2, Zenon DEF BootInv, LoadedInv
    <2>4. \A page \in Page : page * PAGE_SIZE < _kernel_end => page \in memManData'.used
        BY <2>1, <2>2, Zenon DEF BootInv, ReservedInv
    <2>5. \A i \in 1 .. Len(Modules) : i < index + 1 => i < index \/ i = index
        BY <2>2
    <2>6. ModulesAligned =>
              \A i \in 1 .. Len(Modules) : i < index + 1 => ModulePages(i) \subseteq memManData'.used
        BY <2>1, <2>2, <2>5, Zenon DEF BootInv, ReservedInv
    <2> QED
        BY <2>2, <2>3, <2>4, <2>6, Zenon DEF BootInv, ReservedInv, ModulePages
<1>6. CASE reserveEnd
    <2>1. /\ grants = {} /\ pc = "modules" /\ pc' = "up" /\ UNCHANGED <<memManData, map, grants>>
          /\ index > Len(Modules)
        BY <1>0, <1>6, Zenon DEF reserveEnd
    <2>2. LoadedInv'
        BY <1>a, <2>1, Zenon DEF BootInv, LoadedInv
    <2>3. ModulesAligned => \A i \in 1 .. Len(Modules) : ModulePages(i) \subseteq memManData.used
        <3>1. \A i \in 1 .. Len(Modules) : i < index
            BY <1>0, <2>1, ModuleAssumption
        <3> QED
            BY <2>1, <3>1, Zenon DEF BootInv, ReservedInv
    <2>4. \A page \in Page : page * PAGE_SIZE < _kernel_end => page \in memManData.used
        BY <2>1, Zenon DEF BootInv, ReservedInv
    <2>5. ModulesAligned => Reserved \subseteq memManData.used
        BY <2>3, <2>4, ReservedCases, Zenon
    <2> QED
        BY <2>1, <2>2, <2>4, <2>5, Zenon DEF BootInv, ReservedInv
<1>7. ASSUME NEW numPages \in Requests, Allocate(numPages)
      PROVE  BootInv'
    <2> DEFINE page == FirstPlace(memManData, numPages)
               grant == [page |-> page, numPages |-> numPages]
    <2>1. numPages \in Nat /\ pc = "up" /\ UNCHANGED <<map, index, pc>>
        BY <1>7, RequestAssumption, Zenon DEF Allocate
    <2>2. /\ memManData.used \subseteq memManData'.used
          /\ page \in Page
          /\ page > 0 => Pages(page, numPages) \cap memManData.used = {}
        BY <1>0, <1>7, <2>1, AllocateFirst, Zenon DEF Allocate
    <2>3. page > 0 => Pages(page, numPages) \subseteq Page \ memManData.used
        <3>1. page \in Nat
            BY <2>2 DEF Page
        <3> HIDE DEF page
        <3>2. Pages(page, numPages) \subseteq Page
            BY <2>1, <3>1, PagesInPage, Zenon
        <3> QED
            BY <2>2, <3>2, Zenon
    <2>4. \A g \in grants' : g \in grants \/ Granted(g) \subseteq Page \ memManData.used
        <3>1. Granted(grant) = Pages(page, numPages)
            BY Zenon DEF Granted
        <3>2. grants' = grants \/ (page > 0 /\ grants' = grants \cup {grant})
            BY <1>7, Zenon DEF Allocate
        <3> HIDE DEF grant, page
        <3> QED
            BY <2>3, <3>1, <3>2, Zenon
    <2> HIDE DEF grant, page
    <2>5. /\ Page \ memManData.used \subseteq Loaded
          /\ ModulesAligned => Reserved \subseteq memManData.used
          /\ \A p \in Page : p * PAGE_SIZE < _kernel_end => p \in memManData.used
        BY <2>1, Zenon DEF BootInv, ReservedInv, LoadedInv
    <2>6. \A g \in grants :
              /\ Granted(g) \subseteq Loaded
              /\ ModulesAligned => Granted(g) \cap Reserved = {}
              /\ \A p \in Granted(g) : ~ (p * PAGE_SIZE < _kernel_end)
        BY <2>1, Zenon DEF BootInv, ReservedInv, LoadedInv
    <2>7. \A g \in grants' :
              /\ Granted(g) \subseteq Loaded
              /\ ModulesAligned => Granted(g) \cap Reserved = {}
              /\ \A p \in Granted(g) : ~ (p * PAGE_SIZE < _kernel_end)
        BY <2>4, <2>5, <2>6, Zenon
    <2>8. LoadedInv'
        BY <1>a, <2>1, <2>2, <2>5, <2>7, Zenon DEF LoadedInv
    <2>9. ReservedInv'
        BY <2>1, <2>2, <2>5, <2>7, Zenon DEF ReservedInv
    <2> QED
        BY <2>8, <2>9, Zenon DEF BootInv
<1>8. ASSUME NEW grant \in grants, Free(grant)
      PROVE  BootInv'
    <2>1. grants' \subseteq grants /\ pc = "up" /\ UNCHANGED <<map, index, pc>>
        BY <1>8, Zenon DEF Free
    <2>2. memManData'.used = memManData.used \ Granted(grant)
        BY <1>0, <1>8, Zenon DEF Free, physicalFree, MemoryManagerData, Granted
    <2>3. /\ Granted(grant) \subseteq Loaded
          /\ ModulesAligned => Granted(grant) \cap Reserved = {}
          /\ \A p \in Granted(grant) : ~ (p * PAGE_SIZE < _kernel_end)
        BY <2>1, Zenon DEF BootInv, LoadedInv, ReservedInv
    <2>4. LoadedInv'
        BY <1>a, <2>1, <2>2, <2>3, Zenon DEF BootInv, LoadedInv
    <2>5. ModulesAligned => Reserved \subseteq memManData'.used
        BY <2>1, <2>2, <2>3, Zenon DEF BootInv, ReservedInv
    <2>6. \A p \in Page : p * PAGE_SIZE < _kernel_end => p \in memManData'.used
        BY <2>1, <2>2, <2>3, Zenon DEF BootInv, ReservedInv
    <2>7. ReservedInv'
        BY <2>1, <2>5, <2>6, Zenon DEF BootInv, ReservedInv
    <2> QED
        BY <2>4, <2>7, Zenon DEF BootInv
<1>9. CASE UNCHANGED vars
    BY <1>9, TakingKeeps, Zenon DEF vars
<1> QED
    BY <1>1, <1>2, <1>3, <1>4, <1>5, <1>6, <1>7, <1>8, <1>9, Zenon DEF Next

-----------------------------------------------------------------------------
(* Addresses and pages.                                                    *)

\* The numbers of pages load asks for.
LEMMA NumPagesType ==
    ASSUME NEW size \in Nat
    PROVE  NumPagesOf(size) \in Nat
<1>1. PAGE_ALIGN(size) \in Nat
    BY Unsigned, Zenon
<1>2. \A a \in Nat : a \div PAGE_SIZE \in Nat
    BY PageAssumption
<1> QED
    BY <1>1, <1>2, Zenon DEF NumPagesOf

\* The page and the place in it of an address given by both.
LEMMA PageOfParts ==
    ASSUME NEW c \in Nat, NEW r \in Nat, r < PAGE_SIZE
    PROVE  PageOf(c * PAGE_SIZE + r) = c % NumPages /\ (c * PAGE_SIZE + r) % PAGE_SIZE = r
<1> DEFINE d == c \div NumPages
           e == c % NumPages
           x == c * PAGE_SIZE + r
           y == e * PAGE_SIZE + r
<1>1. d \in Nat /\ e \in Nat /\ e < NumPages /\ c = d * NumPages + e
    BY DivBounds, PageAssumption, Zenon
<1>2. r \in 0 .. PAGE_SIZE - 1 /\ PAGE_SIZE * c + r = x /\ c \in Int
    BY PageAssumption
<1>3. x % PAGE_SIZE = r
    BY <1>2, ModUnique, PageAssumption, Zenon
<1> HIDE DEF d, e
<1>4. y \in Nat /\ y < AddressSpace
    <2>1. (e + 1) * PAGE_SIZE <= NumPages * PAGE_SIZE /\ e * PAGE_SIZE \in Nat
          /\ (e + 1) * PAGE_SIZE = e * PAGE_SIZE + PAGE_SIZE /\ NumPages * PAGE_SIZE \in Nat
        <3>1. e + 1 \in Nat /\ e + 1 <= NumPages
            BY <1>1, PageAssumption
        <3> QED
            BY <1>1, <3>1, Monotone, PageAssumption, Zenon
    <2> QED
        BY <2>1, PageAssumption DEF AddressSpace
<1>5. x = AddressSpace * d + y
    <2>1. c * PAGE_SIZE = (d * NumPages) * PAGE_SIZE + e * PAGE_SIZE
        <3>1. d * NumPages \in Nat
            BY <1>1, PageAssumption
        <3> QED
            BY <1>1, <3>1, Monotone, PageAssumption, Zenon
    <2>2. (d * NumPages) * PAGE_SIZE = (NumPages * PAGE_SIZE) * d
        BY <1>1, PageAssumption
    <2>3. AddressSpace * d \in Nat /\ e * PAGE_SIZE \in Nat
        BY <1>1, SpaceIsPositive, Monotone, PageAssumption
    <2> QED
        BY <2>1, <2>2, <2>3 DEF AddressSpace
<1>6. x % AddressSpace = y
    <2> HIDE DEF x, y
    <2>1. y \in 0 .. AddressSpace - 1 /\ d \in Int
        BY <1>1, <1>4, SpaceIsPositive
    <2> QED
        BY <1>5, <2>1, ModUnique, SpaceIsPositive, Zenon
<1>7. y \div PAGE_SIZE = e
    <2> DEFINE g == y \div PAGE_SIZE
    <2>1. g \in Nat /\ g * PAGE_SIZE <= y /\ y < (g + 1) * PAGE_SIZE
        <3> HIDE DEF y
        <3> QED
            BY <1>4, DivBounds, PageAssumption, Zenon
    <2>2. e * PAGE_SIZE <= y /\ y < (e + 1) * PAGE_SIZE
        <3>1. e * PAGE_SIZE \in Nat /\ (e + 1) * PAGE_SIZE = e * PAGE_SIZE + PAGE_SIZE
            BY <1>1, Monotone, PageAssumption, Zenon
        <3> QED
            BY <3>1, PageAssumption
    <2> HIDE DEF g, y
    <2>3. /\ g * PAGE_SIZE \in Nat /\ (g + 1) * PAGE_SIZE \in Nat
          /\ e * PAGE_SIZE \in Nat /\ (e + 1) * PAGE_SIZE \in Nat
        BY <1>1, <2>1, Monotone, PageAssumption
    <2>4. g * PAGE_SIZE < (e + 1) * PAGE_SIZE /\ e * PAGE_SIZE < (g + 1) * PAGE_SIZE
        BY <1>4, <2>1, <2>2, <2>3
    <2>5. g < e + 1 /\ e < g + 1
        <3>1. g + 1 \in Nat /\ e + 1 \in Nat
            BY <1>1, <2>1
        <3> QED
            BY <1>1, <2>1, <2>4, <3>1, Monotone, PageAssumption, Zenon
    <2> QED
        BY <1>1, <2>1, <2>5 DEF g
<1> QED
    BY <1>3, <1>6, <1>7, Zenon DEF PageOf, e

\* Memory from the start of a page on.
LEMMA PageSteps ==
    ASSUME NEW a \in Nat, a % PAGE_SIZE = 0, NEW k \in Nat
    PROVE  /\ PageOf(a + k) = (PageOf(a) + (k \div PAGE_SIZE)) % NumPages
           /\ (a + k) % PAGE_SIZE = k % PAGE_SIZE
           /\ k \div PAGE_SIZE \in Nat /\ PageOf(a) \in Page
<1> DEFINE q == a \div PAGE_SIZE
           c == k \div PAGE_SIZE
           r == k % PAGE_SIZE
<1>1. q \in Nat /\ a = q * PAGE_SIZE + 0 /\ a = q * PAGE_SIZE
    <2>1. q \in Nat /\ a = q * PAGE_SIZE + (a % PAGE_SIZE)
        BY DivBounds, PageAssumption, Zenon
    <2> HIDE DEF q
    <2>2. q * PAGE_SIZE \in Nat
        BY <2>1, Monotone, PageAssumption, Zenon
    <2> QED
        BY <2>1, <2>2
<1>2. c \in Nat /\ r \in Nat /\ r < PAGE_SIZE /\ k = c * PAGE_SIZE + r
    BY DivBounds, PageAssumption, Zenon
<1> HIDE DEF q, c, r
<1>3. a + k = (q + c) * PAGE_SIZE + r /\ q + c \in Nat
    <2>1. (q + c) * PAGE_SIZE = q * PAGE_SIZE + c * PAGE_SIZE /\ q * PAGE_SIZE \in Nat
          /\ c * PAGE_SIZE \in Nat
        BY <1>1, <1>2, PageAssumption
    <2> QED
        BY <1>1, <1>2, <2>1
<1>4. PageOf(a + k) = (q + c) % NumPages /\ (a + k) % PAGE_SIZE = r
    <2> DEFINE h == q + c
    <2>1. h \in Nat
        BY <1>3
    <2> HIDE DEF h
    <2>2. PageOf(h * PAGE_SIZE + r) = h % NumPages /\ (h * PAGE_SIZE + r) % PAGE_SIZE = r
        BY <1>2, <2>1, PageOfParts, Zenon
    <2>3. a + k = h * PAGE_SIZE + r
        BY <1>3, Zenon DEF h
    <2>4. PageOf(a + k) = h % NumPages /\ (a + k) % PAGE_SIZE = r
        BY <2>2, <2>3
    <2> QED
        BY <2>4, Zenon DEF h
<1>5. PageOf(a) = q % NumPages
    <2>1. 0 \in Nat /\ 0 < PAGE_SIZE
        BY PageAssumption
    <2>2. PageOf(q * PAGE_SIZE + 0) = q % NumPages
        BY <1>1, <2>1, PageOfParts, Zenon
    <2> QED
        BY <1>1, <2>2
<1>6. ((q % NumPages) + c) % NumPages = (q + c) % NumPages /\ q % NumPages \in 0 .. NumPages - 1
    <2>1. q \in Int /\ c \in Int
        BY <1>1, <1>2
    <2> QED
        BY <2>1, ModAdd, DivMod, PageAssumption, Zenon
<1> QED
    BY <1>2, <1>4, <1>5, <1>6, Zenon DEF Page, c, r

\* The pages of n pages hold size bytes, and no fewer pages do.
LEMMA EnoughPages ==
    ASSUME NEW size \in Nat
    PROVE  /\ NumPagesOf(size) \in Nat
           /\ \A k \in 0 .. size - 1 : k \div PAGE_SIZE < NumPagesOf(size)
           /\ size <= AddressSpace => NumPagesOf(size) <= NumPages
<1> DEFINE n == NumPagesOf(size)
           q == size \div PAGE_SIZE
           r == size % PAGE_SIZE
<1>1. q \in Nat /\ r \in Nat /\ r < PAGE_SIZE /\ size = q * PAGE_SIZE + r
    BY DivBounds, PageAssumption, Zenon
<1>2. n = IF r = 0 THEN q ELSE q + 1
    BY AlignedPages, Zenon DEF NumPagesOf
<1>3. n \in Nat
    BY NumPagesType, Zenon
<1> HIDE DEF n, q, r
<1>4. q * PAGE_SIZE \in Nat /\ (q + 1) * PAGE_SIZE = q * PAGE_SIZE + PAGE_SIZE
      /\ n * PAGE_SIZE \in Nat
    BY <1>1, <1>3, Monotone, PageAssumption, Zenon
<1>5. size <= n * PAGE_SIZE
    BY <1>1, <1>2, <1>4, PageAssumption
<1>6. ASSUME NEW k \in 0 .. size - 1 PROVE k \div PAGE_SIZE < n
    <2> DEFINE c == k \div PAGE_SIZE
    <2>1. k \in Nat /\ k < n * PAGE_SIZE
        BY <1>4, <1>5
    <2>2. c \in Nat /\ c * PAGE_SIZE <= k
        BY <2>1, DivBounds, PageAssumption, Zenon
    <2> HIDE DEF c
    <2>3. c * PAGE_SIZE \in Nat
        BY <2>2, Monotone, PageAssumption, Zenon
    <2>4. c * PAGE_SIZE < n * PAGE_SIZE
        BY <1>4, <2>1, <2>2, <2>3
    <2> QED
        BY <1>3, <2>2, <2>4, Monotone, PageAssumption, Zenon DEF c
<1>7. ASSUME size <= AddressSpace PROVE n <= NumPages
    <2>1. q <= NumPages /\ (r # 0 => q < NumPages)
        <3>1. q * PAGE_SIZE + r <= NumPages * PAGE_SIZE /\ NumPages * PAGE_SIZE \in Nat
            BY <1>1, <1>7, PageAssumption, Monotone, Zenon DEF AddressSpace
        <3>2. ~ (NumPages * PAGE_SIZE < q * PAGE_SIZE)
              /\ (r # 0 => q * PAGE_SIZE < NumPages * PAGE_SIZE)
            BY <1>1, <1>4, <3>1
        <3>3. ~ (NumPages < q) /\ (r # 0 => q < NumPages)
            BY <1>1, <3>2, Monotone, PageAssumption, Zenon
        <3> QED
            BY <1>1, <3>3, PageAssumption
    <2> QED
        BY <1>1, <1>2, <2>1, PageAssumption
<1> QED
    BY <1>3, <1>6, <1>7, Zenon DEF n

\* The place of a page in a loop over pages, from the page.
LEMMA Unshift ==
    ASSUME NEW v \in Page, NEW j \in Nat
    PROVE  /\ (((v + j) % NumPages) + NumPages - v) % NumPages = j % NumPages
           /\ (v + j) % NumPages \in Page
           /\ j % NumPages \in Nat /\ j % NumPages < NumPages /\ j % NumPages <= j
<1>0. v \in Nat /\ v < NumPages
    BY PageAssumption DEF Page
<1> DEFINE s == v + j
           w == s % NumPages
           b == NumPages - v
<1>1. s \in Int /\ b \in Int /\ w + NumPages - v = w + b /\ s + b = j + NumPages * 1
      /\ j \in Int /\ 1 \in Int /\ w \in 0 .. NumPages - 1
    BY <1>0, PageAssumption
<1>2. (w + b) % NumPages = (s + b) % NumPages
    <2> HIDE DEF s, b
    <2> QED
        BY <1>1, ModAdd, PageAssumption, Zenon
<1>3. (j + NumPages * 1) % NumPages = j % NumPages
    BY <1>1, ModShift, PageAssumption, Zenon
<1>4. j % NumPages \in Nat /\ j % NumPages < NumPages /\ j % NumPages <= j
    <2>1. /\ j % NumPages \in Nat /\ j % NumPages < NumPages
          /\ j = (j \div NumPages) * NumPages + (j % NumPages) /\ j \div NumPages \in Nat
        BY DivBounds, PageAssumption, Zenon
    <2>2. (j \div NumPages) * NumPages \in Nat
        BY <2>1, Monotone, PageAssumption, Zenon
    <2> QED
        BY <2>1, <2>2
<1> QED
    BY <1>1, <1>2, <1>3, <1>4, Zenon DEF Page

\* The page of an address.
LEMMA PageOfIsPage ==
    ASSUME NEW address \in Nat PROVE PageOf(address) \in Page
<1> DEFINE a == address % AddressSpace
<1>1. a \in Nat /\ a < AddressSpace
    BY DivBounds, SpaceIsPositive, Zenon
<1> HIDE DEF a
<1> DEFINE q == a \div PAGE_SIZE
<1>2. q \in Nat /\ q * PAGE_SIZE <= a
    BY <1>1, DivBounds, PageAssumption, Zenon
<1> HIDE DEF q
<1>3. q * PAGE_SIZE < AddressSpace
    <2>1. q * PAGE_SIZE \in Nat
        BY <1>2, PageAssumption
    <2> QED
        BY <1>1, <1>2, <2>1, SpaceIsPositive
<1>4. q \in Page
    BY <1>2, <1>3, PageFits, Zenon
<1> QED
    BY <1>4, Zenon DEF PageOf, q, a

\* What physicalAllocate finds, and what it takes.
LEMMA FirstFree ==
    ASSUME NEW m \in MemoryManagerData, NEW n \in Nat
    PROVE  /\ FirstPlace(m, n) \in Page /\ Pages(FirstPlace(m, n), n) \subseteq Page
           /\ Places(m, n) # {} =>
                 /\ Pages(FirstPlace(m, n), n) \cap m.used = {}
                 /\ physicalAllocate(m, n).used = m.used \cup Pages(FirstPlace(m, n), n)
           /\ Places(m, n) = {} => FirstPlace(m, n) = 0 /\ physicalAllocate(m, n) = m
<1>0. FirstPlace(m, n) \in Page
    BY AllocateFirst, Zenon
<1>1. FirstPlace(m, n) \in Nat
    BY <1>0 DEF Page
<1>2. Pages(FirstPlace(m, n), n) \subseteq Page
    BY <1>1, PagesInPage, Zenon
<1>3. CASE Places(m, n) = {}
    BY <1>0, <1>2, <1>3, Zenon DEF physicalAllocate, FirstPlace
<1>4. CASE Places(m, n) # {}
    <2>1. Places(m, n) \in SUBSET Nat
        BY DEF Places, Page
    <2>2. \E page \in Places(m, n) : \A other \in Places(m, n) : page <= other
        BY <1>4, <2>1, LeastNumber, Zenon
    <2>3. FirstPlace(m, n) \in Places(m, n)
        BY <1>4, <2>2, Zenon DEF FirstPlace
    <2>4. Pages(FirstPlace(m, n), n) \cap m.used = {}
        BY <2>3, Zenon DEF Places, isPhysicalFree
    <2>5. physicalAllocate(m, n).used = m.used \cup Pages(FirstPlace(m, n), n)
        BY <1>1, <1>4, AllocateAt, Zenon DEF physicalAllocate
    <2> QED
        BY <1>0, <1>2, <1>4, <2>4, <2>5, Zenon
<1> QED
    BY <1>3, <1>4, Zenon

-----------------------------------------------------------------------------
(* The size of memory that loadMemoryMap adds up.                          *)

\* Pages of L that are not below T, when L has no more than T pages, are no
\* more than the pages that are missing in L below its last one.
LEMMA HolesBound ==
    ASSUME NEW L \in SUBSET Page, NEW F \in SUBSET L, NEW T \in Nat, T <= NumPages,
           \A p \in Page : p < T => p \notin F, Cardinality(L) <= T
    PROVE  Cardinality(F) <= Cardinality({p \in Page \ L : \E above \in L : p < above})
<1> DEFINE H == {p \in Page \ L : \E above \in L : p < above}
           low == 0 .. T - 1
<1>0. \A p \in Page : p \in Nat
    BY DEF Page
<1>1. low \subseteq Page
    BY PageAssumption DEF Page
<1>2. IsFiniteSet(H) /\ IsFiniteSet(F) /\ IsFiniteSet(L) /\ IsFiniteSet(low)
    <2>1. H \in SUBSET Page /\ F \in SUBSET Page /\ L \in SUBSET Page /\ low \in SUBSET Page
        BY <1>1, Zenon
    <2> HIDE DEF H, low
    <2> QED
        BY <2>1, PageIsFinite, FS_Subset, Zenon
<1>3. Cardinality(H) \in Nat /\ Cardinality(F) \in Nat /\ Cardinality(L) \in Nat
    <2> HIDE DEF H
    <2> QED
        BY <1>2, FS_CardinalityType, Zenon
<1>4. CASE F = {}
    BY <1>3, <1>4, FS_EmptySet
<1>5. CASE F # {}
    <2>1. PICK f \in F : TRUE
        BY <1>5, Zenon
    <2>2. f \in L /\ f \in Page /\ f \in Nat /\ ~ (f < T)
        BY <1>0, <2>1, Zenon
    <2>3. low \ L \subseteq H
        <3>1. \A p \in low : p < f
            BY <2>2
        <3> HIDE DEF low
        <3> QED
            BY <1>1, <2>2, <3>1, Zenon
    <2>4. F \cap low = {}
        <3>1. \A p \in low : p < T
            OBVIOUS
        <3> HIDE DEF low
        <3> QED
            BY <1>1, <3>1, Zenon
    <2>5. Cardinality(low) = T
        <3>1. 0 \in Int /\ T - 1 \in Int
            OBVIOUS
        <3>2. Cardinality(low) = IF 0 > T - 1 THEN 0 ELSE T - 1 - 0 + 1
            BY <3>1, FS_Interval, Zenon
        <3> QED
            BY <3>2
    <2> HIDE DEF low, H
    <2> DEFINE in == low \cap L
               out == low \ L
    <2>6. Cardinality(low) = Cardinality(out) + Cardinality(in)
          /\ Cardinality(out) \in Nat /\ Cardinality(in) \in Nat
        <3>1. low \in SUBSET Page /\ in \in SUBSET low /\ low \ in = out
            BY <1>1, Zenon
        <3> HIDE DEF in, out
        <3> QED
            BY <3>1, CountSplits, Zenon
    <2>7. Cardinality(out) <= Cardinality(H)
        <3>1. out \in SUBSET H
            BY <2>3, Zenon
        <3> HIDE DEF out
        <3> QED
            BY <1>2, <3>1, FS_Subset, Zenon
    <2>8. Cardinality(F) + Cardinality(in) <= Cardinality(L)
        <3> DEFINE rest == L \ in
        <3>1. in \in SUBSET L /\ F \in SUBSET rest /\ rest \in SUBSET L
            BY <2>4, Zenon
        <3>2. Cardinality(L) = Cardinality(rest) + Cardinality(in) /\ Cardinality(rest) \in Nat
            BY <3>1, CountSplits, Zenon
        <3>3. IsFiniteSet(rest)
            BY <1>2, <3>1, FS_Subset, Zenon
        <3>4. Cardinality(F) <= Cardinality(rest)
            BY <3>1, <3>3, FS_Subset, Zenon
        <3> HIDE DEF rest, in
        <3> QED
            BY <1>3, <2>6, <3>2, <3>4
    <2> HIDE DEF in, out
    <2>9. Cardinality(F) <= Cardinality(H)
        BY <1>3, <2>5, <2>6, <2>7, <2>8
    <2> QED
        BY <2>9, Zenon DEF H
<1> QED
    BY <1>4, <1>5, Zenon

\* The bytes of a region.
Span(region) == region.address .. region.address + region.length - 1

\* The available regions of every memory map fit.
MapsFit == \A m \in Maps : \A i \in 1 .. Len(m) : m[i].type = 1 => Fits(m[i])

\* Available regions share no byte, and some byte of the address space is in
\* none of them.
MapsApart ==
    \A m \in Maps :
        /\ \A i, j \in 1 .. Len(m) :
               i # j /\ m[i].type = 1 /\ m[j].type = 1 => Span(m[i]) \cap Span(m[j]) = {}
        /\ \E b \in 0 .. AddressSpace - 1 : \A i \in 1 .. Len(m) : m[i].type = 1 => b \notin Span(m[i])

\* What the loop of loadMemoryMap has seen before entry x: the bytes of
\* available regions, and the pages it freed.
Before(x) == {j \in 1 .. Len(map) : map[j].type = 1 /\ j < x}
Reported(x) == UNION {Span(map[i]) : i \in Before(x)}
LoadedTo(x) == UNION {UsablePages(map[i]) : i \in Before(x)}

\* The pages of a region are pages.
LEMMA UsableIsPages ==
    ASSUME NEW region \in [type : Nat, address : Nat, length : Nat]
    PROVE  UsablePages(region) \subseteq Page
<1> DEFINE up == AlignUp(region.address)
<1>1. region.address \in Nat /\ region.length \in Nat
    BY Zenon
<1>2. up \in Nat
    BY <1>1, Unsigned, Zenon
<1>3. 0 .. AddressSpace - 1 \subseteq Nat
    OBVIOUS
<1>4. \A a, b \in Nat : Plus(a, b) \in Nat /\ Minus(a, b) \in Nat
    BY <1>3, Unsigned, Zenon
<1>5. region.length % AddressSpace \in Nat /\ region.length % PAGE_SIZE \in Nat
    BY <1>1, DivBounds, SpaceIsPositive, PageAssumption, Zenon
<1> HIDE DEF up
<1>6. Minus(Minus(region.length % AddressSpace, up), region.length % PAGE_SIZE) \in Nat
    BY <1>2, <1>4, <1>5, Zenon
<1>7. Usable(region).address \in Nat /\ Usable(region).length \in Nat
    BY <1>1, <1>2, <1>4, <1>6, Zenon DEF Usable, up
<1>8. PageOf(Usable(region).address) \in Nat /\ Usable(region).length \div PAGE_SIZE \in Nat
    BY <1>7, Unsigned, Zenon
<1> QED
    BY <1>8, PagesInPage, Zenon DEF UsablePages

\* The entries seen, one more.
LEMMA BeforeNext ==
    ASSUME NEW x \in 1 .. Len(map)
    PROVE  Before(x + 1) = IF map[x].type = 1 THEN Before(x) \cup {x} ELSE Before(x)
<1>1. \A j \in 1 .. Len(map) : j < x + 1 <=> j < x \/ j = x
    OBVIOUS
<1>2. \A j : j \in Before(x + 1) <=> j \in Before(x) \/ (j = x /\ map[x].type = 1)
    BY <1>1, Zenon DEF Before
<1> QED
    BY <1>2, Zenon

\* The bytes reported are fewer than the address space has.
LEMMA ReportedBounded ==
    ASSUME MapsFit, MapsApart, map \in Maps, NEW x
    PROVE  /\ IsFiniteSet(Reported(x)) /\ Cardinality(Reported(x)) \in Nat
           /\ Cardinality(Reported(x)) < AddressSpace
<1> DEFINE bytes == 0 .. AddressSpace - 1
<1>1. PICK b \in bytes : \A i \in 1 .. Len(map) : map[i].type = 1 => b \notin Span(map[i])
    BY Zenon DEF MapsApart
<1>2. ASSUME NEW i \in Before(x) PROVE Span(map[i]) \subseteq bytes \ {b}
    <2>1. i \in 1 .. Len(map) /\ map[i].type = 1 /\ Fits(map[i])
        BY <1>2, Zenon DEF Before, MapsFit
    <2>2. map[i] \in [type : Nat, address : Nat, length : Nat]
        BY <2>1, MapAssumption, ElementOfSeq, Zenon
    <2> DEFINE a == map[i].address
               l == map[i].length
    <2>3. a \in Nat /\ l \in Nat /\ a + l <= AddressSpace
        BY <2>1, <2>2, Zenon DEF Fits
    <2> HIDE DEF a, l
    <2>4. a .. a + l - 1 \subseteq bytes
        BY <2>3, SpaceIsPositive
    <2>5. Span(map[i]) \subseteq bytes
        BY <2>4, Zenon DEF Span, a, l
    <2> QED
        BY <1>1, <2>1, <2>5, Zenon
<1>3. Reported(x) \in SUBSET (bytes \ {b})
    BY <1>2, Zenon DEF Reported
<1>4. IsFiniteSet(bytes) /\ Cardinality(bytes) = AddressSpace
    <2>1. 0 \in Int /\ AddressSpace - 1 \in Int
        BY SpaceIsPositive
    <2>2. /\ IsFiniteSet(bytes)
          /\ Cardinality(bytes) = IF 0 > AddressSpace - 1 THEN 0 ELSE AddressSpace - 1 - 0 + 1
        BY <2>1, FS_Interval, Zenon
    <2> QED
        BY <2>2, SpaceIsPositive
<1>5. IsFiniteSet(bytes \ {b}) /\ Cardinality(bytes \ {b}) = AddressSpace - 1
    <2>1. bytes \cap {b} = {b}
        BY <1>1, Zenon
    <2>2. Cardinality({b}) = 1
        BY FS_Singleton, Zenon
    <2>3. IsFiniteSet(bytes \ {b})
          /\ Cardinality(bytes \ {b}) = Cardinality(bytes) - Cardinality(bytes \cap {b})
        BY <1>4, FS_Difference, Zenon
    <2> QED
        BY <1>4, <2>1, <2>2, <2>3, Zenon
<1> HIDE DEF bytes
<1>6. IsFiniteSet(Reported(x)) /\ Cardinality(Reported(x)) <= AddressSpace - 1
    BY <1>3, <1>5, FS_Subset, Zenon
<1>7. Cardinality(Reported(x)) \in Nat
    BY <1>6, FS_CardinalityType, Zenon
<1> QED
    BY <1>6, <1>7, SpaceIsPositive

\* The pages freed are finitely many.
LEMMA LoadedToFinite ==
    ASSUME map \in Maps, NEW x
    PROVE  LoadedTo(x) \subseteq Page /\ IsFiniteSet(LoadedTo(x)) /\ Cardinality(LoadedTo(x)) \in Nat
<1>1. map \in Seq([type : Nat, address : Nat, length : Nat])
    BY MapAssumption, Zenon
<1>2. ASSUME NEW i \in Before(x) PROVE UsablePages(map[i]) \subseteq Page
    <2>1. map[i] \in [type : Nat, address : Nat, length : Nat]
        BY <1>1, ElementOfSeq, Zenon DEF Before
    <2> QED
        BY <2>1, UsableIsPages, Zenon
<1>3. LoadedTo(x) \in SUBSET Page
    BY <1>2, Zenon DEF LoadedTo
<1>4. IsFiniteSet(LoadedTo(x))
    BY <1>3, PageIsFinite, FS_Subset, Zenon
<1> QED
    BY <1>3, <1>4, FS_CardinalityType, Zenon

\* One available region more: its bytes are new, and it gives no more pages
\* than its length allows.
LEMMA RegionStep ==
    ASSUME MapsFit, MapsApart, map \in Maps, NEW x \in 1 .. Len(map), map[x].type = 1
    PROVE  /\ Usable(map[x]).length \in Nat
           /\ Cardinality(Reported(x)) + Usable(map[x]).length <= Cardinality(Reported(x + 1))
           /\ Cardinality(LoadedTo(x + 1)) * PAGE_SIZE
                  <= Cardinality(LoadedTo(x)) * PAGE_SIZE + Usable(map[x]).length
<1> DEFINE region == map[x]
           a == region.address
           l == region.length
           len == Usable(region).length
<1>1. region \in [type : Nat, address : Nat, length : Nat] /\ Fits(region)
    BY MapAssumption, ElementOfSeq, Zenon DEF MapsFit
<1>2. a \in Nat /\ l \in Nat
    BY <1>1, Zenon
<1>3. PICK q \in Nat, n \in Nat :
           /\ UsablePages(region) = q .. q + n - 1
           /\ n * PAGE_SIZE <= len /\ len <= l
    <2> HIDE DEF region
    <2> QED
        BY <1>1, UsableInside, Zenon
<1>4. len \in Nat
    <2>1. \A u, v \in Nat : Minus(u, v) \in Nat
        <3>1. 0 .. AddressSpace - 1 \subseteq Nat
            OBVIOUS
        <3> QED
            BY <3>1, Unsigned, Zenon
    <2>2. l % AddressSpace \in Nat /\ l % PAGE_SIZE \in Nat /\ AlignUp(a) \in Nat
        <3> HIDE DEF a, l
        <3> QED
            BY <1>2, DivBounds, SpaceIsPositive, PageAssumption, Unsigned, Zenon
    <2>3. len = Minus(Minus(l % AddressSpace, AlignUp(a)), l % PAGE_SIZE)
        BY Zenon DEF Usable
    <2> HIDE DEF a, l, len
    <2> QED
        BY <2>1, <2>2, <2>3, Zenon
<1>5. Before(x + 1) = Before(x) \cup {x}
    BY BeforeNext, Zenon
<1>6. Reported(x + 1) = Reported(x) \cup Span(region)
    BY <1>5, Zenon DEF Reported
<1>7. LoadedTo(x + 1) = LoadedTo(x) \cup UsablePages(region)
    BY <1>5, Zenon DEF LoadedTo
<1>8. Reported(x) \cap Span(region) = {}
    <2>1. \A i \in Before(x) : i \in 1 .. Len(map) /\ i # x /\ map[i].type = 1
        BY DEF Before
    <2>2. \A i \in Before(x) : Span(map[i]) \cap Span(region) = {}
        BY <2>1, Zenon DEF MapsApart
    <2> HIDE DEF region
    <2> QED
        BY <2>2, Zenon DEF Reported
<1>9. Cardinality(Span(region)) = l /\ IsFiniteSet(Span(region))
    <2> HIDE DEF a, l
    <2>1. a \in Int /\ a + l - 1 \in Int
        BY <1>2
    <2>2. /\ IsFiniteSet(a .. a + l - 1)
          /\ Cardinality(a .. a + l - 1) = IF a > a + l - 1 THEN 0 ELSE (a + l - 1) - a + 1
        BY <2>1, FS_Interval, Zenon
    <2>3. Cardinality(a .. a + l - 1) = l
        BY <1>2, <2>2
    <2>4. Span(region) = a .. a + l - 1
        BY Zenon DEF Span, a, l
    <2> QED
        BY <2>2, <2>3, <2>4, Zenon
<1>10. Cardinality(UsablePages(region)) = n /\ IsFiniteSet(UsablePages(region))
    <2>1. q \in Int /\ q + n - 1 \in Int
        OBVIOUS
    <2>2. /\ IsFiniteSet(q .. q + n - 1)
          /\ Cardinality(q .. q + n - 1) = IF q > q + n - 1 THEN 0 ELSE (q + n - 1) - q + 1
        BY <2>1, FS_Interval, Zenon
    <2>3. Cardinality(q .. q + n - 1) = n
        BY <2>2
    <2> HIDE DEF region
    <2> QED
        BY <1>3, <2>2, <2>3, Zenon
<1> DEFINE r == Cardinality(Reported(x))
           c == Cardinality(LoadedTo(x))
<1>11. r \in Nat /\ IsFiniteSet(Reported(x)) /\ c \in Nat /\ IsFiniteSet(LoadedTo(x))
    BY ReportedBounded, LoadedToFinite, Zenon
<1> HIDE DEF region, l, len, a
<1>12. Cardinality(Reported(x + 1)) = r + l
    <2>1. Cardinality(Reported(x) \cap Span(region)) = 0
        BY <1>8, FS_EmptySet, Zenon
    <2>2. Cardinality(Reported(x) \cup Span(region))
              = r + Cardinality(Span(region)) - Cardinality(Reported(x) \cap Span(region))
        BY <1>9, <1>11, FS_Union, Zenon
    <2>3. Cardinality(Reported(x + 1)) = r + l - 0
        BY <1>6, <1>9, <2>1, <2>2, Zenon
    <2> HIDE DEF r
    <2> QED
        BY <1>2, <1>11, <2>3
<1>13. Cardinality(LoadedTo(x + 1)) <= c + n /\ Cardinality(LoadedTo(x + 1)) \in Nat
    <2> DEFINE both == LoadedTo(x) \cap UsablePages(region)
    <2>1. IsFiniteSet(both)
        <3>1. both \in SUBSET LoadedTo(x)
            BY Zenon
        <3> HIDE DEF both
        <3> QED
            BY <1>11, <3>1, FS_Subset, Zenon
    <2>2. Cardinality(both) \in Nat
        BY <2>1, FS_CardinalityType, Zenon
    <2>3. Cardinality(LoadedTo(x) \cup UsablePages(region))
              = c + Cardinality(UsablePages(region)) - Cardinality(both)
        BY <1>10, <1>11, FS_Union, Zenon
    <2>4. Cardinality(LoadedTo(x + 1)) = c + n - Cardinality(both)
        BY <1>7, <1>10, <2>3, Zenon
    <2>5. Cardinality(LoadedTo(x + 1)) \in Nat
        BY LoadedToFinite, Zenon
    <2> HIDE DEF both, c
    <2> QED
        BY <1>11, <2>2, <2>4, <2>5
<1> HIDE DEF r, c
<1>14. r + len <= Cardinality(Reported(x + 1))
    BY <1>2, <1>3, <1>4, <1>11, <1>12
<1>15. Cardinality(LoadedTo(x + 1)) * PAGE_SIZE <= c * PAGE_SIZE + len
    <2> DEFINE d == Cardinality(LoadedTo(x + 1))
               e == c + n
    <2>1. d \in Nat /\ d <= e /\ e \in Nat
        BY <1>11, <1>13
    <2> HIDE DEF d, e
    <2>2. d * PAGE_SIZE <= e * PAGE_SIZE /\ d * PAGE_SIZE \in Nat /\ e * PAGE_SIZE \in Nat
        BY <2>1, Monotone, PageAssumption, Zenon
    <2>3. e * PAGE_SIZE = c * PAGE_SIZE + n * PAGE_SIZE
        BY <1>11, Monotone, PageAssumption, Zenon DEF e
    <2>4. c * PAGE_SIZE \in Nat /\ n * PAGE_SIZE \in Nat
        BY <1>11, PageAssumption
    <2>5. d * PAGE_SIZE <= c * PAGE_SIZE + len
        BY <1>3, <1>4, <2>2, <2>3, <2>4
    <2> QED
        BY <2>5, Zenon DEF d
<1> QED
    BY <1>4, <1>14, <1>15, Zenon DEF region, len, r, c

\* The size of memory is in two versions of the data, and the same.
SameTotal(m, r) ==
    "TotalMemory" \in DOMAIN m => "TotalMemory" \in DOMAIN r /\ r.TotalMemory = m.TotalMemory

\* The operations on the bitmap leave the size of memory alone.
LEMMA TotalKept ==
    /\ \A m, page, n : SameTotal(m, physicalAllocateAt(m, page, n))
    /\ \A m, page, n : SameTotal(m, physicalFree(m, page, n))
    /\ \A m, address, size : SameTotal(m, Identity(m, address, size))
    /\ \A m, n : SameTotal(m, physicalAllocate(m, n))
<1>1. ASSUME NEW m, NEW u, NEW v
      PROVE  SameTotal(m, [m EXCEPT !.used = u, !.UsedMemory = v])
    BY Zenon DEF SameTotal
<1>2. \A m, page, n : SameTotal(m, physicalAllocateAt(m, page, n))
    BY <1>1, Zenon DEF physicalAllocateAt
<1>3. \A m, page, n : SameTotal(m, physicalFree(m, page, n))
    BY <1>1, Zenon DEF physicalFree
<1>4. \A m : SameTotal(m, m)
    BY Zenon DEF SameTotal
<1> QED
    BY <1>2, <1>3, <1>4, Zenon DEF Identity, physicalAllocate
===============================================================================
