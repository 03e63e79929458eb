-------------------------------- MODULE KMalloc --------------------------------
(***************************************************************************)
(* The kernel heap, kmalloc.cpp.  Memory comes in blocks of whole pages;   *)
(* boundary tags split a block into pieces, each a header of TagSize       *)
(* bytes followed by the memory it manages.  A tag is known by its         *)
(* address.  Free tags are in doubly linked lists by the exponent of       *)
(* their size.  The loops of kmalloc and kfree are one action per turn;    *)
(* the heap's lock keeps two calls apart, but krealloc releases it between *)
(* its calls.  Sizes are small enough for no sum to overflow.              *)
(***************************************************************************)
EXTENDS Integers, FiniteSets

CONSTANTS TagSize,        \* sizeof(struct boundary_tag)
          l_pageSize, l_pageCount,
          MINEXP, MAXEXP, MAXCOMPLETE,
          ArenaPages,     \* the pages that liballoc_alloc can give
          Sizes           \* the sizes that callers ask for

ASSUME HeapAssumption ==
    /\ {TagSize, l_pageSize, l_pageCount, MAXCOMPLETE} \subseteq Nat \ {0}
    /\ MINEXP \in Nat /\ MAXEXP \in Nat /\ MINEXP < MAXEXP
    /\ ArenaPages \in Nat /\ Sizes \subseteq Nat
    /\ ArenaPages * l_pageSize < 2 ^ MAXEXP /\ \A s \in Sizes : s < 2 ^ MAXEXP

VARIABLES tags,             \* the boundary tags, by address
          l_freePages, l_completePages,
          blocks,           \* the pages of every block, by address
          job,              \* the call that holds the lock
          granted,          \* what callers hold: the size, by tag
          unwanted          \* what krealloc has copied and will free

vars == <<tags, l_freePages, l_completePages, blocks, job, granted, unwanted>>

nullptr == 0
Exponent == MINEXP .. MAXEXP - 1

\* Page 0 is not in the arena: its address is nullptr.
Address == 0 .. (ArenaPages + 1) * l_pageSize - 1

Tag == [size : Nat, real_size : Nat, index : Exponent \cup {-1}, next : Address,
        prev : Address, split_left : Address, split_right : Address]

Idle == [pc |-> "idle", size |-> 0, tag |-> nullptr, old |-> nullptr]

TypeOK ==
    /\ DOMAIN tags \subseteq Address /\ \A a \in DOMAIN tags : tags[a] \in Tag
    /\ l_freePages \in [Exponent -> Address]
    /\ l_completePages \in [Exponent -> 0 .. MAXCOMPLETE]
    /\ job \in [pc : {"idle", "search", "melt"}, size : Sizes \cup {0}, tag : Address,
                old : Address]
    /\ DOMAIN granted \subseteq DOMAIN tags
    /\ unwanted \subseteq DOMAIN granted

(* The first call of kmalloc clears the lists.                             *)
Init ==
    /\ tags = [a \in {} |-> 0]
    /\ l_freePages = [e \in Exponent |-> nullptr]
    /\ l_completePages = [e \in Exponent |-> 0]
    /\ blocks = [a \in {} |-> 0]
    /\ job = Idle
    /\ granted = [a \in {} |-> 0]
    /\ unwanted = {}

-----------------------------------------------------------------------------
getexp(size) ==
    IF size < 2 ^ MINEXP THEN -1
    ELSE CHOOSE e \in Exponent : 2 ^ e <= size /\ (e = MAXEXP - 1 \/ size < 2 ^ (e + 1))

IndexOf(size) == IF getexp(size) < MINEXP THEN MINEXP ELSE getexp(size)

Without(f, a) == [x \in DOMAIN f \ {a} |-> f[x]]
With(f, a, value) == [x \in DOMAIN f \cup {a} |-> IF x = a THEN value ELSE f[x]]

\* The record of a tag, and what it becomes; h is the heap's data.
Heap == [tags |-> tags, free |-> l_freePages]

SetTag(h, a, field, value) ==
    IF a = nullptr THEN h ELSE [h EXCEPT !.tags[a][field] = value]

\* Mutant: the tag behind the new one does not point back.
insert_tag_Single(h, a, index) ==
    LET head == h.free[index]
        h1 == SetTag(h, a, "index", index)
        h2 == IF head = nullptr THEN h1 ELSE SetTag(h1, a, "next", head)
    IN  [h2 EXCEPT !.free[index] = a]

insert_tag(h, a, index) ==
    LET head == h.free[index]
        h1 == SetTag(h, a, "index", index)
        h2 == IF head = nullptr THEN h1
              ELSE SetTag(SetTag(h1, head, "prev", a), a, "next", head)
    IN  [h2 EXCEPT !.free[index] = a]

remove_tag(h, a) ==
    LET t  == h.tags[a]
        h1 == IF h.free[t.index] = a THEN [h EXCEPT !.free[t.index] = t.next] ELSE h
        h2 == SetTag(SetTag(h1, t.prev, "next", t.next), t.next, "prev", t.prev)
    IN  SetTag(SetTag(SetTag(h2, a, "next", nullptr), a, "prev", nullptr), a, "index", -1)

\* The tag at a is gone.
Drop(h, a) == [h EXCEPT !.tags = Without(h.tags, a)]

\* Mutant: the neighbour on the right keeps its link to the tag that is gone.
melt_left_NoBackLink(h, a) ==
    LET t == h.tags[a]
        left == t.split_left
        h1 == SetTag(h, left, "real_size", h.tags[left].real_size + t.real_size)
    IN  Drop(SetTag(h1, left, "split_right", t.split_right), a)

melt_left(h, a) ==
    LET t == h.tags[a]
        left == t.split_left
        h1 == SetTag(h, left, "real_size", h.tags[left].real_size + t.real_size)
        h2 == SetTag(h1, left, "split_right", t.split_right)
    IN  Drop(SetTag(h2, t.split_right, "split_left", left), a)

absorb_right(h, a) ==
    LET right == h.tags[a].split_right
        r  == h.tags[right]
        h1 == remove_tag(h, right)
        h2 == SetTag(h1, a, "real_size", h.tags[a].real_size + r.real_size)
        h3 == SetTag(h2, a, "split_right", r.split_right)
    IN  Drop(SetTag(h3, r.split_right, "split_left", a), right)

split_tag(h, a) ==
    LET t == h.tags[a]
        new == a + TagSize + t.size
        remainder == t.real_size - TagSize - t.size
        newTag == [size |-> 0, real_size |-> remainder, index |-> -1, next |-> nullptr,
                   prev |-> nullptr, split_left |-> a, split_right |-> t.split_right]
        h1 == [h EXCEPT !.tags = With(h.tags, new, newTag)]
        h2 == SetTag(h1, t.split_right, "split_left", new)
        h3 == SetTag(SetTag(h2, a, "split_right", new), a, "real_size", t.real_size - remainder)
    IN  insert_tag(h3, new, IndexOf(remainder - TagSize))

-----------------------------------------------------------------------------
(* kmalloc(size), for a caller or for krealloc, which then frees old.      *)
kmalloc(size, old) ==
    /\ job = Idle
    /\ job' = [pc |-> "search", size |-> size, tag |-> l_freePages[IndexOf(size)], old |-> old]
    /\ UNCHANGED <<tags, l_freePages, l_completePages, blocks, granted, unwanted>>

\* Mutant: the first tag of the list is taken.
Enough_First(a) == TRUE

Enough(a) == tags[a].real_size - TagSize >= job.size + TagSize

SearchNext ==
    /\ job.pc = "search" /\ job.tag # nullptr /\ ~Enough(job.tag)
    /\ job' = [job EXCEPT !.tag = tags[job.tag].next]
    /\ UNCHANGED <<tags, l_freePages, l_completePages, blocks, granted, unwanted>>

\* The tag becomes the caller's; what is left over becomes a free tag if it
\* is worth one.
Carve(h, a) ==
    LET h1 == SetTag(h, a, "size", job.size)
        remainder == h.tags[a].real_size - job.size - 2 * TagSize
    IN  IF remainder > 0 /\ getexp(remainder) >= 0 THEN split_tag(h1, a) ELSE h1

\* kmalloc returns the tag at a.
Return(h, a) ==
    /\ tags' = Carve(h, a).tags /\ l_freePages' = Carve(h, a).free
    /\ granted' = With(granted, a, job.size)
    /\ unwanted' = unwanted \cup ({job.old} \ {nullptr})
    /\ job' = Idle

Whole(t) == t.split_left = nullptr /\ t.split_right = nullptr

\* Mutant: the count of complete blocks is not taken down.
TakeTag_KeepsCount ==
    /\ job.pc = "search" /\ job.tag # nullptr /\ Enough(job.tag)
    /\ Return(remove_tag(Heap, job.tag), job.tag)
    /\ UNCHANGED <<blocks, l_completePages>>

TakeTag ==
    /\ job.pc = "search" /\ job.tag # nullptr /\ Enough(job.tag)
    /\ l_completePages' = IF Whole(tags[job.tag])
                          THEN [l_completePages EXCEPT ![IndexOf(job.size)] = @ - 1]
                          ELSE l_completePages
    /\ Return(remove_tag(Heap, job.tag), job.tag)
    /\ UNCHANGED blocks

-----------------------------------------------------------------------------
(* liballoc_alloc: some pages of the arena that follow each other and are  *)
(* in no block.                                                            *)
OwnedPages == UNION {a \div l_pageSize .. a \div l_pageSize + blocks[a] - 1 : a \in DOMAIN blocks}

liballoc_alloc(pages) ==
    {p * l_pageSize : p \in {p \in 1 .. ArenaPages :
        p + pages - 1 <= ArenaPages /\ (p .. p + pages - 1) \cap OwnedPages = {}}}

PagesFor(size) ==
    LET usage == size + TagSize
        pages == usage \div l_pageSize + (IF usage % l_pageSize = 0 THEN 0 ELSE 1)
    IN  IF pages < l_pageCount THEN l_pageCount ELSE pages

allocate_new_tag(a) ==
    LET pages == PagesFor(job.size)
        tag == [size |-> job.size, real_size |-> pages * l_pageSize, index |-> -1,
                next |-> nullptr, prev |-> nullptr, split_left |-> nullptr,
                split_right |-> nullptr]
    IN  /\ job.pc = "search" /\ job.tag = nullptr
        /\ a \in liballoc_alloc(pages)
        /\ blocks' = With(blocks, a, pages)
        /\ Return([Heap EXCEPT !.tags = With(tags, a, tag)], a)
        /\ UNCHANGED l_completePages

\* Without pages kmalloc returns null; krealloc frees the old memory even so.
OutOfPages ==
    /\ job.pc = "search" /\ job.tag = nullptr
    /\ liballoc_alloc(PagesFor(job.size)) = {}
    /\ unwanted' = unwanted \cup ({job.old} \ {nullptr})
    /\ job' = Idle
    /\ UNCHANGED <<tags, l_freePages, l_completePages, blocks, granted>>

-----------------------------------------------------------------------------
(* kfree: the tag melts with its free neighbours, then goes to its list or *)
(* back to the pages.                                                      *)
kfree(a) ==
    /\ job = Idle
    /\ job' = [Idle EXCEPT !.pc = "melt", !.tag = a]
    /\ granted' = Without(granted, a)
    /\ unwanted' = unwanted \ {a}
    /\ UNCHANGED <<tags, l_freePages, l_completePages, blocks>>

IsFree(a) == a # nullptr /\ tags[a].index >= 0
LeftFree == IsFree(tags[job.tag].split_left)
\* Mutant: the neighbour on the right is not looked at.
RightFree_Never == FALSE

RightFree == IsFree(tags[job.tag].split_right)

MeltLeft ==
    LET left == tags[job.tag].split_left
        h == remove_tag(melt_left(Heap, job.tag), left)
    IN  /\ job.pc = "melt" /\ LeftFree
        /\ tags' = h.tags /\ l_freePages' = h.free
        /\ job' = [job EXCEPT !.tag = left]
        /\ UNCHANGED <<l_completePages, blocks, granted, unwanted>>

AbsorbRight ==
    LET h == absorb_right(Heap, job.tag) IN
    /\ job.pc = "melt" /\ ~LeftFree /\ RightFree
    /\ tags' = h.tags /\ l_freePages' = h.free
    /\ UNCHANGED <<l_completePages, blocks, job, granted, unwanted>>

\* The index kfree puts its tag under.
Home == IndexOf(tags[job.tag].real_size - TagSize)

Melted == job.pc = "melt" /\ ~LeftFree /\ ~RightFree

Surplus == Whole(tags[job.tag]) /\ l_completePages[Home] = MAXCOMPLETE

\* The pages given back are those of the tag, rounded up; what they leave of
\* a block stays one.
liballoc_free ==
    LET real == tags[job.tag].real_size
        rounded == real \div l_pageSize + (IF real % l_pageSize = 0 THEN 0 ELSE 1)
        pages == IF rounded < l_pageCount THEN l_pageCount ELSE rounded
    IN  /\ Melted /\ Surplus
        /\ blocks' = IF blocks[job.tag] = pages THEN Without(blocks, job.tag)
                     ELSE With(Without(blocks, job.tag), job.tag + pages * l_pageSize,
                               blocks[job.tag] - pages)
        /\ tags' = Without(tags, job.tag)
        /\ job' = Idle
        /\ UNCHANGED <<l_freePages, l_completePages, granted, unwanted>>

PutBack ==
    LET h == insert_tag(Heap, job.tag, Home) IN
    /\ Melted /\ ~Surplus
    /\ l_completePages' = IF Whole(tags[job.tag])
                          THEN [l_completePages EXCEPT ![Home] = @ + 1] ELSE l_completePages
    /\ tags' = h.tags /\ l_freePages' = h.free
    /\ job' = Idle
    /\ UNCHANGED <<blocks, granted, unwanted>>

\* What krealloc still has to free is no longer the caller's.
krealloc(old, size) == size # 0 /\ old \notin unwanted /\ kmalloc(size, old)

-----------------------------------------------------------------------------
Next ==
    \/ \E size \in Sizes : kmalloc(size, nullptr)
    \/ \E size \in Sizes, old \in DOMAIN granted : krealloc(old, size)
    \/ SearchNext \/ TakeTag \/ OutOfPages
    \/ \E a \in Address : allocate_new_tag(a)
    \/ \E a \in DOMAIN granted : kfree(a)
    \/ MeltLeft \/ AbsorbRight \/ PutBack \/ liballoc_free

Spec == Init /\ [][Next]_vars

-----------------------------------------------------------------------------
FreeTags == {a \in DOMAIN tags : tags[a].index >= 0}

\* The tags of a block follow each other without a gap or an overlap from its
\* first byte to its last, and split_left and split_right link exactly the
\* tags that are side by side, through every splitting and melting.
TagsTile ==
    /\ DOMAIN blocks \subseteq DOMAIN tags
    /\ \A a \in DOMAIN tags :
        LET t == tags[a]
            end == a + t.real_size
        IN  /\ t.real_size >= TagSize
            /\ (t.split_left = nullptr) = (a \in DOMAIN blocks)
            /\ IF t.split_right = nullptr
               THEN \E b \in DOMAIN blocks : b <= a /\ end = b + blocks[b] * l_pageSize
               ELSE /\ t.split_right = end
                    /\ end \in DOMAIN tags /\ tags[end].split_left = a

\* What a caller was given holds the size asked for and overlaps neither a
\* header nor other memory in use; its tag is in no list.
GrantsHold ==
    \A a \in DOMAIN granted :
        /\ tags[a].index = -1 /\ tags[a].size = granted[a]
        /\ granted[a] + TagSize <= tags[a].real_size

\* A free tag is in the list of its exponent, and the links of the lists are
\* each other's inverse: insert_tag, remove_tag and the two ways of melting
\* leave no tag behind and no tag twice.
ListsConsistent ==
    /\ \A e \in Exponent : l_freePages[e] # nullptr =>
           /\ l_freePages[e] \in FreeTags
           /\ tags[l_freePages[e]].index = e /\ tags[l_freePages[e]].prev = nullptr
    /\ \A a \in FreeTags :
           LET t == tags[a] IN
           /\ t.index = IndexOf(t.real_size - TagSize)
           /\ t.prev = nullptr => l_freePages[t.index] = a
           /\ t.next # nullptr =>
                  t.next \in FreeTags /\ tags[t.next].prev = a /\ tags[t.next].index = t.index
           /\ t.prev # nullptr => t.prev \in FreeTags /\ tags[t.prev].next = a
    /\ \A a \in DOMAIN tags \ FreeTags : tags[a].next = nullptr /\ tags[a].prev = nullptr

\* No two free tags are side by side: kfree melts both ways, and split_tag
\* never makes a free tag in front of one.
Coalesced ==
    \A a \in FreeTags : tags[a].split_right = nullptr \/ tags[a].split_right \notin FreeTags

\* l_completePages counts the blocks that are free as a whole, by the list
\* they are in, and never more than MAXCOMPLETE of them: kfree returns the
\* next one to the system.
CompleteCounted ==
    \A e \in Exponent :
        /\ l_completePages[e] = Cardinality({a \in FreeTags : tags[a].index = e /\ Whole(tags[a])})
        /\ l_completePages[e] <= MAXCOMPLETE
===============================================================================
