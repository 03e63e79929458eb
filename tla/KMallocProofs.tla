---------------------------- MODULE KMallocProofs ----------------------------
(***************************************************************************)
(* The heap is sound: what its operators do to the stores of a tag, to the *)
(* free lists and to the tags of a block side by side, the invariant that  *)
(* every step of kmalloc, kfree and the rest preserves, and from it that   *)
(* blocks are tiled, grants hold, lists are exact and free tags melt.      *)
(***************************************************************************)
EXTENDS KMalloc, FiniteSetTheorems, WellFoundedInduction, TLAPS

TagType == [size : Nat, real_size : Nat, index : Exponent \cup {-1}, next : Nat,
            prev : Nat, split_left : Nat, split_right : Nat]

\* The data of a heap, as the operators of KMalloc pass it on.
IsHeap(h) == /\ h = [tags |-> h.tags, free |-> h.free]
             /\ DOMAIN h.tags \subseteq Nat \ {0}
             /\ h.tags \in [DOMAIN h.tags -> TagType]
             /\ h.free \in [Exponent -> Nat]

\* The fields that tell where a tag lies, and those of the free lists.
SameTile(t, u) == /\ t.size = u.size /\ t.real_size = u.real_size
                  /\ t.split_left = u.split_left /\ t.split_right = u.split_right
SameLinks(t, u) == t.index = u.index /\ t.next = u.next /\ t.prev = u.prev

\* getexp finds an exponent, whatever the size.
EverySizeHasAList == \A size \in Int : IndexOf(size) \in Exponent

-----------------------------------------------------------------------------
\* The tags T lie in the blocks B side by side.
BlockEnd(B, b) == b + B[b] * l_pageSize

BlocksApart(B) ==
    /\ DOMAIN B \subseteq Nat \ {0}
    /\ \A b \in DOMAIN B : BlockEnd(B, b) \in Nat
    /\ \A b, c \in DOMAIN B : b < c => BlockEnd(B, b) <= c

Pieces(T) ==
    /\ DOMAIN T \subseteq Nat \ {0}
    /\ \A a \in DOMAIN T : /\ T[a].real_size \in Nat
                           /\ T[a].split_left \in Nat /\ T[a].split_right \in Nat

InBlock(T, B, a, b) ==
    /\ b <= a /\ a + T[a].real_size <= BlockEnd(B, b)
    /\ T[a].split_right = 0 => a + T[a].real_size = BlockEnd(B, b)

TileAt(T, B, a) ==
    /\ T[a].real_size >= TagSize
    /\ T[a].split_right # 0 => /\ T[a].split_right = a + T[a].real_size
                               /\ T[a].split_right \in DOMAIN T
                               /\ T[T[a].split_right].split_left = a
    /\ T[a].split_left # 0 => /\ T[a].split_left \in DOMAIN T
                              /\ T[T[a].split_left].split_right = a
    /\ T[a].split_left = 0 <=> a \in DOMAIN B
    /\ \E b \in DOMAIN B : InBlock(T, B, a, b)

Tiles(T, B) ==
    /\ DOMAIN B \subseteq DOMAIN T
    /\ \A a, b \in DOMAIN T : a < b => a + T[a].real_size <= b
    /\ \A a \in DOMAIN T : TileAt(T, B, a)

\* The data of a heap is made of pieces.
LEMMA HeapPieces == ASSUME NEW h, IsHeap(h) PROVE Pieces(h.tags)
  BY Zenon DEF IsHeap, TagType, Pieces

\* Tiles depend on no other field.
LEMMA TilesKept ==
    ASSUME NEW T, NEW U, NEW B, Tiles(T, B), DOMAIN U = DOMAIN T,
           \A x \in DOMAIN T : SameTile(U[x], T[x])
    PROVE  Tiles(U, B)
<1>1. ASSUME NEW a \in DOMAIN U PROVE TileAt(U, B, a)
  <2>1. TileAt(T, B, a) /\ a \in DOMAIN T
    BY Zenon DEF Tiles
  <2>2. \E b \in DOMAIN B : InBlock(U, B, a, b)
    BY <2>1, Zenon DEF TileAt, InBlock, SameTile
  <2> QED
    BY <2>1, <2>2, Zenon DEF TileAt, SameTile
<1> QED
  BY <1>1, Zenon DEF Tiles, SameTile

\* The tags U are those of T, but the one at a is part of the one at l.
Merged(T, U, l, a) ==
    /\ DOMAIN U = DOMAIN T \ {a}
    /\ \A x \in DOMAIN U :
           /\ U[x].real_size = IF x = l THEN T[l].real_size + T[a].real_size ELSE T[x].real_size
           /\ U[x].split_right = IF x = l THEN T[a].split_right ELSE T[x].split_right
           /\ U[x].split_left = IF x = T[a].split_right THEN l ELSE T[x].split_left

\* Two neighbours become one tag: melt_left and absorb_right.
LEMMA MergeTiles ==
    ASSUME NEW T, NEW U, NEW B, Pieces(T), BlocksApart(B), Tiles(T, B),
           NEW l \in DOMAIN T, NEW a \in DOMAIN T, T[l].split_right = a,
           Merged(T, U, l, a)
    PROVE  Tiles(U, B)
<1> DEFINE D == DOMAIN T
           E == DOMAIN U
           s == T[a].split_right
<1> USE DEF Merged
<1>0. TagSize \in Nat \ {0} /\ 0 \notin D /\ D \subseteq Nat /\ E \subseteq D
  BY HeapAssumption, Zenon DEF Pieces
<1>1. TileAt(T, B, l) /\ TileAt(T, B, a)
  BY Zenon DEF Tiles
<1>2. a = l + T[l].real_size /\ T[a].split_left = l /\ a \notin DOMAIN B /\ l < a /\ l \in E
  BY <1>0, <1>1 DEF TileAt, Pieces
<1>3. /\ s # a /\ s # l
      /\ s # 0 => s = a + T[a].real_size /\ s \in E /\ T[s].split_left = a
  BY <1>0, <1>1, <1>2 DEF TileAt, Pieces
<1>4. ASSUME NEW x \in E, NEW y \in E, x < y
      PROVE  x + U[x].real_size <= y
  <2>1. CASE x = l
    <3>1. a <= y
      BY <1>0, <1>2, <1>4, <2>1 DEF Tiles
    <3>2. a < y
      BY <1>0, <3>1
    <3>3. a + T[a].real_size <= y
      BY <1>0, <3>2, Zenon DEF Tiles
    <3> QED
      BY <1>0, <1>2, <2>1, <3>3 DEF Pieces
  <2>2. CASE x # l
    BY <1>0, <1>4, <2>2, Zenon DEF Tiles
  <2> QED
    BY <2>1, <2>2, Zenon
<1>5. ASSUME NEW x \in E
      PROVE  TileAt(U, B, x)
  <2>0. TileAt(T, B, x)
    BY <1>0, Zenon DEF Tiles
  <2>1. U[x].real_size >= TagSize
    BY <1>0, <1>1, <2>0 DEF TileAt, Pieces
  <2>2. U[x].split_right # 0 => /\ U[x].split_right = x + U[x].real_size
                                /\ U[x].split_right \in E
                                /\ U[U[x].split_right].split_left = x
    <3>1. CASE x = l
      BY <1>0, <1>2, <1>3, <3>1 DEF Pieces
    <3>2. CASE x # l
      <4> DEFINE y == T[x].split_right
      <4>1. U[x].split_right = y /\ U[x].real_size = T[x].real_size
        BY <3>2, Zenon
      <4>2. y # 0 => y = x + T[x].real_size /\ y \in D /\ T[y].split_left = x
        BY <2>0, Zenon DEF TileAt
      <4>3. y # 0 => y # a /\ y # s
        BY <1>2, <1>3, <3>2, <4>2
      <4> HIDE DEF y
      <4> QED
        BY <4>1, <4>2, <4>3, Zenon
    <3> QED
      BY <3>1, <3>2, Zenon
  <2>3. U[x].split_left # 0 => /\ U[x].split_left \in E
                               /\ U[U[x].split_left].split_right = x
    <3>1. CASE x = s
      BY <1>2, <3>1, Zenon
    <3>2. CASE x # s
      <4> DEFINE y == T[x].split_left
      <4>1. U[x].split_left = y
        BY <3>2, Zenon
      <4>2. y # 0 => y \in D /\ T[y].split_right = x
        BY <2>0, Zenon DEF TileAt
      <4>3. y # 0 => y # a /\ y # l
        BY <3>2, <4>2
      <4> HIDE DEF y
      <4> QED
        BY <4>1, <4>2, <4>3, Zenon
    <3> QED
      BY <3>1, <3>2, SMTT(30)
  <2>4. U[x].split_left = 0 <=> x \in DOMAIN B
    <3>1. CASE x = s
      <4>1. T[x].split_left = a /\ U[x].split_left = l
        BY <1>0, <1>3, <3>1, Zenon
      <4> QED
        BY <1>0, <2>0, <4>1, Zenon DEF TileAt
    <3>2. CASE x # s
      BY <2>0, <3>2, Zenon DEF TileAt
    <3> QED
      BY <3>1, <3>2, Zenon
  <2>5. \E b \in DOMAIN B : InBlock(U, B, x, b)
    <3>1. CASE x = l
      <4>1. PICK b \in DOMAIN B : InBlock(T, B, l, b)
        BY <1>1, Zenon DEF TileAt
      <4>2. PICK c \in DOMAIN B : InBlock(T, B, a, c)
        BY <1>1, Zenon DEF TileAt
      <4>3. b \in Nat /\ c \in Nat /\ BlockEnd(B, b) \in Nat /\ BlockEnd(B, c) \in Nat
        BY Zenon DEF BlocksApart
      <4>4. T[l].real_size \in Nat /\ T[a].real_size \in Nat /\ T[l].real_size > 0 /\ T[a].real_size > 0
        BY <1>0, <1>1 DEF Pieces, TileAt
      <4>5. b <= l /\ a <= BlockEnd(B, b) /\ c <= a /\ a + T[a].real_size <= BlockEnd(B, c)
            /\ (s = 0 => a + T[a].real_size = BlockEnd(B, c))
        BY <1>2, <4>1, <4>2, Zenon DEF InBlock
      <4>6. ~(b < c)
        <5>1. b < c => BlockEnd(B, b) <= c
          BY Zenon DEF BlocksApart
        <5>2. c # a
          BY <1>2, Zenon
        <5> QED
          BY <1>0, <4>3, <4>5, <5>1, <5>2
      <4>7. ~(c < b)
        <5>1. c < b => BlockEnd(B, c) <= b
          BY Zenon DEF BlocksApart
        <5> QED
          BY <1>0, <1>2, <4>3, <4>4, <4>5, <5>1
      <4>8. c = b
        BY <4>3, <4>6, <4>7
      <4>9. U[l].real_size = T[l].real_size + T[a].real_size /\ U[l].split_right = s
        BY <1>2, Zenon
      <4>10. l + U[l].real_size = a + T[a].real_size
        BY <1>0, <1>2, <4>4, <4>9
      <4> QED
        BY <3>1, <4>5, <4>8, <4>9, <4>10, Zenon DEF InBlock
    <3>2. CASE x # l
      <4>1. U[x].real_size = T[x].real_size /\ U[x].split_right = T[x].split_right
        BY <3>2, Zenon
      <4> QED
        BY <2>0, <4>1, Zenon DEF TileAt, InBlock
    <3> QED
      BY <3>1, <3>2, Zenon
  <2> QED
    BY <2>1, <2>2, <2>3, <2>4, <2>5, Zenon DEF TileAt
<1>6. DOMAIN B \subseteq E
  BY <1>2, Zenon DEF Tiles
<1> QED
  BY <1>4, <1>5, <1>6, Zenon DEF Tiles

\* The tags U are those of T, but the one at a ends after n bytes, where a new
\* one begins.
Halved(T, U, a, n) ==
    /\ DOMAIN U = DOMAIN T \cup {a + n}
    /\ U[a + n].real_size = T[a].real_size - n
    /\ U[a + n].split_left = a /\ U[a + n].split_right = T[a].split_right
    /\ \A x \in DOMAIN T :
           /\ U[x].real_size = IF x = a THEN n ELSE T[x].real_size
           /\ U[x].split_right = IF x = a THEN a + n ELSE T[x].split_right
           /\ U[x].split_left = IF x = T[a].split_right THEN a + n ELSE T[x].split_left

\* A tag is cut after n bytes: split_tag.
LEMMA SplitTiles ==
    ASSUME NEW T, NEW U, NEW B, Pieces(T), BlocksApart(B), Tiles(T, B),
           NEW a \in DOMAIN T, NEW n \in Nat, n >= TagSize, n + TagSize <= T[a].real_size,
           Halved(T, U, a, n)
    PROVE  Tiles(U, B)
<1> DEFINE D == DOMAIN T
           s == T[a].split_right
           new == a + n
<1>0. /\ TagSize \in Nat \ {0} /\ 0 \notin D /\ D \subseteq Nat /\ new \in Nat /\ a < new /\ new # 0
      /\ \A x \in D : T[x].real_size \in Nat
  BY HeapAssumption DEF Pieces
<1>1. TileAt(T, B, a)
  BY Zenon DEF Tiles
<1>2. new \notin D /\ new < a + T[a].real_size
  <2>1. new < a + T[a].real_size
    BY <1>0
  <2>2. new \in D => a + T[a].real_size <= new
    BY <1>0, Zenon DEF Tiles
  <2> QED
    BY <1>0, <2>1, <2>2
<1>3. s # a /\ (s # 0 => s = a + T[a].real_size /\ s \in D /\ T[s].split_left = a)
  BY <1>0, <1>1 DEF TileAt
<1>4. /\ U[new].real_size = T[a].real_size - n /\ U[new].split_left = a /\ U[new].split_right = s
      /\ DOMAIN U = D \cup {new}
      /\ U[a].real_size = n /\ U[a].split_right = new /\ U[a].split_left = T[a].split_left
      /\ \A x \in D : x # a => U[x].real_size = T[x].real_size /\ U[x].split_right = T[x].split_right
      /\ \A x \in D : U[x].split_left = IF x = s THEN new ELSE T[x].split_left
  BY <1>3, Zenon DEF Halved
<1> HIDE DEF new
<1>5. ASSUME NEW x \in DOMAIN U, NEW y \in DOMAIN U, x < y
      PROVE  x + U[x].real_size <= y
  <2>1. CASE x = new
    <3>1. y \in D /\ a < y
      BY <1>0, <1>4, <1>5, <2>1
    <3>2. a + T[a].real_size <= y
      BY <3>1, Zenon DEF Tiles
    <3> QED
      BY <1>0, <1>4, <2>1, <3>1, <3>2 DEF new
  <2>2. CASE x = a
    <3>1. CASE y = new
      BY <1>0, <1>4, <2>2, <3>1 DEF new
    <3>2. CASE y # new
      <4>1. a + T[a].real_size <= y
        BY <1>4, <1>5, <2>2, <3>2, Zenon DEF Tiles
      <4> QED
        BY <1>0, <1>2, <1>4, <2>2, <3>2, <4>1 DEF new
    <3> QED
      BY <3>1, <3>2, Zenon
  <2>3. CASE x # a /\ x # new
    <3>1. x \in D /\ U[x].real_size = T[x].real_size
      BY <1>4, <2>3, Zenon
    <3>2. CASE y = new
      <4>1. x < a
        <5>1. a < x => a + T[a].real_size <= x
          BY <3>1, Zenon DEF Tiles
        <5> QED
          BY <1>0, <1>2, <1>5, <2>3, <3>1, <3>2, <5>1 DEF new
      <4>2. x + T[x].real_size <= a
        BY <3>1, <4>1, Zenon DEF Tiles
      <4> QED
        BY <1>0, <3>1, <3>2, <4>2
    <3>3. CASE y # new
      BY <1>4, <1>5, <3>1, <3>3, Zenon DEF Tiles
    <3> QED
      BY <3>2, <3>3, Zenon
  <2> QED
    BY <2>1, <2>2, <2>3, Zenon
<1>6. PICK b \in DOMAIN B : InBlock(T, B, a, b)
  BY <1>1, Zenon DEF TileAt
<1>7. b \in Nat /\ BlockEnd(B, b) \in Nat /\ DOMAIN B \subseteq D
  BY Zenon DEF BlocksApart, Tiles
<1>8. TileAt(U, B, new)
  <2>1. U[new].real_size >= TagSize
    BY <1>0, <1>4
  <2>2. s # 0 => s = new + U[new].real_size /\ s \in DOMAIN U /\ U[s].split_left = new
    BY <1>0, <1>3, <1>4 DEF new
  <2>3. a \in DOMAIN U /\ U[a].split_right = new /\ a # 0 /\ new \notin DOMAIN B
    BY <1>0, <1>2, <1>4, <1>7, Zenon
  <2>4. InBlock(U, B, new, b)
    <3>1. new + U[new].real_size = a + T[a].real_size
      BY <1>0, <1>4 DEF new
    <3>2. b <= a /\ a + T[a].real_size <= BlockEnd(B, b) /\ (s = 0 => a + T[a].real_size = BlockEnd(B, b))
      BY <1>6, Zenon DEF InBlock
    <3>3. b <= new
      BY <1>0, <1>7, <3>2
    <3> QED
      BY <1>4, <3>1, <3>2, <3>3, Zenon DEF InBlock
  <2> QED
    BY <1>4, <2>1, <2>2, <2>3, <2>4, Zenon DEF TileAt
<1>9. TileAt(U, B, a)
  <2>1. InBlock(U, B, a, b)
    <3>1. b <= a /\ a + T[a].real_size <= BlockEnd(B, b)
      BY <1>6, Zenon DEF InBlock
    <3>2. a + U[a].real_size <= BlockEnd(B, b)
      BY <1>0, <1>2, <1>4, <1>7, <3>1 DEF new
    <3> QED
      BY <1>0, <1>4, <3>1, <3>2, Zenon DEF InBlock
  <2>2. T[a].split_left # 0 => /\ T[a].split_left \in DOMAIN U
                               /\ U[T[a].split_left].split_right = a
    <3>1. T[a].split_left # 0 => T[a].split_left \in D /\ T[T[a].split_left].split_right = a
      BY <1>1, Zenon DEF TileAt
    <3>2. T[a].split_left # a \/ T[a].split_left = 0
      BY <1>3, <3>1, Zenon
    <3> QED
      BY <1>4, <3>1, <3>2, Zenon
  <2>3. T[a].split_left = 0 <=> a \in DOMAIN B
    BY <1>1, Zenon DEF TileAt
  <2> QED
    BY <1>0, <1>4, <2>1, <2>2, <2>3, Zenon DEF TileAt, new
<1>10. ASSUME NEW x \in D, x # a
       PROVE  TileAt(U, B, x)
  <2>1. TileAt(T, B, x)
    BY Zenon DEF Tiles
  <2>2. U[x].real_size = T[x].real_size /\ U[x].split_right = T[x].split_right
    BY <1>4, <1>10, Zenon
  <2>3. T[x].split_right # 0 => U[T[x].split_right].split_left = x
    <3> DEFINE y == T[x].split_right
    <3>1. y # 0 => y \in D /\ T[y].split_left = x
      BY <2>1, Zenon DEF TileAt
    <3>2. y # 0 => y # s
      BY <1>3, <1>10, <3>1, Zenon
    <3> HIDE DEF y
    <3> QED
      BY <1>4, <3>1, <3>2, Zenon DEF y
  <2>4. U[x].split_left # 0 => U[x].split_left \in DOMAIN U /\ U[U[x].split_left].split_right = x
    <3>1. CASE x = s
      BY <1>4, <3>1, Zenon
    <3>2. CASE x # s
      <4> DEFINE y == T[x].split_left
      <4>1. y # 0 => y \in D /\ T[y].split_right = x
        BY <2>1, Zenon DEF TileAt
      <4>2. y # a \/ y = 0
        BY <3>2, <4>1, Zenon
      <4>3. U[x].split_left = y
        BY <1>4, <3>2, Zenon
      <4> HIDE DEF y
      <4> QED
        BY <1>4, <4>1, <4>2, <4>3, Zenon
    <3> QED
      BY <3>1, <3>2, Zenon
  <2>5. U[x].split_left = 0 <=> x \in DOMAIN B
    <3>1. CASE x = s
      BY <1>0, <1>3, <1>4, <2>1, <3>1 DEF TileAt
    <3>2. CASE x # s
      BY <1>4, <2>1, <3>2, Zenon DEF TileAt
    <3> QED
      BY <3>1, <3>2, Zenon
  <2>6. \E c \in DOMAIN B : InBlock(U, B, x, c)
    BY <2>1, <2>2, Zenon DEF TileAt, InBlock
  <2> QED
    BY <1>4, <2>1, <2>2, <2>3, <2>4, <2>5, <2>6, Zenon DEF TileAt
<1> QED
  BY <1>4, <1>5, <1>7, <1>8, <1>9, <1>10, Zenon DEF Tiles

\* A new block with one tag: allocate_new_tag.
LEMMA NewBlock ==
    ASSUME NEW T, NEW B, Pieces(T), BlocksApart(B), Tiles(T, B),
           NEW a \in Nat \ {0}, NEW pages \in Nat, NEW t, t.real_size \in Nat,
           t.real_size = pages * l_pageSize, t.real_size >= TagSize,
           t.split_left = 0, t.split_right = 0,
           \A b \in DOMAIN B : BlockEnd(B, b) <= a \/ a + t.real_size <= b
    PROVE  /\ a \notin DOMAIN T
           /\ Tiles(With(T, a, t), With(B, a, pages))
           /\ BlocksApart(With(B, a, pages))
<1> DEFINE U == With(T, a, t)
           C == With(B, a, pages)
           D == DOMAIN T
           n == t.real_size
<1>0. /\ TagSize \in Nat \ {0} /\ 0 \notin D /\ D \subseteq Nat /\ DOMAIN B \subseteq D
      /\ \A x \in D : T[x].real_size \in Nat /\ T[x].real_size > 0
      /\ \A x \in D : TileAt(T, B, x)
  BY HeapAssumption DEF Pieces, Tiles, TileAt
<1>1. \A x \in D : x + T[x].real_size <= a \/ a + n <= x
  <2> SUFFICES ASSUME NEW x \in D PROVE x + T[x].real_size <= a \/ a + n <= x
    BY Zenon
  <2>1. PICK b \in DOMAIN B : InBlock(T, B, x, b)
    BY <1>0, Zenon DEF TileAt
  <2>2. b \in Nat /\ BlockEnd(B, b) \in Nat /\ (BlockEnd(B, b) <= a \/ a + n <= b)
        /\ b <= x /\ x + T[x].real_size <= BlockEnd(B, b)
    BY <2>1, Zenon DEF BlocksApart, InBlock
  <2> QED
    BY <1>0, <2>2
<1>2. a \notin D
  BY <1>0, <1>1
<1>3. /\ DOMAIN U = D \cup {a} /\ U[a] = t /\ \A x \in D : U[x] = T[x]
      /\ DOMAIN C = DOMAIN B \cup {a} /\ C[a] = pages /\ \A b \in DOMAIN B : C[b] = B[b]
  BY <1>0, <1>2, Zenon DEF With
<1> HIDE DEF U, C
<1>4. BlockEnd(C, a) = a + n /\ \A b \in DOMAIN B : BlockEnd(C, b) = BlockEnd(B, b)
  BY <1>3, Zenon DEF BlockEnd
<1>5. BlocksApart(C)
  <2>1. \A b \in DOMAIN C : b \in Nat \ {0} /\ BlockEnd(C, b) \in Nat
    BY <1>3, <1>4 DEF BlocksApart
  <2>2. ASSUME NEW b \in DOMAIN C, NEW c \in DOMAIN C, b < c
        PROVE  BlockEnd(C, b) <= c
    <3>1. CASE b = a
      <4>1. c \in DOMAIN B /\ c + T[c].real_size > c /\ TileAt(T, B, c)
        BY <1>0, <1>3, <2>1, <2>2, <3>1
      <4>2. ~(c + T[c].real_size <= a)
        BY <1>0, <2>2, <3>1, <4>1
      <4> QED
        BY <1>0, <1>1, <1>4, <3>1, <4>1, <4>2, Zenon
    <3>2. CASE b # a /\ c = a
      <4>1. b \in DOMAIN B /\ b \in D /\ ~(a + n <= b)
        BY <1>0, <1>3, <2>2, <3>2
      <4> QED
        BY <1>4, <3>2, <4>1, Zenon
    <3>3. CASE b # a /\ c # a
      BY <1>3, <1>4, <2>2, <3>3, Zenon DEF BlocksApart
    <3> QED
      BY <3>1, <3>2, <3>3, Zenon
  <2> QED
    BY <2>1, <2>2, Zenon DEF BlocksApart
<1>6. ASSUME NEW x \in DOMAIN U, NEW y \in DOMAIN U, x < y
      PROVE  x + U[x].real_size <= y
  <2>1. CASE x = a
    <3>1. y \in D
      BY <1>3, <1>6, <2>1
    <3> QED
      BY <1>0, <1>1, <1>3, <1>6, <2>1, <3>1
  <2>2. CASE x # a /\ y = a
    <3>1. x \in D
      BY <1>3, <2>2, Zenon
    <3> QED
      BY <1>0, <1>1, <1>3, <1>6, <2>2, <3>1
  <2>3. CASE x # a /\ y # a
    BY <1>3, <1>6, <2>3, Zenon DEF Tiles
  <2> QED
    BY <2>1, <2>2, <2>3, Zenon
<1>7. ASSUME NEW x \in DOMAIN U
      PROVE  TileAt(U, C, x)
  <2>1. CASE x = a
    <3>1. InBlock(U, C, a, a)
      BY <1>3, <1>4 DEF InBlock
    <3> QED
      BY <1>3, <2>1, <3>1, Zenon DEF TileAt
  <2>2. CASE x # a
    <3>1. x \in D /\ TileAt(T, B, x)
      BY <1>0, <1>3, <2>2, Zenon
    <3>2. \E b \in DOMAIN C : InBlock(U, C, x, b)
      BY <1>3, <1>4, <3>1, Zenon DEF TileAt, InBlock
    <3>3. U[x].split_left = 0 <=> x \in DOMAIN C
      BY <1>3, <2>2, <3>1, Zenon DEF TileAt
    <3> QED
      BY <1>3, <3>1, <3>2, <3>3 DEF TileAt
  <2> QED
    BY <2>1, <2>2, Zenon
<1>8. Tiles(U, C)
  BY <1>0, <1>3, <1>6, <1>7, Zenon DEF Tiles
<1> QED
  BY <1>2, <1>5, <1>8, Zenon DEF U, C

\* A block whose only tag is free goes back: liballoc_free.
LEMMA GoneBlock ==
    ASSUME NEW T, NEW B, Pieces(T), BlocksApart(B), Tiles(T, B),
           NEW a \in DOMAIN T, T[a].split_left = 0, T[a].split_right = 0
    PROVE  /\ a \in DOMAIN B /\ BlockEnd(B, a) = a + T[a].real_size
           /\ Tiles(Without(T, a), Without(B, a))
           /\ BlocksApart(Without(B, a))
<1> DEFINE U == Without(T, a)
           C == Without(B, a)
           D == DOMAIN T
<1>0. /\ TagSize \in Nat \ {0} /\ 0 \notin D /\ D \subseteq Nat /\ DOMAIN B \subseteq D
      /\ \A x \in D : T[x].real_size \in Nat /\ T[x].real_size > 0
      /\ \A x \in D : TileAt(T, B, x)
  BY HeapAssumption DEF Pieces, Tiles, TileAt
<1>1. a \in DOMAIN B
  BY <1>0, Zenon DEF TileAt
<1>2. BlockEnd(B, a) = a + T[a].real_size
  <2>1. PICK b \in DOMAIN B : InBlock(T, B, a, b)
    BY <1>0, Zenon DEF TileAt
  <2>2. b <= a /\ a + T[a].real_size = BlockEnd(B, b) /\ (b < a => BlockEnd(B, b) <= a)
    BY <1>1, <2>1, Zenon DEF InBlock, BlocksApart
  <2>3. b = a
    BY <1>0, <2>2
  <2> QED
    BY <2>2, <2>3, Zenon
<1>3. /\ DOMAIN U = D \ {a} /\ \A x \in D : x # a => U[x] = T[x]
      /\ DOMAIN C = DOMAIN B \ {a} /\ \A b \in DOMAIN B : b # a => C[b] = B[b]
  BY Zenon DEF Without
<1> HIDE DEF U, C
<1>4. \A b \in DOMAIN C : BlockEnd(C, b) = BlockEnd(B, b)
  BY <1>3, Zenon DEF BlockEnd
<1>5. BlocksApart(C)
  BY <1>3, <1>4, Zenon DEF BlocksApart
<1>6. ASSUME NEW x \in DOMAIN U
      PROVE  TileAt(U, C, x)
  <2>1. x \in D /\ x # a /\ TileAt(T, B, x) /\ U[x] = T[x]
    BY <1>0, <1>3, <1>6, Zenon
  <2>2. \E b \in DOMAIN C : InBlock(U, C, x, b)
    <3>1. PICK b \in DOMAIN B : InBlock(T, B, x, b)
      BY <2>1, Zenon DEF TileAt
    <3>2. b # a
      <4> SUFFICES ASSUME b = a PROVE FALSE
        BY Zenon
      <4>1. a <= x /\ x + T[x].real_size <= a + T[a].real_size
        BY <1>2, <3>1, Zenon DEF InBlock
      <4>2. a + T[a].real_size <= x
        BY <1>0, <2>1, <4>1 DEF Tiles
      <4> QED
        BY <1>0, <2>1, <4>1, <4>2
    <3> QED
      BY <1>3, <1>4, <2>1, <3>1, <3>2, Zenon DEF InBlock
  <2>3. T[x].split_right # a /\ T[x].split_left # a
    BY <1>0, <2>1 DEF TileAt
  <2>4. U[x].split_left = 0 <=> x \in DOMAIN C
    BY <1>3, <2>1, Zenon DEF TileAt
  <2> QED
    BY <1>3, <2>1, <2>2, <2>3, <2>4, Zenon DEF TileAt
<1>7. Tiles(U, C)
  BY <1>3, <1>6, Zenon DEF Tiles
<1> QED
  BY <1>1, <1>2, <1>5, <1>7, Zenon DEF U, C

-----------------------------------------------------------------------------
\* A store into one field of the tag at a: what r has of h.
Framed(h, r) == IsHeap(r) /\ r.free = h.free /\ DOMAIN r.tags = DOMAIN h.tags

NextSet(h, r, a, v) ==
    /\ Framed(h, r)
    /\ \A x \in DOMAIN h.tags :
           /\ r.tags[x].next = IF x = a THEN v ELSE h.tags[x].next
           /\ SameTile(r.tags[x], h.tags[x])
           /\ r.tags[x].index = h.tags[x].index
           /\ r.tags[x].prev = h.tags[x].prev

PrevSet(h, r, a, v) ==
    /\ Framed(h, r)
    /\ \A x \in DOMAIN h.tags :
           /\ r.tags[x].prev = IF x = a THEN v ELSE h.tags[x].prev
           /\ SameTile(r.tags[x], h.tags[x])
           /\ r.tags[x].index = h.tags[x].index
           /\ r.tags[x].next = h.tags[x].next

IndexSet(h, r, a, v) ==
    /\ Framed(h, r)
    /\ \A x \in DOMAIN h.tags :
           /\ r.tags[x].index = IF x = a THEN v ELSE h.tags[x].index
           /\ SameTile(r.tags[x], h.tags[x])
           /\ r.tags[x].next = h.tags[x].next
           /\ r.tags[x].prev = h.tags[x].prev

LeftSet(h, r, a, v) ==
    /\ Framed(h, r)
    /\ \A x \in DOMAIN h.tags :
           /\ r.tags[x].split_left = IF x = a THEN v ELSE h.tags[x].split_left
           /\ SameLinks(r.tags[x], h.tags[x])
           /\ r.tags[x].size = h.tags[x].size
           /\ r.tags[x].real_size = h.tags[x].real_size
           /\ r.tags[x].split_right = h.tags[x].split_right

RightSet(h, r, a, v) ==
    /\ Framed(h, r)
    /\ \A x \in DOMAIN h.tags :
           /\ r.tags[x].split_right = IF x = a THEN v ELSE h.tags[x].split_right
           /\ SameLinks(r.tags[x], h.tags[x])
           /\ r.tags[x].size = h.tags[x].size
           /\ r.tags[x].real_size = h.tags[x].real_size
           /\ r.tags[x].split_left = h.tags[x].split_left

RealSet(h, r, a, v) ==
    /\ Framed(h, r)
    /\ \A x \in DOMAIN h.tags :
           /\ r.tags[x].real_size = IF x = a THEN v ELSE h.tags[x].real_size
           /\ SameLinks(r.tags[x], h.tags[x])
           /\ r.tags[x].size = h.tags[x].size
           /\ r.tags[x].split_left = h.tags[x].split_left
           /\ r.tags[x].split_right = h.tags[x].split_right

SizeSet(h, r, a, v) ==
    /\ Framed(h, r)
    /\ \A x \in DOMAIN h.tags :
           /\ r.tags[x].size = IF x = a THEN v ELSE h.tags[x].size
           /\ SameLinks(r.tags[x], h.tags[x])
           /\ r.tags[x].real_size = h.tags[x].real_size
           /\ r.tags[x].split_left = h.tags[x].split_left
           /\ r.tags[x].split_right = h.tags[x].split_right

\* SetTag stores into next of one tag, or into none.
LEMMA SetNext ==
    ASSUME NEW h, IsHeap(h), NEW a \in DOMAIN h.tags \cup {0}, NEW v \in Nat
    PROVE  NextSet(h, SetTag(h, a, "next", v), a, v)
<1> DEFINE r == SetTag(h, a, "next", v)
<1>1. CASE a = 0
  <2>1. r = h /\ a \notin DOMAIN h.tags
    BY <1>1, Zenon DEF SetTag, nullptr, IsHeap
  <2> QED
    BY <2>1, Zenon DEF NextSet, Framed, SameTile, SameLinks
<1>2. CASE a # 0
  <2>1. r = [h EXCEPT !.tags[a]["next"] = v]
    BY <1>2, Zenon DEF SetTag, nullptr
  <2> HIDE DEF r
  <2> QED
    BY <1>2, <2>1 DEF NextSet, Framed, IsHeap, TagType, SameTile, SameLinks, r
<1> QED
  BY <1>1, <1>2, Zenon

\* SetTag stores into prev of one tag, or into none.
LEMMA SetPrev ==
    ASSUME NEW h, IsHeap(h), NEW a \in DOMAIN h.tags \cup {0}, NEW v \in Nat
    PROVE  PrevSet(h, SetTag(h, a, "prev", v), a, v)
<1> DEFINE r == SetTag(h, a, "prev", v)
<1>1. CASE a = 0
  <2>1. r = h /\ a \notin DOMAIN h.tags
    BY <1>1, Zenon DEF SetTag, nullptr, IsHeap
  <2> QED
    BY <2>1, Zenon DEF PrevSet, Framed, SameTile, SameLinks
<1>2. CASE a # 0
  <2>1. r = [h EXCEPT !.tags[a]["prev"] = v]
    BY <1>2, Zenon DEF SetTag, nullptr
  <2> HIDE DEF r
  <2> QED
    BY <1>2, <2>1 DEF PrevSet, Framed, IsHeap, TagType, SameTile, SameLinks, r
<1> QED
  BY <1>1, <1>2, Zenon

\* SetTag stores into index of one tag, or into none.
LEMMA SetIndex ==
    ASSUME NEW h, IsHeap(h), NEW a \in DOMAIN h.tags \cup {0}, NEW v \in Exponent \cup {-1}
    PROVE  IndexSet(h, SetTag(h, a, "index", v), a, v)
<1> DEFINE r == SetTag(h, a, "index", v)
<1>1. CASE a = 0
  <2>1. r = h /\ a \notin DOMAIN h.tags
    BY <1>1, Zenon DEF SetTag, nullptr, IsHeap
  <2> QED
    BY <2>1, Zenon DEF IndexSet, Framed, SameTile, SameLinks
<1>2. CASE a # 0
  <2>1. r = [h EXCEPT !.tags[a]["index"] = v]
    BY <1>2, Zenon DEF SetTag, nullptr
  <2> HIDE DEF r
  <2> QED
    BY <1>2, <2>1 DEF IndexSet, Framed, IsHeap, TagType, SameTile, SameLinks, r
<1> QED
  BY <1>1, <1>2, Zenon

\* SetTag stores into split_left of one tag, or into none.
LEMMA SetLeft ==
    ASSUME NEW h, IsHeap(h), NEW a \in DOMAIN h.tags \cup {0}, NEW v \in Nat
    PROVE  LeftSet(h, SetTag(h, a, "split_left", v), a, v)
<1> DEFINE r == SetTag(h, a, "split_left", v)
<1>1. CASE a = 0
  <2>1. r = h /\ a \notin DOMAIN h.tags
    BY <1>1, Zenon DEF SetTag, nullptr, IsHeap
  <2> QED
    BY <2>1, Zenon DEF LeftSet, Framed, SameTile, SameLinks
<1>2. CASE a # 0
  <2>1. r = [h EXCEPT !.tags[a]["split_left"] = v]
    BY <1>2, Zenon DEF SetTag, nullptr
  <2> HIDE DEF r
  <2> QED
    BY <1>2, <2>1 DEF LeftSet, Framed, IsHeap, TagType, SameTile, SameLinks, r
<1> QED
  BY <1>1, <1>2, Zenon

\* SetTag stores into split_right of one tag, or into none.
LEMMA SetRight ==
    ASSUME NEW h, IsHeap(h), NEW a \in DOMAIN h.tags \cup {0}, NEW v \in Nat
    PROVE  RightSet(h, SetTag(h, a, "split_right", v), a, v)
<1> DEFINE r == SetTag(h, a, "split_right", v)
<1>1. CASE a = 0
  <2>1. r = h /\ a \notin DOMAIN h.tags
    BY <1>1, Zenon DEF SetTag, nullptr, IsHeap
  <2> QED
    BY <2>1, Zenon DEF RightSet, Framed, SameTile, SameLinks
<1>2. CASE a # 0
  <2>1. r = [h EXCEPT !.tags[a]["split_right"] = v]
    BY <1>2, Zenon DEF SetTag, nullptr
  <2> HIDE DEF r
  <2> QED
    BY <1>2, <2>1 DEF RightSet, Framed, IsHeap, TagType, SameTile, SameLinks, r
<1> QED
  BY <1>1, <1>2, Zenon

\* SetTag stores into real_size of one tag, or into none.
LEMMA SetReal ==
    ASSUME NEW h, IsHeap(h), NEW a \in DOMAIN h.tags \cup {0}, NEW v \in Nat
    PROVE  RealSet(h, SetTag(h, a, "real_size", v), a, v)
<1> DEFINE r == SetTag(h, a, "real_size", v)
<1>1. CASE a = 0
  <2>1. r = h /\ a \notin DOMAIN h.tags
    BY <1>1, Zenon DEF SetTag, nullptr, IsHeap
  <2> QED
    BY <2>1, Zenon DEF RealSet, Framed, SameTile, SameLinks
<1>2. CASE a # 0
  <2>1. r = [h EXCEPT !.tags[a]["real_size"] = v]
    BY <1>2, Zenon DEF SetTag, nullptr
  <2> HIDE DEF r
  <2> QED
    BY <1>2, <2>1 DEF RealSet, Framed, IsHeap, TagType, SameTile, SameLinks, r
<1> QED
  BY <1>1, <1>2, Zenon

\* SetTag stores into size of one tag, or into none.
LEMMA SetSize ==
    ASSUME NEW h, IsHeap(h), NEW a \in DOMAIN h.tags \cup {0}, NEW v \in Nat
    PROVE  SizeSet(h, SetTag(h, a, "size", v), a, v)
<1> DEFINE r == SetTag(h, a, "size", v)
<1>1. CASE a = 0
  <2>1. r = h /\ a \notin DOMAIN h.tags
    BY <1>1, Zenon DEF SetTag, nullptr, IsHeap
  <2> QED
    BY <2>1, Zenon DEF SizeSet, Framed, SameTile, SameLinks
<1>2. CASE a # 0
  <2>1. r = [h EXCEPT !.tags[a]["size"] = v]
    BY <1>2, Zenon DEF SetTag, nullptr
  <2> HIDE DEF r
  <2> QED
    BY <1>2, <2>1 DEF SizeSet, Framed, IsHeap, TagType, SameTile, SameLinks, r
<1> QED
  BY <1>1, <1>2, Zenon

\* The tag at a is no longer one; the others stay as they are.
Gone(h, r, a) == /\ IsHeap(r) /\ r.free = h.free /\ DOMAIN r.tags = DOMAIN h.tags \ {a}
                 /\ \A x \in DOMAIN r.tags : r.tags[x] = h.tags[x]

\* Drop takes the tag away.
LEMMA Dropped == ASSUME NEW h, IsHeap(h), NEW a PROVE Gone(h, Drop(h, a), a)
  BY DEF Drop, Without, IsHeap, Gone

-----------------------------------------------------------------------------
\* The links of the free lists are each other's inverse, and tags outside the
\* lists have none.
Heads(h) ==
    \A e \in Exponent : h.free[e] # 0 =>
        /\ h.free[e] \in DOMAIN h.tags
        /\ h.tags[h.free[e]].index = e /\ h.tags[h.free[e]].prev = 0
LinkedAt(h, a) ==
    /\ h.tags[a].prev = 0 => h.free[h.tags[a].index] = a
    /\ h.tags[a].next # 0 => /\ h.tags[a].next \in DOMAIN h.tags
                             /\ h.tags[h.tags[a].next].prev = a
                             /\ h.tags[h.tags[a].next].index = h.tags[a].index
    /\ h.tags[a].prev # 0 => /\ h.tags[a].prev \in DOMAIN h.tags
                             /\ h.tags[h.tags[a].prev].next = a
                             /\ h.tags[h.tags[a].prev].index = h.tags[a].index
Lists(h) ==
    /\ Heads(h)
    /\ \A a \in DOMAIN h.tags : h.tags[a].index # -1 => LinkedAt(h, a)
    /\ \A a \in DOMAIN h.tags : h.tags[a].index = -1 => h.tags[a].next = 0 /\ h.tags[a].prev = 0

\* Lists do not depend on the other fields, nor on tags that are in none.
LEMMA ListsKept ==
    ASSUME NEW h, IsHeap(h), Lists(h), NEW r, r.free = h.free,
           DOMAIN r.tags \subseteq DOMAIN h.tags,
           \A x \in DOMAIN h.tags : h.tags[x].index # -1 => x \in DOMAIN r.tags,
           \A x \in DOMAIN r.tags : SameLinks(r.tags[x], h.tags[x])
    PROVE  Lists(r)
<1>0. \A x \in DOMAIN h.tags : h.tags[x].index \in Exponent \cup {-1}
  BY Zenon DEF IsHeap, TagType
<1>00. -1 \notin Exponent
  BY HeapAssumption DEF Exponent
<1>1. Heads(r)
  BY <1>00 DEF Lists, Heads, SameLinks
<1>2. ASSUME NEW a \in DOMAIN r.tags, r.tags[a].index # -1
      PROVE  LinkedAt(r, a)
  BY <1>2, SMTT(25) DEF Lists, LinkedAt, SameLinks
<1>3. ASSUME NEW a \in DOMAIN r.tags, r.tags[a].index = -1
      PROVE  r.tags[a].next = 0 /\ r.tags[a].prev = 0
  BY <1>3 DEF Lists, SameLinks
<1> QED
  BY <1>1, <1>2, <1>3, Zenon DEF Lists

\* The tag at a is out of its list, and its neighbours know each other.
Removed(h, r, a) ==
    /\ IsHeap(r) /\ DOMAIN r.tags = DOMAIN h.tags
    /\ r.tags[a].index = -1 /\ r.tags[a].next = 0 /\ r.tags[a].prev = 0
    /\ \A x \in DOMAIN h.tags : SameTile(r.tags[x], h.tags[x])
    /\ \A x \in DOMAIN h.tags : x # a =>
           /\ r.tags[x].index = h.tags[x].index
           /\ r.tags[x].next = (IF x = h.tags[a].prev THEN h.tags[a].next ELSE h.tags[x].next)
           /\ r.tags[x].prev = (IF x = h.tags[a].next THEN h.tags[a].prev ELSE h.tags[x].prev)
    /\ \A e \in Exponent :
           r.free[e] = IF e = h.tags[a].index /\ h.free[e] = a THEN h.tags[a].next ELSE h.free[e]

\* remove_tag unlinks one tag of a list.
LEMMA RemoveFields ==
    ASSUME NEW h, IsHeap(h), Lists(h), NEW a \in DOMAIN h.tags, h.tags[a].index # -1
    PROVE  Removed(h, remove_tag(h, a), a)
<1> DEFINE t  == h.tags[a]
           p  == t.prev
           n  == t.next
           h1 == IF h.free[t.index] = a THEN [h EXCEPT !.free[t.index] = n] ELSE h
           g  == SetTag(h1, p, "next", n)
           h2 == SetTag(g, n, "prev", p)
           r1 == SetTag(h2, a, "next", 0)
           r2 == SetTag(r1, a, "prev", 0)
           r  == SetTag(r2, a, "index", -1)
           D  == DOMAIN h.tags
<1>1. /\ t.index \in Exponent /\ n \in D \cup {0} /\ p \in D \cup {0} /\ n \in Nat /\ p \in Nat
      /\ a \in D \cup {0} /\ 0 \in Nat /\ -1 \in Exponent \cup {-1}
  BY DEF IsHeap, Lists, LinkedAt, TagType
<1>2. /\ IsHeap(h1) /\ h1.tags = h.tags
      /\ \A e \in Exponent : h1.free[e] = IF e = t.index /\ h.free[e] = a THEN n ELSE h.free[e]
  BY <1>1, Zenon DEF IsHeap
<1>3. remove_tag(h, a) = r
  BY Zenon DEF remove_tag, nullptr
<1> HIDE DEF p, n, h1
<1>4. NextSet(h1, g, p, n) /\ IsHeap(g) /\ DOMAIN g.tags = D /\ g.free = h1.free
  <2>1. NextSet(h1, g, p, n)
    BY <1>1, <1>2, SetNext, Zenon
  <2> QED
    BY <1>2, <2>1, Zenon DEF NextSet, Framed
<1> HIDE DEF g
<1>5. PrevSet(g, h2, n, p) /\ IsHeap(h2) /\ DOMAIN h2.tags = D /\ h2.free = h1.free
  <2>1. PrevSet(g, h2, n, p)
    BY <1>1, <1>4, SetPrev, Zenon
  <2> QED
    BY <1>4, <2>1, Zenon DEF PrevSet, Framed
<1> HIDE DEF h2
<1>6. NextSet(h2, r1, a, 0) /\ IsHeap(r1) /\ DOMAIN r1.tags = D /\ r1.free = h1.free
  <2>1. NextSet(h2, r1, a, 0)
    BY <1>1, <1>5, SetNext, Zenon
  <2> QED
    BY <1>5, <2>1, Zenon DEF NextSet, Framed
<1> HIDE DEF r1
<1>7. PrevSet(r1, r2, a, 0) /\ IsHeap(r2) /\ DOMAIN r2.tags = D /\ r2.free = h1.free
  <2>1. PrevSet(r1, r2, a, 0)
    BY <1>1, <1>6, SetPrev, Zenon
  <2> QED
    BY <1>6, <2>1, Zenon DEF PrevSet, Framed
<1> HIDE DEF r2
<1>8. IndexSet(r2, r, a, -1) /\ IsHeap(r) /\ DOMAIN r.tags = D /\ r.free = h1.free
  <2>1. IndexSet(r2, r, a, -1)
    BY <1>1, <1>7, SetIndex, Zenon
  <2> QED
    BY <1>7, <2>1, Zenon DEF IndexSet, Framed
<1> HIDE DEF r
<1>9. \A x \in D : SameTile(r.tags[x], h.tags[x])
  BY <1>2, <1>4, <1>5, <1>6, <1>7, <1>8, SMTT(25) DEF NextSet, PrevSet, IndexSet, SameTile
<1>10. \A x \in D : r.tags[x].index = IF x = a THEN -1 ELSE h.tags[x].index
  BY <1>2, <1>4, <1>5, <1>6, <1>7, <1>8, SMTT(25) DEF NextSet, PrevSet, IndexSet
<1>11. \A x \in D : r.tags[x].next = IF x = a THEN 0 ELSE IF x = p THEN n ELSE h.tags[x].next
  BY <1>2, <1>4, <1>5, <1>6, <1>7, <1>8, SMTT(25) DEF NextSet, PrevSet, IndexSet
<1>12. \A x \in D : r.tags[x].prev = IF x = a THEN 0 ELSE IF x = n THEN p ELSE h.tags[x].prev
  BY <1>2, <1>4, <1>5, <1>6, <1>7, <1>8 DEF NextSet, PrevSet, IndexSet
<1>13. Removed(h, r, a)
  BY <1>2, <1>8, <1>9, <1>10, <1>11, <1>12 DEF Removed, p, n
<1> QED
  BY <1>3, <1>13, Zenon

\* The lists stay sound when a tag is taken out.
LEMMA RemoveLists ==
    ASSUME NEW h, IsHeap(h), Lists(h), NEW a \in DOMAIN h.tags, h.tags[a].index # -1,
           NEW r, Removed(h, r, a)
    PROVE  Lists(r)
<1> DEFINE D == DOMAIN h.tags
           p == h.tags[a].prev
           n == h.tags[a].next
           i == h.tags[a].index
<1>1. /\ DOMAIN r.tags = D /\ r.tags[a].index = -1 /\ r.tags[a].next = 0 /\ r.tags[a].prev = 0
      /\ \A e \in Exponent : r.free[e] = IF e = i /\ h.free[e] = a THEN n ELSE h.free[e]
  BY Zenon DEF Removed
<1>2. ASSUME NEW x \in D, x # a
      PROVE  /\ r.tags[x].index = h.tags[x].index
             /\ r.tags[x].next = IF x = p THEN n ELSE h.tags[x].next
             /\ r.tags[x].prev = IF x = n THEN p ELSE h.tags[x].prev
  BY <1>2, Zenon DEF Removed
<1>3. /\ -1 \notin Exponent /\ 0 \notin D /\ i \in Exponent
      /\ \A x \in D : h.tags[x].index \in Exponent \cup {-1}
  <2>1. -1 \notin Exponent
    BY HeapAssumption DEF Exponent
  <2> QED
    BY <2>1, Zenon DEF IsHeap, TagType
<1>4. /\ p = 0 => h.free[i] = a
      /\ n # 0 => n \in D /\ h.tags[n].prev = a /\ h.tags[n].index = i
      /\ p # 0 => p \in D /\ h.tags[p].next = a /\ h.tags[p].index = i
  <2>1. LinkedAt(h, a)
    BY Zenon DEF Lists
  <2> QED
    BY <2>1, Zenon DEF LinkedAt
<1>5. \A e \in Exponent : h.free[e] # 0 =>
          h.free[e] \in D /\ h.tags[h.free[e]].index = e /\ h.tags[h.free[e]].prev = 0
  BY Zenon DEF Lists, Heads
<1>6. a # 0 /\ (n = a <=> p = a) /\ (h.free[i] = a => p = 0)
  <2>1. a # 0
    BY <1>3, Zenon
  <2>2. h.free[i] = a => p = 0
    BY <1>3, <1>5, <2>1
  <2> QED
    BY <1>4, <2>1, <2>2, Zenon
<1> HIDE DEF p, n, i
<1>7. Heads(r)
  <2> SUFFICES ASSUME NEW e \in Exponent, r.free[e] # 0
               PROVE  /\ r.free[e] \in D
                      /\ r.tags[r.free[e]].index = e /\ r.tags[r.free[e]].prev = 0
    BY <1>1, Zenon DEF Heads
  <2>1. CASE e = i /\ h.free[e] = a
    <3>1. r.free[e] = n /\ p = 0 /\ n # 0 /\ n # a
      BY <1>1, <1>6, <2>1, Zenon
    <3>2. n \in D /\ r.tags[n].index = h.tags[n].index /\ r.tags[n].prev = p
      BY <1>2, <1>4, <3>1, Zenon
    <3> QED
      BY <1>4, <2>1, <3>1, <3>2, Zenon
  <2>2. CASE ~(e = i /\ h.free[e] = a)
    <3> DEFINE y == h.free[e]
    <3>1. r.free[e] = y /\ y # 0
      BY <1>1, <2>2, Zenon
    <3>2. y \in D /\ h.tags[y].index = e /\ h.tags[y].prev = 0
      BY <1>5, <3>1, Zenon
    <3>3. y # a
      BY <2>2, <3>2, Zenon DEF i
    <3>4. y # n
      BY <1>4, <1>6, <3>1, <3>2, Zenon
    <3> HIDE DEF y
    <3>5. r.tags[y].index = h.tags[y].index /\ r.tags[y].prev = h.tags[y].prev
      BY <1>2, <3>2, <3>3, <3>4, Zenon
    <3> QED
      BY <3>1, <3>2, <3>5, Zenon
  <2> QED
    BY <2>1, <2>2, Zenon
<1>8. ASSUME NEW x \in D, r.tags[x].index # -1
      PROVE  LinkedAt(r, x)
  <2>1. x # a /\ x # 0
    BY <1>1, <1>3, <1>8, Zenon
  <2>2. /\ r.tags[x].index = h.tags[x].index
        /\ r.tags[x].next = IF x = p THEN n ELSE h.tags[x].next
        /\ r.tags[x].prev = IF x = n THEN p ELSE h.tags[x].prev
    BY <1>2, <2>1, Zenon
  <2>3. h.tags[x].index \in Exponent /\ LinkedAt(h, x)
    BY <1>3, <1>8, <2>2, Zenon DEF Lists
  <2>4. r.tags[x].prev = 0 => r.free[h.tags[x].index] = x
    <3>1. CASE x = n
      BY <1>1, <1>3, <1>4, <2>1, <2>2, <3>1, Zenon
    <3>2. CASE x # n
      <4>1. r.tags[x].prev = 0 => h.free[h.tags[x].index] = x
        BY <2>2, <2>3, <3>2, Zenon DEF LinkedAt
      <4> QED
        BY <1>1, <2>1, <2>3, <4>1, Zenon
    <3> QED
      BY <3>1, <3>2, Zenon
  <2>5. ASSUME NEW y, y = r.tags[x].next, y # 0
        PROVE  y \in D /\ r.tags[y].prev = x /\ r.tags[y].index = h.tags[x].index
    <3>1. CASE x = p
      <4>1. y = n /\ n \in D /\ h.tags[n].index = i /\ h.tags[x].index = i
        BY <1>4, <2>1, <2>2, <2>5, <3>1, Zenon
      <4>2. n # a
        BY <1>6, <2>1, <3>1, Zenon
      <4>3. r.tags[n].prev = p /\ r.tags[n].index = h.tags[n].index
        BY <1>2, <4>1, <4>2, Zenon
      <4> QED
        BY <3>1, <4>1, <4>3, Zenon
    <3>2. CASE x # p
      <4>1. y = h.tags[x].next
        BY <2>2, <2>5, <3>2, Zenon
      <4>2. y \in D /\ h.tags[y].prev = x /\ h.tags[y].index = h.tags[x].index
        BY <2>3, <2>5, <4>1, Zenon DEF LinkedAt
      <4>3. y # a
        BY <3>2, <4>2, Zenon DEF p
      <4>4. y # n
        BY <1>4, <2>1, <2>5, <4>2, Zenon
      <4>5. r.tags[y].prev = h.tags[y].prev /\ r.tags[y].index = h.tags[y].index
        BY <1>2, <4>2, <4>3, <4>4, Zenon
      <4> QED
        BY <4>2, <4>5, Zenon
    <3> QED
      BY <3>1, <3>2, Zenon
  <2>6. ASSUME NEW y, y = r.tags[x].prev, y # 0
        PROVE  y \in D /\ r.tags[y].next = x /\ r.tags[y].index = h.tags[x].index
    <3>1. CASE x = n
      <4>1. y = p /\ p \in D /\ h.tags[p].index = i /\ h.tags[x].index = i
        BY <1>4, <2>1, <2>2, <2>6, <3>1, Zenon
      <4>2. p # a
        BY <1>6, <2>1, <3>1, Zenon
      <4>3. r.tags[p].next = n /\ r.tags[p].index = h.tags[p].index
        BY <1>2, <4>1, <4>2, Zenon
      <4> QED
        BY <3>1, <4>1, <4>3, Zenon
    <3>2. CASE x # n
      <4>1. y = h.tags[x].prev
        BY <2>2, <2>6, <3>2, Zenon
      <4>2. y \in D /\ h.tags[y].next = x /\ h.tags[y].index = h.tags[x].index
        BY <2>3, <2>6, <4>1, Zenon DEF LinkedAt
      <4>3. y # a
        BY <3>2, <4>2, Zenon DEF n
      <4>4. y # p
        BY <1>4, <2>1, <2>6, <4>2, Zenon
      <4>5. r.tags[y].next = h.tags[y].next /\ r.tags[y].index = h.tags[y].index
        BY <1>2, <4>2, <4>3, <4>4, Zenon
      <4> QED
        BY <4>2, <4>5, Zenon
    <3> QED
      BY <3>1, <3>2, Zenon
  <2> QED
    BY <1>1, <2>2, <2>4, <2>5, <2>6, Zenon DEF LinkedAt
<1>9. ASSUME NEW x \in D, r.tags[x].index = -1
      PROVE  r.tags[x].next = 0 /\ r.tags[x].prev = 0
  <2>1. CASE x = a
    BY <1>1, <2>1, Zenon
  <2>2. CASE x # a
    <3>1. h.tags[x].index = -1
      BY <1>2, <1>9, <2>2, Zenon
    <3>2. h.tags[x].next = 0 /\ h.tags[x].prev = 0
      BY <3>1, Zenon DEF Lists
    <3>3. x # p /\ x # n
      BY <1>3, <1>4, <3>1, Zenon
    <3> QED
      BY <1>2, <2>2, <3>2, <3>3, Zenon
  <2> QED
    BY <2>1, <2>2, Zenon
<1> QED
  BY <1>1, <1>7, <1>8, <1>9, Zenon DEF Lists

\* The tag at a is at the head of list e.
Inserted(h, r, a, e) ==
    /\ IsHeap(r) /\ DOMAIN r.tags = DOMAIN h.tags
    /\ r.tags[a].index = e /\ r.tags[a].next = h.free[e] /\ r.tags[a].prev = 0
    /\ \A x \in DOMAIN h.tags : SameTile(r.tags[x], h.tags[x])
    /\ \A x \in DOMAIN h.tags : x # a =>
           /\ r.tags[x].index = h.tags[x].index /\ r.tags[x].next = h.tags[x].next
           /\ r.tags[x].prev = (IF x = h.free[e] THEN a ELSE h.tags[x].prev)
    /\ \A i \in Exponent : r.free[i] = IF i = e THEN a ELSE h.free[i]

\* insert_tag puts a tag that is in no list at the head of one.
LEMMA InsertFields ==
    ASSUME NEW h, IsHeap(h), Lists(h), NEW a \in DOMAIN h.tags, h.tags[a].index = -1,
           NEW e \in Exponent
    PROVE  Inserted(h, insert_tag(h, a, e), a, e)
<1> DEFINE head == h.free[e]
           h1 == SetTag(h, a, "index", e)
           g  == SetTag(h1, head, "prev", a)
           k  == SetTag(g, a, "next", head)
           h2 == IF head = 0 THEN h1 ELSE k
           r  == [h2 EXCEPT !.free[e] = a]
           D  == DOMAIN h.tags
<1>1. /\ head \in D \cup {0} /\ head \in Nat /\ head # a /\ 0 \notin D
      /\ a \in D \cup {0} /\ a \in Nat /\ e \in Exponent \cup {-1} /\ e # -1
      /\ h.tags[a].next = 0 /\ h.tags[a].prev = 0
  <2>1. e # -1 /\ e \in Exponent \cup {-1}
    BY HeapAssumption DEF Exponent
  <2>2. 0 \notin D /\ a \in D \cup {0} /\ a \in Nat /\ h.tags[a].next = 0 /\ h.tags[a].prev = 0
    BY Zenon DEF IsHeap, Lists
  <2>3. head \in Nat
    BY Zenon DEF IsHeap
  <2>4. head # 0 => head \in D /\ h.tags[head].index = e
    BY Zenon DEF Lists, Heads
  <2> QED
    BY <2>1, <2>2, <2>3, <2>4, Zenon
<1>2. insert_tag(h, a, e) = r
  BY Zenon DEF insert_tag, nullptr
<1> HIDE DEF head
<1>3. IndexSet(h, h1, a, e) /\ IsHeap(h1) /\ DOMAIN h1.tags = D /\ h1.free = h.free
  <2>1. IndexSet(h, h1, a, e)
    BY <1>1, SetIndex, Zenon
  <2> QED
    BY <2>1, Zenon DEF IndexSet, Framed
<1> HIDE DEF h1
<1>4. PrevSet(h1, g, head, a) /\ IsHeap(g) /\ DOMAIN g.tags = D /\ g.free = h.free
  <2>1. PrevSet(h1, g, head, a)
    BY <1>1, <1>3, SetPrev, Zenon
  <2> QED
    BY <1>3, <2>1, Zenon DEF PrevSet, Framed
<1> HIDE DEF g
<1>5. NextSet(g, k, a, head) /\ IsHeap(k) /\ DOMAIN k.tags = D /\ k.free = h.free
  <2>1. NextSet(g, k, a, head)
    BY <1>1, <1>4, SetNext, Zenon
  <2> QED
    BY <1>4, <2>1, Zenon DEF NextSet, Framed
<1> HIDE DEF k
<1>6. /\ IsHeap(h2) /\ h2.free = h.free /\ DOMAIN h2.tags = D
      /\ \A x \in D : SameTile(h2.tags[x], h.tags[x])
      /\ \A x \in D : h2.tags[x].index = IF x = a THEN e ELSE h.tags[x].index
      /\ \A x \in D : h2.tags[x].next = IF x = a THEN head ELSE h.tags[x].next
      /\ \A x \in D : h2.tags[x].prev = IF x = head THEN a ELSE h.tags[x].prev
  <2>1. CASE head = 0
    BY <1>1, <1>3, <2>1, Zenon DEF IndexSet
  <2>2. CASE head # 0
    <3>1. h2 = k
      BY <2>2, Zenon
    <3> HIDE DEF h2
    <3>2. \A x \in D : SameTile(k.tags[x], h.tags[x])
      BY <1>3, <1>4, <1>5 DEF IndexSet, PrevSet, NextSet, SameTile
    <3>3. \A x \in D : k.tags[x].index = IF x = a THEN e ELSE h.tags[x].index
      BY <1>3, <1>4, <1>5 DEF IndexSet, PrevSet, NextSet
    <3>4. \A x \in D : k.tags[x].next = IF x = a THEN head ELSE h.tags[x].next
      BY <1>3, <1>4, <1>5 DEF IndexSet, PrevSet, NextSet
    <3>5. \A x \in D : k.tags[x].prev = IF x = head THEN a ELSE h.tags[x].prev
      BY <1>3, <1>4, <1>5 DEF IndexSet, PrevSet, NextSet
    <3> QED
      BY <1>5, <3>1, <3>2, <3>3, <3>4, <3>5, Zenon
  <2> QED
    BY <2>1, <2>2, Zenon
<1> HIDE DEF h2
<1>7. /\ IsHeap(r) /\ r.tags = h2.tags
      /\ \A i \in Exponent : r.free[i] = IF i = e THEN a ELSE h.free[i]
  BY <1>1, <1>6 DEF IsHeap
<1> HIDE DEF r
<1>8. Inserted(h, r, a, e)
  BY <1>1, <1>6, <1>7 DEF Inserted, head
<1> QED
  BY <1>2, <1>8, Zenon

\* The lists stay sound when a tag is put in.
LEMMA InsertLists ==
    ASSUME NEW h, IsHeap(h), Lists(h), NEW a \in DOMAIN h.tags, h.tags[a].index = -1,
           NEW e \in Exponent, NEW r, Inserted(h, r, a, e)
    PROVE  Lists(r)
<1> DEFINE head == h.free[e]
           D == DOMAIN h.tags
<1>1. /\ DOMAIN r.tags = D /\ r.tags[a].index = e /\ r.tags[a].next = head /\ r.tags[a].prev = 0
      /\ \A i \in Exponent : r.free[i] = IF i = e THEN a ELSE h.free[i]
  BY Zenon DEF Inserted
<1>2. ASSUME NEW x \in D, x # a
      PROVE  /\ r.tags[x].index = h.tags[x].index /\ r.tags[x].next = h.tags[x].next
             /\ r.tags[x].prev = IF x = head THEN a ELSE h.tags[x].prev
  BY <1>2, Zenon DEF Inserted
<1>3. /\ -1 \notin Exponent /\ 0 \notin D /\ h.tags[a].next = 0 /\ h.tags[a].prev = 0
      /\ \A x \in D : h.tags[x].index \in Exponent \cup {-1}
  <2>1. -1 \notin Exponent
    BY HeapAssumption DEF Exponent
  <2>2. 0 \notin D /\ \A x \in D : h.tags[x].index \in Exponent \cup {-1}
    BY Zenon DEF IsHeap, TagType
  <2> QED
    BY <2>1, <2>2, Zenon DEF Lists
<1>4. \A i \in Exponent : h.free[i] # 0 =>
          h.free[i] \in D /\ h.tags[h.free[i]].index = i /\ h.tags[h.free[i]].prev = 0
  BY Zenon DEF Lists, Heads
<1>5. a # 0 /\ head # a /\ (head # 0 => head \in D /\ h.tags[head].index = e /\ h.tags[head].prev = 0)
  BY <1>3, <1>4
<1> HIDE DEF head
<1>6. Heads(r)
  <2> SUFFICES ASSUME NEW i \in Exponent, r.free[i] # 0
               PROVE  /\ r.free[i] \in D
                      /\ r.tags[r.free[i]].index = i /\ r.tags[r.free[i]].prev = 0
    BY <1>1, Zenon DEF Heads
  <2>1. CASE i = e
    BY <1>1, <2>1, Zenon
  <2>2. CASE i # e
    <3> DEFINE y == h.free[i]
    <3>1. r.free[i] = y /\ y \in D /\ h.tags[y].index = i /\ h.tags[y].prev = 0
      BY <1>1, <1>4, <2>2, Zenon
    <3>2. y # a /\ y # head
      BY <1>3, <1>5, <2>2, <3>1, Zenon
    <3> HIDE DEF y
    <3>3. r.tags[y].index = i /\ r.tags[y].prev = 0
      BY <1>2, <3>1, <3>2, Zenon
    <3> QED
      BY <3>1, <3>3, Zenon
  <2> QED
    BY <2>1, <2>2, Zenon
<1>7. ASSUME NEW x \in D, r.tags[x].index # -1
      PROVE  LinkedAt(r, x)
  <2>1. CASE x = a
    <3>1. head # 0 => r.tags[head].prev = a /\ r.tags[head].index = e
      BY <1>2, <1>5, Zenon
    <3> QED
      BY <1>1, <1>5, <2>1, <3>1, Zenon DEF LinkedAt
  <2>2. CASE x # a
    <3>1. /\ r.tags[x].index = h.tags[x].index /\ r.tags[x].next = h.tags[x].next
          /\ r.tags[x].prev = IF x = head THEN a ELSE h.tags[x].prev
      BY <1>2, <2>2, Zenon
    <3>2. h.tags[x].index \in Exponent /\ LinkedAt(h, x) /\ x # 0
      BY <1>3, <1>7, <3>1, Zenon DEF Lists
    <3>3. r.tags[x].prev = 0 => r.free[h.tags[x].index] = x
      <4>1. r.tags[x].prev = 0 => h.tags[x].prev = 0 /\ x # head
        BY <1>5, <3>1, Zenon
      <4>2. h.tags[x].prev = 0 => h.free[h.tags[x].index] = x
        BY <3>2, Zenon DEF LinkedAt
      <4>3. r.tags[x].prev = 0 => h.tags[x].index # e
        BY <4>1, <4>2, Zenon DEF head
      <4> QED
        BY <1>1, <3>2, <4>1, <4>2, <4>3, Zenon
    <3>4. ASSUME NEW y, y = h.tags[x].next, y # 0
          PROVE  y \in D /\ r.tags[y].prev = x /\ r.tags[y].index = h.tags[x].index
      <4>1. y \in D /\ h.tags[y].prev = x /\ h.tags[y].index = h.tags[x].index
        BY <3>2, <3>4, Zenon DEF LinkedAt
      <4>2. y # a /\ y # head
        BY <1>3, <1>5, <3>2, <4>1, Zenon
      <4>3. r.tags[y].prev = h.tags[y].prev /\ r.tags[y].index = h.tags[y].index
        BY <1>2, <4>1, <4>2, Zenon
      <4> QED
        BY <4>1, <4>3, Zenon
    <3>5. ASSUME NEW y, y = r.tags[x].prev, y # 0
          PROVE  y \in D /\ r.tags[y].next = x /\ r.tags[y].index = h.tags[x].index
      <4>1. CASE x = head
        BY <1>1, <1>5, <3>1, <3>2, <3>5, <4>1, Zenon
      <4>2. CASE x # head
        <5>1. y = h.tags[x].prev
          BY <3>1, <3>5, <4>2, Zenon
        <5>2. y \in D /\ h.tags[y].next = x /\ h.tags[y].index = h.tags[x].index
          BY <3>2, <3>5, <5>1, Zenon DEF LinkedAt
        <5>3. y # a
          BY <1>3, <3>2, <5>2, Zenon
        <5>4. r.tags[y].next = h.tags[y].next /\ r.tags[y].index = h.tags[y].index
          BY <1>2, <5>2, <5>3, Zenon
        <5> QED
          BY <5>2, <5>4, Zenon
      <4> QED
        BY <4>1, <4>2, Zenon
    <3> QED
      BY <1>1, <3>1, <3>3, <3>4, <3>5, Zenon DEF LinkedAt
  <2> QED
    BY <2>1, <2>2, Zenon
<1>8. ASSUME NEW x \in D, r.tags[x].index = -1
      PROVE  r.tags[x].next = 0 /\ r.tags[x].prev = 0
  <2>1. x # a
    BY <1>1, <1>3, <1>8
  <2>2. h.tags[x].index = -1
    BY <1>2, <1>8, <2>1, Zenon
  <2>3. h.tags[x].next = 0 /\ h.tags[x].prev = 0
    BY <2>2, Zenon DEF Lists
  <2>4. x # head
    BY <1>3, <1>5, <2>2, Zenon
  <2> QED
    BY <1>2, <2>1, <2>3, <2>4, Zenon
<1> QED
  BY <1>1, <1>6, <1>7, <1>8, Zenon DEF Lists

-----------------------------------------------------------------------------
\* The tag at a becomes part of its left neighbour l.
Merge(h, l, a) ==
    LET h1 == SetTag(h, l, "real_size", h.tags[l].real_size + h.tags[a].real_size)
        h2 == SetTag(h1, l, "split_right", h.tags[a].split_right)
    IN  Drop(SetTag(h2, h.tags[a].split_right, "split_left", l), a)

\* What merging leaves of the other fields.
LEMMA MergeFields ==
    ASSUME NEW h, IsHeap(h), NEW l \in DOMAIN h.tags, NEW a \in DOMAIN h.tags, l # a,
           h.tags[a].split_right \in DOMAIN h.tags \cup {0}
    PROVE  LET r == Merge(h, l, a) IN
           /\ IsHeap(r) /\ r.free = h.free /\ Merged(h.tags, r.tags, l, a)
           /\ \A x \in DOMAIN r.tags : /\ SameLinks(r.tags[x], h.tags[x])
                                       /\ r.tags[x].size = h.tags[x].size
<1> DEFINE T  == h.tags
           D  == DOMAIN T
           n  == T[l].real_size + T[a].real_size
           s  == T[a].split_right
           h1 == SetTag(h, l, "real_size", n)
           h2 == SetTag(h1, l, "split_right", s)
           h3 == SetTag(h2, s, "split_left", l)
           r  == Drop(h3, a)
<1>1. n \in Nat /\ s \in Nat /\ l \in Nat /\ l \in D \cup {0} /\ s \in D \cup {0}
  BY DEF IsHeap, TagType
<1>2. Merge(h, l, a) = r
  BY Zenon DEF Merge
<1> HIDE DEF n, s
<1>3. RealSet(h, h1, l, n) /\ IsHeap(h1) /\ DOMAIN h1.tags = D /\ h1.free = h.free
  <2>1. RealSet(h, h1, l, n)
    BY <1>1, SetReal, Zenon
  <2> QED
    BY <2>1, Zenon DEF RealSet, Framed
<1> HIDE DEF h1
<1>4. RightSet(h1, h2, l, s) /\ IsHeap(h2) /\ DOMAIN h2.tags = D /\ h2.free = h.free
  <2>1. RightSet(h1, h2, l, s)
    BY <1>1, <1>3, SetRight, Zenon
  <2> QED
    BY <1>3, <2>1, Zenon DEF RightSet, Framed
<1> HIDE DEF h2
<1>5. LeftSet(h2, h3, s, l) /\ IsHeap(h3) /\ DOMAIN h3.tags = D /\ h3.free = h.free
  <2>1. LeftSet(h2, h3, s, l)
    BY <1>1, <1>4, SetLeft, Zenon
  <2> QED
    BY <1>4, <2>1, Zenon DEF LeftSet, Framed
<1> HIDE DEF h3
<1>6. /\ IsHeap(r) /\ r.free = h.free /\ DOMAIN r.tags = D \ {a}
      /\ \A x \in DOMAIN r.tags : r.tags[x] = h3.tags[x]
  BY <1>5, Dropped DEF Gone
<1> HIDE DEF r
<1>7. \A x \in D : SameLinks(h3.tags[x], T[x]) /\ h3.tags[x].size = T[x].size
  BY <1>3, <1>4, <1>5 DEF RealSet, RightSet, LeftSet, SameLinks
<1>8. \A x \in D : /\ h3.tags[x].real_size = IF x = l THEN n ELSE T[x].real_size
                   /\ h3.tags[x].split_right = IF x = l THEN s ELSE T[x].split_right
                   /\ h3.tags[x].split_left = IF x = s THEN l ELSE T[x].split_left
  BY <1>3, <1>4, <1>5 DEF RealSet, RightSet, LeftSet
<1>9. Merged(T, r.tags, l, a)
  BY <1>6, <1>8 DEF Merged, n, s
<1> QED
  BY <1>2, <1>6, <1>7, <1>9, Zenon

\* A heap whose tags lie in the blocks B and whose lists are sound.
Sound(h, B) == IsHeap(h) /\ Lists(h) /\ Tiles(h.tags, B)

\* What merging leaves of the lists and of the tiles.
LEMMA MergeSound ==
    ASSUME NEW h, NEW B, BlocksApart(B), Sound(h, B),
           NEW l \in DOMAIN h.tags, NEW a \in DOMAIN h.tags, h.tags[l].split_right = a,
           h.tags[a].index = -1
    PROVE  LET r == Merge(h, l, a) IN
           /\ Sound(r, B) /\ DOMAIN r.tags = DOMAIN h.tags \ {a}
           /\ l # a /\ h.tags[a].split_left = l
           /\ \A x \in DOMAIN h.tags \ {a} :
                  /\ r.tags[x].index = h.tags[x].index /\ r.tags[x].size = h.tags[x].size
                  /\ x # l => /\ r.tags[x].real_size = h.tags[x].real_size
                              /\ r.tags[x].split_right = h.tags[x].split_right
<1> DEFINE T == h.tags
           r == Merge(h, l, a)
<1>1. IsHeap(h) /\ Lists(h) /\ Tiles(T, B) /\ Pieces(T)
  BY HeapPieces, Zenon DEF Sound
<1>2. l # a /\ T[a].split_left = l /\ T[a].split_right \in DOMAIN T \cup {0}
  <2>1. TileAt(T, B, l) /\ TileAt(T, B, a)
    BY <1>1, Zenon DEF Tiles
  <2>2. l \in Nat /\ a # 0 /\ T[l].real_size \in Nat /\ TagSize \in Nat \ {0}
    BY <1>1, HeapAssumption, Zenon DEF Pieces
  <2> QED
    BY <2>1, <2>2 DEF TileAt
<1>3. /\ IsHeap(r) /\ r.free = h.free /\ Merged(T, r.tags, l, a)
      /\ \A x \in DOMAIN r.tags : SameLinks(r.tags[x], T[x]) /\ r.tags[x].size = T[x].size
  BY <1>1, <1>2, MergeFields
<1> HIDE DEF r
<1>4. DOMAIN r.tags = DOMAIN T \ {a}
  BY <1>3, Zenon DEF Merged
<1>5. Lists(r)
  BY <1>1, <1>3, <1>4, ListsKept, Zenon
<1>6. Tiles(r.tags, B)
  BY <1>1, <1>3, MergeTiles, Zenon
<1>7. Sound(r, B)
  BY <1>3, <1>5, <1>6, Zenon DEF Sound
<1>8. \A x \in DOMAIN T \ {a} :
          /\ r.tags[x].index = T[x].index /\ r.tags[x].size = T[x].size
          /\ x # l => /\ r.tags[x].real_size = T[x].real_size
                      /\ r.tags[x].split_right = T[x].split_right
  BY <1>3, <1>4, Zenon DEF SameLinks, Merged
<1> QED
  BY <1>2, <1>4, <1>7, <1>8, Zenon DEF r

\* remove_tag leaves the tiles alone.
LEMMA RemoveSound ==
    ASSUME NEW h, NEW B, Sound(h, B), NEW a \in DOMAIN h.tags, h.tags[a].index # -1
    PROVE  LET r == remove_tag(h, a) IN
           /\ Sound(r, B) /\ DOMAIN r.tags = DOMAIN h.tags
           /\ \A x \in DOMAIN h.tags :
                  /\ SameTile(r.tags[x], h.tags[x])
                  /\ r.tags[x].index = IF x = a THEN -1 ELSE h.tags[x].index
<1> DEFINE r == remove_tag(h, a)
<1>1. IsHeap(h) /\ Lists(h) /\ Tiles(h.tags, B)
  BY Zenon DEF Sound
<1>2. Removed(h, r, a)
  BY <1>1, RemoveFields, Zenon
<1> HIDE DEF r
<1>3. Lists(r)
  BY <1>1, <1>2, RemoveLists, Zenon
<1>4. /\ IsHeap(r) /\ DOMAIN r.tags = DOMAIN h.tags
      /\ \A x \in DOMAIN h.tags : SameTile(r.tags[x], h.tags[x])
  BY <1>2, Zenon DEF Removed
<1>5. Tiles(r.tags, B)
  BY <1>1, <1>4, TilesKept, Zenon
<1>6. \A x \in DOMAIN h.tags : r.tags[x].index = IF x = a THEN -1 ELSE h.tags[x].index
  BY <1>2, Zenon DEF Removed
<1> QED
  BY <1>3, <1>4, <1>5, <1>6, Zenon DEF Sound, r

\* insert_tag leaves the tiles alone.
LEMMA InsertSound ==
    ASSUME NEW h, NEW B, Sound(h, B), NEW a \in DOMAIN h.tags, h.tags[a].index = -1,
           NEW e \in Exponent
    PROVE  LET r == insert_tag(h, a, e) IN
           /\ Sound(r, B) /\ DOMAIN r.tags = DOMAIN h.tags
           /\ \A x \in DOMAIN h.tags :
                  /\ SameTile(r.tags[x], h.tags[x])
                  /\ r.tags[x].index = IF x = a THEN e ELSE h.tags[x].index
<1> DEFINE r == insert_tag(h, a, e)
<1>1. IsHeap(h) /\ Lists(h) /\ Tiles(h.tags, B)
  BY Zenon DEF Sound
<1>2. Inserted(h, r, a, e)
  BY <1>1, InsertFields, Zenon
<1> HIDE DEF r
<1>3. Lists(r)
  BY <1>1, <1>2, InsertLists, Zenon
<1>4. /\ IsHeap(r) /\ DOMAIN r.tags = DOMAIN h.tags
      /\ \A x \in DOMAIN h.tags : SameTile(r.tags[x], h.tags[x])
  BY <1>2, Zenon DEF Inserted
<1>5. Tiles(r.tags, B)
  BY <1>1, <1>4, TilesKept, Zenon
<1>6. \A x \in DOMAIN h.tags : r.tags[x].index = IF x = a THEN e ELSE h.tags[x].index
  BY <1>2, Zenon DEF Inserted
<1> QED
  BY <1>3, <1>4, <1>5, <1>6, Zenon DEF Sound, r

AddTag(h, a, t) == [h EXCEPT !.tags = With(h.tags, a, t)]

\* A new tag that is in no list does not disturb the lists.
LEMMA Added ==
    ASSUME NEW h, IsHeap(h), Lists(h), NEW new \in Nat \ {0}, new \notin DOMAIN h.tags,
           NEW t \in TagType, t.index = -1, t.next = 0, t.prev = 0
    PROVE  LET r == AddTag(h, new, t) IN
           /\ IsHeap(r) /\ Lists(r) /\ r.tags = With(h.tags, new, t) /\ r.free = h.free
           /\ DOMAIN r.tags = DOMAIN h.tags \cup {new} /\ r.tags[new] = t
           /\ \A x \in DOMAIN h.tags : r.tags[x] = h.tags[x]
<1> DEFINE r == AddTag(h, new, t)
           D == DOMAIN h.tags
<1>1. /\ r.tags = With(h.tags, new, t) /\ r.free = h.free
      /\ r = [tags |-> r.tags, free |-> r.free]
  BY DEF IsHeap, AddTag
<1>2. /\ DOMAIN r.tags = D \cup {new} /\ r.tags[new] = t
      /\ \A x \in D : r.tags[x] = h.tags[x]
  BY <1>1, Zenon DEF With
<1>3. IsHeap(r)
  <2>1. r.tags \in [DOMAIN r.tags -> TagType]
    BY <1>1, <1>2 DEF With, IsHeap
  <2> QED
    BY <1>1, <1>2, <2>1, Zenon DEF IsHeap
<1> HIDE DEF r
<1>4. Heads(r)
  BY <1>1, <1>2, SMTT(30) DEF Lists, Heads
<1>5. ASSUME NEW x \in DOMAIN r.tags, r.tags[x].index # -1
      PROVE  LinkedAt(r, x)
  <2>1. x \in D /\ LinkedAt(h, x) /\ r.tags[x] = h.tags[x]
    BY <1>2, <1>5, Zenon DEF Lists
  <2> QED
    BY <1>1, <1>2, <2>1, Zenon DEF LinkedAt
<1>6. ASSUME NEW x \in DOMAIN r.tags, r.tags[x].index = -1
      PROVE  r.tags[x].next = 0 /\ r.tags[x].prev = 0
  BY <1>2, <1>6, Zenon DEF Lists
<1>7. Lists(r)
  BY <1>4, <1>5, <1>6, Zenon DEF Lists
<1> QED
  BY <1>1, <1>2, <1>3, <1>7, Zenon DEF r

\* split_tag without its call of insert_tag: the tag at a is cut, and the tag
\* at new has the rest.
Cut(h, a, new, rest) ==
    LET t  == h.tags[a]
        newTag == [size |-> 0, real_size |-> rest, index |-> -1, next |-> nullptr,
                   prev |-> nullptr, split_left |-> a, split_right |-> t.split_right]
        h1 == AddTag(h, new, newTag)
        h2 == SetTag(h1, t.split_right, "split_left", new)
    IN  SetTag(SetTag(h2, a, "split_right", new), a, "real_size", t.real_size - rest)


\* The fields after a cut; the lists stay as they were.
LEMMA CutFields ==
    ASSUME NEW h, IsHeap(h), Lists(h), NEW a \in DOMAIN h.tags, NEW new \in Nat \ {0},
           new \notin DOMAIN h.tags, h.tags[a].split_right \in DOMAIN h.tags \cup {0},
           NEW rest \in Nat, NEW n \in Nat, h.tags[a].real_size - rest = n,
           new = a + n, rest = h.tags[a].real_size - n
    PROVE  LET r == Cut(h, a, new, rest) IN
           /\ IsHeap(r) /\ Lists(r) /\ Halved(h.tags, r.tags, a, n) /\ r.tags[new].index = -1
           /\ \A x \in DOMAIN h.tags : /\ r.tags[x].index = h.tags[x].index
                                       /\ r.tags[x].size = h.tags[x].size
<1> DEFINE T == h.tags
           D == DOMAIN T
           E == D \cup {new}
           s == T[a].split_right
           newTag == [size |-> 0, real_size |-> rest, index |-> -1, next |-> 0,
                      prev |-> 0, split_left |-> a, split_right |-> s]
           h1 == AddTag(h, new, newTag)
           h2 == SetTag(h1, s, "split_left", new)
           h3 == SetTag(h2, a, "split_right", new)
           r  == SetTag(h3, a, "real_size", n)
<1>1. /\ s \in Nat /\ a \in Nat /\ new \in E /\ new # a /\ D \subseteq E /\ a \in E
      /\ a \in E \cup {0} /\ s \in E \cup {0} /\ s # new /\ new \in Nat
  BY Zenon DEF IsHeap, TagType
<1>2. /\ newTag \in TagType /\ newTag.index = -1 /\ newTag.next = 0 /\ newTag.prev = 0
      /\ newTag.real_size = rest /\ newTag.split_left = a /\ newTag.split_right = s
  <2> HIDE DEF s
  <2> QED
    BY <1>1, Zenon DEF TagType
<1>3. r = Cut(h, a, new, rest)
  BY Zenon DEF Cut, nullptr
<1> HIDE DEF newTag
<1>4. /\ IsHeap(h1) /\ Lists(h1) /\ DOMAIN h1.tags = E /\ h1.tags[new] = newTag
      /\ \A x \in D : h1.tags[x] = T[x]
  BY <1>2, Added
<1> HIDE DEF h1, s
<1>5. LeftSet(h1, h2, s, new) /\ IsHeap(h2) /\ DOMAIN h2.tags = E /\ h2.free = h1.free
  <2>1. LeftSet(h1, h2, s, new)
    BY <1>1, <1>4, SetLeft, Zenon
  <2> QED
    BY <1>4, <2>1, Zenon DEF LeftSet, Framed
<1> HIDE DEF h2
<1>6. RightSet(h2, h3, a, new) /\ IsHeap(h3) /\ DOMAIN h3.tags = E /\ h3.free = h1.free
  <2>1. RightSet(h2, h3, a, new)
    BY <1>1, <1>5, SetRight, Zenon
  <2> QED
    BY <1>5, <2>1, Zenon DEF RightSet, Framed
<1> HIDE DEF h3
<1>7. RealSet(h3, r, a, n) /\ IsHeap(r) /\ DOMAIN r.tags = E /\ r.free = h1.free
  <2>1. RealSet(h3, r, a, n)
    BY <1>1, <1>6, SetReal, Zenon
  <2> QED
    BY <1>6, <2>1, Zenon DEF RealSet, Framed
<1> HIDE DEF r
<1>8. \A x \in E : SameLinks(r.tags[x], h1.tags[x]) /\ r.tags[x].size = h1.tags[x].size
  BY <1>4, <1>5, <1>6, <1>7, SMTT(25) DEF SameLinks, LeftSet, RightSet, RealSet
<1>9. \A x \in E : /\ r.tags[x].real_size = IF x = a THEN n ELSE h1.tags[x].real_size
                   /\ r.tags[x].split_right = IF x = a THEN new ELSE h1.tags[x].split_right
                   /\ r.tags[x].split_left = IF x = s THEN new ELSE h1.tags[x].split_left
  BY <1>4, <1>5, <1>6, <1>7 DEF LeftSet, RightSet, RealSet
<1>10. Lists(r)
  BY <1>4, <1>7, <1>8, ListsKept, Zenon
<1>11. /\ r.tags[new].real_size = rest /\ r.tags[new].split_left = a
       /\ r.tags[new].split_right = s /\ r.tags[new].index = -1
  BY <1>1, <1>2, <1>4, <1>8, <1>9 DEF SameLinks
<1>12. \A x \in D : r.tags[x].index = T[x].index /\ r.tags[x].size = T[x].size
  BY <1>1, <1>4, <1>8 DEF SameLinks
<1>13. \A x \in D : /\ r.tags[x].real_size = IF x = a THEN n ELSE T[x].real_size
                    /\ r.tags[x].split_right = IF x = a THEN new ELSE T[x].split_right
                    /\ r.tags[x].split_left = IF x = s THEN new ELSE T[x].split_left
  BY <1>1, <1>4, <1>9
<1>14. Halved(T, r.tags, a, n)
  BY <1>7, <1>11, <1>13, Zenon DEF Halved, s
<1> QED
  BY <1>3, <1>7, <1>10, <1>11, <1>12, <1>14, Zenon

\* split_tag leaves the size asked for, and makes a free tag of the rest.
LEMMA SplitSound ==
    ASSUME EverySizeHasAList,
           NEW h, NEW B, BlocksApart(B), Sound(h, B), NEW a \in DOMAIN h.tags,
           h.tags[a].index = -1, h.tags[a].size + 2 * TagSize <= h.tags[a].real_size
    PROVE  LET r == split_tag(h, a)
               t == h.tags[a]
               new == a + TagSize + t.size
           IN  /\ Sound(r, B) /\ DOMAIN r.tags = DOMAIN h.tags \cup {new} /\ new \notin DOMAIN h.tags
               /\ r.tags[new].index = IndexOf(r.tags[new].real_size - TagSize)
               /\ r.tags[new].split_right = t.split_right
               /\ \A x \in DOMAIN h.tags :
                      /\ r.tags[x].index = h.tags[x].index /\ r.tags[x].size = h.tags[x].size
                      /\ r.tags[x].real_size = IF x = a THEN TagSize + t.size ELSE h.tags[x].real_size
                      /\ r.tags[x].split_right = IF x = a THEN new ELSE h.tags[x].split_right
<1> DEFINE T == h.tags
           D == DOMAIN T
           s == T[a].split_right
           n == TagSize + T[a].size
           new == a + TagSize + T[a].size
           rest == T[a].real_size - TagSize - T[a].size
           e == IndexOf(rest - TagSize)
           c == Cut(h, a, new, rest)
           r == insert_tag(c, new, e)
<1>1. /\ IsHeap(h) /\ Lists(h) /\ Tiles(T, B) /\ Pieces(T) /\ TileAt(T, B, a)
      /\ TagSize \in Nat \ {0} /\ T[a].size \in Nat /\ T[a].real_size \in Nat
      /\ a \in Nat \ {0} /\ 0 \notin D
  <2>1. IsHeap(h) /\ Lists(h) /\ Tiles(T, B) /\ Pieces(T)
    BY HeapPieces, Zenon DEF Sound
  <2>2. TileAt(T, B, a)
    BY <2>1, Zenon DEF Tiles
  <2>3. TagSize \in Nat \ {0}
    BY HeapAssumption, Zenon
  <2> QED
    BY <2>1, <2>2, <2>3, Zenon DEF IsHeap, TagType
<1>2. /\ new = a + n /\ n \in Nat /\ n >= TagSize /\ n + TagSize <= T[a].real_size
      /\ rest \in Nat /\ T[a].real_size - rest = n /\ rest = T[a].real_size - n
      /\ new \in Nat \ {0} /\ a < new /\ new < a + T[a].real_size /\ rest - TagSize \in Int
  BY <1>1, SMTT(25)
<1>3. new \notin D
  <2>1. new \in D => a + T[a].real_size <= new
    BY <1>1, <1>2, Zenon DEF Tiles
  <2> QED
    BY <1>1, <1>2, <2>1, SMTT(25)
<1>4. s \in D \cup {0}
  BY <1>1, Zenon DEF TileAt
<1>5. e \in Exponent
  BY <1>2, Zenon DEF EverySizeHasAList
<1>6. split_tag(h, a) = r
  <2>1. T[a].real_size - rest = T[a].real_size - (T[a].real_size - TagSize - T[a].size)
    BY Zenon DEF rest
  <2> QED
    BY Zenon DEF split_tag, Cut, AddTag
<1> HIDE DEF n, new, rest, e
<1>7. /\ IsHeap(c) /\ Lists(c) /\ Halved(T, c.tags, a, n) /\ c.tags[new].index = -1
      /\ \A x \in D : c.tags[x].index = T[x].index /\ c.tags[x].size = T[x].size
  <2>1. /\ IsHeap(h) /\ Lists(h) /\ new \in Nat \ {0} /\ new \notin D
        /\ T[a].split_right \in D \cup {0} /\ rest \in Nat /\ n \in Nat
        /\ T[a].real_size - rest = n /\ new = a + n /\ rest = T[a].real_size - n
    BY <1>1, <1>2, <1>3, <1>4, Zenon
  <2> QED
    BY <2>1, CutFields, SMTT(25)
<1> HIDE DEF c
<1>8. Tiles(c.tags, B)
  BY <1>1, <1>2, <1>7, SplitTiles, Zenon
<1>9. Sound(c, B) /\ DOMAIN c.tags = D \cup {new} /\ new \in DOMAIN c.tags
  BY <1>2, <1>7, <1>8, Zenon DEF Sound, Halved
<1>10. /\ Sound(r, B) /\ DOMAIN r.tags = DOMAIN c.tags
       /\ \A x \in DOMAIN c.tags : /\ SameTile(r.tags[x], c.tags[x])
                                   /\ r.tags[x].index = IF x = new THEN e ELSE c.tags[x].index
  BY <1>5, <1>7, <1>9, InsertSound
<1> HIDE DEF r
<1>11. /\ c.tags[new].real_size = rest /\ c.tags[new].split_right = s
       /\ \A x \in D : /\ c.tags[x].real_size = IF x = a THEN n ELSE T[x].real_size
                       /\ c.tags[x].split_right = IF x = a THEN new ELSE T[x].split_right
  BY <1>2, <1>7, Zenon DEF Halved
<1>12. r.tags[new].index = IndexOf(r.tags[new].real_size - TagSize) /\ r.tags[new].split_right = s
  BY <1>9, <1>10, <1>11, Zenon DEF SameTile, e
<1>13. \A x \in D : /\ r.tags[x].index = T[x].index /\ r.tags[x].size = T[x].size
                    /\ r.tags[x].real_size = IF x = a THEN n ELSE T[x].real_size
                    /\ r.tags[x].split_right = IF x = a THEN new ELSE T[x].split_right
  BY <1>3, <1>7, <1>9, <1>10, <1>11, SMTT(25) DEF SameTile
<1> QED
  BY <1>3, <1>6, <1>9, <1>10, <1>12, <1>13, Zenon DEF n, new

-----------------------------------------------------------------------------
\* Free tags are in the list of their size, and never side by side.
Homed(h) ==
    \A a \in DOMAIN h.tags : h.tags[a].index # -1 =>
        h.tags[a].index = IndexOf(h.tags[a].real_size - TagSize)
NeverSideBySide(h) ==
    \A a \in DOMAIN h.tags : h.tags[a].index # -1 /\ h.tags[a].split_right # 0 =>
        h.tags[h.tags[a].split_right].index = -1

Neat(h, B) == Sound(h, B) /\ Homed(h) /\ NeverSideBySide(h)

Fits(t, size) == t.index = -1 /\ t.size = size /\ size + TagSize <= t.real_size

GrantsIn(T, G) == \A a \in DOMAIN G : a \in DOMAIN T /\ Fits(T[a], G[a])

JobOK ==
    /\ job \in [pc : {"idle", "search", "melt"}, size : Nat, tag : Nat, old : Nat]
    /\ job.pc = "search" => job.tag = 0 \/ (job.tag \in DOMAIN tags /\ tags[job.tag].index # -1)
    /\ job.pc = "melt" => /\ job.tag \in DOMAIN tags /\ tags[job.tag].index = -1
                          /\ job.tag \notin DOMAIN granted

WholePages(B) ==
    \A b \in DOMAIN B : /\ B[b] \in Nat /\ B[b] >= l_pageCount
                        /\ b = (b \div l_pageSize) * l_pageSize

\* The inductive invariant.
IInv == /\ Neat(Heap, blocks) /\ BlocksApart(blocks) /\ WholePages(blocks)
        /\ GrantsIn(tags, granted) /\ JobOK

\* What a step leaves of the tags, as far as lists and blocks are concerned.
Untouched(x) == tags'[x].index = tags[x].index /\ tags'[x].split_right = tags[x].split_right
TakenOut(a) == tags'[a].index = -1 /\ \A x \in DOMAIN tags : x # a => Untouched(x)
MeltedInto(l, a) == /\ tags'[l].index = -1
                    /\ \A x \in DOMAIN tags : x # l /\ x # a => Untouched(x)

-----------------------------------------------------------------------------
\* The tag that kmalloc returns, with or without a split.
LEMMA CarveNeat ==
    ASSUME EverySizeHasAList,
           NEW h, NEW B, BlocksApart(B), Neat(h, B), NEW a \in DOMAIN h.tags,
           h.tags[a].index = -1,
           h.tags[a].split_right # 0 => h.tags[h.tags[a].split_right].index = -1,
           job.size \in Nat, job.size + TagSize <= h.tags[a].real_size
    PROVE  LET r == Carve(h, a) IN
           /\ Neat(r, B) /\ DOMAIN h.tags \subseteq DOMAIN r.tags
           /\ Fits(r.tags[a], job.size)
           /\ \A x \in DOMAIN h.tags : x # a =>
                  /\ r.tags[x].index = h.tags[x].index /\ r.tags[x].size = h.tags[x].size
                  /\ r.tags[x].real_size = h.tags[x].real_size
                  /\ r.tags[x].split_right = h.tags[x].split_right
<1> DEFINE D == DOMAIN h.tags
           h1 == SetTag(h, a, "size", job.size)
           remainder == h.tags[a].real_size - job.size - 2 * TagSize
<1>0. /\ Sound(h, B) /\ IsHeap(h) /\ Lists(h) /\ Tiles(h.tags, B) /\ Homed(h) /\ NeverSideBySide(h)
      /\ TagSize \in Nat /\ h.tags[a].real_size \in Nat /\ 0 \notin D /\ a \in D \cup {0}
      /\ \A x \in D : TileAt(h.tags, B, x)
  BY HeapAssumption, Zenon DEF Neat, Sound, IsHeap, TagType, Tiles
<1>1. /\ IsHeap(h1) /\ h1.free = h.free /\ DOMAIN h1.tags = D
      /\ \A x \in D : /\ h1.tags[x].size = IF x = a THEN job.size ELSE h.tags[x].size
                      /\ SameLinks(h1.tags[x], h.tags[x])
                      /\ h1.tags[x].real_size = h.tags[x].real_size
                      /\ h1.tags[x].split_left = h.tags[x].split_left
                      /\ h1.tags[x].split_right = h.tags[x].split_right
  <2>1. SizeSet(h, h1, a, job.size)
    BY <1>0, SetSize, Zenon
  <2> QED
    BY <2>1, Zenon DEF SizeSet, Framed
<1> HIDE DEF h1
<1>2. Lists(h1)
  BY <1>0, <1>1, ListsKept, Zenon
<1>3. Tiles(h1.tags, B)
  <2> DEFINE U == h1.tags
  <2>1. ASSUME NEW x \in DOMAIN U PROVE TileAt(U, B, x)
    <3>1. x \in D /\ TileAt(h.tags, B, x)
      BY <1>0, <1>1, Zenon
    <3>2. \E b \in DOMAIN B : InBlock(U, B, x, b)
      BY <1>1, <3>1, Zenon DEF TileAt, InBlock
    <3> QED
      BY <1>1, <3>1, <3>2 DEF TileAt
  <2>2. DOMAIN B \subseteq DOMAIN U
    BY <1>0, <1>1, Zenon DEF Tiles
  <2>3. \A x, y \in DOMAIN U : x < y => x + U[x].real_size <= y
    BY <1>0, <1>1, Zenon DEF Tiles
  <2> HIDE DEF U
  <2>4. Tiles(U, B)
    BY <2>1, <2>2, <2>3, Zenon DEF Tiles
  <2> QED
    BY <2>4, Zenon DEF U
<1>4. Homed(h1) /\ NeverSideBySide(h1)
  <2>1. Homed(h1)
    BY <1>0, <1>1, SMTT(25) DEF Homed, SameLinks
  <2>2. NeverSideBySide(h1)
    BY <1>0, <1>1, SMTT(25) DEF NeverSideBySide, SameLinks, TileAt
  <2> QED
    BY <2>1, <2>2, Zenon
<1>5. Sound(h1, B) /\ h1.tags[a].index = -1 /\ h1.tags[a].size = job.size
  BY <1>1, <1>2, <1>3, Zenon DEF Sound, SameLinks
<1>6. CASE ~(remainder > 0 /\ getexp(remainder) >= 0)
  <2>1. Carve(h, a) = h1
    BY <1>6, Zenon DEF Carve, h1
  <2>2. Neat(h1, B)
    BY <1>4, <1>5, Zenon DEF Neat
  <2>3. Fits(h1.tags[a], job.size)
    BY <1>1, <1>5, Zenon DEF Fits
  <2> QED
    BY <1>1, <2>1, <2>2, <2>3, Zenon DEF SameLinks
<1>7. CASE remainder > 0 /\ getexp(remainder) >= 0
  <2> DEFINE r == split_tag(h1, a)
             new == a + TagSize + h1.tags[a].size
             s == h1.tags[a].split_right
  <2>1. Carve(h, a) = r
    BY <1>7, Zenon DEF Carve, h1
  <2>2. h1.tags[a].size + 2 * TagSize <= h1.tags[a].real_size
    BY <1>0, <1>1, <1>7, SMTT(30)
  <2>3. /\ Sound(r, B) /\ DOMAIN r.tags = D \cup {new} /\ new \notin D
        /\ r.tags[new].index = IndexOf(r.tags[new].real_size - TagSize)
        /\ r.tags[new].split_right = s
        /\ \A x \in D :
               /\ r.tags[x].index = h1.tags[x].index /\ r.tags[x].size = h1.tags[x].size
               /\ r.tags[x].real_size = IF x = a THEN TagSize + h1.tags[a].size ELSE h1.tags[x].real_size
               /\ r.tags[x].split_right = IF x = a THEN new ELSE h1.tags[x].split_right
    <3>1. a \in DOMAIN h1.tags
      BY <1>1, Zenon
    <3>2. /\ Sound(r, B) /\ DOMAIN r.tags = DOMAIN h1.tags \cup {new} /\ new \notin DOMAIN h1.tags
          /\ r.tags[new].index = IndexOf(r.tags[new].real_size - TagSize)
          /\ r.tags[new].split_right = s
          /\ \A x \in DOMAIN h1.tags :
               /\ r.tags[x].index = h1.tags[x].index /\ r.tags[x].size = h1.tags[x].size
               /\ r.tags[x].real_size = IF x = a THEN TagSize + h1.tags[a].size ELSE h1.tags[x].real_size
               /\ r.tags[x].split_right = IF x = a THEN new ELSE h1.tags[x].split_right
      BY <1>5, <2>2, <3>1, SplitSound, Zenon
    <3> HIDE DEF r, new, s
    <3> QED
      BY <1>1, <3>2, Zenon
  <2> HIDE DEF r, new
  <2>4. Homed(r)
    BY <1>1, <1>4, <1>5, <2>3 DEF Homed
  <2>5. NeverSideBySide(r)
    <3> SUFFICES ASSUME NEW x \in DOMAIN r.tags, r.tags[x].index # -1, r.tags[x].split_right # 0
                 PROVE  r.tags[r.tags[x].split_right].index = -1
      BY Zenon DEF NeverSideBySide
    <3>1. CASE x = new
      <4>1. s = h.tags[a].split_right /\ s # 0 /\ s \in D /\ h.tags[s].index = -1
        <5>1. s = h.tags[a].split_right
          BY <1>1, Zenon
        <5>2. s # 0
          BY <2>3, <3>1, Zenon
        <5>3. TileAt(h.tags, B, a) /\ a \in D
          BY <1>0, Zenon
        <5>4. h.tags[a].split_right = 0 \/ h.tags[a].split_right \in D
          BY <5>3, Zenon DEF TileAt
        <5> QED
          BY <5>1, <5>2, <5>4, Zenon
      <4>2. r.tags[s].index = -1
        <5>1. h1.tags[s].index = h.tags[s].index
          BY <1>1, <4>1, Zenon DEF SameLinks
        <5>2. r.tags[s].index = h1.tags[s].index
          BY <2>3, <4>1, Zenon
        <5> QED
          BY <4>1, <5>1, <5>2, Zenon
      <4>3. r.tags[x].split_right = s
        BY <2>3, <3>1, Zenon
      <4> QED
        BY <4>2, <4>3, Zenon
    <3>2. CASE x # new
      <4> DEFINE y == h1.tags[x].split_right
      <4>1. x \in D /\ x # a /\ h1.tags[x].index # -1 /\ r.tags[x].split_right = y
        BY <1>5, <2>3, <3>2, Zenon
      <4>2. y # 0 /\ h1.tags[y].index = -1
        <5>1. y # 0
          BY <4>1, Zenon
        <5>2. x \in DOMAIN h1.tags
          BY <1>1, <4>1, Zenon
        <5> QED
          BY <1>4, <4>1, <5>1, <5>2, Zenon DEF NeverSideBySide
      <4>3. y \in D
        BY <1>0, <1>1, <4>1, <4>2, Zenon DEF TileAt
      <4> HIDE DEF y
      <4> QED
        BY <2>3, <4>1, <4>2, <4>3, Zenon
    <3> QED
      BY <3>1, <3>2, Zenon
  <2>6. Fits(r.tags[a], job.size)
    <3>1. /\ r.tags[a].index = -1 /\ r.tags[a].size = job.size
          /\ r.tags[a].real_size = TagSize + job.size
      BY <1>5, <2>3, Zenon
    <3> QED
      BY <1>0, <3>1 DEF Fits
  <2>7. Neat(r, B)
    BY <2>3, <2>4, <2>5, Zenon DEF Neat
  <2>8. \A x \in D : x # a =>
            /\ r.tags[x].index = h.tags[x].index /\ r.tags[x].size = h.tags[x].size
            /\ r.tags[x].real_size = h.tags[x].real_size
            /\ r.tags[x].split_right = h.tags[x].split_right
    BY <1>1, <2>3, SMTT(25) DEF SameLinks
  <2> QED
    BY <2>1, <2>3, <2>6, <2>7, <2>8, Zenon
<1> QED
  BY <1>6, <1>7, Zenon

\* The record of a heap at rest.
LEMMA IdleType == Idle \in [pc : {"idle", "search", "melt"}, size : Nat, tag : Nat, old : Nat]
                  /\ Idle.pc = "idle"
  BY Zenon DEF Idle, nullptr

\* What the call that returns leaves behind.
LEMMA ReturnStep ==
    ASSUME EverySizeHasAList, BlocksApart(blocks'), WholePages(blocks'), NEW h, Neat(h, blocks'),
           NEW a \in DOMAIN h.tags, h.tags[a].index = -1,
           h.tags[a].split_right # 0 => h.tags[h.tags[a].split_right].index = -1,
           job.size \in Nat, job.size + TagSize <= h.tags[a].real_size,
           GrantsIn(h.tags, granted), Return(h, a)
    PROVE  /\ IInv' /\ tags'[a].index = -1
           /\ \A x \in DOMAIN h.tags : x # a => /\ tags'[x].index = h.tags[x].index
                                               /\ tags'[x].split_right = h.tags[x].split_right
<1> DEFINE r == Carve(h, a)
<1>1. /\ Neat(r, blocks') /\ DOMAIN h.tags \subseteq DOMAIN r.tags /\ Fits(r.tags[a], job.size)
      /\ \A x \in DOMAIN h.tags : x # a =>
             /\ r.tags[x].index = h.tags[x].index /\ r.tags[x].size = h.tags[x].size
             /\ r.tags[x].real_size = h.tags[x].real_size
             /\ r.tags[x].split_right = h.tags[x].split_right
  BY CarveNeat, Zenon
<1>2. tags' = r.tags /\ l_freePages' = r.free /\ granted' = With(granted, a, job.size) /\ job' = Idle
  BY Zenon DEF Return
<1> HIDE DEF r
<1>3. Heap' = r
  BY <1>1, <1>2, Zenon DEF Heap, Neat, Sound, IsHeap
<1>4. GrantsIn(tags', granted')
  <2> SUFFICES ASSUME NEW x \in DOMAIN granted'
               PROVE  x \in DOMAIN r.tags /\ Fits(r.tags[x], granted'[x])
    BY <1>2, Zenon DEF GrantsIn
  <2>1. CASE x = a
    BY <1>1, <1>2, <2>1, Zenon DEF With
  <2>2. CASE x # a
    <3>1. x \in DOMAIN granted /\ granted'[x] = granted[x]
      BY <1>2, <2>2, Zenon DEF With
    <3>2. x \in DOMAIN h.tags /\ Fits(h.tags[x], granted[x])
      BY <3>1, Zenon DEF GrantsIn
    <3> QED
      BY <1>1, <2>2, <3>1, <3>2, Zenon DEF Fits
  <2> QED
    BY <2>1, <2>2, Zenon
<1>5. JobOK'
  BY <1>2, IdleType, Zenon DEF JobOK
<1>6. IInv'
  BY <1>1, <1>3, <1>4, <1>5, Zenon DEF IInv
<1>7. tags'[a].index = -1
  BY <1>1, <1>2, Zenon DEF Fits
<1> QED
  BY <1>1, <1>2, <1>6, <1>7, Zenon

\* Facts that every step uses.
LEMMA Basics ==
    ASSUME IInv
    PROVE  /\ Heap.tags = tags /\ Heap.free = l_freePages /\ IsHeap(Heap) /\ Lists(Heap)
           /\ Sound(Heap, blocks) /\ Tiles(tags, blocks) /\ Homed(Heap) /\ NeverSideBySide(Heap)
           /\ TagSize \in Nat \ {0} /\ -1 \notin Exponent /\ Exponent \subseteq Nat
           /\ 0 \notin DOMAIN tags /\ DOMAIN tags \subseteq Nat
           /\ \A a \in DOMAIN tags : TileAt(tags, blocks, a) /\ tags[a].index \in Exponent \cup {-1}
                                     /\ tags[a].real_size \in Nat
<1>1. Heap.tags = tags /\ Heap.free = l_freePages
  BY Zenon DEF Heap
<1>2. Sound(Heap, blocks) /\ Homed(Heap) /\ NeverSideBySide(Heap)
  BY Zenon DEF IInv, Neat
<1>3. IsHeap(Heap) /\ Lists(Heap) /\ Tiles(tags, blocks)
  BY <1>1, <1>2, Zenon DEF Sound
<1>4. TagSize \in Nat \ {0} /\ -1 \notin Exponent /\ Exponent \subseteq Nat
  BY HeapAssumption DEF Exponent
<1>5. /\ 0 \notin DOMAIN tags /\ DOMAIN tags \subseteq Nat
      /\ \A a \in DOMAIN tags : tags[a].index \in Exponent \cup {-1} /\ tags[a].real_size \in Nat
  BY <1>1, <1>3, Zenon DEF IsHeap, TagType
<1>6. \A a \in DOMAIN tags : TileAt(tags, blocks, a)
  BY <1>3, Zenon DEF Tiles
<1> HIDE DEF Heap
<1> QED
  BY <1>1, <1>2, <1>3, <1>4, <1>5, <1>6, Zenon

\* Calls that only change the job.
LEMMA JobStep ==
    ASSUME IInv, UNCHANGED <<tags, l_freePages, blocks, granted>>, JobOK'
    PROVE  IInv'
  BY Zenon DEF IInv, Heap

\* kmalloc begins its search in the list of the exponent of the size.
LEMMA KmallocStep ==
    ASSUME EverySizeHasAList, IInv, NEW size \in Sizes,
           NEW old \in DOMAIN granted \cup {0}, kmalloc(size, old)
    PROVE  IInv'
<1> DEFINE a == l_freePages[IndexOf(size)]
<1>0. size \in Nat /\ IndexOf(size) \in Exponent
  <2>1. size \in Nat
    BY HeapAssumption, Zenon
  <2>2. size \in Int
    BY <2>1
  <2> QED
    BY <2>1, <2>2, Zenon DEF EverySizeHasAList
<1>1. a \in Nat /\ (a # 0 => a \in DOMAIN tags /\ tags[a].index # -1)
  <2>1. /\ Heap.tags = tags /\ Heap.free = l_freePages /\ IsHeap(Heap) /\ Lists(Heap)
        /\ -1 \notin Exponent
    BY Basics, Zenon
  <2>2. a \in Nat
    BY <1>0, <2>1, Zenon DEF IsHeap
  <2>3. a # 0 => a \in DOMAIN tags /\ tags[a].index = IndexOf(size)
    BY <1>0, <2>1, Zenon DEF Lists, Heads
  <2> QED
    BY <1>0, <2>1, <2>2, <2>3, Zenon
<1>2. old \in Nat
  <2>1. DOMAIN granted \subseteq DOMAIN tags
    BY Zenon DEF IInv, GrantsIn
  <2> QED
    BY <2>1, Basics
<1>3. /\ job' = [pc |-> "search", size |-> size, tag |-> a, old |-> old]
      /\ UNCHANGED <<tags, l_freePages, blocks, granted>>
  BY Zenon DEF kmalloc
<1> HIDE DEF a
<1>4. JobOK'
  BY <1>0, <1>1, <1>2, <1>3, Zenon DEF JobOK
<1> QED
  BY <1>3, <1>4, JobStep, Zenon

\* The search goes on to the next tag of its list.
LEMMA SearchStep == ASSUME IInv, SearchNext PROVE IInv'
<1>1. JobOK /\ job.pc = "search" /\ job.tag # 0
      /\ job' = [job EXCEPT !.tag = tags[job.tag].next]
      /\ UNCHANGED <<tags, l_freePages, blocks, granted>>
  BY Zenon DEF SearchNext, IInv, nullptr
<1> DEFINE a == job.tag
           b == tags[a].next
<1>2. a \in DOMAIN tags /\ tags[a].index # -1
  BY <1>1, Zenon DEF JobOK
<1>3. b \in Nat /\ (b # 0 => b \in DOMAIN tags /\ tags[b].index # -1)
  <2>1. Heap.tags = tags /\ IsHeap(Heap) /\ Lists(Heap)
    BY Basics, Zenon
  <2>2. LinkedAt(Heap, a)
    BY <1>2, <2>1, Zenon DEF Lists
  <2>3. b \in Nat
    BY <1>2, <2>1, Zenon DEF IsHeap, TagType
  <2> QED
    BY <1>2, <2>1, <2>2, <2>3, Zenon DEF LinkedAt
<1>4. JobOK'
  <2> HIDE DEF b
  <2>1. job' = [job EXCEPT !.tag = b]
    BY <1>1, Zenon DEF b
  <2> QED
    BY <1>1, <1>3, <2>1, Zenon DEF JobOK
<1> QED
  BY <1>1, <1>4, JobStep, Zenon

\* A request that liballoc_alloc cannot meet changes nothing but the job.
LEMMA OutOfPagesStep == ASSUME IInv, OutOfPages PROVE IInv'
<1>1. JobOK'
  BY IdleType, Zenon DEF OutOfPages, JobOK
<1> QED
  BY <1>1, JobStep, Zenon DEF OutOfPages

\* kfree takes a tag out of use and begins to melt it.
LEMMA KfreeStep == ASSUME IInv, NEW a \in DOMAIN granted, kfree(a) PROVE IInv'
<1>1. a \in DOMAIN tags /\ tags[a].index = -1 /\ a \in Nat
  BY Basics, Zenon DEF IInv, GrantsIn, Fits
<1>2. job' = [Idle EXCEPT !.pc = "melt", !.tag = a] /\ granted' = Without(granted, a)
      /\ UNCHANGED <<tags, l_freePages, blocks>>
  BY Zenon DEF kfree
<1>3. job' = [pc |-> "melt", size |-> 0, tag |-> a, old |-> 0]
  BY <1>2, Zenon DEF Idle, nullptr
<1>4. DOMAIN granted' = DOMAIN granted \ {a} /\ \A x \in DOMAIN granted' : granted'[x] = granted[x]
  BY <1>2, Zenon DEF Without
<1>5. JobOK'
  BY <1>1, <1>2, <1>3, <1>4 DEF JobOK
<1>6. GrantsIn(tags', granted')
  BY <1>2, <1>4, Zenon DEF IInv, GrantsIn
<1> QED
  BY <1>2, <1>5, <1>6, Zenon DEF IInv, Heap

\* A free tag is taken out of its list, split when enough is left, and returned.
LEMMA TakeTagStep ==
    ASSUME EverySizeHasAList, IInv, TakeTag
    PROVE  IInv' /\ TakenOut(job.tag)
<1> DEFINE a == job.tag
           h == remove_tag(Heap, a)
<1>0. /\ Heap.tags = tags /\ Sound(Heap, blocks) /\ Homed(Heap) /\ NeverSideBySide(Heap)
      /\ TagSize \in Nat \ {0} /\ 0 \notin DOMAIN tags
      /\ \A x \in DOMAIN tags : TileAt(tags, blocks, x) /\ tags[x].real_size \in Nat
  BY Basics, Zenon
<1>1. JobOK /\ job.pc = "search" /\ a # 0 /\ Enough(a) /\ Return(h, a) /\ blocks' = blocks
  BY Zenon DEF TakeTag, IInv, nullptr
<1>2. a \in DOMAIN tags /\ tags[a].index # -1 /\ job.size \in Nat
  BY <1>1, Zenon DEF JobOK
<1>3. /\ Sound(h, blocks) /\ DOMAIN h.tags = DOMAIN tags
      /\ \A x \in DOMAIN tags : /\ SameTile(h.tags[x], tags[x])
                                /\ h.tags[x].index = IF x = a THEN -1 ELSE tags[x].index
  BY <1>0, <1>2, RemoveSound
<1> HIDE DEF h, a, Heap
<1>4. Homed(h)
  BY <1>0, <1>3 DEF Homed, SameTile
<1>5. NeverSideBySide(h)
  <2> SUFFICES ASSUME NEW x \in DOMAIN tags, h.tags[x].index # -1, h.tags[x].split_right # 0
               PROVE  h.tags[h.tags[x].split_right].index = -1
    BY <1>3, Zenon DEF NeverSideBySide
  <2> DEFINE y == tags[x].split_right
  <2>1. tags[x].index # -1 /\ h.tags[x].split_right = y /\ y # 0
    BY <1>3, Zenon DEF SameTile
  <2>2. y \in DOMAIN tags /\ tags[y].index = -1
    BY <1>0, <2>1, Zenon DEF NeverSideBySide, TileAt
  <2> HIDE DEF y
  <2> QED
    BY <1>3, <2>1, <2>2, Zenon
<1>6. h.tags[a].split_right # 0 => h.tags[h.tags[a].split_right].index = -1
  <2> DEFINE y == tags[a].split_right
  <2>1. h.tags[a].split_right = y
    BY <1>2, <1>3, Zenon DEF SameTile
  <2>2. y # 0 => y \in DOMAIN tags /\ tags[y].index = -1
    BY <1>0, <1>2, Zenon DEF NeverSideBySide, TileAt
  <2> HIDE DEF y
  <2> QED
    BY <1>3, <2>1, <2>2, Zenon
<1>7. job.size + TagSize <= h.tags[a].real_size
  <2>1. h.tags[a].real_size = tags[a].real_size
    BY <1>2, <1>3, Zenon DEF SameTile
  <2> QED
    BY <1>0, <1>1, <1>2, <2>1 DEF Enough
<1>8. GrantsIn(h.tags, granted)
  <2> SUFFICES ASSUME NEW x \in DOMAIN granted
               PROVE  x \in DOMAIN h.tags /\ Fits(h.tags[x], granted[x])
    BY Zenon DEF GrantsIn
  <2>1. x \in DOMAIN tags /\ Fits(tags[x], granted[x])
    BY Zenon DEF IInv, GrantsIn
  <2> QED
    BY <1>2, <1>3, <2>1, Zenon DEF Fits, SameTile
<1>9. BlocksApart(blocks') /\ WholePages(blocks') /\ Neat(h, blocks')
  BY <1>1, <1>3, <1>4, <1>5, Zenon DEF IInv, Neat
<1>10. a \in DOMAIN h.tags /\ h.tags[a].index = -1
  BY <1>2, <1>3, Zenon
<1>11. /\ IInv' /\ tags'[a].index = -1
       /\ \A x \in DOMAIN h.tags : x # a => /\ tags'[x].index = h.tags[x].index
                                           /\ tags'[x].split_right = h.tags[x].split_right
  BY <1>1, <1>2, <1>6, <1>7, <1>8, <1>9, <1>10, ReturnStep, Zenon
<1>12. TakenOut(a)
  BY <1>3, <1>11, Zenon DEF TakenOut, Untouched, SameTile
<1> QED
  BY <1>11, <1>12, Zenon DEF a

\* The freed tag is joined to the free tag on its left.
LEMMA MeltLeftStep ==
    ASSUME IInv, MeltLeft
    PROVE  IInv' /\ MeltedInto(tags[job.tag].split_left, job.tag)
<1> DEFINE a == job.tag
           l == tags[a].split_left
           m == Merge(Heap, l, a)
           h == remove_tag(m, l)
           D == DOMAIN tags
<1>0. /\ Heap.tags = tags /\ Sound(Heap, blocks) /\ Homed(Heap) /\ NeverSideBySide(Heap)
      /\ -1 \notin Exponent /\ 0 \notin D /\ BlocksApart(blocks) /\ D \subseteq Nat
      /\ \A x \in D : TileAt(tags, blocks, x)
  BY Basics, Zenon DEF IInv
<1>1. JobOK /\ job.pc = "melt" /\ l # 0 /\ tags[l].index >= 0
  BY Zenon DEF MeltLeft, LeftFree, IsFree, IInv, nullptr
<1>2. /\ tags' = h.tags /\ l_freePages' = h.free /\ job' = [job EXCEPT !.tag = l]
      /\ UNCHANGED <<blocks, granted>>
  <2>1. melt_left(Heap, a) = m
    BY <1>0, Zenon DEF melt_left, Merge
  <2> QED
    BY <2>1, Zenon DEF MeltLeft
<1>3. a \in D /\ tags[a].index = -1 /\ a \notin DOMAIN granted
  BY <1>1, Zenon DEF JobOK
<1>4. l \in D /\ tags[l].split_right = a /\ tags[l].index # -1
  BY <1>0, <1>1, <1>3 DEF TileAt
<1> HIDE DEF Heap, a, l
<1>5. /\ Sound(m, blocks) /\ DOMAIN m.tags = D \ {a} /\ l # a
      /\ \A x \in D \ {a} :
             /\ m.tags[x].index = tags[x].index /\ m.tags[x].size = tags[x].size
             /\ x # l => /\ m.tags[x].real_size = tags[x].real_size
                         /\ m.tags[x].split_right = tags[x].split_right
  BY <1>0, <1>3, <1>4, MergeSound
<1> HIDE DEF m
<1>6. /\ Sound(h, blocks) /\ DOMAIN h.tags = D \ {a}
      /\ \A x \in D \ {a} : /\ SameTile(h.tags[x], m.tags[x])
                            /\ h.tags[x].index = IF x = l THEN -1 ELSE m.tags[x].index
  <2>1. l \in DOMAIN m.tags /\ m.tags[l].index # -1
    BY <1>4, <1>5, Zenon
  <2> QED
    BY <1>5, <2>1, RemoveSound
<1> HIDE DEF h
<1>7. /\ h.tags[l].index = -1
      /\ \A x \in D \ {a} : x # l =>
             /\ h.tags[x].index = tags[x].index /\ h.tags[x].size = tags[x].size
             /\ h.tags[x].real_size = tags[x].real_size
             /\ h.tags[x].split_right = tags[x].split_right
  BY <1>4, <1>5, <1>6 DEF SameTile
<1>8. Homed(h)
  BY <1>0, <1>6, <1>7, SMTT(25) DEF Homed
<1>9. NeverSideBySide(h)
  <2> SUFFICES ASSUME NEW x \in D \ {a}, h.tags[x].index # -1, h.tags[x].split_right # 0
               PROVE  h.tags[h.tags[x].split_right].index = -1
    BY <1>6, Zenon DEF NeverSideBySide
  <2> DEFINE y == tags[x].split_right
  <2>1. x # l /\ tags[x].index # -1 /\ h.tags[x].split_right = y /\ y # 0
    BY <1>7, Zenon
  <2>2. y \in D \ {a} /\ tags[y].index = -1
    BY <1>0, <1>4, <2>1, SMTT(25) DEF NeverSideBySide, TileAt
  <2> HIDE DEF y
  <2> QED
    BY <1>7, <2>1, <2>2, Zenon
<1>10. Heap' = h
  BY <1>2, <1>6, Zenon DEF Heap, Sound, IsHeap
<1>11. GrantsIn(tags', granted')
  <2> SUFFICES ASSUME NEW x \in DOMAIN granted
               PROVE  x \in DOMAIN h.tags /\ Fits(h.tags[x], granted[x])
    BY <1>2, Zenon DEF GrantsIn
  <2>1. x \in D /\ Fits(tags[x], granted[x])
    BY Zenon DEF IInv, GrantsIn
  <2>2. x # a /\ x # l
    BY <1>3, <1>4, <2>1, Zenon DEF Fits
  <2> QED
    BY <1>6, <1>7, <2>1, <2>2, Zenon DEF Fits
<1>12. JobOK'
  <2>1. l \in Nat /\ l \in DOMAIN h.tags /\ l \notin DOMAIN granted
    BY <1>0, <1>4, <1>5, <1>6, Zenon DEF IInv, GrantsIn, Fits
  <2> QED
    BY <1>1, <1>2, <1>7, <2>1, Zenon DEF JobOK
<1>13. IInv'
  BY <1>2, <1>6, <1>8, <1>9, <1>10, <1>11, <1>12, Zenon DEF IInv, Neat
<1>14. MeltedInto(l, a)
  BY <1>2, <1>7, Zenon DEF MeltedInto, Untouched
<1> QED
  BY <1>13, <1>14, Zenon DEF a, l

\* The freed tag takes in the free tag on its right.
LEMMA AbsorbRightStep ==
    ASSUME IInv, AbsorbRight
    PROVE  IInv' /\ MeltedInto(job.tag, tags[job.tag].split_right)
<1> DEFINE a == job.tag
           b == tags[a].split_right
           m == remove_tag(Heap, b)
           h == Merge(m, a, b)
           D == DOMAIN tags
<1>0. /\ Heap.tags = tags /\ Sound(Heap, blocks) /\ Homed(Heap) /\ NeverSideBySide(Heap)
      /\ -1 \notin Exponent /\ 0 \notin D /\ BlocksApart(blocks) /\ D \subseteq Nat
      /\ \A x \in D : TileAt(tags, blocks, x)
  BY Basics, Zenon DEF IInv
<1>1. JobOK /\ job.pc = "melt" /\ b # 0 /\ tags[b].index >= 0
  BY Zenon DEF AbsorbRight, RightFree, IsFree, IInv, nullptr
<1>2. a \in D /\ tags[a].index = -1 /\ a \notin DOMAIN granted
  BY <1>1, Zenon DEF JobOK
<1>3. b \in D /\ tags[b].split_left = a /\ tags[b].index # -1
  BY <1>0, <1>1, <1>2 DEF TileAt
<1>4. absorb_right(Heap, a) = Drop(SetTag(SetTag(SetTag(m, a, "real_size", tags[a].real_size + tags[b].real_size),
                                                   a, "split_right", tags[b].split_right),
                                            tags[b].split_right, "split_left", a), b)
  BY <1>0, Zenon DEF absorb_right
<1> HIDE DEF Heap, a, b
<1>5. /\ Sound(m, blocks) /\ DOMAIN m.tags = D
      /\ \A x \in D : /\ SameTile(m.tags[x], tags[x])
                      /\ m.tags[x].index = IF x = b THEN -1 ELSE tags[x].index
  BY <1>0, <1>3, RemoveSound
<1>6. absorb_right(Heap, a) = h
  <2>1. /\ m.tags[a].real_size = tags[a].real_size /\ m.tags[b].real_size = tags[b].real_size
        /\ m.tags[b].split_right = tags[b].split_right
    BY <1>2, <1>3, <1>5, Zenon DEF SameTile
  <2> HIDE DEF m
  <2> QED
    BY <1>4, <2>1, Zenon DEF Merge
<1>7. tags' = h.tags /\ l_freePages' = h.free /\ UNCHANGED <<blocks, granted, job>>
  BY <1>6, Zenon DEF AbsorbRight, a
<1> HIDE DEF m
<1>8. /\ Sound(h, blocks) /\ DOMAIN h.tags = D \ {b} /\ a # b
      /\ \A x \in D \ {b} :
             /\ h.tags[x].index = m.tags[x].index /\ h.tags[x].size = m.tags[x].size
             /\ x # a => /\ h.tags[x].real_size = m.tags[x].real_size
                         /\ h.tags[x].split_right = m.tags[x].split_right
  <2>1. m.tags[a].split_right = b /\ m.tags[b].index = -1
    BY <1>2, <1>3, <1>5, Zenon DEF SameTile, b
  <2> QED
    BY <1>0, <1>2, <1>3, <1>5, <2>1, MergeSound, SMTT(25)
<1> HIDE DEF h
<1>9. /\ h.tags[a].index = -1
      /\ \A x \in D \ {b} : x # a =>
             /\ h.tags[x].index = tags[x].index /\ h.tags[x].size = tags[x].size
             /\ h.tags[x].real_size = tags[x].real_size
             /\ h.tags[x].split_right = tags[x].split_right
  BY <1>2, <1>5, <1>8 DEF SameTile
<1>10. Homed(h)
  BY <1>0, <1>8, <1>9 DEF Homed
<1>11. NeverSideBySide(h)
  <2> SUFFICES ASSUME NEW x \in D \ {b}, h.tags[x].index # -1, h.tags[x].split_right # 0
               PROVE  h.tags[h.tags[x].split_right].index = -1
    BY <1>8, Zenon DEF NeverSideBySide
  <2> DEFINE y == tags[x].split_right
  <2>1. x # a /\ tags[x].index # -1 /\ h.tags[x].split_right = y /\ y # 0
    BY <1>9, Zenon
  <2>2. y \in D \ {b} /\ tags[y].index = -1
    BY <1>0, <1>3, <2>1 DEF NeverSideBySide, TileAt
  <2> HIDE DEF y
  <2> QED
    BY <1>9, <2>1, <2>2, Zenon
<1>12. Heap' = h
  BY <1>7, <1>8, Zenon DEF Heap, Sound, IsHeap
<1>13. GrantsIn(tags', granted')
  <2> SUFFICES ASSUME NEW x \in DOMAIN granted
               PROVE  x \in DOMAIN h.tags /\ Fits(h.tags[x], granted[x])
    BY <1>7, Zenon DEF GrantsIn
  <2>1. x \in D /\ Fits(tags[x], granted[x])
    BY Zenon DEF IInv, GrantsIn
  <2>2. x # a /\ x # b
    BY <1>2, <1>3, <2>1, Zenon DEF Fits
  <2> QED
    BY <1>8, <1>9, <2>1, <2>2, Zenon DEF Fits
<1>14. JobOK'
  <2>1. job' = job /\ granted' = granted /\ tags' = h.tags /\ job.tag = a /\ a \in DOMAIN h.tags
    BY <1>2, <1>7, <1>8, Zenon DEF a
  <2> QED
    BY <1>1, <1>2, <1>9, <2>1, Zenon DEF JobOK
<1>15. IInv'
  BY <1>7, <1>8, <1>10, <1>11, <1>12, <1>13, <1>14, Zenon DEF IInv, Neat
<1>16. MeltedInto(a, b)
  BY <1>7, <1>9, Zenon DEF MeltedInto, Untouched
<1> QED
  BY <1>15, <1>16, Zenon DEF a, b

\* The freed tag goes into the list of its exponent.
LEMMA PutBackStep ==
    ASSUME EverySizeHasAList, IInv, PutBack
    PROVE  /\ IInv' /\ Home \in Exponent /\ tags'[job.tag].index = Home
           /\ \A x \in DOMAIN tags : tags'[x].split_right = tags[x].split_right
           /\ \A x \in DOMAIN tags : x # job.tag => tags'[x].index = tags[x].index
<1> DEFINE a == job.tag
           e == Home
           h == insert_tag(Heap, a, e)
           D == DOMAIN tags
<1>0. /\ Heap.tags = tags /\ Sound(Heap, blocks) /\ Homed(Heap) /\ NeverSideBySide(Heap)
      /\ -1 \notin Exponent /\ Exponent \subseteq Nat /\ 0 \notin D /\ TagSize \in Nat \ {0}
      /\ \A x \in D : TileAt(tags, blocks, x) /\ tags[x].index \in Exponent \cup {-1}
                      /\ tags[x].real_size \in Nat
  BY Basics, Zenon
<1>1. JobOK /\ job.pc = "melt" /\ ~IsFree(tags[a].split_left) /\ ~IsFree(tags[a].split_right)
  BY Zenon DEF PutBack, Melted, LeftFree, RightFree, IInv
<1>2. a \in D /\ tags[a].index = -1 /\ a \notin DOMAIN granted
  BY <1>1, Zenon DEF JobOK
<1>3. tags' = h.tags /\ l_freePages' = h.free /\ job' = Idle /\ UNCHANGED <<blocks, granted>>
  BY Zenon DEF PutBack
<1>4. e \in Exponent /\ e = IndexOf(tags[a].real_size - TagSize)
  <2>1. tags[a].real_size - TagSize \in Int
    BY <1>0, <1>2
  <2> QED
    BY <2>1, Zenon DEF Home, EverySizeHasAList
<1>5. \A x \in D : tags[x].index # -1 => IsFree(x)
  <2>1. \A x \in D : tags[x].index # -1 => x # 0 /\ tags[x].index >= 0
    <3> SUFFICES ASSUME NEW x \in D, tags[x].index # -1 PROVE x # 0 /\ tags[x].index >= 0
      BY Zenon
    <3>1. tags[x].index \in Nat
      BY <1>0, Zenon
    <3> QED
      BY <1>0, <3>1
  <2> QED
    BY <2>1, Zenon DEF IsFree, nullptr
<1> HIDE DEF Heap, a, e
<1>6. /\ Sound(h, blocks) /\ DOMAIN h.tags = D
      /\ \A x \in D : /\ SameTile(h.tags[x], tags[x])
                      /\ h.tags[x].index = IF x = a THEN e ELSE tags[x].index
  BY <1>0, <1>2, <1>4, InsertSound, SMTT(25)
<1> HIDE DEF h
<1>7. Homed(h)
  BY <1>0, <1>4, <1>6 DEF Homed, SameTile
<1>8. NeverSideBySide(h)
  <2> SUFFICES ASSUME NEW x \in D, h.tags[x].index # -1, h.tags[x].split_right # 0
               PROVE  h.tags[h.tags[x].split_right].index = -1
    BY <1>6, Zenon DEF NeverSideBySide
  <2> DEFINE y == tags[x].split_right
  <2>1. h.tags[x].split_right = y /\ y # 0
    BY <1>6, Zenon DEF SameTile
  <2>2. y \in D /\ tags[y].split_left = x
    BY <1>0, <2>1, Zenon DEF TileAt
  <2>3. y # a
    <3> SUFFICES ASSUME y = a PROVE FALSE
      BY Zenon
    <3>1. tags[x].index = -1
      BY <1>1, <1>5, <2>2, Zenon
    <3>2. x = a
      BY <1>6, <3>1, Zenon
    <3>3. tags[a].real_size >= TagSize /\ y = a + tags[a].real_size /\ a \in Nat
      BY <1>0, <1>2, <2>1, <3>2, Basics, SMTT(25) DEF TileAt
    <3> QED
      BY <1>0, <1>2, <3>3
  <2>4. tags[y].index = -1
    <3>1. CASE x = a
      BY <1>1, <1>5, <2>2, <3>1, Zenon
    <3>2. CASE x # a
      BY <1>0, <1>6, <2>1, <3>2, Zenon DEF NeverSideBySide
    <3> QED
      BY <3>1, <3>2, Zenon
  <2> HIDE DEF y
  <2> QED
    BY <1>6, <2>1, <2>2, <2>3, <2>4, Zenon
<1>9. Heap' = h
  BY <1>3, <1>6, Zenon DEF Heap, Sound, IsHeap
<1>10. GrantsIn(tags', granted')
  <2> SUFFICES ASSUME NEW x \in DOMAIN granted
               PROVE  x \in DOMAIN h.tags /\ Fits(h.tags[x], granted[x])
    BY <1>3, Zenon DEF GrantsIn
  <2>1. x \in D /\ x # a /\ Fits(tags[x], granted[x])
    BY <1>2, Zenon DEF IInv, GrantsIn
  <2> QED
    BY <1>6, <2>1, Zenon DEF Fits, SameTile
<1>11. JobOK'
  BY <1>3, IdleType, Zenon DEF JobOK
<1>12. IInv'
  BY <1>3, <1>6, <1>7, <1>8, <1>9, <1>10, <1>11, Zenon DEF IInv, Neat
<1>13. /\ tags'[a].index = e /\ \A x \in D : tags'[x].split_right = tags[x].split_right
       /\ \A x \in D : x # a => tags'[x].index = tags[x].index
  BY <1>2, <1>3, <1>6, Zenon DEF SameTile
<1> QED
  BY <1>4, <1>12, <1>13, Zenon DEF a, e

\* The arithmetic of pages.
LEMMA PagesHold ==
    ASSUME NEW size \in Nat
    PROVE  /\ PagesFor(size) \in Nat /\ PagesFor(size) >= l_pageCount
           /\ PagesFor(size) * l_pageSize \in Nat
           /\ size + TagSize <= PagesFor(size) * l_pageSize
<1> DEFINE usage == size + TagSize
           k == l_pageSize
           q == usage \div k
           pages == q + (IF usage % k = 0 THEN 0 ELSE 1)
           p == PagesFor(size)
<1>0. usage \in Nat /\ k \in Nat \ {0} /\ l_pageCount \in Nat
  BY HeapAssumption
<1>1. q \in Nat
  BY <1>0
<1>2. pages \in Nat
  BY <1>1
<1>3. usage <= pages * k
  <2>1. CASE usage % k = 0
    <3>1. usage = (usage \div k) * k
      BY <1>0, <2>1
    <3>2. pages = usage \div k
      BY <1>1, <2>1
    <3>3. pages * k = usage
      BY <3>1, <3>2, Zenon
    <3> QED
      BY <1>0, <3>3
  <2>2. CASE usage % k # 0
    <3>1. usage < (usage \div k + 1) * k
      BY <1>0
    <3>2. pages = usage \div k + 1
      BY <1>1, <2>2, Zenon
    <3>3. usage < pages * k
      BY <3>1, <3>2, Zenon
    <3> HIDE DEF pages, usage, k
    <3> QED
      BY <1>0, <1>2, <3>3
  <2> QED
    BY <2>1, <2>2, Zenon
<1>4. p = IF pages < l_pageCount THEN l_pageCount ELSE pages
  BY Zenon DEF PagesFor
<1> HIDE DEF usage, k, q, pages, p
<1>5. p \in Nat /\ p >= l_pageCount /\ pages <= p
  BY <1>0, <1>2, <1>4
<1>6. pages * k <= p * k /\ p * k \in Nat /\ pages * k \in Nat
  BY <1>0, <1>2, <1>5
<1>7. usage <= p * k
  BY <1>0, <1>3, <1>6
<1> QED
  BY <1>5, <1>6, <1>7, Zenon DEF usage, k, p

\* A new block gets its first tag, which is split and returned.
LEMMA AllocateStep ==
    ASSUME EverySizeHasAList, IInv, NEW a \in Address, allocate_new_tag(a)
    PROVE  IInv' /\ a \notin DOMAIN tags /\ TakenOut(a)
<1> DEFINE pages == PagesFor(job.size)
           k == l_pageSize
           n == pages * k
           t == [size |-> job.size, real_size |-> n, index |-> -1,
                 next |-> 0, prev |-> 0, split_left |-> 0, split_right |-> 0]
           h == AddTag(Heap, a, t)
<1>0. /\ Heap.tags = tags /\ IsHeap(Heap) /\ Lists(Heap) /\ Tiles(tags, blocks)
      /\ Homed(Heap) /\ NeverSideBySide(Heap) /\ TagSize \in Nat \ {0} /\ 0 \notin DOMAIN tags
      /\ \A x \in DOMAIN tags : TileAt(tags, blocks, x)
  BY Basics, Zenon
<1>1. /\ JobOK /\ job.pc = "search" /\ a \in liballoc_alloc(pages)
      /\ blocks' = With(blocks, a, pages) /\ Return(h, a)
  <2>1. h = [Heap EXCEPT !.tags = With(tags, a, [size |-> job.size, real_size |-> pages * k,
                index |-> -1, next |-> nullptr, prev |-> nullptr, split_left |-> nullptr,
                split_right |-> nullptr])]
    BY <1>0, Zenon DEF AddTag, nullptr
  <2> QED
    BY <2>1, Zenon DEF allocate_new_tag, IInv
<1>2. job.size \in Nat
  BY <1>1, Zenon DEF JobOK
<1>3. /\ pages \in Nat /\ pages >= l_pageCount /\ pages > 0 /\ n \in Nat /\ job.size + TagSize <= n
      /\ k \in Nat \ {0} /\ n >= TagSize
  <2>1. pages \in Nat /\ pages >= l_pageCount /\ n \in Nat /\ job.size + TagSize <= n
    BY <1>2, PagesHold, Zenon
  <2>2. k \in Nat \ {0} /\ l_pageCount \in Nat \ {0}
    BY HeapAssumption, Zenon
  <2> HIDE DEF pages, n, k
  <2> QED
    BY <1>0, <1>2, <2>1, <2>2, SMTT(25)
<1>4. t \in TagType /\ t.size = job.size /\ t.real_size = n /\ t.index = -1 /\ t.next = 0 /\ t.prev = 0
      /\ t.split_left = 0 /\ t.split_right = 0
  <2> HIDE DEF n
  <2> QED
    BY <1>2, <1>3, Zenon DEF TagType
<1> HIDE DEF t
<1>5. PICK p \in 1 .. ArenaPages : a = p * k /\ (p .. p + pages - 1) \cap OwnedPages = {}
  BY <1>1, Zenon DEF liballoc_alloc
<1>6. p \in Nat \ {0} /\ a \in Nat \ {0} /\ a \div k = p /\ a + n = (p + pages) * k
  <2> HIDE DEF pages
  <2>1. p \in Nat \ {0}
    BY HeapAssumption
  <2>2. \A i \in Nat, j \in Nat \ {0} : (i * j) \div j = i
    OBVIOUS
  <2>3. p * k \in Nat \ {0} /\ (p * k) \div k = p
    BY <1>3, <2>1, <2>2
  <2>4. (p + pages) * k = p * k + pages * k
    BY <1>3, <2>1
  <2> QED
    BY <1>5, <2>1, <2>3, <2>4, Zenon
<1>7. ASSUME NEW b \in DOMAIN blocks
      PROVE  BlockEnd(blocks, b) <= a \/ a + n <= b
  <2> DEFINE q == b \div k
             c == blocks[b]
  <2>1. c \in Nat /\ c >= l_pageCount /\ b = q * k /\ b \in Nat \ {0} /\ l_pageCount \in Nat \ {0}
    BY HeapAssumption, Zenon DEF IInv, WholePages, BlocksApart
  <2>2. q \in Nat
    BY <1>3, <2>1
  <2>3. q .. q + c - 1 \subseteq OwnedPages
    BY Zenon DEF OwnedPages
  <2>4. BlockEnd(blocks, b) = (q + c) * k
    <3>1. (q + c) * k = q * k + c * k
      <4> HIDE DEF q, c, k
      <4> QED
        BY <1>3, <2>1, <2>2
    <3> QED
      BY <2>1, <3>1, Zenon DEF BlockEnd
  <2> HIDE DEF q, c, pages, k
  <2>5. q + c <= p \/ p + pages <= q
    <3>1. q .. q + c - 1 \cap (p .. p + pages - 1) = {}
      BY <1>5, <2>3, Zenon
    <3>2. q \in q .. q + c - 1 /\ p \in p .. p + pages - 1
      BY <1>3, <1>6, <2>1, <2>2
    <3>3. q \notin p .. p + pages - 1 /\ p \notin q .. q + c - 1
      BY <3>1, <3>2, Zenon
    <3> QED
      BY <1>3, <1>6, <2>1, <2>2, <3>3
  <2>6. CASE q + c <= p
    <3>1. (q + c) * k <= p * k
      BY <1>3, <1>6, <2>1, <2>2, <2>6
    <3> QED
      BY <1>5, <2>4, <3>1, Zenon
  <2>7. CASE p + pages <= q
    <3>1. (p + pages) * k <= q * k
      BY <1>3, <1>6, <2>2, <2>7
    <3> QED
      BY <1>6, <2>1, <3>1, Zenon
  <2> QED
    BY <2>5, <2>6, <2>7, Zenon
<1> HIDE DEF Heap
<1>8. a \notin DOMAIN tags /\ Tiles(With(tags, a, t), blocks') /\ BlocksApart(blocks')
  <2>1. Pieces(tags) /\ BlocksApart(blocks)
    BY <1>0, HeapPieces, Zenon DEF IInv
  <2> HIDE DEF pages
  <2>2. t.real_size \in Nat /\ t.real_size = pages * l_pageSize /\ t.real_size >= TagSize
    BY <1>3, <1>4, Zenon
  <2>3. \A b \in DOMAIN blocks : BlockEnd(blocks, b) <= a \/ a + t.real_size <= b
    BY <1>4, <1>7, Zenon
  <2>4. /\ a \notin DOMAIN tags
        /\ Tiles(With(tags, a, t), With(blocks, a, pages))
        /\ BlocksApart(With(blocks, a, pages))
    <3>1. /\ Tiles(tags, blocks) /\ a \in Nat \ {0} /\ pages \in Nat
          /\ t.split_left = 0 /\ t.split_right = 0
      BY <1>0, <1>3, <1>4, <1>6, Zenon
    <3> HIDE DEF k, n
    <3> QED
      BY <2>1, <2>2, <2>3, <3>1, NewBlock, Zenon
  <2> QED
    BY <1>1, <2>4, Zenon
<1>9. WholePages(blocks')
  <2> HIDE DEF pages, k
  <2>1. /\ DOMAIN blocks' = DOMAIN blocks \cup {a} /\ blocks'[a] = pages
        /\ \A b \in DOMAIN blocks : b # a => blocks'[b] = blocks[b]
    BY <1>1, Zenon DEF With
  <2>2. a = (a \div l_pageSize) * l_pageSize
    BY <1>5, <1>6, Zenon DEF k
  <2> QED
    BY <1>3, <2>1, <2>2, Zenon DEF IInv, WholePages
<1>10. /\ IsHeap(h) /\ Lists(h) /\ h.tags = With(tags, a, t)
       /\ DOMAIN h.tags = DOMAIN tags \cup {a} /\ h.tags[a] = t
       /\ \A x \in DOMAIN tags : h.tags[x] = tags[x]
  <2>1. IsHeap(Heap) /\ Lists(Heap) /\ a \in Nat \ {0} /\ a \notin DOMAIN Heap.tags
    BY <1>0, <1>6, <1>8, Zenon
  <2>2. t \in TagType /\ t.index = -1 /\ t.next = 0 /\ t.prev = 0
    BY <1>4, Zenon
  <2>3. /\ IsHeap(h) /\ Lists(h) /\ h.tags = With(Heap.tags, a, t)
        /\ DOMAIN h.tags = DOMAIN Heap.tags \cup {a} /\ h.tags[a] = t
        /\ \A x \in DOMAIN Heap.tags : h.tags[x] = Heap.tags[x]
    BY <2>1, <2>2, Added
  <2> QED
    BY <1>0, <2>3, Zenon
<1> HIDE DEF h
<1>11. Homed(h) /\ NeverSideBySide(h)
  <2>1. Homed(h)
    BY <1>0, <1>4, <1>10, Zenon DEF Homed
  <2>2. NeverSideBySide(h)
    BY <1>0, <1>4, <1>10, SMTT(25) DEF NeverSideBySide, TileAt
  <2> QED
    BY <2>1, <2>2, Zenon
<1>12. Neat(h, blocks')
  BY <1>8, <1>10, <1>11, Zenon DEF Neat, Sound
<1>13. GrantsIn(h.tags, granted)
  BY <1>10, Zenon DEF IInv, GrantsIn
<1>14. a \in DOMAIN h.tags /\ h.tags[a].index = -1 /\ h.tags[a].split_right = 0
       /\ job.size + TagSize <= h.tags[a].real_size
  BY <1>3, <1>4, <1>10, Zenon
<1>15. /\ IInv' /\ tags'[a].index = -1
       /\ \A x \in DOMAIN h.tags : x # a => /\ tags'[x].index = h.tags[x].index
                                           /\ tags'[x].split_right = h.tags[x].split_right
  BY <1>1, <1>2, <1>8, <1>9, <1>12, <1>13, <1>14, ReturnStep
<1>16. TakenOut(a)
  BY <1>10, <1>15, Zenon DEF TakenOut, Untouched
<1> QED
  BY <1>8, <1>15, <1>16, Zenon

\* A block that is one free tag goes back to the memory manager.
LEMMA FreeBlockStep ==
    ASSUME IInv, liballoc_free
    PROVE  /\ IInv' /\ blocks' = Without(blocks, job.tag) /\ job.tag \in DOMAIN blocks
           /\ tags[job.tag].index = -1 /\ \A x \in DOMAIN tags : x # job.tag => Untouched(x)
<1> DEFINE a == job.tag
           k == l_pageSize
           real == tags[a].real_size
           D == DOMAIN tags
<1>0. /\ Heap.tags = tags /\ IsHeap(Heap) /\ Lists(Heap) /\ Tiles(tags, blocks)
      /\ Homed(Heap) /\ NeverSideBySide(Heap) /\ 0 \notin D
      /\ \A x \in D : TileAt(tags, blocks, x)
      /\ BlocksApart(blocks) /\ Pieces(tags)
  BY Basics, HeapPieces, Zenon DEF IInv
<1>1. JobOK /\ job.pc = "melt" /\ tags[a].split_left = 0 /\ tags[a].split_right = 0
  BY Zenon DEF liballoc_free, Melted, Surplus, Whole, nullptr, IInv
<1>2. a \in D /\ tags[a].index = -1 /\ a \notin DOMAIN granted
  BY <1>1, Zenon DEF JobOK
<1>3. /\ a \in DOMAIN blocks /\ BlockEnd(blocks, a) = a + real
      /\ Tiles(Without(tags, a), Without(blocks, a)) /\ BlocksApart(Without(blocks, a))
  BY <1>0, <1>1, <1>2, GoneBlock, SMTT(25)
<1>4. blocks' = Without(blocks, a)
  <2> DEFINE c == blocks[a]
             rounded == real \div k + (IF real % k = 0 THEN 0 ELSE 1)
             pages == IF rounded < l_pageCount THEN l_pageCount ELSE rounded
  <2>1. c \in Nat /\ c >= l_pageCount /\ l_pageCount \in Nat /\ k \in Nat \ {0} /\ a \in Nat /\ real \in Nat
    BY <1>0, <1>2, <1>3, HeapAssumption, Basics, Zenon DEF IInv, WholePages
  <2>2. real = c * k
    <3>1. a + c * k = a + real
      BY <1>3, Zenon DEF BlockEnd
    <3> HIDE DEF c, k, real
    <3> QED
      BY <2>1, <3>1
  <2>3. \A i \in Nat, j \in Nat \ {0} : (i * j) \div j = i
    OBVIOUS
  <2>4. \A i \in Nat, j \in Nat \ {0} : (i * j) % j = 0
    OBVIOUS
  <2>5. real \div k = c /\ real % k = 0
    <3> HIDE DEF c, k, real
    <3> QED
      BY <2>1, <2>2, <2>3, <2>4, Zenon
  <2>6. rounded = c
    <3> HIDE DEF c, k, real
    <3> QED
      BY <2>1, <2>5
  <2>7. pages = c
    <3> HIDE DEF c, rounded
    <3> QED
      BY <2>1, <2>6, SMTT(30)
  <2>8. blocks' = IF blocks[a] = pages THEN Without(blocks, a)
                  ELSE With(Without(blocks, a), a + pages * l_pageSize, blocks[a] - pages)
    BY Zenon DEF liballoc_free
  <2> HIDE DEF pages
  <2> QED
    BY <2>7, <2>8, Zenon
<1>5. tags' = Without(tags, a) /\ l_freePages' = l_freePages /\ job' = Idle /\ granted' = granted
  BY Zenon DEF liballoc_free
<1>6. DOMAIN tags' = D \ {a} /\ \A x \in D \ {a} : tags'[x] = tags[x]
  BY <1>5, Zenon DEF Without
<1>7. /\ IsHeap(Heap') /\ Heap'.tags = tags' /\ Heap'.free = Heap.free
      /\ DOMAIN Heap'.tags = D \ {a} /\ \A x \in D \ {a} : Heap'.tags[x] = tags[x]
  <2>1. Heap' = Drop(Heap, a)
    BY <1>0, <1>5 DEF Heap, Drop
  <2>2. Heap'.tags = tags'
    BY Zenon DEF Heap
  <2>3. IsHeap(Drop(Heap, a)) /\ Drop(Heap, a).free = Heap.free
    BY <1>0, Dropped, Zenon DEF Gone
  <2> HIDE DEF Heap
  <2> QED
    BY <1>6, <2>1, <2>2, <2>3, Zenon
<1> HIDE DEF Heap
<1>8. Lists(Heap')
  <2> DEFINE r == Heap'
  <2>1. /\ r.free = Heap.free /\ DOMAIN r.tags \subseteq DOMAIN Heap.tags
        /\ \A x \in DOMAIN Heap.tags : Heap.tags[x].index # -1 => x \in DOMAIN r.tags
        /\ \A x \in DOMAIN r.tags : SameLinks(r.tags[x], Heap.tags[x])
    BY <1>0, <1>2, <1>7, Zenon DEF SameLinks
  <2> HIDE DEF r
  <2>2. Lists(r)
    BY <1>0, <2>1, ListsKept, Zenon
  <2> QED
    BY <2>2, Zenon DEF r
<1>9. Homed(Heap')
  BY <1>0, <1>7, Zenon DEF Homed
<1>10. NeverSideBySide(Heap')
  <2> SUFFICES ASSUME NEW x \in D \ {a}, tags[x].index # -1, tags[x].split_right # 0
               PROVE  Heap'.tags[tags[x].split_right].index = -1
    BY <1>7, Zenon DEF NeverSideBySide
  <2> DEFINE y == tags[x].split_right
  <2>1. y \in D /\ tags[y].split_left = x /\ tags[y].index = -1
    BY <1>0, Zenon DEF NeverSideBySide, TileAt
  <2>2. y # a
    BY <1>0, <1>1, <2>1, Zenon
  <2> HIDE DEF y
  <2>3. Heap'.tags[y].index = -1
    BY <1>7, <2>1, <2>2, Zenon
  <2> QED
    BY <2>3, Zenon DEF y
<1>11. Neat(Heap', blocks')
  BY <1>3, <1>4, <1>5, <1>7, <1>8, <1>9, <1>10, Zenon DEF Neat, Sound
<1>12. WholePages(blocks')
  BY <1>4, Zenon DEF IInv, WholePages, Without
<1>13. GrantsIn(tags', granted')
  BY <1>2, <1>5, <1>6, Zenon DEF IInv, GrantsIn
<1>14. JobOK'
  BY <1>5, IdleType, Zenon DEF JobOK
<1>15. IInv'
  BY <1>3, <1>4, <1>11, <1>12, <1>13, <1>14, Zenon DEF IInv
<1>16. \A x \in D : x # a => Untouched(x)
  BY <1>6, Zenon DEF Untouched
<1> QED
  BY <1>2, <1>3, <1>4, <1>15, <1>16, Zenon

-----------------------------------------------------------------------------
\* The empty heap satisfies the invariant.
LEMMA InitIInv == ASSUME Init PROVE IInv
<1>1. /\ DOMAIN tags = {} /\ DOMAIN blocks = {} /\ DOMAIN granted = {} /\ job = Idle
      /\ \A e \in Exponent : l_freePages[e] = 0
      /\ l_freePages \in [Exponent -> Nat] /\ tags \in [DOMAIN tags -> TagType]
  BY Zenon DEF Init, nullptr
<1>2. IsHeap(Heap)
  <2>1. Heap.tags = tags /\ Heap.free = l_freePages /\ Heap = [tags |-> Heap.tags, free |-> Heap.free]
    BY Zenon DEF Heap
  <2> HIDE DEF Heap
  <2>2. DOMAIN Heap.tags \subseteq Nat \ {0} /\ Heap.free \in [Exponent -> Nat]
    BY <1>1, <2>1, Zenon
  <2>3. Heap.tags \in [DOMAIN Heap.tags -> TagType]
    BY <1>1, <2>1, Zenon
  <2> QED
    BY <2>1, <2>2, <2>3, Zenon DEF IsHeap
<1>3. Lists(Heap)
  BY <1>1, Zenon DEF Lists, Heads, Heap
<1>4. Tiles(Heap.tags, blocks) /\ Homed(Heap) /\ NeverSideBySide(Heap)
  BY <1>1, Zenon DEF Tiles, Homed, NeverSideBySide, Heap
<1>5. BlocksApart(blocks) /\ WholePages(blocks) /\ GrantsIn(tags, granted)
  BY <1>1, Zenon DEF BlocksApart, WholePages, GrantsIn
<1>6. JobOK
  BY <1>1, IdleType, Zenon DEF JobOK
<1> QED
  BY <1>2, <1>3, <1>4, <1>5, <1>6, Zenon DEF IInv, Neat, Sound

\* A set of natural numbers has a least element.
LEMMA Least ==
    ASSUME NEW T \in SUBSET Nat, T # {}
    PROVE  \E x \in T : \A y \in T : ~(y < x)
<1> DEFINE R == OpToRel(<, Nat)
<1>1. IsWellFoundedOn(R, Nat)
  BY NatLessThanWellFounded, Zenon
<1>2. \A x, y \in Nat : y < x => <<y, x>> \in R
  BY Zenon DEF OpToRel
<1> HIDE DEF R
<1>3. \E x \in T : \A y \in T : ~ (<<y, x>> \in R)
  BY <1>1, WFMin, Zenon
<1> QED
  BY <1>2, <1>3, Zenon

\* Every size has a list: getexp finds an exponent, whatever the size.
LEMMA IndexType == EverySizeHasAList
<1> SUFFICES ASSUME NEW size \in Int PROVE IndexOf(size) \in Exponent
  BY Zenon DEF EverySizeHasAList
<1>0. MINEXP \in Exponent /\ MAXEXP - 1 \in Exponent /\ Exponent \subseteq Nat /\ \A e \in Exponent : e >= MINEXP
  BY HeapAssumption DEF Exponent
<1>1. CASE size < 2 ^ MINEXP
  BY <1>0, <1>1, HeapAssumption DEF IndexOf, getexp
<1>2. CASE ~(size < 2 ^ MINEXP)
  <2> DEFINE p(e) == 2 ^ e
             P(e) == p(e) <= size /\ (e = MAXEXP - 1 \/ size < p(e + 1))
             T == {e \in Exponent : e = MAXEXP - 1 \/ size < p(e + 1)}
  <2>0. \A e \in Nat : p(e) \in Int
    OBVIOUS
  <2>1. p(MINEXP) <= size
    BY <1>2, <2>0, HeapAssumption
  <2> HIDE DEF p
  <2>2. T \in SUBSET Nat /\ T # {}
    BY <1>0, Zenon
  <2>3. PICK e \in T : \A y \in T : ~(y < e)
    BY <2>2, Least, Zenon
  <2>4. p(e) <= size
    <3>1. CASE e = MINEXP
      BY <2>1, <3>1, Zenon
    <3>2. CASE e # MINEXP
      <4>1. e - 1 \in Exponent /\ e - 1 < e /\ e - 1 # MAXEXP - 1
        BY <2>3, <3>2, HeapAssumption DEF Exponent
      <4>2. e - 1 \notin T
        BY <2>3, <4>1, Zenon
      <4>3. ~(size < p((e - 1) + 1))
        BY <4>1, <4>2, Zenon
      <4>4. (e - 1) + 1 = e
        BY <1>0, <2>3, <4>1
      <4>5. ~(size < p(e))
        BY <4>3, <4>4, Zenon
      <4> QED
        BY <1>0, <2>0, <2>3, <4>5
    <3> QED
      BY <3>1, <3>2, Zenon
  <2>5. \E x \in Exponent : P(x)
    BY <2>3, <2>4, Zenon
  <2>6. getexp(size) = CHOOSE x \in Exponent : P(x)
    BY <1>2, Zenon DEF getexp, p
  <2>7. getexp(size) \in Exponent
    BY <2>5, <2>6, Zenon
  <2>8. ~(getexp(size) < MINEXP)
    BY <2>7, HeapAssumption DEF Exponent
  <2> QED
    BY <2>7, <2>8, Zenon DEF IndexOf
<1> QED
  BY <1>1, <1>2, Zenon

\* Every step of the heap preserves the invariant.
LEMMA NextIInv == ASSUME IInv, [Next]_vars PROVE IInv'
<1>1. ASSUME NEW size \in Sizes, kmalloc(size, nullptr) PROVE IInv'
  BY <1>1, IndexType, KmallocStep, Zenon DEF nullptr
<1>2. ASSUME NEW size \in Sizes, NEW old \in DOMAIN granted, krealloc(old, size) PROVE IInv'
  BY <1>2, IndexType, KmallocStep, Zenon DEF krealloc
<1>3. CASE SearchNext
  BY <1>3, SearchStep, Zenon
<1>4. CASE TakeTag
  BY <1>4, IndexType, TakeTagStep, Zenon
<1>5. CASE OutOfPages
  BY <1>5, OutOfPagesStep, Zenon
<1>6. ASSUME NEW a \in Address, allocate_new_tag(a) PROVE IInv'
  BY <1>6, IndexType, AllocateStep, Zenon
<1>7. ASSUME NEW a \in DOMAIN granted, kfree(a) PROVE IInv'
  BY <1>7, KfreeStep, SMTT(30)
<1>8. CASE MeltLeft
  BY <1>8, MeltLeftStep, Zenon
<1>9. CASE AbsorbRight
  BY <1>9, AbsorbRightStep, Zenon
<1>10. CASE PutBack
  BY <1>10, IndexType, PutBackStep, Zenon
<1>11. CASE liballoc_free
  BY <1>11, FreeBlockStep, Zenon
<1>12. CASE UNCHANGED vars
  BY <1>12, Zenon DEF vars, IInv, Heap, JobOK
<1> QED
  BY <1>1, <1>2, <1>3, <1>4, <1>5, <1>6, <1>7, <1>8, <1>9, <1>10, <1>11, <1>12, SMTT(30) DEF Next

\* The invariant holds from boot on.
LEMMA HeapInvariant == Spec => []IInv
  BY InitIInv, NextIInv, PTL DEF Spec

-----------------------------------------------------------------------------
\* The tags of every block tile it from its first byte to its last, for any
\* sizes, any header and any arena: split_tag, melt_left, absorb_right and the
\* giving back of whole blocks never leave a gap, an overlap or a stale
\* neighbour.
THEOREM BlocksTiled == Spec => []TagsTile
<1>1. ASSUME IInv PROVE TagsTile
  <2>1. Tiles(tags, blocks) /\ \A a \in DOMAIN tags : TileAt(tags, blocks, a)
    BY <1>1, Basics, Zenon
  <2> SUFFICES ASSUME NEW a \in DOMAIN tags
               PROVE  LET t == tags[a]
                          end == a + t.real_size
                      IN  /\ t.real_size >= TagSize
                          /\ (t.split_left = nullptr) = (a \in DOMAIN blocks)
                          /\ IF t.split_right = nullptr
                             THEN \E b \in DOMAIN blocks : b <= a /\ end = b + blocks[b] * l_pageSize
                             ELSE /\ t.split_right = end
                                  /\ end \in DOMAIN tags /\ tags[end].split_left = a
    BY <2>1, Zenon DEF TagsTile, Tiles
  <2>2. TileAt(tags, blocks, a)
    BY <2>1, Zenon
  <2>3. (tags[a].split_left = nullptr) = (a \in DOMAIN blocks)
    BY <2>2 DEF TileAt, nullptr
  <2>4. tags[a].split_right = 0 =>
            \E b \in DOMAIN blocks : b <= a /\ a + tags[a].real_size = b + blocks[b] * l_pageSize
    BY <2>2, Zenon DEF TileAt, InBlock, BlockEnd
  <2> QED
    BY <2>2, <2>3, <2>4, Zenon DEF TileAt, nullptr
<1> QED
  BY <1>1, HeapInvariant, PTL

\* Memory in use holds the size that was asked for, ends where its tag ends and
\* is in no list, whatever the calls that came before.
THEOREM MemoryInUseHolds == Spec => []GrantsHold
<1>1. ASSUME IInv PROVE GrantsHold
  BY <1>1, Zenon DEF IInv, GrantsIn, Fits, GrantsHold
<1> QED
  BY <1>1, HeapInvariant, PTL

\* The lists hold exactly the free tags, each in the list of its exponent, with
\* links that are each other's inverse.
THEOREM ListsSound == Spec => []ListsConsistent
<1>1. ASSUME IInv PROVE ListsConsistent
  <2>0. /\ Heap.tags = tags /\ Heap.free = l_freePages /\ Lists(Heap) /\ Homed(Heap)
        /\ -1 \notin Exponent /\ Exponent \subseteq Nat
        /\ \A a \in DOMAIN tags : tags[a].index \in Exponent \cup {-1}
    BY <1>1, Basics, Zenon
  <2>1. FreeTags = {a \in DOMAIN tags : tags[a].index # -1}
    <3>1. \A a \in DOMAIN tags : tags[a].index >= 0 <=> tags[a].index # -1
      <4> SUFFICES ASSUME NEW a \in DOMAIN tags
                   PROVE  tags[a].index >= 0 <=> tags[a].index # -1
        BY Zenon
      <4>1. tags[a].index \in Nat \/ tags[a].index = -1
        BY <2>0, Zenon
      <4> QED
        BY <4>1
    <3> QED
      BY <3>1, Zenon DEF FreeTags
  <2> HIDE DEF Heap
  <2>2. \A e \in Exponent : l_freePages[e] # nullptr =>
            /\ l_freePages[e] \in FreeTags
            /\ tags[l_freePages[e]].index = e /\ tags[l_freePages[e]].prev = nullptr
    BY <2>0, <2>1 DEF Lists, Heads, nullptr
  <2>3. ASSUME NEW a \in FreeTags
        PROVE  LET t == tags[a] IN
               /\ t.index = IndexOf(t.real_size - TagSize)
               /\ t.prev = nullptr => l_freePages[t.index] = a
               /\ t.next # nullptr =>
                      t.next \in FreeTags /\ tags[t.next].prev = a /\ tags[t.next].index = t.index
               /\ t.prev # nullptr => t.prev \in FreeTags /\ tags[t.prev].next = a
    <3>1. a \in DOMAIN tags /\ tags[a].index # -1 /\ LinkedAt(Heap, a)
      BY <2>0, <2>1, Zenon DEF Lists
    <3>2. tags[a].index = IndexOf(tags[a].real_size - TagSize)
      BY <2>0, <3>1, Zenon DEF Homed
    <3> QED
      BY <2>0, <2>1, <3>1, <3>2, Zenon DEF LinkedAt, nullptr
  <2>4. \A a \in DOMAIN tags \ FreeTags : tags[a].next = nullptr /\ tags[a].prev = nullptr
    BY <2>0, <2>1, Zenon DEF Lists, nullptr
  <2> QED
    BY <2>2, <2>3, <2>4, Zenon DEF ListsConsistent
<1> QED
  BY <1>1, HeapInvariant, PTL

\* Two free tags are never side by side.
THEOREM FreeMemoryMelts == Spec => []Coalesced
<1>1. ASSUME IInv PROVE Coalesced
  <2>0. /\ Heap.tags = tags /\ NeverSideBySide(Heap) /\ Exponent \subseteq Nat
        /\ \A a \in DOMAIN tags : tags[a].index \in Exponent \cup {-1}
    BY <1>1, Basics, Zenon
  <2> SUFFICES ASSUME NEW a \in DOMAIN tags, tags[a].index >= 0, tags[a].split_right # 0,
                      tags[tags[a].split_right].index >= 0
               PROVE  FALSE
    BY Zenon DEF Coalesced, FreeTags, nullptr
  <2> HIDE DEF Heap
  <2>1. tags[a].index # -1
    BY <2>0
  <2>2. tags[tags[a].split_right].index = -1
    BY <2>0, <2>1, Zenon DEF NeverSideBySide
  <2> QED
    BY <2>2
<1> QED
  BY <1>1, HeapInvariant, PTL

-----------------------------------------------------------------------------
(* The count of whole blocks.                                              *)

\* The blocks that are one free tag in the list e.  The left neighbour of a
\* block's first tag is null, and of no other tag.
Complete(e) == {b \in DOMAIN blocks : tags[b].index = e /\ tags[b].split_right = 0}

\* kmalloc takes its count down by the size asked for: it searches the list of
\* that size.
SearchesItsList ==
    job.pc = "search" /\ job.tag # 0 => tags[job.tag].index = IndexOf(job.size)

CountInv ==
    /\ IsFiniteSet(DOMAIN blocks) /\ SearchesItsList
    /\ l_completePages = [e \in Exponent |-> l_completePages[e]]
    /\ \A e \in Exponent : /\ l_completePages[e] = Cardinality(Complete(e))
                           /\ l_completePages[e] <= MAXCOMPLETE

\* A block is the tag at its start.
LEMMA BlockTags ==
    ASSUME IInv
    PROVE  /\ DOMAIN blocks \subseteq DOMAIN tags
           /\ \A a \in DOMAIN tags : tags[a].split_left = 0 <=> a \in DOMAIN blocks
<1>1. Tiles(tags, blocks) /\ \A a \in DOMAIN tags : TileAt(tags, blocks, a)
  BY Basics, Zenon
<1> QED
  BY <1>1, Zenon DEF Tiles, TileAt

\* Blocks that stay complete or incomplete stay counted.
LEMMA CountKept ==
    ASSUME CountInv, l_completePages' = l_completePages, IsFiniteSet(DOMAIN blocks'),
           SearchesItsList', \A e \in Exponent : Complete(e)' = Complete(e)
    PROVE  CountInv'
  BY Zenon DEF CountInv

\* Steps that leave tags and blocks alone.
LEMMA CountIdle ==
    ASSUME CountInv, UNCHANGED <<tags, blocks, l_completePages>>, SearchesItsList'
    PROVE  CountInv'
<1>1. \A e \in Exponent : Complete(e)' = Complete(e)
  BY Zenon DEF Complete
<1>2. IsFiniteSet(DOMAIN blocks')
  BY Zenon DEF CountInv
<1> QED
  BY <1>1, <1>2, CountKept, Zenon

\* A step that leaves all blocks but one alone, which was not complete and is
\* not.
LEMMA CountOther ==
    ASSUME IInv, CountInv, NEW a, \A x \in DOMAIN blocks : x # a => Untouched(x),
           DOMAIN blocks' \ {a} = DOMAIN blocks \ {a},
           a \in DOMAIN blocks => tags[a].index = -1 \/ tags[a].split_right # 0,
           a \in DOMAIN blocks' => tags'[a].index = -1,
           l_completePages' = l_completePages, job'.pc # "search"
    PROVE  CountInv'
<1>0. -1 \notin Exponent
  BY Basics, Zenon
<1>1. ASSUME NEW e \in Exponent PROVE Complete(e)' = Complete(e)
  <2>1. \A x : x \in Complete(e)' <=>
             x \in DOMAIN blocks' /\ tags'[x].index = e /\ tags'[x].split_right = 0
    BY Zenon DEF Complete
  <2>2. \A x : x \in Complete(e) <=>
             x \in DOMAIN blocks /\ tags[x].index = e /\ tags[x].split_right = 0
    BY Zenon DEF Complete
  <2>3. a \notin Complete(e)' /\ a \notin Complete(e)
    BY <1>0, <2>1, <2>2, Zenon
  <2>4. \A x : x # a => (x \in DOMAIN blocks' <=> x \in DOMAIN blocks)
    BY Zenon
  <2>5. \A x : x # a => (x \in Complete(e)' <=> x \in Complete(e))
    BY <2>1, <2>2, <2>4, Zenon DEF Untouched
  <2>6. \A x : x \in Complete(e)' <=> x \in Complete(e)
    BY <2>3, <2>5, Zenon
  <2> QED
    BY <2>6, Zenon
<1>2. IsFiniteSet(DOMAIN blocks')
  <2>0. IsFiniteSet(DOMAIN blocks)
    BY Zenon DEF CountInv
  <2>1. IsFiniteSet(DOMAIN blocks \cup {a})
    BY <2>0, FS_AddElement
  <2>2. DOMAIN blocks' \subseteq DOMAIN blocks \cup {a}
    BY Zenon
  <2> QED
    BY <2>1, <2>2, FS_Subset, Zenon
<1>3. SearchesItsList'
  BY Zenon DEF SearchesItsList
<1> QED
  BY <1>1, <1>2, <1>3, CountKept, Zenon

\* The complete blocks are finitely many.
LEMMA CompleteFinite ==
    ASSUME CountInv, NEW e
    PROVE  IsFiniteSet(Complete(e)) /\ Cardinality(Complete(e)) \in Nat
<1>1. IsFiniteSet(DOMAIN blocks) /\ Complete(e) \subseteq DOMAIN blocks
  BY Zenon DEF CountInv, Complete
<1>2. IsFiniteSet(Complete(e))
  BY <1>1, FS_Subset, Zenon
<1> QED
  BY <1>2, FS_CardinalityType, Zenon

\* kmalloc takes a tag: a complete block is counted down.
LEMMA CountTake ==
    ASSUME IInv, CountInv, TakeTag
    PROVE  CountInv'
<1> DEFINE a == job.tag
           i == tags[a].index
<1>1. /\ job.pc = "search" /\ a # 0 /\ blocks' = blocks /\ job' = Idle
      /\ l_completePages' = IF Whole(tags[a])
                            THEN [l_completePages EXCEPT ![IndexOf(job.size)] = @ - 1]
                            ELSE l_completePages
  BY Zenon DEF TakeTag, Return, nullptr
<1>2. a \in DOMAIN tags /\ i # -1 /\ i = IndexOf(job.size) /\ i \in Exponent
  <2>1. a \in DOMAIN tags /\ i # -1
    BY <1>1, Zenon DEF IInv, JobOK
  <2>2. i = IndexOf(job.size)
    BY <1>1, Zenon DEF CountInv, SearchesItsList
  <2>3. i \in Exponent
    BY <2>1, Basics, Zenon
  <2> QED
    BY <2>1, <2>2, <2>3, Zenon
<1>3. TakenOut(a)
  BY IndexType, TakeTagStep, Zenon
<1>4. job'.pc = "idle"
  BY <1>1, Zenon DEF Idle
<1>5. Whole(tags[a]) <=> a \in DOMAIN blocks /\ tags[a].split_right = 0
  BY <1>2, BlockTags, Zenon DEF Whole, nullptr
<1> HIDE DEF a
<1>6. CASE ~Whole(tags[a])
  <2>1. /\ l_completePages' = l_completePages /\ job'.pc # "search"
        /\ a \in DOMAIN blocks => tags[a].index = -1 \/ tags[a].split_right # 0
        /\ a \in DOMAIN blocks' => tags'[a].index = -1
        /\ DOMAIN blocks' \ {a} = DOMAIN blocks \ {a}
    BY <1>1, <1>3, <1>4, <1>5, <1>6, Zenon DEF TakenOut
  <2>2. \A x \in DOMAIN blocks : x # a => Untouched(x)
    BY <1>3, BlockTags, Zenon DEF TakenOut
  <2> QED
    BY <2>1, <2>2, CountOther, Zenon
<1>7. CASE Whole(tags[a])
  <2>1. a \in Complete(i)
    BY <1>5, <1>7, Zenon DEF Complete
  <2>2. ASSUME NEW e \in Exponent
        PROVE  Complete(e)' = Complete(e) \ {a} /\ (e # i => a \notin Complete(e))
    <3>1. \A x \in DOMAIN blocks : x # a => Untouched(x)
      BY <1>3, BlockTags, Zenon DEF TakenOut
    <3>2. -1 \notin Exponent /\ tags'[a].index = -1
      BY <1>3, Basics, Zenon DEF TakenOut
    <3>3. \A x : x \in Complete(e)' <=>
               x \in DOMAIN blocks /\ tags'[x].index = e /\ tags'[x].split_right = 0
      BY <1>1, Zenon DEF Complete
    <3>4. \A x : x \in Complete(e) <=>
               x \in DOMAIN blocks /\ tags[x].index = e /\ tags[x].split_right = 0
      BY Zenon DEF Complete
    <3>5. \A x : x \in Complete(e)' <=> x \in Complete(e) /\ x # a
      BY <3>1, <3>2, <3>3, <3>4, Zenon DEF Untouched
    <3> QED
      BY <3>4, <3>5, Zenon
  <2> HIDE DEF i
  <2>3. /\ l_completePages' = [e \in Exponent |-> l_completePages'[e]]
        /\ \A e \in Exponent :
               l_completePages'[e] = IF e = i THEN l_completePages[e] - 1 ELSE l_completePages[e]
    <3>1. l_completePages' = [l_completePages EXCEPT ![i] = @ - 1]
      BY <1>1, <1>2, <1>7, Zenon
    <3>2. l_completePages = [e \in Exponent |-> l_completePages[e]]
      BY Zenon DEF CountInv
    <3> QED
      BY <3>1, <3>2
  <2>4. ASSUME NEW e \in Exponent
        PROVE  l_completePages'[e] = Cardinality(Complete(e)') /\ l_completePages'[e] <= MAXCOMPLETE
    <3>1. l_completePages[e] = Cardinality(Complete(e)) /\ l_completePages[e] <= MAXCOMPLETE
      BY Zenon DEF CountInv
    <3>2. IsFiniteSet(Complete(e)) /\ Cardinality(Complete(e)) \in Nat /\ MAXCOMPLETE \in Nat
      BY CompleteFinite, HeapAssumption, Zenon
    <3>3. CASE e = i
      <4>1. Cardinality(Complete(e) \ {a}) = Cardinality(Complete(e)) - 1
        BY <2>1, <3>2, <3>3, FS_RemoveElement, Zenon
      <4>2. l_completePages'[e] = Cardinality(Complete(e)')
        BY <2>2, <2>3, <3>1, <3>3, <4>1, Zenon
      <4>3. l_completePages'[e] = l_completePages[e] - 1
        BY <2>3, <3>3, Zenon
      <4> QED
        BY <3>1, <3>2, <4>2, <4>3
    <3>4. CASE e # i
      BY <2>2, <2>3, <3>1, <3>4, Zenon
    <3> QED
      BY <3>3, <3>4, Zenon
  <2>5. SearchesItsList' /\ IsFiniteSet(DOMAIN blocks')
    BY <1>1, <1>4, Zenon DEF SearchesItsList, CountInv
  <2> QED
    BY <2>3, <2>4, <2>5, Zenon DEF CountInv
<1> QED
  BY <1>6, <1>7, Zenon

\* kfree puts a tag back: a complete block is counted, and there was room.
LEMMA CountPutBack ==
    ASSUME IInv, CountInv, PutBack
    PROVE  CountInv'
<1> DEFINE a == job.tag
           i == Home
<1>1. /\ job.pc = "melt" /\ blocks' = blocks /\ job' = Idle /\ ~Surplus
      /\ l_completePages' = IF Whole(tags[a]) THEN [l_completePages EXCEPT ![i] = @ + 1]
                            ELSE l_completePages
  BY Zenon DEF PutBack, Melted
<1>2. a \in DOMAIN tags /\ tags[a].index = -1
  BY <1>1, Zenon DEF IInv, JobOK
<1>3. /\ i \in Exponent /\ tags'[a].index = i
      /\ \A x \in DOMAIN tags : tags'[x].split_right = tags[x].split_right
      /\ \A x \in DOMAIN tags : x # a => tags'[x].index = tags[x].index
  BY IndexType, PutBackStep, Zenon
<1>4. job'.pc = "idle"
  BY <1>1, Zenon DEF Idle
<1>5. Whole(tags[a]) <=> a \in DOMAIN blocks /\ tags[a].split_right = 0
  BY <1>2, BlockTags, Zenon DEF Whole, nullptr
<1>6. SearchesItsList' /\ IsFiniteSet(DOMAIN blocks')
  BY <1>1, <1>4, Zenon DEF SearchesItsList, CountInv
<1>7. Whole(tags[a]) => l_completePages[i] # MAXCOMPLETE
  BY <1>1, Zenon DEF Surplus
<1> HIDE DEF a, i
<1>8. ASSUME NEW e \in Exponent
      PROVE  /\ Whole(tags[a]) /\ e = i => Complete(e)' = Complete(e) \cup {a}
             /\ ~(Whole(tags[a]) /\ e = i) => Complete(e)' = Complete(e)
             /\ a \notin Complete(e)
  <2>0. -1 \notin Exponent /\ DOMAIN blocks \subseteq DOMAIN tags
    BY Basics, BlockTags, Zenon
  <2>1. \A x : x \in Complete(e)' <=>
             x \in DOMAIN blocks /\ tags'[x].index = e /\ tags'[x].split_right = 0
    BY <1>1, Zenon DEF Complete
  <2>2. \A x : x \in Complete(e) <=>
             x \in DOMAIN blocks /\ tags[x].index = e /\ tags[x].split_right = 0
    BY Zenon DEF Complete
  <2>3. \A x : x # a => (x \in Complete(e)' <=> x \in Complete(e))
    BY <1>3, <2>0, <2>1, <2>2, Zenon
  <2>4. a \notin Complete(e) /\ (a \in Complete(e)' <=> Whole(tags[a]) /\ e = i)
    BY <1>2, <1>3, <1>5, <2>0, <2>1, <2>2, Zenon
  <2>5. CASE Whole(tags[a]) /\ e = i
    <3>1. \A x : x \in Complete(e)' <=> x \in Complete(e) \cup {a}
      BY <2>3, <2>4, <2>5, Zenon
    <3> QED
      BY <2>4, <2>5, <3>1, Zenon
  <2>6. CASE ~(Whole(tags[a]) /\ e = i)
    <3>1. \A x : x \in Complete(e)' <=> x \in Complete(e)
      BY <2>3, <2>4, <2>6, Zenon
    <3>2. Complete(e)' = Complete(e)
      BY <3>1, Zenon
    <3> QED
      BY <2>4, <2>6, <3>2, Zenon
  <2> QED
    BY <2>5, <2>6, Zenon
<1>9. CASE ~Whole(tags[a])
  BY <1>1, <1>6, <1>8, <1>9, CountKept, Zenon
<1>10. CASE Whole(tags[a])
  <2>1. /\ l_completePages' = [e \in Exponent |-> l_completePages'[e]]
        /\ \A e \in Exponent :
               l_completePages'[e] = IF e = i THEN l_completePages[e] + 1 ELSE l_completePages[e]
    <3>1. l_completePages' = [l_completePages EXCEPT ![i] = @ + 1]
      BY <1>1, <1>10, Zenon
    <3>2. l_completePages = [e \in Exponent |-> l_completePages[e]]
      BY Zenon DEF CountInv
    <3> QED
      BY <3>1, <3>2
  <2>2. ASSUME NEW e \in Exponent
        PROVE  l_completePages'[e] = Cardinality(Complete(e)') /\ l_completePages'[e] <= MAXCOMPLETE
    <3>1. l_completePages[e] = Cardinality(Complete(e)) /\ l_completePages[e] <= MAXCOMPLETE
      BY Zenon DEF CountInv
    <3>2. IsFiniteSet(Complete(e)) /\ Cardinality(Complete(e)) \in Nat /\ MAXCOMPLETE \in Nat
      BY CompleteFinite, HeapAssumption, Zenon
    <3>3. CASE e = i
      <4>1. Cardinality(Complete(e) \cup {a}) = Cardinality(Complete(e)) + 1
        BY <1>8, <3>2, FS_AddElement, Zenon
      <4>2. l_completePages'[e] = Cardinality(Complete(e)')
        BY <1>8, <1>10, <2>1, <3>1, <3>3, <4>1, Zenon
      <4>3. l_completePages'[e] = l_completePages[e] + 1 /\ l_completePages[e] # MAXCOMPLETE
        BY <1>7, <1>10, <2>1, <3>3, Zenon
      <4> QED
        BY <3>1, <3>2, <4>2, <4>3
    <3>4. CASE e # i
      BY <1>8, <2>1, <3>1, <3>4, Zenon
    <3> QED
      BY <3>3, <3>4, Zenon
  <2> QED
    BY <1>6, <2>1, <2>2, Zenon DEF CountInv
<1> QED
  BY <1>9, <1>10, Zenon

\* A new block is in use, melting changes no block that is complete, and a
\* block that is given back was not counted.
LEMMA CountBlocks ==
    ASSUME IInv, CountInv,
           (\E a \in Address : allocate_new_tag(a)) \/ MeltLeft \/ AbsorbRight \/ liballoc_free
    PROVE  CountInv'
<1>0. /\ DOMAIN blocks \subseteq DOMAIN tags /\ EverySizeHasAList
      /\ \A x \in DOMAIN tags : tags[x].split_left = 0 <=> x \in DOMAIN blocks
      /\ 0 \notin DOMAIN tags /\ \A x \in DOMAIN tags : TileAt(tags, blocks, x)
  BY Basics, BlockTags, IndexType, Zenon
<1>1. ASSUME NEW a \in Address, allocate_new_tag(a) PROVE CountInv'
  <2>1. TakenOut(a) /\ a \notin DOMAIN tags
    BY <1>0, <1>1, AllocateStep, Zenon
  <2>2. blocks' = With(blocks, a, PagesFor(job.size)) /\ l_completePages' = l_completePages /\ job' = Idle
    BY <1>1, Zenon DEF allocate_new_tag, Return
  <2>3. DOMAIN blocks' = DOMAIN blocks \cup {a}
    BY <2>2, Zenon DEF With
  <2>4. DOMAIN blocks' \ {a} = DOMAIN blocks \ {a} /\ a \notin DOMAIN blocks
    BY <1>0, <2>1, <2>3, Zenon
  <2>5. job'.pc # "search"
    BY <2>2, Zenon DEF Idle
  <2>6. tags'[a].index = -1 /\ \A x \in DOMAIN blocks : x # a => Untouched(x)
    BY <1>0, <2>1, Zenon DEF TakenOut
  <2> QED
    BY <2>2, <2>4, <2>5, <2>6, CountOther, Zenon
<1>2. ASSUME MeltLeft PROVE CountInv'
  <2> DEFINE a == job.tag
             l == tags[a].split_left
  <2>1. /\ job.pc = "melt" /\ l # 0 /\ job' = [job EXCEPT !.tag = l]
        /\ UNCHANGED <<blocks, l_completePages>>
    BY <1>2, Zenon DEF MeltLeft, LeftFree, IsFree, nullptr
  <2>2. a \in DOMAIN tags /\ job.pc = "melt" /\ job'.pc # "search"
    BY <2>1, Zenon DEF IInv, JobOK
  <2>3. a \notin DOMAIN blocks /\ l \in DOMAIN tags /\ tags[l].split_right = a /\ a # 0
    BY <1>0, <2>1, <2>2, Zenon DEF TileAt
  <2>4. MeltedInto(l, a)
    BY <1>2, MeltLeftStep, Zenon
  <2> HIDE DEF a, l
  <2>5. tags'[l].index = -1 /\ \A x \in DOMAIN blocks : x # l => Untouched(x)
    BY <1>0, <2>3, <2>4, Zenon DEF MeltedInto
  <2> QED
    BY <2>1, <2>2, <2>3, <2>5, CountOther, Zenon
<1>3. ASSUME AbsorbRight PROVE CountInv'
  <2> DEFINE a == job.tag
             b == tags[a].split_right
  <2>1. job.pc = "melt" /\ b # 0 /\ UNCHANGED <<blocks, l_completePages, job>>
    BY <1>3, Zenon DEF AbsorbRight, RightFree, IsFree, nullptr
  <2>2. a \in DOMAIN tags /\ tags[a].index = -1 /\ job'.pc # "search"
    BY <2>1, Zenon DEF IInv, JobOK
  <2>3. b \in DOMAIN tags /\ tags[b].split_left = a /\ b \notin DOMAIN blocks
    <3>1. b \in DOMAIN tags /\ tags[b].split_left = a
      BY <1>0, <2>1, <2>2, Zenon DEF TileAt
    <3>2. a # 0
      BY <1>0, <2>2, Zenon
    <3> HIDE DEF a, b
    <3> QED
      BY <1>0, <3>1, <3>2, Zenon
  <2>4. MeltedInto(a, b)
    BY <1>3, AbsorbRightStep, Zenon
  <2> HIDE DEF a, b
  <2>5. tags'[a].index = -1 /\ \A x \in DOMAIN blocks : x # a => Untouched(x)
    BY <1>0, <2>3, <2>4, Zenon DEF MeltedInto
  <2> QED
    BY <2>1, <2>2, <2>5, CountOther, Zenon
<1>4. ASSUME liballoc_free PROVE CountInv'
  <2> DEFINE a == job.tag
  <2>1. blocks' = Without(blocks, a) /\ tags[a].index = -1 /\ \A x \in DOMAIN tags : x # a => Untouched(x)
    BY <1>4, FreeBlockStep, Zenon
  <2>2. job' = Idle /\ l_completePages' = l_completePages
    BY <1>4, Zenon DEF liballoc_free
  <2>3. job'.pc # "search"
    BY <2>2, Zenon DEF Idle
  <2> HIDE DEF a
  <2>4. DOMAIN blocks' = DOMAIN blocks \ {a}
    BY <2>1, Zenon DEF Without
  <2>5. DOMAIN blocks' \ {a} = DOMAIN blocks \ {a} /\ a \notin DOMAIN blocks'
    BY <2>4, Zenon
  <2>6. \A x \in DOMAIN blocks : x # a => Untouched(x)
    BY <1>0, <2>1, Zenon
  <2> QED
    BY <2>1, <2>2, <2>3, <2>5, <2>6, CountOther, Zenon
<1> QED
  BY <1>1, <1>2, <1>3, <1>4, Zenon

\* The search keeps to the list it began in.
LEMMA CountSearch ==
    ASSUME IInv, CountInv,
           \/ \E size \in Sizes : kmalloc(size, nullptr)
           \/ \E size \in Sizes, old \in DOMAIN granted : krealloc(old, size)
           \/ SearchNext
           \/ OutOfPages
           \/ \E a \in DOMAIN granted : kfree(a)
    PROVE  CountInv'
<1>0. /\ Heap.tags = tags /\ Heap.free = l_freePages /\ Lists(Heap) /\ EverySizeHasAList
  BY Basics, IndexType, Zenon
<1> HIDE DEF Heap
<1>1. ASSUME NEW size \in Sizes, NEW old, kmalloc(size, old) PROVE CountInv'
  <2> DEFINE a == l_freePages[IndexOf(size)]
  <2>1. /\ job' = [pc |-> "search", size |-> size, tag |-> a, old |-> old]
        /\ UNCHANGED <<tags, blocks, l_completePages>>
    BY <1>1, Zenon DEF kmalloc
  <2>2. IndexOf(size) \in Exponent
    <3>1. size \in Nat
      BY HeapAssumption, Zenon
    <3>2. size \in Int
      BY <3>1
    <3> QED
      BY <1>0, <3>2, Zenon DEF EverySizeHasAList
  <2>3. a # 0 => tags[a].index = IndexOf(size)
    BY <1>0, <2>2, Zenon DEF Lists, Heads
  <2> HIDE DEF a
  <2>4. SearchesItsList'
    BY <2>1, <2>3, Zenon DEF SearchesItsList
  <2> QED
    BY <2>1, <2>4, CountIdle, Zenon
<1>2. ASSUME SearchNext PROVE CountInv'
  <2> DEFINE a == job.tag
             b == tags[a].next
  <2>1. /\ job.pc = "search" /\ a # 0 /\ job' = [job EXCEPT !.tag = b]
        /\ UNCHANGED <<tags, blocks, l_completePages>>
    BY <1>2, Zenon DEF SearchNext, nullptr
  <2>2. /\ a \in DOMAIN tags /\ tags[a].index # -1
        /\ job \in [pc : {"idle", "search", "melt"}, size : Nat, tag : Nat, old : Nat]
    BY <2>1, Zenon DEF IInv, JobOK
  <2>3. tags[a].index = IndexOf(job.size)
    BY <2>1, Zenon DEF CountInv, SearchesItsList
  <2>4. b # 0 => tags[b].index = tags[a].index
    <3>1. LinkedAt(Heap, a)
      BY <1>0, <2>2, Zenon DEF Lists
    <3> QED
      BY <1>0, <3>1, Zenon DEF LinkedAt
  <2> HIDE DEF b
  <2>5. job'.tag = b /\ job'.size = job.size
    BY <2>1, <2>2, Zenon
  <2>6. SearchesItsList'
    BY <2>1, <2>3, <2>4, <2>5, Zenon DEF SearchesItsList
  <2> QED
    BY <2>1, <2>6, CountIdle, Zenon
<1>3. ASSUME OutOfPages \/ \E a \in DOMAIN granted : kfree(a) PROVE CountInv'
  <2>1. UNCHANGED <<tags, blocks, l_completePages>>
    BY <1>3, Zenon DEF OutOfPages, kfree
  <2>2. job'.pc # "search"
    <3>1. Idle.pc = "idle" /\ \A a : [Idle EXCEPT !.pc = "melt", !.tag = a].pc = "melt"
      BY DEF Idle
    <3>2. job'.pc = "idle" \/ job'.pc = "melt"
      BY <1>3, <3>1, Zenon DEF OutOfPages, kfree
    <3> QED
      BY <3>2
  <2> QED
    BY <2>1, <2>2, CountIdle, Zenon DEF SearchesItsList
<1> QED
  BY <1>1, <1>2, <1>3, Zenon DEF krealloc

\* Every step of the heap keeps the count.
LEMMA NextCount == ASSUME IInv, CountInv, [Next]_vars PROVE CountInv'
<1>1. CASE UNCHANGED vars
  BY <1>1, CountIdle, Zenon DEF vars, CountInv, SearchesItsList
<1>2. CASE Next
  <2>1. CASE \/ \E size \in Sizes : kmalloc(size, nullptr)
             \/ \E size \in Sizes, old \in DOMAIN granted : krealloc(old, size)
             \/ SearchNext \/ OutOfPages
             \/ \E a \in DOMAIN granted : kfree(a)
    BY <2>1, CountSearch, Zenon
  <2>2. CASE (\E a \in Address : allocate_new_tag(a)) \/ MeltLeft \/ AbsorbRight \/ liballoc_free
    BY <2>2, CountBlocks, Zenon
  <2> QED
    BY <1>2, <2>1, <2>2, CountTake, CountPutBack, Zenon DEF Next
<1> QED
  BY <1>1, <1>2, Zenon

\* l_completePages is the number of blocks that are free as a whole, by list,
\* and never more than MAXCOMPLETE: kmalloc counts down exactly when it takes
\* such a block, from the list that counted it, and kfree gives the next one
\* back, for any sizes, any arena and any sequence of calls.
THEOREM WholeBlocksCounted == Spec => []CompleteCounted
<1>1. ASSUME Init PROVE CountInv
  <2>1. DOMAIN blocks = {} /\ job.pc = "idle" /\ l_completePages = [e \in Exponent |-> 0]
    BY <1>1 DEF Init, Idle
  <2>2. \A e \in Exponent : Complete(e) = {}
    BY <2>1, Zenon DEF Complete
  <2>3. IsFiniteSet({}) /\ Cardinality({}) = 0
    BY FS_EmptySet, Zenon
  <2>4. 0 <= MAXCOMPLETE
    BY HeapAssumption
  <2>5. \A e \in Exponent : l_completePages[e] = 0
    BY <2>1, Zenon
  <2>6. l_completePages = [e \in Exponent |-> l_completePages[e]]
    BY <2>1
  <2> QED
    BY <2>1, <2>2, <2>3, <2>4, <2>5, <2>6, Zenon DEF CountInv, SearchesItsList
<1>2. ASSUME IInv, CountInv PROVE CompleteCounted
  <2>1. ASSUME NEW e \in Exponent
        PROVE  {a \in FreeTags : tags[a].index = e /\ Whole(tags[a])} = Complete(e)
    <3>1. e >= 0
      BY HeapAssumption DEF Exponent
    <3>2. \A x \in DOMAIN tags : tags[x].split_left = 0 <=> x \in DOMAIN blocks
      BY <1>2, BlockTags, Zenon
    <3>3. DOMAIN blocks \subseteq DOMAIN tags
      BY <1>2, BlockTags, Zenon
    <3>4. \A x : x \in {a \in FreeTags : tags[a].index = e /\ Whole(tags[a])} <=> x \in Complete(e)
      BY <3>1, <3>2, <3>3, Zenon DEF FreeTags, Whole, Complete, nullptr
    <3> QED
      BY <3>4, Zenon
  <2> QED
    BY <1>2, <2>1, Zenon DEF CompleteCounted, CountInv
<1> QED
  BY <1>1, <1>2, HeapInvariant, NextCount, PTL DEF Spec
=============================================================================
