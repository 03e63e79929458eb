------------------------- MODULE KeyboardBufferProofs -------------------------
(***************************************************************************)
(* Proofs about KeyboardBuffer, for every size of the buffer: the indices  *)
(* stay in bounds, pop finds what read saw, no key is made up, and until   *)
(* an interrupt tears pop the buffer implements KeyQueue.                  *)
(***************************************************************************)
EXTENDS KeyboardBuffer, SequenceTheorems, TLAPS

\* An index taken modulo the size of the buffer is one of its slots.
LEMMA ModRange ==
    ASSUME NEW m \in Nat \ {0}, NEW a \in Nat
    PROVE  a % m \in 0 .. m - 1
    OBVIOUS

\* The sums of RingBuffer wrap around at most once.
LEMMA ModOnce ==
    ASSUME NEW m \in Nat \ {0}, NEW a \in 0 .. 2 * m - 1
    PROVE  a % m = IF a < m THEN a ELSE a - m
    OBVIOUS

\* The slot push goes on to, and the slot pop reads.
LEMMA HeadInBuffer == \A h \in Slot : (h + 1) % maxElements \in Slot
    BY ModRange, SizeAssumption DEF Slot

\* getTail yields a slot of the buffer.
LEMMA TailInBuffer ==
    \A h \in Slot, n \in 0 .. maxElements : getTail(h, n) \in Slot
    BY ModRange, SizeAssumption DEF Slot, getTail

-----------------------------------------------------------------------------
\* What the reader knows of the buffer at each point of read and pop.
ReaderInv ==
    /\ PopFindsElement
    /\ pc = "store" => count \in 1 .. m_numElements
    /\ pc \notin {"tail", "take"} => head = Unread /\ num = Unread
    /\ pc = "tail" => head = Unread \/ num = Unread
    /\ pc = "take" => head # Unread /\ num # Unread

BufferInv == TypeOK /\ ReaderInv /\ NoExtraKey

\* The constructors of RingBuffer and Keyboard establish the invariant.
LEMMA BufferInit == Init => BufferInv
    BY SizeAssumption, PressAssumption
    DEF Init, BufferInv, TypeOK, ReaderInv, PopFindsElement, NoExtraKey, Slot, Unread

\* No statement of read or pop and no interrupt breaks it.
LEMMA BufferStep == BufferInv /\ [Next]_vars => BufferInv'
<1> SUFFICES ASSUME BufferInv, [Next]_vars PROVE BufferInv'
    OBVIOUS
<1> USE SizeAssumption, KeyAssumption, PressAssumption
        DEF BufferInv, TypeOK, ReaderInv, PopFindsElement, NoExtraKey, Slot,
            Unread, vars, bufferVars, readerVars
<1>1. CASE irqCallback
    <2>1. PICK key \in Key : push(key)
        BY <1>1 DEF irqCallback
    <2>2. CASE isFull
        BY <1>1, <2>1, <2>2 DEF irqCallback, push
    <2>3. CASE ~ isFull
        <3>1. m_head' \in Slot
            BY <2>1, <2>3, HeadInBuffer DEF push
        <3>2. m_numElements' \in 0 .. maxElements /\ m_numElements' = m_numElements + 1
            BY <2>1, <2>3 DEF push, isFull
        <3>3. accepted' \in Seq(Key) /\ Len(accepted') = Len(accepted) + 1
            <4>1. accepted \in Seq(Key) /\ accepted' = Append(accepted, key)
                BY <2>1, <2>3 DEF push
            <4> HIDE DEF BufferInv
            <4> QED
                BY <4>1
        <3>4. m_buffer' \in [Slot -> Key \cup {Garbage}]
            BY <2>1, <2>3 DEF push
        <3>5. torn' \in BOOLEAN
            BY <2>1, <2>3 DEF push, Exposed
        <3> QED
            BY <1>1, <3>1, <3>2, <3>3, <3>4, <3>5 DEF irqCallback
    <2> QED
        BY <2>2, <2>3
<1>2. CASE Poll
    BY <1>2 DEF Poll
<1>3. CASE PopTest
    BY <1>3 DEF PopTest, isEmpty
<1>4. CASE PopTailHead
    BY <1>4 DEF PopTailHead
<1>5. CASE PopTailNum
    BY <1>5 DEF PopTailNum
<1>6. CASE PopTake
    <2>1. head \in Slot /\ num \in 0 .. maxElements
        BY <1>6 DEF PopTake
    <2>2. getTail(head, num) \in Slot
        BY <2>1, TailInBuffer
    <2> QED
        BY <1>6, <2>2 DEF PopTake
<1>7. CASE PopLoad
    BY <1>7 DEF PopLoad
<1>8. CASE PopStore
    BY <1>8 DEF PopStore
<1>9. CASE Return
    BY <1>9 DEF Return
<1>10. CASE UNCHANGED vars
    BY <1>10
<1> QED
    BY <1>1, <1>2, <1>3, <1>4, <1>5, <1>6, <1>7, <1>8, <1>9, <1>10
    DEF Next, ReadStep, PopStep

\* The invariant holds in every reachable state.
THEOREM BufferInvariant == Spec => []BufferInv
    BY BufferInit, BufferStep, PTL DEF Spec

\* push writes and pop reads inside m_buffer, and m_numElements stays between
\* zero and the size of the buffer.
THEOREM IndicesInBounds == Spec => []TypeOK
    BY BufferInvariant, PTL DEF BufferInv

\* pop always finds the element that made read call it.
THEOREM PopNeverFails == Spec => []PopFindsElement
    BY BufferInvariant, PTL DEF BufferInv, ReaderInv

\* However interrupts fall, read returns no more keys than were pressed.
THEOREM NoKeyInvented == Spec => []NoExtraKey
    BY BufferInvariant, PTL DEF BufferInv

-----------------------------------------------------------------------------
(* The buffer implements KeyQueue until pop is torn.                       *)

\* Where the i-th of n elements is, when the next one goes to slot h.
LEMMA PlaceOnce ==
    ASSUME NEW h \in Slot, NEW n \in 0 .. maxElements, NEW i \in 1 .. n
    PROVE  Place(h, n, i) = IF h + (i - 1) < n THEN h + (maxElements - n) + (i - 1)
                                               ELSE h + (i - 1) - n
<1> DEFINE a == h + (maxElements - n) + (i - 1)
<1>1. a \in 0 .. 2 * maxElements - 1
    BY SizeAssumption DEF Slot
<1>2. Place(h, n, i) = a % maxElements
    BY DEF Place
<1>3. a % maxElements = IF a < maxElements THEN a ELSE a - maxElements
    <2> HIDE DEF a
    <2> QED
        BY <1>1, ModOnce, SizeAssumption
<1> QED
    BY <1>2, <1>3, SizeAssumption DEF Slot

\* The elements are in the buffer.
LEMMA PlaceInBuffer ==
    \A h \in Slot, n \in 0 .. maxElements : \A i \in 1 .. n : Place(h, n, i) \in Slot
<1> SUFFICES ASSUME NEW h \in Slot, NEW n \in 0 .. maxElements, NEW i \in 1 .. n
             PROVE  Place(h, n, i) \in Slot
    OBVIOUS
<1>1. h + (maxElements - n) + (i - 1) \in Nat
    BY SizeAssumption DEF Slot
<1> QED
    BY <1>1, ModRange, SizeAssumption DEF Place, Slot

\* The next slot, without the modulo.
LEMMA NextOnce ==
    ASSUME NEW h \in Slot
    PROVE  (h + 1) % maxElements = IF h + 1 < maxElements THEN h + 1 ELSE 0
<1>1. h + 1 \in 0 .. 2 * maxElements - 1
    BY SizeAssumption DEF Slot
<1> QED
    BY <1>1, ModOnce, SizeAssumption DEF Slot

\* push moves no element, does not overwrite one, and puts its key last.
LEMMA PlacePush ==
    ASSUME NEW h \in Slot, NEW n \in 0 .. maxElements - 1
    PROVE  /\ \A i \in 1 .. n :
                  /\ Place((h + 1) % maxElements, n + 1, i) = Place(h, n, i)
                  /\ Place(h, n, i) \in Slot \ {h}
           /\ Place((h + 1) % maxElements, n + 1, n + 1) = h
<1> DEFINE g == (h + 1) % maxElements
<1>1. g \in Slot /\ g = IF h + 1 < maxElements THEN h + 1 ELSE 0
    BY HeadInBuffer, NextOnce
<1>2. n + 1 \in 0 .. maxElements
    BY SizeAssumption
<1> HIDE DEF g
<1>3. ASSUME NEW i \in 1 .. n
      PROVE  Place(g, n + 1, i) = Place(h, n, i) /\ Place(h, n, i) \in Slot \ {h}
    <2>1. i \in 1 .. n + 1 /\ n \in 0 .. maxElements
        BY SizeAssumption
    <2>2. Place(g, n + 1, i) = IF g + (i - 1) < n + 1
                               THEN g + (maxElements - (n + 1)) + (i - 1)
                               ELSE g + (i - 1) - (n + 1)
        BY <1>1, <1>2, <2>1, PlaceOnce
    <2>3. Place(h, n, i) = IF h + (i - 1) < n THEN h + (maxElements - n) + (i - 1)
                                               ELSE h + (i - 1) - n
        BY <2>1, PlaceOnce
    <2> QED
        BY <1>1, <2>2, <2>3, SizeAssumption DEF Slot
<1>4. Place(g, n + 1, n + 1) = h
    <2>1. n + 1 \in 1 .. n + 1
        OBVIOUS
    <2>2. Place(g, n + 1, n + 1) = IF g + (n + 1 - 1) < n + 1
                                   THEN g + (maxElements - (n + 1)) + (n + 1 - 1)
                                   ELSE g + (n + 1 - 1) - (n + 1)
        BY <1>1, <1>2, <2>1, PlaceOnce
    <2> QED
        BY <1>1, <2>2, SizeAssumption DEF Slot
<1> QED
    BY <1>3, <1>4 DEF g

\* m_numElements-- drops the first element, the one getTail points to.
LEMMA PlacePop ==
    ASSUME NEW h \in Slot, NEW n \in 1 .. maxElements
    PROVE  /\ \A i \in 1 .. n - 1 : Place(h, n - 1, i) = Place(h, n, i + 1)
           /\ Place(h, n, 1) = getTail(h, n)
    BY SizeAssumption DEF Place, getTail, Slot

\* Until pop is torn, what it has loaded is what the buffer holds, or points
\* to the same element; what it has taken is the first element.
OrderInv ==
    ~ torn =>
        /\ pc = "tail" /\ head # Unread => head = m_head
        /\ pc = "tail" /\ num # Unread => num = m_numElements
        /\ pc = "take" => getTail(head, num) = getTail(m_head, m_numElements)
        /\ pc \in {"dec", "store"} => element = m_buffer[getTail(m_head, m_numElements)]
        /\ pc = "store" => count = m_numElements

\* A push that finds room leaves the first element where it was.
LEMMA PushKeepsFirst ==
    ASSUME BufferInv, NEW key \in Key, push(key), ~ isFull, m_numElements > 0
    PROVE  /\ getTail(m_head, m_numElements)' = getTail(m_head, m_numElements)
           /\ m_buffer'[getTail(m_head, m_numElements)]
                = m_buffer[getTail(m_head, m_numElements)]
<1>1. /\ m_head \in Slot /\ m_numElements \in 1 .. maxElements - 1
      /\ m_head' = (m_head + 1) % maxElements /\ m_numElements' = m_numElements + 1
      /\ m_buffer' = [m_buffer EXCEPT ![m_head] = key]
      /\ m_buffer \in [Slot -> Key \cup {Garbage}]
    BY SizeAssumption DEF BufferInv, TypeOK, push, isFull
<1>2. /\ Place(m_head', m_numElements + 1, 1) = Place(m_head, m_numElements, 1)
      /\ Place(m_head, m_numElements, 1) \in Slot \ {m_head}
    <2>1. m_numElements \in 0 .. maxElements - 1 /\ 1 \in 1 .. m_numElements
        BY <1>1, SizeAssumption
    <2> QED
        BY <1>1, <2>1, PlacePush
<1>3. /\ getTail(m_head, m_numElements) = Place(m_head, m_numElements, 1)
      /\ getTail(m_head', m_numElements + 1) = Place(m_head', m_numElements + 1, 1)
    <2>1. m_head' \in Slot /\ m_numElements + 1 \in 1 .. maxElements
          /\ m_numElements \in 1 .. maxElements
        BY <1>1, HeadInBuffer, SizeAssumption
    <2> QED
        BY <1>1, <2>1, PlacePop
<1> QED
    BY <1>1, <1>2, <1>3 DEF getTail

\* Only an interrupt at an exposed point ends the order.
LEMMA OrderStep == BufferInv /\ OrderInv /\ [Next]_vars => OrderInv'
<1> SUFFICES ASSUME BufferInv, OrderInv, [Next]_vars PROVE OrderInv'
    OBVIOUS
<1> USE DEF OrderInv
<1>0. TypeOK /\ ReaderInv
    BY DEF BufferInv
<1>1. CASE irqCallback
    <2>1. PICK key \in Key : push(key)
        BY <1>1 DEF irqCallback
    <2>2. UNCHANGED <<pc, head, num, element, count>>
        BY <1>1 DEF irqCallback, readerVars
    <2>3. CASE isFull
        BY <2>1, <2>2, <2>3 DEF push, bufferVars, getTail
    <2>4. CASE ~ isFull
        <3>1. torn' = (torn \/ Exposed)
            BY <2>1, <2>4 DEF push
        <3>2. CASE torn \/ Exposed
            BY <3>1, <3>2
        <3>3. CASE ~ (torn \/ Exposed)
            <4>1. /\ pc # "store" /\ (pc = "tail" => head = Unread /\ num = Unread)
                BY <3>3 DEF Exposed
            <4>2. CASE pc \in {"take", "dec"}
                <5>1. m_numElements > 0
                    BY <1>0, <4>2 DEF ReaderInv, PopFindsElement
                <5>2. /\ getTail(m_head', m_numElements') = getTail(m_head, m_numElements)
                      /\ m_buffer'[getTail(m_head, m_numElements)]
                           = m_buffer[getTail(m_head, m_numElements)]
                    BY <2>1, <2>4, <5>1, PushKeepsFirst DEF getTail
                <5> QED
                    BY <2>2, <3>3, <4>2, <5>2 DEF getTail
            <4>3. CASE pc \notin {"take", "dec"}
                BY <2>2, <4>1, <4>3
            <4> QED
                BY <4>2, <4>3
        <3> QED
            BY <3>2, <3>3
    <2> QED
        BY <2>3, <2>4
<1>2. CASE Poll
    BY <1>2, <1>0 DEF Poll, bufferVars, getTail, ReaderInv
<1>3. CASE PopTest
    BY <1>3, <1>0 DEF PopTest, bufferVars, getTail, ReaderInv, isEmpty
<1>4. CASE PopTailHead
    BY <1>4, <1>0 DEF PopTailHead, bufferVars, getTail, ReaderInv
<1>5. CASE PopTailNum
    BY <1>5, <1>0 DEF PopTailNum, bufferVars, getTail, ReaderInv
<1>6. CASE PopTake
    BY <1>6, <1>0 DEF PopTake, bufferVars, getTail, ReaderInv
<1>7. CASE PopLoad
    BY <1>7, <1>0 DEF PopLoad, bufferVars, getTail, ReaderInv
<1>8. CASE PopStore
    BY <1>8, <1>0 DEF PopStore, bufferVars, getTail, ReaderInv
<1>9. CASE Return
    BY <1>9, <1>0 DEF Return, bufferVars, getTail, ReaderInv
<1>10. CASE UNCHANGED vars
    BY <1>10 DEF vars, bufferVars, readerVars, getTail
<1> QED
    BY <1>1, <1>2, <1>3, <1>4, <1>5, <1>6, <1>7, <1>8, <1>9, <1>10
    DEF Next, ReadStep, PopStep

Char == Key \cup {Garbage}

\* The elements of the buffer, first to last, are a sequence.
LEMMA ContentsSeq ==
    ASSUME BufferInv
    PROVE  /\ Contents \in Seq(Char) /\ Len(Contents) = m_numElements
           /\ \A i \in 1 .. m_numElements :
                  Contents[i] = m_buffer[Place(m_head, m_numElements, i)]
<1>1. m_buffer \in [Slot -> Char] /\ m_head \in Slot /\ m_numElements \in 0 .. maxElements
    BY DEF BufferInv, TypeOK, Char
<1>2. ASSUME NEW i \in 1 .. m_numElements
      PROVE  Place(m_head, m_numElements, i) \in Slot
    BY <1>1, PlaceInBuffer
<1>3. m_numElements \in Nat /\ Contents \in [1 .. m_numElements -> Char]
    BY <1>1, <1>2, SizeAssumption DEF Contents
<1>4. Contents \in Seq(Char)
    BY <1>3, SeqDef
<1> QED
    BY <1>3, <1>4 DEF Contents

\* The primed form, for the state after a step.
LEMMA ContentsSeqNext ==
    ASSUME BufferInv'
    PROVE  /\ Contents' \in Seq(Char) /\ Len(Contents') = m_numElements'
           /\ \A i \in 1 .. m_numElements' :
                  Contents'[i] = m_buffer'[Place(m_head', m_numElements', i)]
<1>1. m_buffer' \in [Slot -> Char] /\ m_head' \in Slot /\ m_numElements' \in 0 .. maxElements
    BY DEF BufferInv, TypeOK, Char, Slot
<1>2. ASSUME NEW i \in 1 .. m_numElements'
      PROVE  Place(m_head', m_numElements', i) \in Slot
    BY <1>1, PlaceInBuffer
<1>3. m_numElements' \in Nat /\ Contents' \in [1 .. m_numElements' -> Char]
    BY <1>1, <1>2, SizeAssumption DEF Contents, Place
<1>4. Contents' \in Seq(Char)
    BY <1>3, SeqDef
<1> QED
    BY <1>3, <1>4 DEF Contents, Place

\* A push that finds room appends its key to the elements.
LEMMA PushAppends ==
    ASSUME BufferInv, BufferInv', NEW key \in Key, push(key), ~ isFull
    PROVE  Contents' = Append(Contents, key)
<1>1. /\ m_head \in Slot /\ m_numElements \in 0 .. maxElements - 1
      /\ m_head' = (m_head + 1) % maxElements /\ m_numElements' = m_numElements + 1
      /\ m_buffer' = [m_buffer EXCEPT ![m_head] = key]
      /\ m_buffer \in [Slot -> Char]
    BY SizeAssumption DEF BufferInv, TypeOK, push, isFull, Char
<1>2. key \in Char
    BY DEF Char
<1>3. Append(Contents, key) \in Seq(Char) /\ Len(Append(Contents, key)) = m_numElements + 1
    BY <1>1, <1>2, ContentsSeq
<1>4. ASSUME NEW i \in 1 .. m_numElements + 1
      PROVE  Contents'[i] = Append(Contents, key)[i]
    <2>1. Contents'[i] = m_buffer'[Place(m_head', m_numElements + 1, i)]
        BY <1>1, ContentsSeqNext
    <2>0. m_numElements \in Nat
        BY <1>1, SizeAssumption
    <2>2. CASE i \in 1 .. m_numElements
        <3>1. /\ Place(m_head', m_numElements + 1, i) = Place(m_head, m_numElements, i)
              /\ Place(m_head, m_numElements, i) \in Slot \ {m_head}
            BY <1>1, <2>2, PlacePush
        <3>2. Append(Contents, key)[i] = Contents[i]
            BY <1>1, <1>2, <2>2, ContentsSeq
        <3> QED
            BY <1>1, <2>1, <2>2, <3>1, <3>2, ContentsSeq
    <2>3. CASE i = m_numElements + 1
        <3>1. Place(m_head', m_numElements + 1, i) = m_head
            BY <1>1, <2>3, PlacePush
        <3>2. Append(Contents, key)[i] = key
            BY <1>1, <1>2, <2>3, ContentsSeq
        <3> QED
            BY <1>1, <2>1, <3>1, <3>2
    <2> QED
        <3>1. i \in 1 .. m_numElements \/ i = m_numElements + 1
            BY <2>0
        <3> QED
            BY <2>2, <2>3, <3>1
<1>5. Contents' \in Seq(Char) /\ Len(Contents') = m_numElements + 1
    BY <1>1, ContentsSeqNext
<1> QED
    BY <1>3, <1>4, <1>5, SeqEqual

\* m_numElements-- on the value the buffer still has drops the first element.
LEMMA StoreDrops ==
    ASSUME BufferInv, BufferInv', PopStore, count = m_numElements
    PROVE  Contents = <<m_buffer[getTail(m_head, m_numElements)]>> \o Contents'
<1> DEFINE first == m_buffer[getTail(m_head, m_numElements)]
<1>1. /\ m_head \in Slot /\ m_numElements \in 1 .. maxElements
      /\ m_head' = m_head /\ m_numElements' = m_numElements - 1 /\ m_buffer' = m_buffer
      /\ m_buffer \in [Slot -> Char]
    BY SizeAssumption
    DEF BufferInv, TypeOK, ReaderInv, PopFindsElement, PopStore, Char
<1>2. first \in Char
    BY <1>1, TailInBuffer
<1> HIDE DEF first
<1>3. <<first>> \in Seq(Char) /\ Len(<<first>>) = 1 /\ <<first>>[1] = first
    BY <1>2
<1>4. Contents' \in Seq(Char) /\ Len(Contents') = m_numElements - 1
    BY <1>1, ContentsSeqNext
<1>5. /\ <<first>> \o Contents' \in Seq(Char)
      /\ Len(<<first>> \o Contents') = m_numElements
      /\ \A i \in 1 .. m_numElements :
            (<<first>> \o Contents')[i] = IF i = 1 THEN first ELSE Contents'[i - 1]
    BY <1>1, <1>3, <1>4, ConcatProperties
<1>6. ASSUME NEW i \in 1 .. m_numElements
      PROVE  Contents[i] = (<<first>> \o Contents')[i]
    <2>1. Contents[i] = m_buffer[Place(m_head, m_numElements, i)]
        BY ContentsSeq
    <2>2. CASE i = 1
        BY <1>1, <1>5, <2>1, <2>2, PlacePop DEF first
    <2>3. CASE i # 1
        <3>1. i - 1 \in 1 .. m_numElements - 1
            BY <1>1, <2>3
        <3>2. Contents'[i - 1] = m_buffer[Place(m_head, m_numElements - 1, i - 1)]
            BY <1>1, <3>1, ContentsSeqNext
        <3>3. Place(m_head, m_numElements - 1, i - 1) = Place(m_head, m_numElements, i - 1 + 1)
            BY <1>1, <3>1, PlacePop
        <3>4. i - 1 + 1 = i
            OBVIOUS
        <3> QED
            BY <1>5, <2>1, <2>3, <3>2, <3>3, <3>4
    <2> QED
        BY <2>2, <2>3
<1> QED
    BY <1>5, <1>6, ContentsSeq, SeqEqual DEF first

\* The empty buffer is the empty queue.
LEMMA OrderInit == Init => OrderInv /\ Queue!Init
<1> SUFFICES ASSUME Init PROVE OrderInv /\ Queue!Init
    OBVIOUS
<1>1. BufferInv
    BY BufferInit
<1>2. Contents = <<>>
    BY <1>1, ContentsSeq DEF Init
<1> QED
    BY <1>2 DEF Init, OrderInv, Queue!Init, Pending

\* Every step is a step of the queue, or changes nothing of it.
LEMMA QueueStep ==
    BufferInv /\ BufferInv' /\ OrderInv /\ [Next]_vars => [Queue!Next]_(Queue!vars)
<1> SUFFICES ASSUME BufferInv, BufferInv', OrderInv, [Next]_vars
             PROVE  Queue!Next \/ UNCHANGED <<Pending, delivered, accepted, torn>>
    BY DEF Queue!vars
<1>0. TypeOK /\ ReaderInv
    BY DEF BufferInv
<1>1. CASE torn
    <2>1. torn'
        BY <1>1, <1>0
        DEF Next, irqCallback, push, ReadStep, PopStep, Poll, PopTest, PopTailHead,
            PopTailNum, PopTake, PopLoad, PopStore, Return, vars
    <2> QED
        BY <1>1, <2>1 DEF Queue!Next, Queue!Broken
<1>2. CASE ~ torn /\ irqCallback
    <2>1. PICK key \in Key : push(key)
        BY <1>2 DEF irqCallback
    <2>2. UNCHANGED <<pc, element, delivered>>
        BY <1>2 DEF irqCallback, readerVars
    <2>3. CASE isFull
        BY <2>1, <2>2, <2>3 DEF push, bufferVars, Pending, Contents, Place
    <2>4. CASE ~ isFull /\ torn'
        BY <1>2, <2>4 DEF Queue!Next, Queue!Break
    <2>5. CASE ~ isFull /\ ~ torn'
        <3>1. Contents' = Append(Contents, key)
            BY <2>1, <2>5, PushAppends
        <3>2. Contents \in Seq(Char) /\ Len(Contents) = m_numElements /\ key \in Char
            BY ContentsSeq DEF Char
        <3>3. m_numElements \in Nat /\ m_numElements < maxElements
            BY <1>0, <2>5, SizeAssumption DEF TypeOK, isFull
        <3>4. element \in Char
            BY <1>0 DEF TypeOK, Char
        <3>5. Pending' = Append(Pending, key) /\ Len(Pending) < maxElements + 1
            <4>1. CASE pc = "return"
                <5>1. Pending = <<element>> \o Contents /\ Pending' = <<element>> \o Contents'
                    BY <2>2, <4>1 DEF Pending
                <5>2. <<element>> \in Seq(Char) /\ Len(<<element>>) = 1
                    BY <3>4
                <5>3. <<element>> \o Append(Contents, key) = Append(<<element>> \o Contents, key)
                    BY <3>2, <5>2
                <5>4. Len(<<element>> \o Contents) = 1 + m_numElements
                    BY <3>2, <5>2, ConcatProperties
                <5> QED
                    BY <3>1, <3>3, <5>1, <5>3, <5>4, SizeAssumption
            <4>2. CASE pc # "return"
                BY <2>2, <3>1, <3>2, <3>3, <4>2, SizeAssumption DEF Pending
            <4> QED
                BY <4>1, <4>2
        <3>6. accepted' = Append(accepted, key)
            BY <2>1, <2>5 DEF push
        <3>7. torn' = FALSE
            BY <2>1, <2>5 DEF push
        <3>8. Queue!Put
            BY <1>2, <2>2, <3>5, <3>6, <3>7 DEF Queue!Put
        <3> QED
            BY <3>8 DEF Queue!Next
    <2> QED
        BY <2>3, <2>4, <2>5
<1>3. CASE ~ torn /\ PopStore
    <2>1. /\ element = m_buffer[getTail(m_head, m_numElements)] /\ count = m_numElements
          /\ pc = "store" /\ pc' = "return"
          /\ UNCHANGED <<element, delivered, accepted, torn>>
        BY <1>3 DEF PopStore, OrderInv
    <2>2. Contents = <<element>> \o Contents'
        BY <1>3, <2>1, StoreDrops
    <2> QED
        BY <2>1, <2>2 DEF Pending
<1>4. CASE ~ torn /\ Return
    <2>1. /\ pc = "return" /\ pc' = "poll" /\ delivered' = Append(delivered, element)
          /\ UNCHANGED <<bufferVars, accepted, torn>>
        BY <1>4 DEF Return
    <2>2. Contents \in Seq(Char) /\ element \in Char /\ Contents' = Contents
        BY <1>0, <2>1, ContentsSeq DEF TypeOK, Char, Contents, Place, bufferVars
    <2>3. Pending = <<element>> \o Contents /\ Pending' = Contents
        BY <2>1, <2>2 DEF Pending
    <2>4. /\ <<element>> \o Contents # <<>>
          /\ Head(<<element>> \o Contents) = element
          /\ Tail(<<element>> \o Contents) = Contents
        BY <2>2
    <2>5. torn' = FALSE
        BY <1>0, <1>4, <2>1 DEF TypeOK
    <2>6. Queue!Get
        BY <1>4, <2>1, <2>3, <2>4, <2>5 DEF Queue!Get
    <2> QED
        BY <2>6 DEF Queue!Next
<1>5. CASE Poll \/ PopTest \/ PopTailHead \/ PopTailNum \/ PopTake \/ PopLoad
    <2>1. UNCHANGED <<bufferVars, delivered, accepted, torn>>
        BY <1>5 DEF Poll, PopTest, PopTailHead, PopTailNum, PopTake, PopLoad
    <2>2. pc # "return" /\ pc' # "return"
        BY <1>0, <1>5
        DEF Poll, PopTest, PopTailHead, PopTailNum, PopTake, PopLoad, isEmpty,
            ReaderInv, PopFindsElement
    <2> QED
        BY <2>1, <2>2 DEF Pending, Contents, Place, bufferVars
<1>6. CASE UNCHANGED vars
    BY <1>6 DEF vars, bufferVars, readerVars, Pending, Contents, Place
<1> QED
    BY <1>1, <1>2, <1>3, <1>4, <1>5, <1>6 DEF Next, ReadStep, PopStep

\* Until an interrupt comes at one of the two exposed points of pop, the keys
\* leave the buffer in the order of the key presses, each exactly once.
THEOREM BufferImplementsQueue == Spec => KeysInOrder
<1>1. Init => BufferInv /\ OrderInv /\ Queue!Init
    BY BufferInit, OrderInit
<1>2. BufferInv /\ OrderInv /\ [Next]_vars
        => BufferInv' /\ OrderInv' /\ [Queue!Next]_(Queue!vars)
    BY BufferStep, OrderStep, QueueStep
<1> QED
    BY <1>1, <1>2, PTL DEF Spec, KeysInOrder, Queue!Spec
===============================================================================
