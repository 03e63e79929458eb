---------------------------- MODULE KeyboardBuffer ----------------------------
(***************************************************************************)
(* The keys on their way from the keyboard interrupt to the terminal:      *)
(* Keyboard.cpp and the RingBuffer it owns, with one reader, tty_process.  *)
(* push runs at interrupt level, where nothing interrupts it, and may come *)
(* between any two memory accesses of the reader.  The kernel is compiled  *)
(* without optimisation: m_numElements-- is a load and a store, and        *)
(* getTail loads m_head and m_numElements one after the other.             *)
(***************************************************************************)
EXTENDS Naturals, Sequences

CONSTANTS
    maxElements,    \* the size of the buffer
    Key,            \* the characters of the keymap
    Garbage,        \* what an unwritten element of m_buffer holds
    MaxPresses      \* the bound on the number of keys pressed

ASSUME SizeAssumption == maxElements \in Nat \ {0}
ASSUME KeyAssumption == Garbage \notin Key
ASSUME PressAssumption == MaxPresses \in Nat

VARIABLES
    m_buffer, m_head, m_numElements,
    pc,          \* the position of the reader in Keyboard::read and pop
    head, num,   \* the operands getTail has loaded; Unread before
    element,     \* the local variable c of read
    count,       \* the operand m_numElements-- has loaded
    presses,     \* keys pressed so far
    accepted,    \* history: the keys push took
    delivered,   \* history: the keys read returned
    torn         \* history: has a push come at an exposed point of pop?

bufferVars  == <<m_buffer, m_head, m_numElements>>
readerVars  == <<pc, head, num, element, count, delivered>>
vars == <<bufferVars, readerVars, presses, accepted, torn>>

Slot == 0 .. maxElements - 1

Unread == maxElements + 1   \* no value of m_head or m_numElements

isFull == m_numElements >= maxElements

isEmpty == m_numElements = 0

\* Mutant: the tail is one element too far.
getTail_Next(h, n) == (h + (maxElements - n) + 1) % maxElements

getTail(h, n) == (h + (maxElements - n)) % maxElements

Init ==
    /\ m_buffer = [s \in Slot |-> Garbage]
    /\ m_head = 0 /\ m_numElements = 0
    /\ pc = "poll" /\ head = Unread /\ num = Unread
    /\ element = Garbage /\ count = 0
    /\ presses = 0 /\ accepted = <<>> /\ delivered = <<>> /\ torn = FALSE

-----------------------------------------------------------------------------
\* Where a push spoils what pop has read: between the two loads of getTail,
\* and between the load and the store of m_numElements--.
Exposed ==
    \/ pc = "tail" /\ (head # Unread \/ num # Unread)
    \/ pc = "store"

(* push without force: a full buffer drops the key.                        *)
push(key) ==
    IF isFull
    THEN UNCHANGED <<bufferVars, accepted, torn>>
    ELSE /\ m_buffer' = [m_buffer EXCEPT ![m_head] = key]
         /\ m_head' = (m_head + 1) % maxElements
         /\ m_numElements' = m_numElements + 1
         /\ accepted' = Append(accepted, key)
         /\ torn' = (torn \/ Exposed)

(* The keyboard's irqCallback for a key that goes down; the code of a key  *)
(* that goes up changes nothing.                                           *)
irqCallback ==
    /\ presses < MaxPresses
    /\ presses' = presses + 1
    /\ \E key \in Key : push(key)
    /\ UNCHANGED readerVars

-----------------------------------------------------------------------------
\* Mutant: read waits for a second key.
Poll_TwoKeys ==
    /\ pc = "poll" /\ m_numElements > 1
    /\ pc' = "empty"
    /\ UNCHANGED <<bufferVars, head, num, element, count, delivered, presses,
                   accepted, torn>>

\* Mutant: read does not ask for numElements first.
Poll_Blind ==
    /\ pc = "poll"
    /\ pc' = "empty"
    /\ UNCHANGED <<bufferVars, head, num, element, count, delivered, presses,
                   accepted, torn>>

(* The loop of read, which spins until there is an element, and the        *)
(* disable() of pop.                                                       *)
Poll ==
    /\ pc = "poll" /\ m_numElements > 0
    /\ pc' = "empty"
    /\ UNCHANGED <<bufferVars, head, num, element, count, delivered, presses,
                   accepted, torn>>

(* pop: its test, the two loads of getTail in either order, the element,   *)
(* and m_numElements--.                                                    *)
PopTest ==
    /\ pc = "empty"
    /\ pc' = IF isEmpty THEN "return" ELSE "tail"
    /\ UNCHANGED <<bufferVars, head, num, element, count, delivered, presses,
                   accepted, torn>>

PopTailHead ==
    /\ pc = "tail" /\ head = Unread
    /\ head' = m_head
    /\ pc' = IF num = Unread THEN "tail" ELSE "take"
    /\ UNCHANGED <<bufferVars, num, element, count, delivered, presses,
                   accepted, torn>>

PopTailNum ==
    /\ pc = "tail" /\ num = Unread
    /\ num' = m_numElements
    /\ pc' = IF head = Unread THEN "tail" ELSE "take"
    /\ UNCHANGED <<bufferVars, head, element, count, delivered, presses,
                   accepted, torn>>

PopTake ==
    /\ pc = "take"
    /\ element' = m_buffer[getTail(head, num)]
    /\ head' = Unread /\ num' = Unread
    /\ pc' = "dec"
    /\ UNCHANGED <<bufferVars, count, delivered, presses, accepted, torn>>

PopLoad ==
    /\ pc = "dec"
    /\ count' = m_numElements
    /\ pc' = "store"
    /\ UNCHANGED <<bufferVars, head, num, element, delivered, presses,
                   accepted, torn>>

\* Mutant: pop forgets the decrement.
PopStore_Kept ==
    /\ pc = "store"
    /\ m_numElements' = count
    /\ pc' = "return"
    /\ UNCHANGED <<m_buffer, m_head, head, num, element, count, delivered,
                   presses, accepted, torn>>

PopStore ==
    /\ pc = "store"
    /\ m_numElements' = count - 1
    /\ pc' = "return"
    /\ UNCHANGED <<m_buffer, m_head, head, num, element, count, delivered,
                   presses, accepted, torn>>

(* The enable() of pop and the rest of read, which takes c whatever pop    *)
(* returned.                                                               *)
Return ==
    /\ pc = "return"
    /\ delivered' = Append(delivered, element)
    /\ pc' = "poll"
    /\ UNCHANGED <<bufferVars, head, num, element, count, presses, accepted, torn>>

PopStep == PopTest \/ PopTailHead \/ PopTailNum \/ PopTake \/ PopLoad \/ PopStore

ReadStep == Poll \/ PopStep \/ Return

Next == irqCallback \/ ReadStep

\* The reader gets its time slices (the scheduler's RoundRobin).
FairSpec == Init /\ [][Next]_vars /\ WF_vars(ReadStep)

Spec == Init /\ [][Next]_vars
-----------------------------------------------------------------------------
(* The indices stay inside the buffer: push writes and pop reads a slot of *)
(* m_buffer, and m_numElements never wraps below zero.                     *)
TypeOK ==
    /\ m_buffer \in [Slot -> Key \cup {Garbage}]
    /\ m_head \in Slot /\ m_numElements \in 0 .. maxElements
    /\ pc \in {"poll", "empty", "tail", "take", "dec", "store", "return"}
    /\ head \in Slot \cup {Unread} /\ num \in (0 .. maxElements) \cup {Unread}
    /\ element \in Key \cup {Garbage} /\ count \in 0 .. maxElements
    /\ presses \in 0 .. MaxPresses
    /\ accepted \in Seq(Key) /\ delivered \in Seq(Key \cup {Garbage})
    /\ torn \in BOOLEAN

\* What read saw before it called pop is still true inside pop: pop finds an
\* element, so it is right that read ignores its result.
PopFindsElement == pc \in {"empty", "tail", "take", "dec", "store"} => m_numElements > 0

\* read never returns more keys than push took: an interrupt inside pop may
\* lose keys, but the count never promises a key that was not pressed.
NoExtraKey ==
    Len(delivered) + m_numElements + (IF pc = "return" THEN 1 ELSE 0)
        <= Len(accepted)

-----------------------------------------------------------------------------
(* The promise of the keyboard, KeyQueue: the element that pop has taken   *)
(* out but read has not yet returned is still in the queue.                *)
Place(h, n, i) == (h + (maxElements - n) + (i - 1)) % maxElements

Contents ==
    [i \in 1 .. m_numElements |-> m_buffer[Place(m_head, m_numElements, i)]]

Pending == IF pc = "return" THEN <<element>> \o Contents ELSE Contents

Queue == INSTANCE KeyQueue WITH
    Size <- maxElements + 1, queue <- Pending, out <- delivered, broken <- torn

\* Until a push comes at one of the two exposed points of pop, the keys reach
\* the terminal in the order they were pressed, each once; at every other
\* point of read and pop the interrupt is harmless.
KeysInOrder == Queue!Spec

\* The keyboard never falls asleep on keys it has: when no more keys are
\* pressed, read empties the buffer.
BufferDrained == <>[](m_numElements = 0 /\ pc = "poll")
===============================================================================
