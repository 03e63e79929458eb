-------------------------------- MODULE Console --------------------------------
(***************************************************************************)
(* The text console, TTY.cpp, with the writers that share it: tty_process, *)
(* which echoes a key at a time, and the tasks that call printk.  Nothing  *)
(* locks it.  The kernel is compiled without optimisation: ++m_column is a *)
(* load and a store, and what it is compared with is loaded again.  Every  *)
(* access to the cursor and to the VGA ports is an action.  What the       *)
(* characters are, and what the screen shows, is left out: only where they *)
(* are stored matters here.                                                *)
(***************************************************************************)
EXTENDS Integers

CONSTANTS VGA_WIDTH, VGA_HEIGHT,
          Byte,         \* the values of a byte, 256
          Writer,       \* the tasks that write
          tty_process,  \* the one that echoes keys, and so may erase
          MaxLength,    \* the bound on what is printed at once
          MaxRow,       \* no new line is written from there on
          MaxMixes      \* the bound on the calls that begin during another

ASSUME ScreenAssumption == {VGA_WIDTH, VGA_HEIGHT, Byte, MaxLength, MaxRow, MaxMixes}
                               \subseteq Nat \ {0}
ASSUME WriterAssumption == tty_process \in Writer

VARIABLES m_row, m_column,
          address,   \* what the VGA's address register selects
          cursor,    \* the two registers of the cursor's place
          job,       \* what a writer is doing
          mixes      \* history: the calls that began while another was writing

vars == <<m_row, m_column, address, cursor, job, mixes>>
screenVars == <<m_row, m_column>>
vgaVars == <<address, cursor>>

Cells == VGA_WIDTH * VGA_HEIGHT
Register == {"low", "high"}

\* The local value still to be used (a row, an index or an operand that was
\* loaded; never two of them at a time), and how many characters are left.
Idle == [pc |-> "idle", value |-> 0, left |-> 0]

(* open.                                                                   *)
Init ==
    /\ m_row = 0 /\ m_column = 0
    /\ address = "high" /\ cursor = [r \in Register |-> 0]
    /\ job = [w \in Writer |-> Idle]
    /\ mixes = 0

-----------------------------------------------------------------------------
getBufferIndex(x, y) == y * VGA_WIDTH + x

Resting == \A w \in Writer : job[w].pc = "idle"

Keeps(w, from, to, value) ==
    /\ job[w].pc = from
    /\ job' = [job EXCEPT ![w].pc = to, ![w].value = value]

At(w, from, to) == Keeps(w, from, to, 0)

\* A load into a local variable, and stores to the two members.
Load(w, from, to, value) ==
    Keeps(w, from, to, value) /\ UNCHANGED <<screenVars, vgaVars, mixes>>

SetRow(w, from, to, row) ==
    /\ At(w, from, to) /\ m_row' = row /\ UNCHANGED <<m_column, vgaVars, mixes>>

SetColumn(w, from, to, column) ==
    /\ At(w, from, to) /\ m_column' = column /\ UNCHANGED <<m_row, vgaVars, mixes>>

Goes(w, from, to) == At(w, from, to) /\ UNCHANGED <<screenVars, vgaVars, mixes>>

Begin(w, length) ==
    /\ job[w].pc = "idle"
    /\ job' = [job EXCEPT ![w] = [Idle EXCEPT !.pc = "next", !.left = length]]
    /\ IF Resting THEN mixes' = mixes ELSE mixes < MaxMixes /\ mixes' = mixes + 1
    /\ UNCHANGED <<screenVars, vgaVars>>

(* A task calls printk, once the console is set.  What is in printkBuffer, *)
(* which the tasks share, may be anything.                                 *)
printk(w, length) == w # tty_process /\ Begin(w, length)

(* tty_process has read a key.                                             *)
Key == Begin(tty_process, 1)

(* The loop of write; the cursor is shown at its end.                      *)
NextChar(w) ==
    /\ job[w].pc = "next" /\ job[w].left > 0
    /\ \E kind \in {"char", "line", "erase"} :
           /\ kind = "line" => m_row < MaxRow
           /\ kind = "erase" => w = tty_process
           /\ job' = [job EXCEPT ![w].pc = kind, ![w].left = @ - 1]
    /\ UNCHANGED <<screenVars, vgaVars, mixes>>

WriteEnd(w) == job[w].left = 0 /\ Goes(w, "next", "show")

-----------------------------------------------------------------------------
(* writeChar of a character that is shown, up to the store to m_buffer.    *)
(* The index is unsigned: a negative one is beyond the screen too.         *)
CharRow(w) == Load(w, "char", "locate", m_row)
CharIndex(w) == Load(w, "locate", "test", getBufferIndex(m_column, job[w].value))

\* Mutant: a cell further is taken for one of the screen.
Beyond_OneMore(index) == index > Cells + 1 \/ index < 0

Beyond(index) == index > Cells \/ index < 0

CharFits(w) == ~Beyond(job[w].value) /\ Load(w, "test", "put", job[w].value)

(* The loop that blanks the screen.                                        *)
clear(w) == Beyond(job[w].value) /\ Goes(w, "test", "cleared")

\* Mutant: the row is left as it is.
ClearRow_Kept(w) == Goes(w, "cleared", "top")

ClearRow(w) == SetRow(w, "cleared", "top", 0)

ClearColumn(w) == SetColumn(w, "top", "put", 0)

PutChar(w) == Goes(w, "put", "increment")

(* ++m_column == VGA_WIDTH and ++m_row == VGA_HEIGHT.                      *)
ColumnLoad(w) == Load(w, "increment", "column", m_column)
ColumnStore(w) == SetColumn(w, "column", "full", job[w].value + 1)

ColumnGoesOn(w) == m_column # VGA_WIDTH /\ Goes(w, "full", "next")
ColumnWraps(w) == m_column = VGA_WIDTH /\ SetColumn(w, "full", "down", 0)
RowLoad(w) == Load(w, "down", "row", m_row)
RowStore(w) == SetRow(w, "row", "bottom", job[w].value + 1)
RowGoesOn(w) == m_row # VGA_HEIGHT /\ Goes(w, "bottom", "next")
RowWraps(w) == m_row = VGA_HEIGHT /\ SetRow(w, "bottom", "next", 0)

(* writeChar of a new line: the row is not compared with the height.       *)
LineLoad(w) == Load(w, "line", "line row", m_row)
LineStore(w) == SetRow(w, "line row", "return", job[w].value + 1)
LineReturn(w) == SetColumn(w, "return", "next", 0)

\* Mutant: the first column is erased too.
EraseTest_Always(w) == Goes(w, "erase", "erase row")

(* writeChar of a backspace: the column is tested, loaded for the index    *)
(* and loaded again for the decrement.                                     *)
EraseTest(w) == m_column > 0 /\ Goes(w, "erase", "erase row")
EraseNothing(w) == m_column <= 0 /\ Goes(w, "erase", "next")
EraseRow(w) == Load(w, "erase row", "erase column", m_row)
EraseIndex(w) == Load(w, "erase column", "blank", 
                      getBufferIndex(m_column - 1, job[w].value))
Blank(w) == Goes(w, "blank", "decrement")
EraseLoad(w) == Load(w, "decrement", "back", m_column)
EraseStore(w) == SetColumn(w, "back", "next", job[w].value - 1)

-----------------------------------------------------------------------------
(* updateCursor: two registers behind one address register.                *)
ShowRow(w) == Load(w, "show", "show column", m_row)
ShowIndex(w) == Load(w, "show column", "select low", 
                     getBufferIndex(m_column, job[w].value))

Select(w, from, to, register) ==
    /\ Keeps(w, from, to, job[w].value) /\ address' = register
    /\ UNCHANGED <<screenVars, cursor, mixes>>

Out(w, from, to, next, value) ==
    /\ Keeps(w, from, to, next) /\ cursor' = [cursor EXCEPT ![address] = value % Byte]
    /\ UNCHANGED <<screenVars, address, mixes>>

\* Mutant: the address register is not set again.
vgaWriteHigh_Same(w) ==
    \/ Load(w, "select high", "out high", job[w].value)
    \/ Out(w, "out high", "idle", 0, job[w].value \div Byte)

vgaWriteLow(w) ==
    \/ Select(w, "select low", "out low", "low")
    \/ Out(w, "out low", "select high", job[w].value, job[w].value)

vgaWriteHigh(w) ==
    \/ Select(w, "select high", "out high", "high")
    \/ Out(w, "out high", "idle", 0, job[w].value \div Byte)

-----------------------------------------------------------------------------
CharStep(w) ==
    \/ CharRow(w) \/ CharIndex(w) \/ CharFits(w) \/ clear(w)
    \/ ClearRow(w) \/ ClearColumn(w) \/ PutChar(w)
    \/ ColumnLoad(w) \/ ColumnStore(w) \/ ColumnGoesOn(w) \/ ColumnWraps(w)
    \/ RowLoad(w) \/ RowStore(w) \/ RowGoesOn(w) \/ RowWraps(w)

LineStep(w) == LineLoad(w) \/ LineStore(w) \/ LineReturn(w)

EraseStep(w) ==
    \/ EraseTest(w) \/ EraseNothing(w) \/ EraseRow(w) \/ EraseIndex(w) \/ Blank(w)
    \/ EraseLoad(w) \/ EraseStore(w)

ShowStep(w) == ShowRow(w) \/ ShowIndex(w) \/ vgaWriteLow(w) \/ vgaWriteHigh(w)

WriteStep(w) == NextChar(w) \/ WriteEnd(w) \/ CharStep(w) \/ LineStep(w)
                \/ EraseStep(w) \/ ShowStep(w)

Next ==
    \/ Key
    \/ \E w \in Writer, length \in 0 .. MaxLength : printk(w, length)
    \/ \E w \in Writer : WriteStep(w)

Spec == Init /\ [][Next]_vars

\* A task that is writing gets its time slices (the scheduler's RoundRobin).
FairSpec == Spec /\ \A w \in Writer : WF_vars(WriteStep(w))

-----------------------------------------------------------------------------
Position == {"idle", "next", "char", "locate", "test", "cleared", "top", "put", "increment",
             "column",
             "full", "down", "row", "bottom", "line", "line row", "return", "erase",
             "erase row", "erase column", "blank", "decrement", "back", "show",
             "show column", "select low", "out low", "select high", "out high"}

TypeOK ==
    /\ m_row \in Nat /\ m_column \in Int
    /\ address \in Register /\ cursor \in [Register -> 0 .. Byte - 1]
    /\ job \in [Writer -> [pc : Position, value : Int, left : 0 .. MaxLength]]
    /\ mixes \in 0 .. MaxMixes

\* writeChar stores to the screen or to the one cell behind it (its test has
\* > for >=), also when the writers mix and the column runs past the end of
\* the line; a backspace, which has no such test, does until they have mixed.
StoresOnScreen ==
    \A w \in Writer :
        job[w].pc = "put" \/ (job[w].pc = "blank" /\ mixes = 0) => job[w].value \in 0 .. Cells

OnScreen ==
    /\ m_column \in 0 .. VGA_WIDTH - 1
    /\ m_row >= VGA_HEIGHT => m_column <= (IF m_row = VGA_HEIGHT THEN 1 ELSE 0)

Shown == cursor["low"] + Byte * cursor["high"] = getBufferIndex(m_column, m_row) % (Byte * Byte)

\* Between calls that have never mixed the column is on the screen, with at
\* most one character below its last line, where new lines lead; and the VGA
\* shows the cursor where the next character goes, since updateCursor has set
\* both registers from the same place.
CursorInPlace == Resting /\ mixes = 0 => OnScreen /\ Shown

\* The damage of a mix does not last: a column that missed the end of its
\* line, or a cursor shown elsewhere, is put right by the tests of writeChar
\* and the next updateCursor while characters are written and none is erased,
\* once calls no longer mix.
ConsoleRecovers ==
    (/\ []<>(\E w \in Writer : job[w].pc = "put")
     /\ <>[](\A w \in Writer : job[w].pc # "erase"))
        => <>[](Resting => OnScreen /\ Shown)
===============================================================================
