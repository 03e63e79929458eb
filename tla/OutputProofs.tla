---------------------------- MODULE OutputProofs ----------------------------
(***************************************************************************)
(* Proofs about the text that the kernel puts out.  The console stores to  *)
(* the screen and shows its cursor where it is, for any size of the screen *)
(* and any number of writers; vsnprintf, which makes the text, never       *)
(* overruns the array of a number conversion, for any size of the array,   *)
(* any types and any conversions.                                          *)
(***************************************************************************)
EXTENDS Console, Printf, TLAPS

(* The console.                                                            *)

Job == [pc : Position, value : Int, left : 0 .. MaxLength]

Types == m_row \in Nat /\ m_column \in Int /\ job \in [Writer -> Job] /\ mixes \in Nat

\* Where a character may go, and where the next one may be stored.
Tidy(r, c) == c \in 0 .. VGA_WIDTH - 1 /\ (r >= VGA_HEIGHT => c <= (IF r = VGA_HEIGHT THEN 1 ELSE 0))
Fits(r, c) == c \in 0 .. VGA_WIDTH - 1 /\ (r < VGA_HEIGHT \/ (r = VGA_HEIGHT /\ c = 0))

\* What a writer that was never disturbed finds at each step: p is where it is,
\* v its local value, r and c the cursor.
Place(p, v, r, c) ==
    /\ p \notin {"put", "increment", "column", "full", "down", "row", "bottom", "top", "return"}
           => Tidy(r, c)
    /\ p = "locate" => v = r
    /\ p = "test" => v = getBufferIndex(c, r)
    /\ p = "top" => r = 0
    /\ p \in {"put", "increment", "column"} => Fits(r, c)
    /\ p = "column" => v = c
    /\ p = "full" => c \in 1 .. VGA_WIDTH /\ (r < VGA_HEIGHT \/ (r = VGA_HEIGHT /\ c = 1))
    /\ p \in {"down", "row", "bottom"} => c = 0
    /\ p \in {"erase row", "erase column", "blank", "decrement", "back"} => c > 0
    /\ p = "erase column" => v = r
    /\ p = "blank" => v \in 0 .. Cells
    /\ p = "back" => v = c

Sole(w) == \A v \in Writer : v # w => job[v].pc = "idle"

\* Until calls have mixed one writer at most is at work, and it is in place.
Alone == mixes = 0 =>
             \A w \in Writer : /\ job[w].pc # "idle" => Sole(w)
                               /\ Sole(w) => Place(job[w].pc, job[w].value, m_row, m_column)

\* What the local value is, mixed or not: after the test of writeChar an index
\* of the screen, and while a row is incremented a row.
Local(p, v) == /\ p = "put" => v \in 0 .. Cells
               /\ p \in {"row", "line row"} => v \in Nat

Tested == \A w \in Writer : Local(job[w].pc, job[w].value)

ScreenInv == Types /\ Alone /\ Tested

-----------------------------------------------------------------------------
\* The screen has rows and columns.
LEMMA Sizes == /\ VGA_WIDTH \in Nat /\ VGA_WIDTH > 0 /\ VGA_HEIGHT \in Nat /\ VGA_HEIGHT > 0
               /\ Cells \in Nat /\ MaxLength \in Nat
  BY ScreenAssumption DEF Cells

\* An index of the buffer is a number.
LEMMA IndexType == ASSUME NEW r \in Int, NEW c \in Int PROVE getBufferIndex(c, r) \in Int
  BY Sizes DEF getBufferIndex

\* An index that passes the test of writeChar is that of a cell, or of the first
\* cell behind the last line.
LEMMA TestedFits ==
    ASSUME NEW r \in Nat, NEW c \in Int, Tidy(r, c), ~Beyond(getBufferIndex(c, r))
    PROVE  Fits(r, c)
<1>1. r * VGA_WIDTH + c <= VGA_WIDTH * VGA_HEIGHT /\ c \in 0 .. VGA_WIDTH - 1
  BY Sizes DEF Beyond, getBufferIndex, Cells, Tidy
<1>2. CASE r < VGA_HEIGHT
  BY <1>1, <1>2 DEF Fits
<1>3. CASE r >= VGA_HEIGHT
  <2> DEFINE d == r - VGA_HEIGHT
  <2>1. d \in Nat /\ r = VGA_HEIGHT + d
    BY <1>3, Sizes
  <2>2. d * VGA_WIDTH \in Nat /\ d * VGA_WIDTH >= d
    BY <2>1, Sizes
  <2>3. r * VGA_WIDTH = VGA_WIDTH * VGA_HEIGHT + d * VGA_WIDTH
    BY <2>1, Sizes
  <2>4. d * VGA_WIDTH + c <= 0
    BY <1>1, <2>2, <2>3, Sizes
  <2>5. d = 0 /\ c = 0
    BY <1>1, <2>1, <2>2, <2>4, Sizes
  <2> QED
    BY <1>1, <2>1, <2>5, Sizes DEF Fits
<1> QED
  BY <1>2, <1>3, Sizes

\* A backspace that has found the column above 0 blanks a cell of the screen or
\* the one behind it.
LEMMA BlankFits ==
    ASSUME NEW r \in Nat, NEW c \in Int, Tidy(r, c), c > 0
    PROVE  getBufferIndex(c - 1, r) \in 0 .. Cells
<1>1. c - 1 \in 0 .. VGA_WIDTH - 1 /\ r * VGA_WIDTH \in Nat
  BY Sizes DEF Tidy
<1>2. r < VGA_HEIGHT \/ (r = VGA_HEIGHT /\ c = 1)
  BY Sizes DEF Tidy
<1>3. CASE r < VGA_HEIGHT
  <2> DEFINE d == VGA_HEIGHT - r
  <2>1. d \in Nat /\ d >= 1 /\ VGA_HEIGHT = r + d
    BY <1>3, Sizes
  <2>2. d * VGA_WIDTH >= VGA_WIDTH /\ d * VGA_WIDTH \in Nat
    BY <2>1, Sizes
  <2>3. VGA_WIDTH * VGA_HEIGHT = r * VGA_WIDTH + d * VGA_WIDTH
    BY <2>1, Sizes
  <2> QED
    BY <1>1, <2>2, <2>3, Sizes DEF getBufferIndex, Cells
<1>4. CASE r = VGA_HEIGHT /\ c = 1
  BY <1>4, Sizes DEF getBufferIndex, Cells
<1> QED
  BY <1>2, <1>3, <1>4

\* A step of a writer that leaves it in place keeps the invariant: with others
\* at work only the test before "put" matters.
LEMMA StepKeeps ==
    ASSUME ScreenInv, NEW w \in Writer, job[w].pc # "idle",
           m_row' \in Nat, m_column' \in Int, mixes' = mixes,
           job' \in [Writer -> Job], \A v \in Writer : v # w => job'[v] = job[v],
           Local(job'[w].pc, job'[w].value),
           Place(job[w].pc, job[w].value, m_row, m_column)
               => Place(job'[w].pc, job'[w].value, m_row', m_column')
    PROVE  ScreenInv'
<1>1. Types'
  BY DEF ScreenInv, Types
<1>2. Tested'
  BY Zenon DEF ScreenInv, Tested, Local
<1>3. ASSUME mixes' = 0, NEW u \in Writer
      PROVE  /\ job'[u].pc # "idle" => Sole(u)'
             /\ Sole(u)' => Place(job'[u].pc, job'[u].value, m_row', m_column')
  <2>1. Sole(w)
    BY <1>3, Zenon DEF ScreenInv, Alone
  <2>2. Place(job'[w].pc, job'[w].value, m_row', m_column')
    BY <1>3, <2>1, Zenon DEF ScreenInv, Alone
  <2>3. \A v \in Writer : v # w => job'[v].pc = "idle"
    BY <2>1, Zenon DEF Sole
  <2>4. CASE u = w
    BY <2>2, <2>3, <2>4, Zenon DEF Sole
  <2>5. CASE u # w
    <3>1. job'[u].pc = "idle"
      BY <2>3, <2>5
    <3>2. ASSUME Sole(u)' PROVE Place("idle", job'[u].value, m_row', m_column')
      <4>1. job'[w].pc = "idle"
        BY <2>5, <3>2, Zenon DEF Sole
      <4> QED
        BY <2>2, <4>1 DEF Place
    <3> QED
      BY <3>1, <3>2, Zenon
  <2> QED
    BY <2>4, <2>5
<1>4. Alone'
  BY <1>3, Zenon DEF Alone, Place
<1> QED
  BY <1>1, <1>2, <1>4 DEF ScreenInv

\* The new job of a writer.
LEMMA KeepsJob ==
    ASSUME Types, NEW w \in Writer, NEW from, NEW to \in Position, NEW val \in Int,
           Keeps(w, from, to, val)
    PROVE  /\ job[w].pc = from /\ job' \in [Writer -> Job]
           /\ job'[w].pc = to /\ job'[w].value = val
           /\ \A v \in Writer : v # w => job'[v] = job[v]
  BY DEF Types, Keeps, Job

\* The three kinds of step a writer is made of.
LEMMA LoadKeeps ==
    ASSUME ScreenInv, NEW w \in Writer, NEW from \in Position \ {"idle"}, NEW to \in Position,
           NEW val \in Int, Keeps(w, from, to, val), UNCHANGED <<screenVars, mixes>>,
           Local(to, val),
           Place(from, job[w].value, m_row, m_column) => Place(to, val, m_row, m_column)
    PROVE  ScreenInv'
<1>1. Types /\ m_row' = m_row /\ m_column' = m_column /\ mixes' = mixes
  BY DEF ScreenInv, screenVars
<1>2. /\ job[w].pc = from /\ job' \in [Writer -> Job]
      /\ job'[w].pc = to /\ job'[w].value = val
      /\ \A v \in Writer : v # w => job'[v] = job[v]
  BY <1>1, KeepsJob, Zenon
<1>3. job[w].pc # "idle" /\ m_row' \in Nat /\ m_column' \in Int
  BY <1>1, <1>2 DEF Types
<1> QED
  BY <1>1, <1>2, <1>3, StepKeeps, Zenon

\* setRow keeps the invariant.
LEMMA SetRowKeeps ==
    ASSUME ScreenInv, NEW w \in Writer, NEW from \in Position \ {"idle"},
           NEW to \in Position, NEW row \in Nat, SetRow(w, from, to, row),
           Place(from, job[w].value, m_row, m_column) => Place(to, 0, row, m_column)
    PROVE  ScreenInv'
<1>1. /\ Types /\ Keeps(w, from, to, 0) /\ m_row' = row /\ m_column' = m_column
      /\ mixes' = mixes /\ 0 \in Int /\ Local(to, 0)
  BY Sizes DEF ScreenInv, SetRow, At, Local
<1>2. /\ job[w].pc = from /\ job' \in [Writer -> Job]
      /\ job'[w].pc = to /\ job'[w].value = 0
      /\ \A v \in Writer : v # w => job'[v] = job[v]
  BY <1>1, KeepsJob, Zenon
<1>3. job[w].pc # "idle" /\ m_row' \in Nat /\ m_column' \in Int
  BY <1>1, <1>2 DEF Types
<1> QED
  BY <1>1, <1>2, <1>3, StepKeeps, Zenon

\* setColumn keeps the invariant.
LEMMA SetColumnKeeps ==
    ASSUME ScreenInv, NEW w \in Writer, NEW from \in Position \ {"idle"},
           NEW to \in Position, NEW column \in Int, SetColumn(w, from, to, column),
           Place(from, job[w].value, m_row, m_column) => Place(to, 0, m_row, column)
    PROVE  ScreenInv'
<1>1. /\ Types /\ Keeps(w, from, to, 0) /\ m_row' = m_row /\ m_column' = column
      /\ mixes' = mixes /\ 0 \in Int /\ Local(to, 0)
  BY Sizes DEF ScreenInv, SetColumn, At, Local
<1>2. /\ job[w].pc = from /\ job' \in [Writer -> Job]
      /\ job'[w].pc = to /\ job'[w].value = 0
      /\ \A v \in Writer : v # w => job'[v] = job[v]
  BY <1>1, KeepsJob, Zenon
<1>3. job[w].pc # "idle" /\ m_row' \in Nat /\ m_column' \in Int
  BY <1>1, <1>2 DEF Types
<1> QED
  BY <1>1, <1>2, <1>3, StepKeeps, Zenon

-----------------------------------------------------------------------------
\* A call begins; if another is at work, calls have mixed from then on.
LEMMA BeginKeeps ==
    ASSUME ScreenInv, NEW w \in Writer, NEW length \in 0 .. MaxLength, Begin(w, length)
    PROVE  ScreenInv'
<1>1. m_row' = m_row /\ m_column' = m_column /\ job[w].pc = "idle"
  BY DEF Begin, screenVars
<1>2. job' \in [Writer -> Job] /\ job'[w].pc = "next" /\ \A v \in Writer : v # w => job'[v] = job[v]
  <2> DEFINE j == [Idle EXCEPT !.pc = "next", !.left = length]
  <2>1. "next" \in Position
    BY DEF Position
  <2>2. Idle \in Job
    BY Sizes DEF Idle, Job, Position
  <2>3. j \in Job /\ j.pc = "next"
    BY <2>1, <2>2 DEF Job
  <2>4. job' = [job EXCEPT ![w] = j]
    BY DEF Begin
  <2> HIDE DEF j
  <2> QED
    BY <2>3, <2>4 DEF ScreenInv, Types
<1>3. mixes' \in Nat /\ (mixes' = 0 => mixes = 0 /\ Resting)
  BY DEF Begin, ScreenInv, Types
<1>4. Types'
  BY <1>1, <1>2, <1>3 DEF ScreenInv, Types
<1>5. Tested'
  BY <1>2 DEF ScreenInv, Tested, Local
<1>6. ASSUME mixes' = 0, NEW u \in Writer
      PROVE  /\ job'[u].pc # "idle" => Sole(u)'
             /\ Sole(u)' => Place(job'[u].pc, job'[u].value, m_row', m_column')
  <2>1. Resting /\ mixes = 0
    BY <1>3, <1>6
  <2>2. Sole(w) /\ job[w].pc = "idle"
    BY <1>1, <2>1, Zenon DEF Sole, Resting
  <2>3. Place("idle", job[w].value, m_row, m_column)
    BY <2>1, <2>2, Zenon DEF ScreenInv, Alone
  <2>4. Place("next", job'[w].value, m_row', m_column')
    BY <1>1, <2>3 DEF Place
  <2>5. CASE u = w
    BY <1>2, <2>1, <2>4, <2>5, Zenon DEF Sole, Resting
  <2>6. CASE u # w
    <3>1. job'[u].pc = "idle"
      BY <1>2, <2>1, <2>6, Zenon DEF Resting
    <3>2. ~Sole(u)'
      BY <1>2, <2>6 DEF Sole
    <3> QED
      BY <3>1, <3>2
  <2> QED
    BY <2>5, <2>6
<1>7. Alone'
  BY <1>6, Zenon DEF Alone, Place
<1> QED
  BY <1>4, <1>5, <1>7 DEF ScreenInv

\* The loop of write.
LEMMA NextKeeps == ASSUME ScreenInv, NEW w \in Writer, NextChar(w) \/ WriteEnd(w) PROVE ScreenInv'
<1>1. CASE NextChar(w)
  <2>1. PICK kind \in {"char", "line", "erase"} :
            job' = [job EXCEPT ![w].pc = kind, ![w].left = @ - 1]
    BY <1>1 DEF NextChar
  <2>2. /\ m_row' = m_row /\ m_column' = m_column /\ mixes' = mixes /\ job[w].pc = "next"
        /\ job[w].left > 0 /\ m_row \in Nat /\ m_column \in Int /\ job \in [Writer -> Job]
    BY <1>1 DEF NextChar, screenVars, ScreenInv, Types
  <2>3. job' \in [Writer -> Job] /\ job'[w].pc = kind /\ \A v \in Writer : v # w => job'[v] = job[v]
    <3> DEFINE j == [job[w] EXCEPT !.pc = kind, !.left = @ - 1]
    <3>1. kind \in Position
      BY DEF Position
    <3>2. job[w] \in Job /\ job[w].left - 1 \in 0 .. MaxLength
      BY <2>2, Sizes DEF Job
    <3>4. j \in Job /\ j.pc = kind
      BY <3>1, <3>2 DEF Job
    <3>3. job' = [job EXCEPT ![w] = j]
      BY <2>1, <2>2 DEF Job
    <3> HIDE DEF j
    <3> QED
      BY <2>2, <3>3, <3>4
  <2>4. Place(job[w].pc, job[w].value, m_row, m_column)
            => Place(job'[w].pc, job'[w].value, m_row', m_column')
    BY <2>2, <2>3 DEF Place
  <2>5. job[w].pc # "idle" /\ Local(job'[w].pc, job'[w].value)
    BY <2>2, <2>3 DEF Local
  <2> QED
    BY <2>2, <2>3, <2>4, <2>5, StepKeeps, Zenon
<1>2. CASE WriteEnd(w)
  <2>1. Keeps(w, "next", "show", 0) /\ UNCHANGED <<screenVars, mixes>>
    BY <1>2 DEF WriteEnd, Goes, At
  <2>2. Place("next", job[w].value, m_row, m_column) => Place("show", 0, m_row, m_column)
    BY DEF Place
  <2>3. "next" \in Position \ {"idle"} /\ "show" \in Position /\ Local("show", 0) /\ 0 \in Int
    BY DEF Position, Local
  <2> QED
    BY <2>1, <2>2, <2>3, LoadKeeps, Zenon
<1> QED
  BY <1>1, <1>2

\* writeChar of a character: the test makes room for it, and the increments wrap
\* the column and the row.
LEMMA CharKeeps == ASSUME ScreenInv, NEW w \in Writer, CharStep(w) PROVE ScreenInv'
<1>0. m_row \in Nat /\ m_column \in Int /\ job[w].value \in Int
  BY DEF ScreenInv, Types, Job
<1>1. CASE CharRow(w)
  <2>1. Keeps(w, "char", "locate", m_row) /\ UNCHANGED <<screenVars, mixes>>
    BY <1>1 DEF CharRow, Load, Goes, At
  <2>2. m_row \in Int
    BY <1>0
  <2>3. Place("char", job[w].value, m_row, m_column) => Place("locate", m_row, m_row, m_column)
    BY <1>0, <2>1, Sizes DEF Place, Tidy, Fits
  <2>4. "char" \in Position \ {"idle"} /\ "locate" \in Position /\ Local("locate", m_row)
    BY <1>0 DEF Position, Local
  <2> QED
    BY <2>1, <2>2, <2>3, <2>4, LoadKeeps, Zenon
<1>2. CASE CharIndex(w)
  <2>1. Keeps(w, "locate", "test", getBufferIndex(m_column, job[w].value)) /\ UNCHANGED <<screenVars, mixes>>
    BY <1>2 DEF CharIndex, Load, Goes, At
  <2>2. getBufferIndex(m_column, job[w].value) \in Int
    BY <1>0, IndexType
  <2>3. Place("locate", job[w].value, m_row, m_column)
            => Place("test", getBufferIndex(m_column, job[w].value), m_row, m_column)
    BY <1>0, <2>1, Sizes DEF Place, Tidy, Fits
  <2>4. "locate" \in Position \ {"idle"} /\ "test" \in Position /\ Local("test", getBufferIndex(m_column, job[w].value))
    BY <1>0 DEF Position, Local
  <2> QED
    BY <2>1, <2>2, <2>3, <2>4, LoadKeeps, Zenon
<1>3. CASE CharFits(w)
  <2>1. Keeps(w, "test", "put", job[w].value) /\ UNCHANGED <<screenVars, mixes>>
        /\ ~Beyond(job[w].value)
    BY <1>3 DEF CharFits, Load, Goes, At
  <2>2. job[w].value \in 0 .. Cells
    BY <1>0, <2>1, Sizes DEF Beyond
  <2>3. ASSUME Place("test", job[w].value, m_row, m_column) PROVE Place("put", job[w].value, m_row, m_column)
    <3>1. Tidy(m_row, m_column) /\ ~Beyond(getBufferIndex(m_column, m_row))
      BY <2>1, <2>3 DEF Place
    <3>2. Fits(m_row, m_column)
      BY <1>0, <3>1, TestedFits
    <3> QED
      BY <3>2 DEF Place
  <2>4. "test" \in Position \ {"idle"} /\ "put" \in Position /\ Local("put", job[w].value)
    BY <2>2 DEF Position, Local
  <2> QED
    BY <1>0, <2>1, <2>3, <2>4, LoadKeeps, Zenon
<1>4. CASE clear(w)
  <2>1. Keeps(w, "test", "cleared", 0) /\ UNCHANGED <<screenVars, mixes>>
    BY <1>4 DEF clear, Load, Goes, At
  <2>2. 0 \in Int
    BY <1>0
  <2>3. Place("test", job[w].value, m_row, m_column) => Place("cleared", 0, m_row, m_column)
    BY <1>0, <2>1, Sizes DEF Place, Tidy, Fits
  <2>4. "test" \in Position \ {"idle"} /\ "cleared" \in Position /\ Local("cleared", 0)
    BY <1>0 DEF Position, Local
  <2> QED
    BY <2>1, <2>2, <2>3, <2>4, LoadKeeps, Zenon
<1>5. CASE ClearRow(w)
  <2>1. SetRow(w, "cleared", "top", 0)
    BY <1>5 DEF ClearRow
  <2>2. 0 \in Nat
    BY <1>0
  <2>3. Place("cleared", job[w].value, m_row, m_column) => Place("top", 0, 0, m_column)
    BY <1>0, <2>1, Sizes DEF Place, Tidy, Fits
  <2>4. "cleared" \in Position \ {"idle"} /\ "top" \in Position
    BY <1>0 DEF Position
  <2> QED
    BY <2>1, <2>2, <2>3, <2>4, SetRowKeeps, Zenon
<1>6. CASE ClearColumn(w)
  <2>1. SetColumn(w, "top", "put", 0)
    BY <1>6 DEF ClearColumn
  <2>2. 0 \in Int
    BY <1>0
  <2>3. Place("top", job[w].value, m_row, m_column) => Place("put", 0, m_row, 0)
    BY <1>0, <2>1, Sizes DEF Place, Tidy, Fits
  <2>4. "top" \in Position \ {"idle"} /\ "put" \in Position
    BY <1>0 DEF Position
  <2> QED
    BY <2>1, <2>2, <2>3, <2>4, SetColumnKeeps, Zenon
<1>7. CASE PutChar(w)
  <2>1. Keeps(w, "put", "increment", 0) /\ UNCHANGED <<screenVars, mixes>>
    BY <1>7 DEF PutChar, Load, Goes, At
  <2>2. 0 \in Int
    BY <1>0
  <2>3. Place("put", job[w].value, m_row, m_column) => Place("increment", 0, m_row, m_column)
    BY <1>0, <2>1, Sizes DEF Place, Tidy, Fits
  <2>4. "put" \in Position \ {"idle"} /\ "increment" \in Position /\ Local("increment", 0)
    BY <1>0 DEF Position, Local
  <2> QED
    BY <2>1, <2>2, <2>3, <2>4, LoadKeeps, Zenon
<1>8. CASE ColumnLoad(w)
  <2>1. Keeps(w, "increment", "column", m_column) /\ UNCHANGED <<screenVars, mixes>>
    BY <1>8 DEF ColumnLoad, Load, Goes, At
  <2>2. m_column \in Int
    BY <1>0
  <2>3. Place("increment", job[w].value, m_row, m_column) => Place("column", m_column, m_row, m_column)
    BY <1>0, <2>1, Sizes DEF Place, Tidy, Fits
  <2>4. "increment" \in Position \ {"idle"} /\ "column" \in Position /\ Local("column", m_column)
    BY <1>0 DEF Position, Local
  <2> QED
    BY <2>1, <2>2, <2>3, <2>4, LoadKeeps, Zenon
<1>9. CASE ColumnStore(w)
  <2>1. SetColumn(w, "column", "full", job[w].value + 1)
    BY <1>9 DEF ColumnStore
  <2>2. job[w].value + 1 \in Int
    BY <1>0
  <2>3. Place("column", job[w].value, m_row, m_column) => Place("full", 0, m_row, job[w].value + 1)
    BY <1>0, <2>1, Sizes DEF Place, Tidy, Fits
  <2>4. "column" \in Position \ {"idle"} /\ "full" \in Position
    BY <1>0 DEF Position
  <2> QED
    BY <2>1, <2>2, <2>3, <2>4, SetColumnKeeps, Zenon
<1>10. CASE ColumnGoesOn(w)
  <2>1. Keeps(w, "full", "next", 0) /\ UNCHANGED <<screenVars, mixes>>
        /\ m_column # VGA_WIDTH
    BY <1>10 DEF ColumnGoesOn, Load, Goes, At
  <2>2. 0 \in Int
    BY <1>0
  <2>3. Place("full", job[w].value, m_row, m_column) => Place("next", 0, m_row, m_column)
    BY <1>0, <2>1, Sizes DEF Place, Tidy, Fits
  <2>4. "full" \in Position \ {"idle"} /\ "next" \in Position /\ Local("next", 0)
    BY <1>0 DEF Position, Local
  <2> QED
    BY <2>1, <2>2, <2>3, <2>4, LoadKeeps, Zenon
<1>11. CASE ColumnWraps(w)
  <2>1. SetColumn(w, "full", "down", 0)
    BY <1>11 DEF ColumnWraps
  <2>2. 0 \in Int
    BY <1>0
  <2>3. Place("full", job[w].value, m_row, m_column) => Place("down", 0, m_row, 0)
    BY <1>0, <2>1, Sizes DEF Place, Tidy, Fits
  <2>4. "full" \in Position \ {"idle"} /\ "down" \in Position
    BY <1>0 DEF Position
  <2> QED
    BY <2>1, <2>2, <2>3, <2>4, SetColumnKeeps, Zenon
<1>12. CASE RowLoad(w)
  <2>1. Keeps(w, "down", "row", m_row) /\ UNCHANGED <<screenVars, mixes>>
    BY <1>12 DEF RowLoad, Load, Goes, At
  <2>2. m_row \in Int
    BY <1>0
  <2>3. Place("down", job[w].value, m_row, m_column) => Place("row", m_row, m_row, m_column)
    BY <1>0, <2>1, Sizes DEF Place, Tidy, Fits
  <2>4. "down" \in Position \ {"idle"} /\ "row" \in Position /\ Local("row", m_row)
    BY <1>0 DEF Position, Local
  <2> QED
    BY <2>1, <2>2, <2>3, <2>4, LoadKeeps, Zenon
<1>13. CASE RowStore(w)
  <2>1. SetRow(w, "row", "bottom", job[w].value + 1)
    BY <1>13 DEF RowStore
  <2>2. job[w].value + 1 \in Nat
    <3>1. Local("row", job[w].value)
      BY <2>1 DEF ScreenInv, Tested, SetRow, At, Keeps
    <3> QED
      BY <3>1 DEF Local
  <2>3. Place("row", job[w].value, m_row, m_column) => Place("bottom", 0, job[w].value + 1, m_column)
    BY <1>0, <2>1, Sizes DEF Place, Tidy, Fits
  <2>4. "row" \in Position \ {"idle"} /\ "bottom" \in Position
    BY <1>0 DEF Position
  <2> QED
    BY <2>1, <2>2, <2>3, <2>4, SetRowKeeps, Zenon
<1>14. CASE RowGoesOn(w)
  <2>1. Keeps(w, "bottom", "next", 0) /\ UNCHANGED <<screenVars, mixes>>
    BY <1>14 DEF RowGoesOn, Load, Goes, At
  <2>2. 0 \in Int
    BY <1>0
  <2>3. Place("bottom", job[w].value, m_row, m_column) => Place("next", 0, m_row, m_column)
    BY <1>0, <2>1, Sizes DEF Place, Tidy, Fits
  <2>4. "bottom" \in Position \ {"idle"} /\ "next" \in Position /\ Local("next", 0)
    BY <1>0 DEF Position, Local
  <2> QED
    BY <2>1, <2>2, <2>3, <2>4, LoadKeeps, Zenon
<1>15. CASE RowWraps(w)
  <2>1. SetRow(w, "bottom", "next", 0)
    BY <1>15 DEF RowWraps
  <2>2. 0 \in Nat
    BY <1>0
  <2>3. Place("bottom", job[w].value, m_row, m_column) => Place("next", 0, 0, m_column)
    BY <1>0, <2>1, Sizes DEF Place, Tidy, Fits
  <2>4. "bottom" \in Position \ {"idle"} /\ "next" \in Position
    BY <1>0 DEF Position
  <2> QED
    BY <2>1, <2>2, <2>3, <2>4, SetRowKeeps, Zenon
<1> QED
  BY <1>1, <1>2, <1>3, <1>4, <1>5, <1>6, <1>7, <1>8, <1>9, <1>10, <1>11, <1>12, <1>13, <1>14, <1>15, Zenon DEF CharStep

\* writeChar of a new line leaves the cursor at the start of a line, which may be
\* below the screen.
LEMMA LineKeeps == ASSUME ScreenInv, NEW w \in Writer, LineStep(w) PROVE ScreenInv'
<1>0. m_row \in Nat /\ m_column \in Int /\ job[w].value \in Int
  BY DEF ScreenInv, Types, Job
<1>1. CASE LineLoad(w)
  <2>1. Keeps(w, "line", "line row", m_row) /\ UNCHANGED <<screenVars, mixes>>
    BY <1>1 DEF LineLoad, Load, Goes, At
  <2>2. m_row \in Int
    BY <1>0
  <2>3. Place("line", job[w].value, m_row, m_column) => Place("line row", m_row, m_row, m_column)
    BY <1>0, <2>1, Sizes DEF Place, Tidy, Fits
  <2>4. "line" \in Position \ {"idle"} /\ "line row" \in Position /\ Local("line row", m_row)
    BY <1>0 DEF Position, Local
  <2> QED
    BY <2>1, <2>2, <2>3, <2>4, LoadKeeps, Zenon
<1>2. CASE LineStore(w)
  <2>1. SetRow(w, "line row", "return", job[w].value + 1)
    BY <1>2 DEF LineStore
  <2>2. job[w].value + 1 \in Nat
    <3>1. Local("line row", job[w].value)
      BY <2>1 DEF ScreenInv, Tested, SetRow, At, Keeps
    <3> QED
      BY <3>1 DEF Local
  <2>3. Place("line row", job[w].value, m_row, m_column)
            => Place("return", 0, job[w].value + 1, m_column)
    BY <1>0, <2>1, Sizes DEF Place, Tidy, Fits
  <2>4. "line row" \in Position \ {"idle"} /\ "return" \in Position
    BY <1>0 DEF Position
  <2> QED
    BY <2>1, <2>2, <2>3, <2>4, SetRowKeeps, Zenon
<1>3. CASE LineReturn(w)
  <2>1. SetColumn(w, "return", "next", 0)
    BY <1>3 DEF LineReturn
  <2>2. 0 \in Int
    BY <1>0
  <2>3. Place("return", job[w].value, m_row, m_column) => Place("next", 0, m_row, 0)
    BY <1>0, <2>1, Sizes DEF Place, Tidy, Fits
  <2>4. "return" \in Position \ {"idle"} /\ "next" \in Position
    BY <1>0 DEF Position
  <2> QED
    BY <2>1, <2>2, <2>3, <2>4, SetColumnKeeps, Zenon
<1> QED
  BY <1>1, <1>2, <1>3, Zenon DEF LineStep

\* writeChar of a backspace: what it tested still holds when nobody else writes.
LEMMA EraseKeeps == ASSUME ScreenInv, NEW w \in Writer, EraseStep(w) PROVE ScreenInv'
<1>0. m_row \in Nat /\ m_column \in Int /\ job[w].value \in Int
  BY DEF ScreenInv, Types, Job
<1>1. CASE EraseTest(w)
  <2>1. Keeps(w, "erase", "erase row", 0) /\ UNCHANGED <<screenVars, mixes>>
        /\ m_column > 0
    BY <1>1 DEF EraseTest, Load, Goes, At
  <2>2. 0 \in Int
    BY <1>0
  <2>3. Place("erase", job[w].value, m_row, m_column) => Place("erase row", 0, m_row, m_column)
    BY <1>0, <2>1, Sizes DEF Place, Tidy, Fits
  <2>4. "erase" \in Position \ {"idle"} /\ "erase row" \in Position /\ Local("erase row", 0)
    BY <1>0 DEF Position, Local
  <2> QED
    BY <2>1, <2>2, <2>3, <2>4, LoadKeeps, Zenon
<1>2. CASE EraseNothing(w)
  <2>1. Keeps(w, "erase", "next", 0) /\ UNCHANGED <<screenVars, mixes>>
    BY <1>2 DEF EraseNothing, Load, Goes, At
  <2>2. 0 \in Int
    BY <1>0
  <2>3. Place("erase", job[w].value, m_row, m_column) => Place("next", 0, m_row, m_column)
    BY <1>0, <2>1, Sizes DEF Place, Tidy, Fits
  <2>4. "erase" \in Position \ {"idle"} /\ "next" \in Position /\ Local("next", 0)
    BY <1>0 DEF Position, Local
  <2> QED
    BY <2>1, <2>2, <2>3, <2>4, LoadKeeps, Zenon
<1>3. CASE EraseRow(w)
  <2>1. Keeps(w, "erase row", "erase column", m_row) /\ UNCHANGED <<screenVars, mixes>>
    BY <1>3 DEF EraseRow, Load, Goes, At
  <2>2. m_row \in Int
    BY <1>0
  <2>3. Place("erase row", job[w].value, m_row, m_column)
            => Place("erase column", m_row, m_row, m_column)
    BY <1>0, <2>1, Sizes DEF Place, Tidy, Fits
  <2>4. "erase row" \in Position \ {"idle"} /\ "erase column" \in Position /\ Local("erase column", m_row)
    BY <1>0 DEF Position, Local
  <2> QED
    BY <2>1, <2>2, <2>3, <2>4, LoadKeeps, Zenon
<1>4. CASE EraseIndex(w)
  <2>1. Keeps(w, "erase column", "blank", getBufferIndex(m_column - 1, job[w].value)) /\ UNCHANGED <<screenVars, mixes>>
    BY <1>4 DEF EraseIndex, Load, Goes, At
  <2>2. getBufferIndex(m_column - 1, job[w].value) \in Int
    <3>1. m_column - 1 \in Int
      BY <1>0
    <3> QED
      BY <1>0, <3>1, IndexType
  <2>3. ASSUME Place("erase column", job[w].value, m_row, m_column)
        PROVE  Place("blank", getBufferIndex(m_column - 1, job[w].value), m_row, m_column)
    <3>1. Tidy(m_row, m_column) /\ m_column > 0 /\ job[w].value = m_row
      BY <2>3 DEF Place
    <3>2. getBufferIndex(m_column - 1, job[w].value) \in 0 .. Cells
      BY <1>0, <3>1, BlankFits
    <3> QED
      BY <3>1, <3>2 DEF Place
  <2>4. "erase column" \in Position \ {"idle"} /\ "blank" \in Position
        /\ Local("blank", getBufferIndex(m_column - 1, job[w].value))
    BY DEF Position, Local
  <2> QED
    BY <2>1, <2>2, <2>3, <2>4, LoadKeeps, Zenon
<1>5. CASE Blank(w)
  <2>1. Keeps(w, "blank", "decrement", 0) /\ UNCHANGED <<screenVars, mixes>>
    BY <1>5 DEF Blank, Load, Goes, At
  <2>2. 0 \in Int
    BY <1>0
  <2>3. Place("blank", job[w].value, m_row, m_column) => Place("decrement", 0, m_row, m_column)
    BY <1>0, <2>1, Sizes DEF Place, Tidy, Fits
  <2>4. "blank" \in Position \ {"idle"} /\ "decrement" \in Position /\ Local("decrement", 0)
    BY <1>0 DEF Position, Local
  <2> QED
    BY <2>1, <2>2, <2>3, <2>4, LoadKeeps, Zenon
<1>6. CASE EraseLoad(w)
  <2>1. Keeps(w, "decrement", "back", m_column) /\ UNCHANGED <<screenVars, mixes>>
    BY <1>6 DEF EraseLoad, Load, Goes, At
  <2>2. m_column \in Int
    BY <1>0
  <2>3. Place("decrement", job[w].value, m_row, m_column) => Place("back", m_column, m_row, m_column)
    BY <1>0, <2>1, Sizes DEF Place, Tidy, Fits
  <2>4. "decrement" \in Position \ {"idle"} /\ "back" \in Position /\ Local("back", m_column)
    BY <1>0 DEF Position, Local
  <2> QED
    BY <2>1, <2>2, <2>3, <2>4, LoadKeeps, Zenon
<1>7. CASE EraseStore(w)
  <2>1. SetColumn(w, "back", "next", job[w].value - 1)
    BY <1>7 DEF EraseStore
  <2>2. job[w].value - 1 \in Int
    BY <1>0
  <2>3. Place("back", job[w].value, m_row, m_column) => Place("next", 0, m_row, job[w].value - 1)
    BY <1>0, <2>1, Sizes DEF Place, Tidy, Fits
  <2>4. "back" \in Position \ {"idle"} /\ "next" \in Position
    BY <1>0 DEF Position
  <2> QED
    BY <2>1, <2>2, <2>3, <2>4, SetColumnKeeps, Zenon
<1> QED
  BY <1>1, <1>2, <1>3, <1>4, <1>5, <1>6, <1>7, Zenon DEF EraseStep

\* updateCursor reads the cursor.
LEMMA ShowKeeps == ASSUME ScreenInv, NEW w \in Writer, ShowStep(w) PROVE ScreenInv'
<1>0. m_row \in Nat /\ m_column \in Int /\ job[w].value \in Int
  BY DEF ScreenInv, Types, Job
<1>1. CASE ShowRow(w)
  <2>1. Keeps(w, "show", "show column", m_row) /\ UNCHANGED <<screenVars, mixes>>
    BY <1>1 DEF ShowRow, Load, Goes, At
  <2>2. m_row \in Int
    BY <1>0
  <2>3. Place("show", job[w].value, m_row, m_column) => Place("show column", m_row, m_row, m_column)
    BY <1>0, <2>1, Sizes DEF Place, Tidy, Fits
  <2>4. "show" \in Position \ {"idle"} /\ "show column" \in Position /\ Local("show column", m_row)
    BY <1>0 DEF Position, Local
  <2> QED
    BY <2>1, <2>2, <2>3, <2>4, LoadKeeps, Zenon
<1>2. CASE ShowIndex(w)
  <2>1. Keeps(w, "show column", "select low", getBufferIndex(m_column, job[w].value)) /\ UNCHANGED <<screenVars, mixes>>
    BY <1>2 DEF ShowIndex, Load, Goes, At
  <2>2. getBufferIndex(m_column, job[w].value) \in Int
    BY <1>0, IndexType
  <2>3. Place("show column", job[w].value, m_row, m_column)
            => Place("select low", getBufferIndex(m_column, job[w].value), m_row, m_column)
    BY <1>0, <2>1, Sizes DEF Place, Tidy, Fits
  <2>4. "show column" \in Position \ {"idle"} /\ "select low" \in Position /\ Local("select low", getBufferIndex(m_column, job[w].value))
    BY <1>0 DEF Position, Local
  <2> QED
    BY <2>1, <2>2, <2>3, <2>4, LoadKeeps, Zenon
<1>3. CASE Keeps(w, "select low", "out low", job[w].value) /\ UNCHANGED <<screenVars, mixes>>
  <2>1. job[w].value \in Int
    BY <1>0
  <2>2. Place("select low", job[w].value, m_row, m_column)
            => Place("out low", job[w].value, m_row, m_column)
    BY <1>0, Sizes DEF Place, Tidy, Fits
  <2>3. "select low" \in Position \ {"idle"} /\ "out low" \in Position /\ Local("out low", job[w].value)
    BY <1>0 DEF Position, Local
  <2> QED
    BY <1>3, <2>1, <2>2, <2>3, LoadKeeps, Zenon
<1>4. CASE Keeps(w, "out low", "select high", job[w].value) /\ UNCHANGED <<screenVars, mixes>>
  <2>1. job[w].value \in Int
    BY <1>0
  <2>2. Place("out low", job[w].value, m_row, m_column)
            => Place("select high", job[w].value, m_row, m_column)
    BY <1>0, Sizes DEF Place, Tidy, Fits
  <2>3. "out low" \in Position \ {"idle"} /\ "select high" \in Position /\ Local("select high", job[w].value)
    BY <1>0 DEF Position, Local
  <2> QED
    BY <1>4, <2>1, <2>2, <2>3, LoadKeeps, Zenon
<1>5. CASE Keeps(w, "select high", "out high", job[w].value) /\ UNCHANGED <<screenVars, mixes>>
  <2>1. job[w].value \in Int
    BY <1>0
  <2>2. Place("select high", job[w].value, m_row, m_column)
            => Place("out high", job[w].value, m_row, m_column)
    BY <1>0, Sizes DEF Place, Tidy, Fits
  <2>3. "select high" \in Position \ {"idle"} /\ "out high" \in Position /\ Local("out high", job[w].value)
    BY <1>0 DEF Position, Local
  <2> QED
    BY <1>5, <2>1, <2>2, <2>3, LoadKeeps, Zenon
<1>6. CASE Keeps(w, "out high", "idle", 0) /\ UNCHANGED <<screenVars, mixes>>
  <2>1. 0 \in Int
    BY <1>0
  <2>2. Place("out high", job[w].value, m_row, m_column) => Place("idle", 0, m_row, m_column)
    BY <1>0, Sizes DEF Place, Tidy, Fits
  <2>3. "out high" \in Position \ {"idle"} /\ "idle" \in Position /\ Local("idle", 0)
    BY <1>0 DEF Position, Local
  <2> QED
    BY <1>6, <2>1, <2>2, <2>3, LoadKeeps, Zenon
<1> QED
  BY <1>1, <1>2, <1>3, <1>4, <1>5, <1>6, Zenon DEF ShowStep, vgaWriteLow, vgaWriteHigh, Select, Out

-----------------------------------------------------------------------------
\* The invariant holds at the start.
LEMMA ScreenStarts == Init => ScreenInv
<1> SUFFICES ASSUME Init PROVE ScreenInv
  OBVIOUS
<1>1. Idle \in Job /\ Idle.pc = "idle"
  BY Sizes DEF Idle, Job, Position
<1>2. job \in [Writer -> Job] /\ \A w \in Writer : job[w].pc = "idle"
  BY <1>1, Zenon DEF Init
<1>3. Types
  BY <1>2 DEF Init, Types
<1>4. Tested
  BY <1>2 DEF Tested, Local
<1>5. \A w \in Writer : Place(job[w].pc, job[w].value, m_row, m_column)
  <2>1. Tidy(m_row, m_column)
    BY Sizes DEF Init, Tidy
  <2>2. \A v : Place("idle", v, m_row, m_column)
    BY <2>1 DEF Place
  <2> QED
    BY <1>2, <2>2, Zenon
<1>6. Alone
  BY <1>2, <1>5, Zenon DEF Alone
<1> QED
  BY <1>3, <1>4, <1>6 DEF ScreenInv

\* Every step of every writer preserves it.
LEMMA ScreenStep == ScreenInv /\ [Next]_vars => ScreenInv'
<1> SUFFICES ASSUME ScreenInv, [Next]_vars PROVE ScreenInv'
  OBVIOUS
<1>1. CASE Key
  <2>1. 1 \in 0 .. MaxLength
    BY ScreenAssumption
  <2> QED
    BY <1>1, <2>1, BeginKeeps, WriterAssumption DEF Key
<1>2. ASSUME NEW w \in Writer, NEW length \in 0 .. MaxLength, printk(w, length) PROVE ScreenInv'
  BY <1>2, BeginKeeps DEF printk
<1>3. ASSUME NEW w \in Writer, WriteStep(w) PROVE ScreenInv'
  BY <1>3, NextKeeps, CharKeeps, LineKeeps, EraseKeeps, ShowKeeps DEF WriteStep
<1>4. CASE UNCHANGED vars
  <2>1. m_row' = m_row /\ m_column' = m_column /\ job' = job /\ mixes' = mixes
    BY <1>4 DEF vars
  <2>2. Types' /\ Tested'
    BY <2>1 DEF ScreenInv, Types, Tested
  <2>3. Alone'
    BY <2>1 DEF ScreenInv, Alone, Sole
  <2> QED
    BY <2>2, <2>3 DEF ScreenInv
<1> QED
  BY <1>1, <1>2, <1>3, <1>4, Zenon DEF Next

\* TTY: every store of writeChar hits the screen or the one cell behind it, how-
\* ever many writers there are and however their calls mix; those of a backspace
\* do as long as no two calls have mixed.
THEOREM ConsoleStaysOnScreen == Spec => []StoresOnScreen
<1>1. ScreenInv => StoresOnScreen
  <2> SUFFICES ASSUME ScreenInv, NEW w \in Writer,
                      job[w].pc = "put" \/ (job[w].pc = "blank" /\ mixes = 0)
               PROVE  job[w].value \in 0 .. Cells
    BY Zenon DEF StoresOnScreen
  <2>1. CASE job[w].pc = "put"
    BY <2>1, Zenon DEF ScreenInv, Tested, Local
  <2>2. CASE job[w].pc = "blank" /\ mixes = 0
    <3>1. Place(job[w].pc, job[w].value, m_row, m_column)
      BY <2>2 DEF ScreenInv, Alone
    <3> QED
      BY <2>2, <3>1 DEF Place
  <2> QED
    BY <2>1, <2>2
<1> QED
  BY <1>1, ScreenStarts, ScreenStep, PTL DEF Spec

-----------------------------------------------------------------------------
(* The cursor that the VGA shows.                                          *)

\* What a writer that was never disturbed has done of updateCursor: a is the
\* selected register, low and high are the two of the cursor.
Display(p, v, r, c, a, low, high) ==
    /\ p = "show column" => v = r
    /\ p \in {"select low", "out low", "select high", "out high"} => v = getBufferIndex(c, r)
    /\ p = "out low" => a = "low"
    /\ p \in {"select high", "out high"} => low = v % Byte
    /\ p = "out high" => a = "high"
    /\ p = "idle" => low + Byte * high = getBufferIndex(c, r) % (Byte * Byte)

Displays(w) ==
    Display(job[w].pc, job[w].value, m_row, m_column, address, cursor["low"], cursor["high"])

CursorInv ==
    /\ address \in Register /\ cursor \in [Register -> Int]
    /\ mixes = 0 => \A w \in Writer : Sole(w) => Displays(w)

\* The two bytes of an index give it back.
LEMMA TwoBytes ==
    ASSUME NEW v \in Nat
    PROVE  (v % Byte) + Byte * ((v \div Byte) % Byte) = v % (Byte * Byte)
<1> DEFINE q == v \div Byte
           l == v % Byte
           t == q \div Byte
           h == q % Byte
<1>1. Byte \in Nat \ {0}
  BY ScreenAssumption
<1>2. q \in Nat /\ l \in 0 .. Byte - 1 /\ v = Byte * q + l
  BY <1>1
<1> HIDE DEF q, l
<1>3. t \in Nat /\ h \in 0 .. Byte - 1 /\ q = Byte * t + h
  BY <1>1, <1>2
<1> HIDE DEF t, h
<1> DEFINE x == l + Byte * h
           m == Byte * Byte
<1>4. v = m * t + x
  BY <1>1, <1>2, <1>3
<1>5. Byte * h <= Byte * (Byte - 1) /\ Byte * h \in Nat
  BY <1>1, <1>3
<1>6. x \in Nat /\ x < m /\ m \in Nat \ {0}
  <2>1. Byte * (Byte - 1) = m - Byte /\ m \in Nat \ {0}
    BY <1>1
  <2> QED
    BY <1>1, <1>2, <1>5, <2>1
<1> HIDE DEF x, m
<1>7. (m * t + x) % m = x
  BY <1>3, <1>6
<1> QED
  BY <1>4, <1>7 DEF x, m, l, h, q

\* A step of a writer that leaves the display right keeps the invariant.
LEMMA DisplayKeeps ==
    ASSUME ScreenInv, CursorInv, NEW w \in Writer, job[w].pc # "idle", mixes' = mixes,
           address' \in Register, cursor' \in [Register -> Int],
           \A v \in Writer : v # w => job'[v] = job[v],
           mixes = 0 /\ Sole(w) /\ Displays(w) => Displays(w)'
    PROVE  CursorInv'
<1> SUFFICES ASSUME mixes' = 0, NEW u \in Writer, Sole(u)' PROVE Displays(u)'
  BY Zenon DEF CursorInv
<1>1. Sole(w)
  BY Zenon DEF ScreenInv, Alone
<1>2. Displays(w)'
  BY <1>1, Zenon DEF CursorInv
<1>3. CASE u = w
  BY <1>2, <1>3
<1>4. CASE u # w
  <2>1. job'[u].pc = "idle" /\ job'[w].pc = "idle"
    BY <1>1, <1>4, Zenon DEF Sole
  <2> QED
    BY <1>2, <2>1 DEF Displays, Display
<1> QED
  BY <1>3, <1>4

Showing == {"idle", "show column", "select low", "out low", "select high", "out high"}

\* Outside updateCursor the registers stay, and nothing is shown yet.
LEMMA OtherKeeps ==
    ASSUME ScreenInv, CursorInv, NEW w \in Writer, job[w].pc # "idle", UNCHANGED <<vgaVars, mixes>>,
           \A v \in Writer : v # w => job'[v] = job[v], job'[w].pc \notin Showing
    PROVE  CursorInv'
<1>1. Displays(w)'
  BY DEF Displays, Display, Showing
<1>2. address' \in Register /\ cursor' \in [Register -> Int] /\ mixes' = mixes
  BY DEF CursorInv, vgaVars
<1> QED
  BY <1>1, <1>2, DisplayKeeps, Zenon

\* The steps of write, of writeChar, of a new line and of a backspace.
LEMMA CharDisplay ==
    ASSUME ScreenInv, CursorInv, NEW w \in Writer,
           NextChar(w) \/ WriteEnd(w) \/ CharStep(w) \/ LineStep(w) \/ EraseStep(w)
    PROVE  CursorInv'
<1>0. job \in [Writer -> Job]
  BY DEF ScreenInv, Types
<1>1. ASSUME NEW from \in Position \ {"idle"}, NEW to \in Position \ Showing, NEW val \in Int,
             Keeps(w, from, to, val), UNCHANGED <<vgaVars, mixes>>
      PROVE  CursorInv'
  <2>1. Types
    BY DEF ScreenInv
  <2>2. job[w].pc = from /\ job'[w].pc = to /\ \A v \in Writer : v # w => job'[v] = job[v]
    BY <1>1, <2>1, KeepsJob, Zenon
  <2> QED
    BY <1>1, <2>2, OtherKeeps, Zenon
<1>2. CASE NextChar(w)
  <2>1. /\ job[w].pc = "next" /\ job'[w].pc \in {"char", "line", "erase"}
        /\ \A v \in Writer : v # w => job'[v] = job[v]
        /\ vgaVars' = vgaVars /\ mixes' = mixes
    BY <1>0, <1>2 DEF NextChar, Job, vgaVars
  <2> QED
    BY <2>1, OtherKeeps DEF Showing
<1>3. m_row \in Int /\ m_column \in Int /\ job[w].value \in Int /\ 0 \in Int
      /\ getBufferIndex(m_column, job[w].value) \in Int
      /\ getBufferIndex(m_column - 1, job[w].value) \in Int
  <2>1. m_row \in Int /\ m_column \in Int /\ job[w].value \in Int /\ m_column - 1 \in Int
        /\ 0 \in Int
    BY DEF ScreenInv, Types, Job
  <2> QED
    BY <2>1, IndexType, Zenon
<1> DEFINE Plain(from, to, val) == Keeps(w, from, to, val) /\ UNCHANGED <<vgaVars, mixes>>
<1>4. ASSUME WriteEnd(w) \/ CharStep(w)
      PROVE  \/ Plain("next", "show", 0) \/ Plain("char", "locate", m_row)
             \/ Plain("locate", "test", getBufferIndex(m_column, job[w].value))
             \/ Plain("test", "put", job[w].value) \/ Plain("test", "cleared", 0)
             \/ Plain("cleared", "top", 0) \/ Plain("top", "put", 0) \/ Plain("put", "increment", 0)
             \/ Plain("increment", "column", m_column) \/ Plain("column", "full", 0)
             \/ Plain("full", "next", 0) \/ Plain("full", "down", 0) \/ Plain("down", "row", m_row)
             \/ Plain("row", "bottom", 0) \/ Plain("bottom", "next", 0)
  BY <1>4, Zenon DEF WriteEnd, CharStep, CharRow, CharIndex, CharFits, clear, ClearRow, ClearColumn, PutChar,
             ColumnLoad, ColumnStore, ColumnGoesOn, ColumnWraps, RowLoad, RowStore, RowGoesOn,
             RowWraps, Goes, Load, SetRow, SetColumn, At
<1>5. ASSUME LineStep(w) \/ EraseStep(w)
      PROVE  \/ Plain("line", "line row", m_row) \/ Plain("line row", "return", 0)
             \/ Plain("return", "next", 0) \/ Plain("erase", "erase row", 0)
             \/ Plain("erase", "next", 0) \/ Plain("erase row", "erase column", m_row)
             \/ Plain("erase column", "blank", getBufferIndex(m_column - 1, job[w].value))
             \/ Plain("blank", "decrement", 0) \/ Plain("decrement", "back", m_column)
             \/ Plain("back", "next", 0)
  BY <1>5, Zenon DEF LineStep, LineLoad, LineStore, LineReturn, EraseStep, EraseTest, EraseNothing, EraseRow,
             EraseIndex, Blank, EraseLoad, EraseStore, Goes, Load, SetRow, SetColumn, At
<1>6. /\ {"next", "char", "locate", "test", "cleared", "top", "put", "increment", "column", "full",
          "down", "row", "bottom", "line", "line row", "return", "erase", "erase row",
          "erase column", "blank", "decrement", "back"} \subseteq Position \ {"idle"}
      /\ {"show", "next", "char", "locate", "test", "cleared", "top", "put", "increment", "column",
          "full", "down", "row", "bottom", "line row", "return", "erase row",
          "erase column", "blank", "decrement", "back"} \subseteq Position \ Showing
  BY DEF Position, Showing
<1>7. ASSUME NEW from \in Position \ {"idle"}, NEW to \in Position \ Showing, NEW val \in Int,
             Plain(from, to, val)
      PROVE  CursorInv'
  BY <1>1, <1>7, Zenon
<1> HIDE DEF Plain
<1>8. CASE WriteEnd(w) \/ CharStep(w)
  BY <1>3, <1>4, <1>6, <1>7, <1>8
<1>9. CASE LineStep(w) \/ EraseStep(w)
  BY <1>3, <1>5, <1>6, <1>7, <1>9
<1> QED
  BY <1>2, <1>8, <1>9

\* updateCursor leaves the index of the cursor in the two registers.
LEMMA ShowDisplay == ASSUME ScreenInv, CursorInv, NEW w \in Writer, ShowStep(w) PROVE CursorInv'
<1> DEFINE v == job[w].value
<1>0. /\ m_row \in Nat /\ m_column \in Int /\ v \in Int /\ Types /\ 0 \in Int
      /\ address \in Register /\ cursor \in [Register -> Int] /\ Byte \in Nat \ {0}
      /\ getBufferIndex(m_column, v) \in Int
  <2>1. /\ m_row \in Nat /\ m_column \in Int /\ v \in Int /\ Types /\ 0 \in Int
        /\ address \in Register /\ cursor \in [Register -> Int]
    BY DEF ScreenInv, CursorInv, Types, Job
  <2> QED
    BY <2>1, ScreenAssumption, IndexType
<1>a. ASSUME NEW from \in Position \ {"idle"}, NEW to \in Position, NEW val \in Int,
             Keeps(w, from, to, val), UNCHANGED <<screenVars, mixes>>,
             address' \in Register, cursor' \in [Register -> Int],
             mixes = 0 /\ Sole(w) /\ Display(from, v, m_row, m_column, address, cursor["low"], cursor["high"])
                 => Display(to, val, m_row, m_column, address', cursor'["low"], cursor'["high"])
      PROVE  CursorInv'
  <2>1. job[w].pc = from /\ job'[w].pc = to /\ job'[w].value = val
        /\ \A u \in Writer : u # w => job'[u] = job[u]
    BY <1>0, <1>a, KeepsJob, Zenon
  <2>2. m_row' = m_row /\ m_column' = m_column /\ mixes' = mixes
    BY <1>a DEF screenVars
  <2>3. mixes = 0 /\ Sole(w) /\ Displays(w) => Displays(w)'
    BY <1>a, <2>1, <2>2, Zenon DEF Displays
  <2> QED
    BY <1>a, <2>1, <2>2, <2>3, DisplayKeeps, Zenon
<1>b. {"show", "show column", "select low", "out low", "select high", "out high"} \subseteq Position \ {"idle"}
      /\ "idle" \in Position
  BY DEF Position
<1>1. CASE ShowRow(w)
  <2>1. Keeps(w, "show", "show column", m_row) /\ UNCHANGED <<screenVars, mixes>>
        /\ address' = address /\ cursor' = cursor
    BY <1>1 DEF ShowRow, Load, vgaVars
  <2>2. Display("show column", m_row, m_row, m_column, address, cursor["low"], cursor["high"])
    BY DEF Display
  <2>3. m_row \in Int
    BY <1>0
  <2> QED
    BY <1>0, <1>a, <1>b, <2>1, <2>2, <2>3
<1>2. CASE ShowIndex(w)
  <2>1. Keeps(w, "show column", "select low", getBufferIndex(m_column, v)) /\ UNCHANGED <<screenVars, mixes>>
        /\ address' = address /\ cursor' = cursor
    BY <1>2 DEF ShowIndex, Load, vgaVars
  <2>2. Display("show column", v, m_row, m_column, address, cursor["low"], cursor["high"])
        => Display("select low", getBufferIndex(m_column, v), m_row, m_column, address,
                   cursor["low"], cursor["high"])
    BY DEF Display
  <2> QED
    BY <1>0, <1>a, <1>b, <2>1, <2>2
<1>3. CASE Select(w, "select low", "out low", "low")
  <2>1. Keeps(w, "select low", "out low", v) /\ UNCHANGED <<screenVars, mixes>>
        /\ address' = "low" /\ cursor' = cursor /\ "low" \in Register
    BY <1>3 DEF Select, Register
  <2>2. Display("select low", v, m_row, m_column, address, cursor["low"], cursor["high"])
        => Display("out low", v, m_row, m_column, "low", cursor["low"], cursor["high"])
    BY DEF Display
  <2> QED
    BY <1>0, <1>a, <1>b, <2>1, <2>2
<1>4. CASE Out(w, "out low", "select high", v, v)
  <2>1. Keeps(w, "out low", "select high", v) /\ UNCHANGED <<screenVars, mixes>>
        /\ address' = address /\ cursor' = [cursor EXCEPT ![address] = v % Byte]
    BY <1>4 DEF Out
  <2>2. v % Byte \in Int
    BY <1>0
  <2>3. cursor' \in [Register -> Int] /\ (address = "low" => cursor'["low"] = v % Byte)
    BY <1>0, <2>1, <2>2 DEF Register
  <2>4. Display("out low", v, m_row, m_column, address, cursor["low"], cursor["high"])
        => Display("select high", v, m_row, m_column, address', cursor'["low"], cursor'["high"])
    BY <2>3 DEF Display
  <2> QED
    BY <1>0, <1>a, <1>b, <2>1, <2>3, <2>4
<1>5. CASE Select(w, "select high", "out high", "high")
  <2>1. Keeps(w, "select high", "out high", v) /\ UNCHANGED <<screenVars, mixes>>
        /\ address' = "high" /\ cursor' = cursor /\ "high" \in Register
    BY <1>5 DEF Select, Register
  <2>2. Display("select high", v, m_row, m_column, address, cursor["low"], cursor["high"])
        => Display("out high", v, m_row, m_column, "high", cursor["low"], cursor["high"])
    BY DEF Display
  <2> QED
    BY <1>0, <1>a, <1>b, <2>1, <2>2
<1>6. CASE Out(w, "out high", "idle", 0, v \div Byte)
  <2>1. Keeps(w, "out high", "idle", 0) /\ UNCHANGED <<screenVars, mixes>> /\ job[w].pc = "out high"
        /\ address' = address /\ cursor' = [cursor EXCEPT ![address] = (v \div Byte) % Byte]
    BY <1>6 DEF Out, Keeps
  <2>2. (v \div Byte) % Byte \in Int
    BY <1>0
  <2>3. cursor' \in [Register -> Int]
    BY <1>0, <2>1, <2>2
  <2>4. ASSUME mixes = 0, Sole(w),
               Display("out high", v, m_row, m_column, address, cursor["low"], cursor["high"])
        PROVE  Display("idle", 0, m_row, m_column, address', cursor'["low"], cursor'["high"])
    <3>1. v = getBufferIndex(m_column, m_row) /\ address = "high" /\ cursor["low"] = v % Byte
      BY <2>4 DEF Display
    <3>2. cursor'["low"] = v % Byte /\ cursor'["high"] = (v \div Byte) % Byte
      BY <1>0, <2>1, <3>1 DEF Register
    <3>3. Place("out high", v, m_row, m_column)
      BY <2>1, <2>4, Zenon DEF ScreenInv, Alone
    <3>4. m_column \in Nat
      BY <3>3, Sizes DEF Place, Tidy
    <3>5. v \in Nat
      BY <1>0, <3>1, <3>4, Sizes DEF getBufferIndex
    <3>6. (v % Byte) + Byte * ((v \div Byte) % Byte) = v % (Byte * Byte)
      BY <3>5, TwoBytes, Zenon
    <3> QED
      BY <3>1, <3>2, <3>6, Zenon DEF Display
  <2> QED
    BY <1>0, <1>a, <1>b, <2>1, <2>3, <2>4
<1> QED
  BY <1>1, <1>2, <1>3, <1>4, <1>5, <1>6, Zenon DEF ShowStep, vgaWriteLow, vgaWriteHigh

\* A call that begins: the console is no longer at rest.
LEMMA BeginDisplay ==
    ASSUME ScreenInv, CursorInv, NEW w \in Writer, NEW length \in 0 .. MaxLength, Begin(w, length)
    PROVE  CursorInv'
<1>1. job'[w].pc = "next" /\ address' = address /\ cursor' = cursor
  BY DEF Begin, vgaVars, ScreenInv, Types, Idle, Job
<1>2. mixes' = 0 => Resting
  BY DEF Begin, ScreenInv, Types
<1>3. \A v \in Writer : v # w => job'[v] = job[v]
  BY DEF Begin, ScreenInv, Types
<1> SUFFICES ASSUME mixes' = 0, NEW u \in Writer, Sole(u)' PROVE Displays(u)'
  BY <1>1, Zenon DEF CursorInv
<1>4. u = w
  BY <1>1 DEF Sole
<1> QED
  BY <1>1, <1>4 DEF Displays, Display

\* updateCursor: between calls that have never mixed the cursor is on the
\* screen and the VGA shows it there, for any size of the screen and any number
\* of writers.
THEOREM CursorStaysInPlace == Spec => []CursorInPlace
<1>1. Init => ScreenInv /\ CursorInv
  <2> SUFFICES ASSUME Init PROVE CursorInv
    BY ScreenStarts
  <2>1. \A w \in Writer : job[w].pc = "idle"
    BY DEF Init, Idle
  <2>2. /\ address \in Register /\ cursor \in [Register -> Int]
        /\ cursor["low"] = 0 /\ cursor["high"] = 0 /\ m_row = 0 /\ m_column = 0
    BY DEF Init, Register
  <2>3. 0 + Byte * 0 = getBufferIndex(0, 0) % (Byte * Byte)
    <3>1. getBufferIndex(0, 0) = 0
      BY Sizes DEF getBufferIndex
    <3>2. Byte * 0 = 0 /\ Byte * Byte \in Nat \ {0}
      BY ScreenAssumption
    <3>3. 0 % (Byte * Byte) = 0
      BY <3>2
    <3> QED
      BY <3>1, <3>2, <3>3
  <2> QED
    BY <2>1, <2>2, <2>3 DEF CursorInv, Displays, Display
<1>2. ScreenInv /\ CursorInv /\ [Next]_vars => ScreenInv' /\ CursorInv'
  <2> SUFFICES ASSUME ScreenInv, CursorInv, [Next]_vars PROVE CursorInv'
    BY ScreenStep
  <2>1. CASE Key
    <3>1. 1 \in 0 .. MaxLength
      BY ScreenAssumption
    <3> QED
      BY <2>1, <3>1, BeginDisplay, WriterAssumption DEF Key
  <2>2. ASSUME NEW w \in Writer, NEW length \in 0 .. MaxLength, printk(w, length) PROVE CursorInv'
    BY <2>2, BeginDisplay DEF printk
  <2>3. ASSUME NEW w \in Writer, WriteStep(w) PROVE CursorInv'
    BY <2>3, CharDisplay, ShowDisplay DEF WriteStep
  <2>4. CASE UNCHANGED vars
    BY <2>4 DEF vars, CursorInv, Displays, Sole
  <2> QED
    BY <2>1, <2>2, <2>3, <2>4, Zenon DEF Next
<1>3. ScreenInv /\ CursorInv => CursorInPlace
  <2> SUFFICES ASSUME ScreenInv, CursorInv, Resting, mixes = 0 PROVE OnScreen /\ Shown
    BY DEF CursorInPlace
  <2>1. Sole(tty_process) /\ job[tty_process].pc = "idle" /\ tty_process \in Writer
    BY WriterAssumption DEF Sole, Resting
  <2>2. Place("idle", job[tty_process].value, m_row, m_column)
    BY <2>1, Zenon DEF ScreenInv, Alone
  <2>3. OnScreen
    BY <2>2 DEF Place, Tidy, OnScreen
  <2>4. Displays(tty_process)
    BY <2>1, Zenon DEF CursorInv
  <2> QED
    BY <2>1, <2>3, <2>4 DEF Displays, Display, Shown
<1> QED
  BY <1>1, <1>2, <1>3, PTL DEF Spec

-----------------------------------------------------------------------------
(* vsnprintf.                                                              *)

SIZE == PRINTF_NTOA_BUFFER_SIZE

\* The array is empty when the conversion starts; the loop over the digits is
\* entered only with room for one more.
NumberInv ==
    /\ conv \in Conversion /\ width \in Nat /\ value \in Nat
    /\ buf \in Seq(Character) /\ Len(buf) <= SIZE
    /\ pc = "format" => buf = <<>>
    /\ pc = "digit" => Len(buf) < SIZE /\ base \in {2, 8, 10, 16}

\* The characters that go into the array.
LEMMA Characters ==
    /\ {"0", "b", "x", "-", "+", " "} \subseteq Character
    /\ \A n \in 0 .. 15 : Digit(n) \in Character
<1>1. DigitChar[1] = "0" /\ DigitChar[12] = "b"
  BY DEF DigitChar
<1> QED
  BY <1>1 DEF Character, Digit

\* The buffer has room for a byte.
LEMMA SizeFact == SIZE \in Nat /\ SIZE > 0
  BY FormatAssumption DEF SIZE

\* The smaller of two numbers.
LEMMA MinPair == ASSUME NEW a \in Int, NEW b \in Int PROVE Min({a, b}) \in {a, b} /\ Min({a, b}) <= a
<1>1. \E x \in {a, b} : \A y \in {a, b} : x =< y
  <2>1. CASE a <= b
    BY <2>1
  <2>2. CASE b <= a
    BY <2>2
  <2> QED
    BY <2>1, <2>2
<1> QED
  BY <1>1 DEF Min

\* The larger of two numbers.
LEMMA MaxPair == ASSUME NEW a \in Nat, NEW b \in Nat PROVE Max({a, b}) \in {a, b}
<1>1. \E x \in {a, b} : \A y \in {a, b} : x >= y
  <2>1. CASE a >= b
    BY <2>1
  <2>2. CASE b >= a
    BY <2>2
  <2> QED
    BY <2>1, <2>2
<1> QED
  BY <1>1 DEF Max

\* Zeros are appended up to a target, if it is not reached yet.
LEMMA Padded ==
    ASSUME NEW s \in Seq(Character), NEW t \in Nat
    PROVE  LET r == s \o Repeat("0", t - Len(s))
           IN  r \in Seq(Character) /\ (Len(s) <= SIZE /\ t <= SIZE => Len(r) <= SIZE)
<1> DEFINE z == Repeat("0", t - Len(s))
<1>0. "0" \in Character
  BY Characters
<1>1. CASE t <= Len(s)
  <2>1. z = <<>>
    BY <1>1 DEF Repeat
  <2>2. s \o z = s
    BY <2>1
  <2> QED
    BY <2>2
<1>2. CASE t > Len(s)
  <2>1. t - Len(s) \in Nat
    BY <1>2
  <2>2. z \in Seq(Character) /\ Len(z) = t - Len(s)
    BY <2>1, <1>0 DEF Repeat
  <2> HIDE DEF z
  <2>3. s \o z \in Seq(Character) /\ Len(s \o z) = t
    BY <2>2
  <2> QED
    BY <2>3 DEF z
<1> QED
  BY <1>1, <1>2

\* A byte goes in at the end.
LEMMA Pushed ==
    ASSUME NEW s \in Seq(Character), NEW ch \in Character, Len(s) <= SIZE
    PROVE  Push(s, ch) \in Seq(Character) /\ Len(Push(s, ch)) <= SIZE
<1>1. CASE Len(s) < SIZE
  <2>1. Push(s, ch) = Append(s, ch)
    BY <1>1 DEF Push, SIZE
  <2>2. Append(s, ch) \in Seq(Character) /\ Len(Append(s, ch)) = Len(s) + 1
    OBVIOUS
  <2> QED
    BY <1>1, <2>1, <2>2, SizeFact
<1>2. CASE ~(Len(s) < SIZE)
  BY <1>2 DEF Push, SIZE
<1> QED
  BY <1>1, <1>2

-----------------------------------------------------------------------------
\* The specifier of a number yields a magnitude and one of the four bases.
LEMMA NumberEvaluate == NumberInv /\ EvaluateNumber => NumberInv'
<1> SUFFICES ASSUME NumberInv, EvaluateNumber PROVE NumberInv'
  OBVIOUS
<1>1. conv' = conv /\ conv \in Conversion /\ buf' = buf /\ buf = <<>>
  BY DEF EvaluateNumber, NumberInv, call
<1>2. Unsigned(conv) \in Nat /\ TypeRange[conv.length] \in Nat
  <2>1. conv.arg \in Nat /\ TypeRange[conv.length] \in Nat \ {0}
    BY <1>1, FormatAssumption DEF Conversion
  <2> QED
    BY <2>1 DEF Unsigned
<1>3. Signed(conv) \in Int
  BY <1>2 DEF Signed
<1>4. value' \in Nat
  BY <1>2, <1>3 DEF EvaluateNumber
<1>5. base' \in {2, 8, 10, 16}
  BY DEF EvaluateNumber, BaseOf
<1>6. width' \in Nat
  BY <1>1, FormatAssumption DEF EvaluateNumber, Conversion
<1>7. pc' # "format"
  BY DEF EvaluateNumber
<1> QED
  BY <1>1, <1>4, <1>5, <1>6, <1>7, SizeFact DEF NumberInv

\* do ... while (value && (len < PRINTF_NTOA_BUFFER_SIZE)).
LEMMA NumberDigit == NumberInv /\ ConvertDigit => NumberInv'
<1> SUFFICES ASSUME NumberInv, ConvertDigit PROVE NumberInv'
  OBVIOUS
<1>1. /\ conv' = conv /\ width' = width /\ base' = base /\ pc = "digit"
      /\ buf' = Append(buf, Digit(value % base)) /\ value' = value \div base
      /\ pc' = IF value' # 0 /\ Len(buf') < SIZE THEN "digit" ELSE "zeros"
  BY DEF ConvertDigit, call, SIZE
<1>2. value \in Nat /\ base \in {2, 8, 10, 16} /\ buf \in Seq(Character) /\ Len(buf) < SIZE
  BY <1>1 DEF NumberInv
<1>3. value % base \in 0 .. 15 /\ value \div base \in Nat
  BY <1>2
<1>4. Digit(value % base) \in Character
  BY <1>3, Characters
<1>5. buf' \in Seq(Character) /\ Len(buf') = Len(buf) + 1
  BY <1>1, <1>2, <1>4
<1>6. Len(buf') <= SIZE
  BY <1>2, <1>5, SizeFact
<1> QED
  BY <1>1, <1>2, <1>3, <1>5, <1>6 DEF NumberInv

\* The two loops that add zeros stop at the size of the array.
LEMMA NumberZeros == NumberInv /\ PadZeros => NumberInv'
<1> SUFFICES ASSUME NumberInv, PadZeros PROVE NumberInv'
  OBVIOUS
<1>1. conv' = conv /\ value' = value /\ pc' = "hash"
  BY DEF PadZeros, call
<1>2. CASE "LEFT" \in flags
  BY <1>1, <1>2 DEF PadZeros, NumberInv
<1>3. CASE "LEFT" \notin flags
  <2>1. width' \in {width, width - 1} /\ (width' = width - 1 => width > 0) /\ width \in Nat
    BY <1>3 DEF PadZeros, NumberInv
  <2>2. width' \in Nat
    BY <2>1
  <2>3. buf' = buf \o Repeat("0", ZeroTarget(width') - Len(buf))
    BY <1>3 DEF PadZeros
  <2> DEFINE f == IF "ZEROPAD" \in flags THEN width' ELSE 0
             m == Max({conv.precision, f})
  <2>4. ZeroTarget(width') = Min({SIZE, m})
    BY DEF ZeroTarget, SIZE
  <2>5. f \in Nat /\ conv.precision \in Nat
    BY <2>2 DEF NumberInv, Conversion
  <2> HIDE DEF f
  <2>6. m \in Nat
    BY <2>5, MaxPair
  <2> HIDE DEF m
  <2>7. Min({SIZE, m}) \in Nat /\ Min({SIZE, m}) <= SIZE
    BY <2>6, MinPair, SizeFact
  <2> DEFINE t == ZeroTarget(width')
  <2>8. t \in Nat /\ t <= SIZE /\ buf' = buf \o Repeat("0", t - Len(buf))
    BY <2>3, <2>4, <2>7
  <2> HIDE DEF t
  <2>9. buf \in Seq(Character) /\ Len(buf) <= SIZE
    BY DEF NumberInv
  <2>10. buf' \in Seq(Character) /\ Len(buf') <= SIZE
    BY <2>8, <2>9, Padded
  <2> QED
    BY <1>1, <2>2, <2>10 DEF NumberInv
<1> QED
  BY <1>2, <1>3

\* The prefix takes back characters before it adds some.
LEMMA NumberHash == NumberInv /\ Hash => NumberInv'
<1> SUFFICES ASSUME NumberInv, Hash PROVE NumberInv'
  OBVIOUS
<1>1. conv' = conv /\ value' = value /\ width' = width /\ pc' = "sign"
  BY DEF Hash, call
<1>2. buf \in Seq(Character) /\ Len(buf) <= SIZE
  BY DEF NumberInv
<1> DEFINE fills == "PRECISION" \notin flags /\ buf # <<>> /\ Len(buf) \in {conv.precision, width}
           taken == IF ~fills THEN 0 ELSE IF base = 16 /\ Len(buf) > 1 THEN 2 ELSE 1
           kept == SubSeq(buf, 1, Len(buf) - taken)
           marked == CASE base = 16 -> Push(kept, "x") [] base = 2 -> Push(kept, "b") [] OTHER -> kept
<1>3. buf' = IF "HASH" \in flags THEN Push(marked, "0") ELSE buf
  BY DEF Hash
<1>4. taken \in 0 .. Len(buf)
  <2>1. buf # <<>> => Len(buf) > 0
    BY <1>2
  <2>2. Len(buf) \in Nat
    BY <1>2
  <2> QED
    BY <2>1, <2>2
<1> HIDE DEF taken
<1>5. kept \in Seq(Character) /\ Len(kept) <= SIZE
  <2> DEFINE n == Len(buf) - taken
  <2>1. n \in 0 .. Len(buf) /\ n <= SIZE
    BY <1>2, <1>4, SizeFact
  <2> HIDE DEF n
  <2>2. SubSeq(buf, 1, n) \in Seq(Character) /\ Len(SubSeq(buf, 1, n)) = n
    BY <1>2, <2>1
  <2> QED
    BY <2>1, <2>2 DEF n
<1> HIDE DEF kept
<1>6. marked \in Seq(Character) /\ Len(marked) <= SIZE
  BY <1>5, Pushed, Characters
<1> HIDE DEF marked
<1>7. buf' \in Seq(Character) /\ Len(buf') <= SIZE
  BY <1>2, <1>3, <1>6, Pushed, Characters
<1> QED
  BY <1>1, <1>7 DEF NumberInv

\* The sign of a number.
LEMMA NumberSign == NumberInv /\ Sign => NumberInv'
<1> SUFFICES ASSUME NumberInv, Sign PROVE NumberInv'
  OBVIOUS
<1>1. conv' = conv /\ value' = value /\ width' = width /\ pc' = "out"
  BY DEF Sign, call
<1>2. buf \in Seq(Character) /\ Len(buf) <= SIZE
  BY DEF NumberInv
<1>3. buf' \in {Push(buf, "-"), Push(buf, "+"), Push(buf, " "), buf}
  BY DEF Sign
<1>4. buf' \in Seq(Character) /\ Len(buf') <= SIZE
  BY <1>2, <1>3, Pushed, Characters
<1> QED
  BY <1>1, <1>4 DEF NumberInv

\* What a call has in its array is always in order.
LEMMA NumberInvariant == PrintfSpec => []NumberInv
<1>1. PrintfInit => NumberInv
  <2> SUFFICES ASSUME PrintfInit PROVE NumberInv
    OBVIOUS
  <2>1. conv \in Conversion
    BY FormatAssumption DEF PrintfInit
  <2> QED
    BY <2>1, SizeFact DEF PrintfInit, NumberInv
<1>2. NumberInv /\ [PrintfNext]_printfVars => NumberInv'
  <2> SUFFICES ASSUME NumberInv, [PrintfNext]_printfVars PROVE NumberInv'
    OBVIOUS
  <2>1. CASE EvaluateNumber \/ ConvertDigit \/ PadZeros \/ Hash \/ Sign
    BY <2>1, NumberEvaluate, NumberDigit, NumberZeros, NumberHash, NumberSign
  <2>2. CASE Literal \/ OutRev \/ OutString \/ Terminate
    BY <2>2 DEF NumberInv, Literal, OutRev, OutString, Terminate, call, number
  <2>3. CASE UNCHANGED printfVars
    BY <2>3 DEF NumberInv, printfVars
  <2> QED
    BY <2>1, <2>2, <2>3 DEF PrintfNext
<1> QED
  BY <1>1, <1>2, PTL DEF PrintfSpec

\* _ntoa_long and _ntoa_format never store behind their array: the digits, the
\* zeros, the prefix and the sign each leave its length within its size.
THEOREM ArrayNeverOverrun == PrintfSpec => []NumberBufferHolds
<1>1. NumberInv => NumberBufferHolds
  BY DEF NumberInv, NumberBufferHolds, SIZE
<1> QED
  BY <1>1, NumberInvariant, PTL

-----------------------------------------------------------------------------
(***************************************************************************)
(* The caller's buffer.                                                    *)
(***************************************************************************)
\* The caller's memory, c bytes of which are its buffer, when a text t has gone
\* out, and when it has been terminated.
Filled(t, c) == [i \in 0 .. Room - 1 |-> IF i < c /\ i < Len(t) THEN t[i + 1] ELSE "junk"]

Ended(t, c) ==
    LET end == Min({Len(t), c - 1})
    IN  [i \in 0 .. Room - 1 |-> IF c > 0 /\ i < end THEN t[i + 1]
                                 ELSE IF c > 0 /\ i = end THEN "nul" ELSE "junk"]

\* A character so many times, or not at all.
LEMMA Repeated ==
    ASSUME NEW ch \in Character, NEW n \in Int
    PROVE  Repeat(ch, n) \in Seq(Character) /\ Len(Repeat(ch, n)) = IF n > 0 THEN n ELSE 0
<1>1. CASE n > 0
  <2>1. n \in Nat
    BY <1>1
  <2> QED
    BY <1>1, <2>1 DEF Repeat
<1>2. CASE ~ (n > 0)
  <2>1. Repeat(ch, n) = <<>>
    BY <1>2 DEF Repeat
  <2> QED
    BY <1>2, <2>1
<1> QED
  BY <1>1, <1>2

\* More text goes out behind the text that is there.
LEMMA MoreText ==
    ASSUME NEW t \in Seq(Character), NEW s \in Seq(Character), NEW c \in Nat
    PROVE  [i \in DOMAIN Filled(t, c) |->
                IF Len(t) <= i /\ i < Len(t) + Len(s) /\ i < c THEN s[i - Len(t) + 1]
                ELSE Filled(t, c)[i]] = Filled(t \o s, c)
<1>1. Len(t) \in Nat /\ Len(s) \in Nat /\ Len(t \o s) = Len(t) + Len(s)
  OBVIOUS
<1>2. DOMAIN Filled(t, c) = 0 .. Room - 1
  BY Zenon DEF Filled
<1>3. ASSUME NEW i \in 0 .. Room - 1
      PROVE  (IF Len(t) <= i /\ i < Len(t) + Len(s) /\ i < c THEN s[i - Len(t) + 1]
              ELSE Filled(t, c)[i]) = Filled(t \o s, c)[i]
  <2>1. i \in Nat /\ Filled(t, c)[i] = IF i < c /\ i < Len(t) THEN t[i + 1] ELSE "junk"
    BY FormatAssumption DEF Filled
  <2>2. Filled(t \o s, c)[i] = IF i < c /\ i < Len(t) + Len(s) THEN (t \o s)[i + 1] ELSE "junk"
    BY <1>1, Zenon DEF Filled
  <2>3. i < Len(t) => (t \o s)[i + 1] = t[i + 1]
    BY <1>1, <2>1
  <2>4. Len(t) <= i /\ i < Len(t) + Len(s) => (t \o s)[i + 1] = s[i - Len(t) + 1]
    BY <1>1, <2>1
  <2> QED
    BY <1>1, <2>1, <2>2, <2>3, <2>4
<1>4. Filled(t \o s, c) = [i \in 0 .. Room - 1 |-> Filled(t \o s, c)[i]]
  BY Zenon DEF Filled
<1> QED
  BY <1>2, <1>3, <1>4, Zenon

\* The terminator goes behind the text, or over its last byte that fits.
LEMMA Terminated ==
    ASSUME NEW t \in Seq(Character), NEW c \in Nat
    PROVE  [i \in DOMAIN Filled(t, c) |->
                IF i < c /\ i = (IF Len(t) < c THEN Len(t) ELSE c - 1) THEN "nul"
                ELSE Filled(t, c)[i]] = Ended(t, c)
<1> DEFINE end == Min({Len(t), c - 1})
<1>1. Len(t) \in Nat /\ c - 1 \in Int
  OBVIOUS
<1>2. end = IF Len(t) < c THEN Len(t) ELSE c - 1
  <2> DEFINE n == Len(t)
             d == c - 1
  <2>1. n \in Int /\ d \in Int
    BY <1>1
  <2>2. {d, n} = {n, d}
    OBVIOUS
  <2> HIDE DEF n, d
  <2>3. Min({n, d}) \in {n, d} /\ Min({n, d}) <= n /\ Min({n, d}) <= d
    BY <2>1, <2>2, MinPair
  <2> QED
    BY <1>1, <2>1, <2>3 DEF n, d
<1>3. DOMAIN Filled(t, c) = 0 .. Room - 1
  BY Zenon DEF Filled
<1> HIDE DEF end
<1>4. ASSUME NEW i \in 0 .. Room - 1
      PROVE  (IF i < c /\ i = (IF Len(t) < c THEN Len(t) ELSE c - 1) THEN "nul"
              ELSE Filled(t, c)[i])
             = IF c > 0 /\ i < end THEN t[i + 1] ELSE IF c > 0 /\ i = end THEN "nul" ELSE "junk"
  <2>1. i \in Nat /\ Filled(t, c)[i] = IF i < c /\ i < Len(t) THEN t[i + 1] ELSE "junk"
    BY FormatAssumption DEF Filled
  <2> QED
    BY <1>1, <1>2, <2>1
<1> QED
  BY <1>3, <1>4, Zenon DEF Ended, end

\* A string or a character between its spaces is what the standard says.
LEMMA StringText ==
    ASSUME NEW c \in Conversion, c.specifier \in {"s", "c"}
    PROVE  LET l == CASE c.specifier = "c" -> 1
                      [] c.specifier = "s" /\ "PRECISION" \in c.flags -> Min({c.arg, c.precision})
                      [] OTHER -> c.arg
               spaces == Repeat(" ", c.width - l)
               text == Repeat("s", l)
           IN  /\ (IF "LEFT" \in c.flags THEN text \o spaces ELSE spaces \o text) = Expected(c)
               /\ Expected(c) \in Seq(Character)
<1> DEFINE l == CASE c.specifier = "c" -> 1
                  [] c.specifier = "s" /\ "PRECISION" \in c.flags -> Min({c.arg, c.precision})
                  [] OTHER -> c.arg
           spaces == Repeat(" ", c.width - l)
           text == Repeat("s", l)
<1>1. c.arg \in Nat /\ c.precision \in Nat /\ c.width \in Nat
  BY DEF Conversion
<1>2. l \in Nat
  <2>1. Min({c.arg, c.precision}) \in Nat
    <3> DEFINE n == c.arg
               d == c.precision
    <3>1. n \in Int /\ d \in Int /\ n \in Nat /\ d \in Nat
      BY <1>1
    <3> HIDE DEF n, d
    <3>2. Min({n, d}) \in {n, d}
      BY <3>1, MinPair
    <3>3. Min({n, d}) \in Nat
      BY <3>1, <3>2
    <3> QED
      BY <3>3 DEF n, d
  <2> QED
    BY <1>1, <2>1
<1>3. " " \in Character /\ "s" \in Character
  BY DEF Character
<1>4. Body(c) = text
  <2>1. CASE c.specifier = "c"
    <3>1. Body(c) = <<"s">> /\ text = Repeat("s", 1)
      BY <2>1 DEF Body
    <3>2. Repeat("s", 1) = <<"s">>
      BY DEF Repeat
    <3> QED
      BY <3>1, <3>2
  <2>2. CASE c.specifier = "s"
    BY <2>2 DEF Body
  <2> QED
    BY <2>1, <2>2
<1>5. FieldWidth(c) = c.width
  BY DEF FieldWidth
<1> HIDE DEF l
<1>6. text \in Seq(Character) /\ Len(text) = l
  <2>1. l \in Int /\ (IF l > 0 THEN l ELSE 0) = l
    BY <1>2
  <2>2. text \in Seq(Character) /\ Len(text) = IF l > 0 THEN l ELSE 0
    BY <1>3, <2>1, Repeated, Zenon
  <2> QED
    BY <2>1, <2>2, Zenon
<1>7. spaces \in Seq(Character)
  <2>1. c.width - l \in Int
    BY <1>1, <1>2
  <2> QED
    BY <1>3, <2>1, Repeated
<1>8. Expected(c) = IF "LEFT" \in c.flags THEN text \o spaces ELSE spaces \o text
  BY <1>4, <1>5, <1>6, Zenon DEF Expected
<1>9. Expected(c) \in Seq(Character)
  <2> HIDE DEF text, spaces
  <2>1. text \o spaces \in Seq(Character) /\ spaces \o text \in Seq(Character)
    BY <1>6, <1>7
  <2> QED
    BY <1>8, <2>1
<1> QED
  BY <1>8, <1>9, Zenon DEF l

\* What has gone out so far, and that nothing else was written: literal
\* characters, then the conversion's text, whatever it is for a number.
Written(text) == LET t == Repeat("t", start) \o text IN idx = Len(t) /\ buffer = Filled(t, count)
Finished(text) == LET t == Repeat("t", start) \o text IN idx = Len(t) /\ buffer = Ended(t, count)
Meant(text) == text \in Seq(Character) /\ (~IsNumber(conv) => text = Expected(conv))

BufferInv ==
    /\ count \in Nat /\ start \in Nat /\ lead \in Nat /\ lead <= start
    /\ pc = "format" => /\ idx = start - lead
                        /\ buffer = Filled(Repeat("t", start - lead), count)
    /\ pc \in {"digit", "zeros", "hash", "sign", "out"} =>
          IsNumber(conv) /\ idx = start /\ buffer = Filled(Repeat("t", start), count)
    /\ pc = "end" => \E text : Meant(text) /\ Written(text)
    /\ pc = "done" => \E text : Meant(text) /\ Finished(text)

\* Initially nothing has gone out.
LEMMA BufferInit == PrintfInit => BufferInv
<1> SUFFICES ASSUME PrintfInit PROVE BufferInv
  OBVIOUS
<1>1. count \in Nat /\ lead \in Nat /\ start = lead /\ idx = 0 /\ pc = "format"
  BY FormatAssumption DEF PrintfInit
<1>2. start - lead = 0
  BY <1>1
<1>3. Repeat("t", 0) = <<>>
  BY DEF Repeat
<1>4. Filled(<<>>, count) = [i \in 0 .. Room - 1 |-> "junk"]
  <2>1. ASSUME NEW i \in 0 .. Room - 1
        PROVE  (IF i < count /\ i < Len(<<>>) THEN <<>>[i + 1] ELSE "junk") = "junk"
    BY <1>1, FormatAssumption
  <2> QED
    BY <2>1, Zenon DEF Filled
<1> QED
  BY <1>1, <1>2, <1>3, <1>4 DEF PrintfInit, BufferInv

\* A literal character.
LEMMA BufferLiteral == BufferInv /\ Literal => BufferInv'
<1> SUFFICES ASSUME BufferInv, Literal PROVE BufferInv'
  OBVIOUS
<1> DEFINE n == start - lead
           t == Repeat("t", n)
<1>1. /\ pc = "format" /\ pc' = "format" /\ lead > 0 /\ lead' = lead - 1
      /\ count' = count /\ start' = start /\ OutText(<<"t">>)
  BY DEF Literal, call
<1>2. /\ count \in Nat /\ start \in Nat /\ lead \in Nat /\ lead <= start
      /\ idx = n /\ buffer = Filled(t, count)
  BY <1>1 DEF BufferInv
<1>3. n \in Nat /\ start - lead' = n + 1 /\ lead' \in Nat /\ lead' <= start
  BY <1>1, <1>2
<1>4. "t" \in Character
  BY DEF Character
<1>5. t \in Seq(Character) /\ Len(t) = n
  <2>1. n \in Int /\ (IF n > 0 THEN n ELSE 0) = n
    BY <1>3
  <2> HIDE DEF n
  <2>2. t \in Seq(Character) /\ Len(t) = IF n > 0 THEN n ELSE 0
    BY <1>4, <2>1, Repeated, Zenon
  <2> QED
    BY <2>1, <2>2, Zenon
<1>6. t \o <<"t">> = Repeat("t", n + 1)
  <2> HIDE DEF n
  <2>1. t = [i \in 1 .. n |-> "t"]
    BY DEF Repeat
  <2> QED
    BY <1>3, <2>1 DEF Repeat
<1>7. <<"t">> \in Seq(Character) /\ Len(<<"t">>) = 1
  BY <1>4
<1> DEFINE s == <<"t">>
<1> HIDE DEF n, t, s
<1>8. s \in Seq(Character) /\ Len(s) = 1 /\ OutText(s) /\ t \o s = Repeat("t", n + 1)
  BY <1>1, <1>6, <1>7 DEF s
<1>9. buffer' = Filled(Repeat("t", n + 1), count) /\ idx' = n + 1
  <2>1. buffer' = [i \in DOMAIN Filled(t, count) |->
                IF Len(t) <= i /\ i < Len(t) + Len(s) /\ i < count THEN s[i - Len(t) + 1]
                ELSE Filled(t, count)[i]]
    BY <1>2, <1>5, <1>8, Zenon DEF OutText, Stored
  <2>2. buffer' = Filled(t \o s, count)
    BY <1>2, <1>5, <1>8, <2>1, MoreText, Zenon
  <2> QED
    BY <1>2, <1>8, <2>2 DEF OutText
<1> QED
  BY <1>1, <1>2, <1>3, <1>9 DEF BufferInv

\* The text of the conversion goes out behind the literal characters.
LEMMA BufferText ==
    ASSUME NEW text \in Seq(Character), NEW n \in Nat, NEW c \in Nat
    PROVE  LET b == Filled(Repeat("t", n), c)
           IN  /\ [i \in DOMAIN b |->
                     IF n <= i /\ i < n + Len(text) /\ i < c THEN text[i - n + 1] ELSE b[i]]
                  = Filled(Repeat("t", n) \o text, c)
               /\ n + Len(text) = Len(Repeat("t", n) \o text)
<1> DEFINE t == Repeat("t", n)
<1>1. t \in Seq(Character) /\ Len(t) = n
  <2>1. n \in Int /\ (IF n > 0 THEN n ELSE 0) = n
    OBVIOUS
  <2>2. "t" \in Character
    BY DEF Character
  <2>3. t \in Seq(Character) /\ Len(t) = IF n > 0 THEN n ELSE 0
    BY <2>1, <2>2, Repeated, Zenon
  <2> QED
    BY <2>1, <2>3, Zenon
<1> HIDE DEF t
<1>2. [i \in DOMAIN Filled(t, c) |->
         IF Len(t) <= i /\ i < Len(t) + Len(text) /\ i < c THEN text[i - Len(t) + 1]
         ELSE Filled(t, c)[i]] = Filled(t \o text, c)
  BY <1>1, MoreText, Zenon
<1>3. Len(t) + Len(text) = Len(t \o text)
  BY <1>1
<1>4. Len(t) = n
  BY <1>1
<1> QED
  BY <1>2, <1>3, <1>4, Zenon DEF t

\* The conversion's text and the step to the end of the format.
LEMMA BufferOut ==
    ASSUME NEW STATE text, text \in Seq(Character), BufferInv, OutText(text), idx = start,
           buffer = Filled(Repeat("t", start), count), pc' = "end", UNCHANGED <<call, lead>>,
           ~IsNumber(conv) => text = Expected(conv)
    PROVE  BufferInv'
<1>1. /\ count' = count /\ start' = start /\ lead' = lead /\ conv' = conv
      /\ count \in Nat /\ start \in Nat /\ lead \in Nat /\ lead <= start
  BY DEF call, BufferInv
<1>2. /\ buffer' = [i \in DOMAIN buffer |->
            IF start <= i /\ i < start + Len(text) /\ i < count THEN text[i - start + 1] ELSE buffer[i]]
      /\ idx' = start + Len(text)
  BY Zenon DEF OutText, Stored
<1>3. /\ buffer' = Filled(Repeat("t", start) \o text, count)
      /\ idx' = Len(Repeat("t", start) \o text)
  <2> DEFINE b == Filled(Repeat("t", start), count)
  <2>1. /\ [i \in DOMAIN b |->
             IF start <= i /\ i < start + Len(text) /\ i < count THEN text[i - start + 1] ELSE b[i]]
          = Filled(Repeat("t", start) \o text, count)
        /\ start + Len(text) = Len(Repeat("t", start) \o text)
    BY <1>1, BufferText
  <2>2. buffer = b
    OBVIOUS
  <2> QED
    BY <1>2, <2>1, <2>2, Zenon
<1>4. PICK x : x = text
  OBVIOUS
<1>5. Meant(x)' /\ Written(x)'
  BY <1>1, <1>3, <1>4, Zenon DEF Meant, Written
<1>6. (\E y : Meant(y) /\ Written(y))'
  BY <1>5, Zenon
<1> QED
  BY <1>1, <1>6 DEF BufferInv

\* A number, with its padding.
LEMMA BufferOutRev == BufferInv /\ NumberInv /\ OutRev => BufferInv'
<1> SUFFICES ASSUME BufferInv, NumberInv, OutRev PROVE BufferInv'
  OBVIOUS
<1> DEFINE before == IF flags \cap {"LEFT", "ZEROPAD"} = {} THEN width - Len(buf) ELSE 0
           after == IF "LEFT" \in flags THEN Appended ELSE 0
           reversed == [i \in 1 .. Len(buf) |-> buf[Len(buf) + 1 - i]]
           text == Repeat(" ", before) \o reversed \o Repeat(" ", after)
<1>1. pc = "out" /\ pc' = "end" /\ OutText(text) /\ UNCHANGED <<call, lead>>
  BY DEF OutRev
<1>2. IsNumber(conv) /\ idx = start /\ buffer = Filled(Repeat("t", start), count)
  BY <1>1 DEF BufferInv
<1>3. width \in Nat /\ buf \in Seq(Character) /\ Len(buf) \in Nat
  BY DEF NumberInv
<1>4. before \in Int /\ after \in Int
  BY <1>3 DEF Appended
<1>5. reversed \in Seq(Character)
  BY <1>3
<1>6. " " \in Character
  BY DEF Character
<1> HIDE DEF before, after, reversed
<1>7. Repeat(" ", before) \in Seq(Character) /\ Repeat(" ", after) \in Seq(Character)
  BY <1>4, <1>6, Repeated, Zenon
<1>8. text \in Seq(Character)
  <2> DEFINE first == Repeat(" ", before)
             last == Repeat(" ", after)
  <2> HIDE DEF first, last
  <2>1. first \in Seq(Character) /\ last \in Seq(Character)
    BY <1>7, Zenon DEF first, last
  <2>2. first \o reversed \o last \in Seq(Character)
    BY <1>5, <2>1
  <2> QED
    BY <2>2, Zenon DEF first, last
<1> HIDE DEF text
<1> QED
  BY <1>1, <1>2, <1>8, BufferOut

\* A string or a character.
LEMMA BufferOutString == BufferInv /\ NumberInv /\ OutString => BufferInv'
<1> SUFFICES ASSUME BufferInv, NumberInv, OutString PROVE BufferInv'
  OBVIOUS
<1>1. /\ pc = "format" /\ lead = 0 /\ conv.specifier \in {"s", "c"} /\ pc' = "end"
      /\ UNCHANGED <<call, lead>>
  BY DEF OutString
<1>2. conv \in Conversion
  BY DEF NumberInv
<1>3. OutText(Expected(conv)) /\ Expected(conv) \in Seq(Character)
  BY <1>1, <1>2, StringText, Zenon DEF OutString
<1>4. start - lead = start
  BY <1>1 DEF BufferInv
<1>5. idx = start /\ buffer = Filled(Repeat("t", start), count)
  BY <1>1, <1>4 DEF BufferInv
<1> QED
  BY <1>1, <1>3, <1>5, BufferOut

\* The terminator.
LEMMA BufferTerminate == BufferInv /\ Terminate => BufferInv'
<1> SUFFICES ASSUME BufferInv, Terminate PROVE BufferInv'
  OBVIOUS
<1>1. /\ pc = "end" /\ pc' = "done" /\ conv' = conv /\ count' = count /\ start' = start
      /\ lead' = lead /\ idx' = idx
  BY DEF Terminate, call
<1>2. count \in Nat /\ start \in Nat /\ lead \in Nat /\ lead <= start
  BY DEF BufferInv
<1>3. PICK text : Meant(text) /\ Written(text)
  BY <1>1 DEF BufferInv
<1> DEFINE t == Repeat("t", start) \o text
<1>4. idx = Len(t) /\ buffer = Filled(t, count)
  BY <1>3, Zenon DEF Written
<1>5. t \in Seq(Character)
  <2>1. start \in Int
    BY <1>2
  <2>2. "t" \in Character
    BY DEF Character
  <2>3. Repeat("t", start) \in Seq(Character)
    BY <2>1, <2>2, Repeated, Zenon
  <2>4. text \in Seq(Character)
    BY <1>3 DEF Meant
  <2> QED
    BY <2>3, <2>4
<1> HIDE DEF t
<1>6. buffer' = [i \in DOMAIN Filled(t, count) |->
                   IF i < count /\ i = (IF Len(t) < count THEN Len(t) ELSE count - 1) THEN "nul"
                   ELSE Filled(t, count)[i]]
  BY <1>4, Zenon DEF Terminate, Stored
<1>7. buffer' = Ended(t, count)
  BY <1>2, <1>5, <1>6, Terminated, Zenon
<1>8. Meant(text)' /\ Finished(text)'
  BY <1>1, <1>3, <1>4, <1>7, Zenon DEF Meant, Finished, t
<1>9. (\E y : Meant(y) /\ Finished(y))'
  BY <1>8, Zenon
<1> QED
  BY <1>1, <1>2, <1>9 DEF BufferInv

\* The steps of a number's conversion leave the caller's memory alone.
LEMMA BufferNumber ==
    BufferInv /\ (EvaluateNumber \/ ConvertDigit \/ PadZeros \/ Hash \/ Sign) => BufferInv'
<1> SUFFICES ASSUME BufferInv, EvaluateNumber \/ ConvertDigit \/ PadZeros \/ Hash \/ Sign
             PROVE  BufferInv'
  OBVIOUS
<1>1. /\ conv' = conv /\ count' = count /\ start' = start /\ lead' = lead
      /\ buffer' = buffer /\ idx' = idx
  BY Zenon DEF EvaluateNumber, ConvertDigit, PadZeros, Hash, Sign, call
<1>2. count \in Nat /\ start \in Nat /\ lead \in Nat /\ lead <= start
  BY DEF BufferInv
<1>3. pc' \in {"digit", "zeros", "hash", "sign", "out"}
  BY DEF EvaluateNumber, ConvertDigit, PadZeros, Hash, Sign
<1>4. IsNumber(conv) /\ idx = start /\ buffer = Filled(Repeat("t", start), count)
  <2>1. CASE EvaluateNumber
    <3>1. pc = "format" /\ lead = 0 /\ conv.specifier \in {"d", "u", "x", "o", "b", "p"}
      BY <2>1 DEF EvaluateNumber
    <3>2. start - lead = start
      BY <1>2, <3>1
    <3>3. IsNumber(conv)
      BY <3>1 DEF IsNumber
    <3> QED
      BY <3>1, <3>2, <3>3 DEF BufferInv
  <2>2. CASE ConvertDigit \/ PadZeros \/ Hash \/ Sign
    <3>1. pc \in {"digit", "zeros", "hash", "sign", "out"}
      BY <2>2 DEF ConvertDigit, PadZeros, Hash, Sign
    <3> QED
      BY <3>1 DEF BufferInv
  <2> QED
    BY <2>1, <2>2
<1> QED
  BY <1>1, <1>2, <1>3, <1>4 DEF BufferInv, IsNumber

PrintfPlaces == pc \in {"format", "digit", "zeros", "hash", "sign", "out", "end", "done"}

\* The places a call can be at.
LEMMA PrintfPlace == PrintfSpec => []PrintfPlaces
<1>1. PrintfInit => PrintfPlaces
  BY DEF PrintfInit, PrintfPlaces
<1>2. PrintfPlaces /\ [PrintfNext]_printfVars => PrintfPlaces'
  BY DEF PrintfPlaces, PrintfNext, printfVars, Literal, EvaluateNumber, ConvertDigit, PadZeros,
         Hash, Sign, OutRev, OutString, Terminate
<1> QED
  BY <1>1, <1>2, PTL DEF PrintfSpec

\* What the caller's memory holds in every state.
LEMMA BufferInvariant == PrintfSpec => []BufferInv
<1>1. BufferInv /\ NumberInv /\ [PrintfNext]_printfVars => BufferInv'
  <2> SUFFICES ASSUME BufferInv, NumberInv, [PrintfNext]_printfVars PROVE BufferInv'
    OBVIOUS
  <2>1. CASE UNCHANGED printfVars
    BY <2>1 DEF printfVars, BufferInv, Meant, Written, Finished, IsNumber
  <2> QED
    BY <2>1, BufferLiteral, BufferNumber, BufferOutRev, BufferOutString, BufferTerminate, Zenon
    DEF PrintfNext
<1> QED
  BY <1>1, BufferInit, NumberInvariant, PTL DEF PrintfSpec

(***************************************************************************)
(* vsnprintf writes no byte at or behind maxlen, whatever the conversion   *)
(* and its widths ask for: the conversions count on past the end, and only *)
(* _out_buffer compares the index.  When it returns, the buffer holds the  *)
(* literal characters and the conversion's text, cut to maxlen - 1 and     *)
(* terminated, with nothing written behind the terminator, and the result  *)
(* is the length of the text before it was cut.                            *)
(***************************************************************************)
THEOREM CutAndTerminated ==
    PrintfSpec => [](/\ \A i \in DOMAIN buffer : i >= count => buffer[i] = "junk"
                     /\ pc = "done" => \E text \in Seq(Character) : Finished(text))
<1> DEFINE Kept == \A i \in DOMAIN buffer : i >= count => buffer[i] = "junk"
           Returned == pc = "done" => \E text \in Seq(Character) : Finished(text)
<1>1. ASSUME NEW t, NEW c \in Nat, NEW i \in DOMAIN Filled(t, c), i >= c
      PROVE  Filled(t, c)[i] = "junk"
  <2>1. i \in 0 .. Room - 1
    BY Zenon DEF Filled
  <2>2. i \in Int /\ ~ (i < c)
    BY <1>1, <2>1, FormatAssumption
  <2> QED
    BY <2>1, <2>2, Zenon DEF Filled
<1>2. ASSUME NEW t \in Seq(Character), NEW c \in Nat, NEW i \in DOMAIN Ended(t, c), i >= c
      PROVE  Ended(t, c)[i] = "junk"
  <2>1. Ended(t, c) = [j \in DOMAIN Filled(t, c) |->
                IF j < c /\ j = (IF Len(t) < c THEN Len(t) ELSE c - 1) THEN "nul"
                ELSE Filled(t, c)[j]]
    BY Terminated
  <2>2. i \in DOMAIN Filled(t, c) /\ i \in 0 .. Room - 1
    BY Zenon DEF Filled, Ended
  <2>3. ~ (i < c)
    BY <1>2, <2>2, FormatAssumption
  <2> QED
    BY <1>1, <1>2, <2>1, <2>2, <2>3, Zenon
<1>3. BufferInv => Returned
  BY Zenon DEF BufferInv, Meant
<1>4. PrintfPlaces /\ BufferInv => Kept
  <2> SUFFICES ASSUME PrintfPlaces, BufferInv, NEW i \in DOMAIN buffer, i >= count
               PROVE  buffer[i] = "junk"
    OBVIOUS
  <2>1. count \in Nat /\ start \in Nat
    BY DEF BufferInv
  <2>2. CASE pc \in {"format", "digit", "zeros", "hash", "sign", "out", "end"}
    <3>1. \E t : buffer = Filled(t, count)
      BY <2>2, Zenon DEF BufferInv, Written
    <3> QED
      BY <1>1, <2>1, <3>1
  <2>3. CASE pc = "done"
    <3>1. PICK text : Meant(text) /\ Finished(text)
      BY <2>3 DEF BufferInv
    <3> DEFINE t == Repeat("t", start) \o text
    <3>2. "t" \in Character
      BY DEF Character
    <3>3. start \in Int
      BY <2>1
    <3>4. Repeat("t", start) \in Seq(Character)
      BY <3>2, <3>3, Repeated, Zenon
    <3>5. t \in Seq(Character)
      BY <3>1, <3>4 DEF Meant
    <3>6. buffer = Ended(t, count)
      BY <3>1, Zenon DEF Finished
    <3> HIDE DEF t
    <3> QED
      BY <1>2, <2>1, <3>5, <3>6
  <2> QED
    BY <2>2, <2>3 DEF PrintfPlaces
<1> QED
  BY <1>3, <1>4, BufferInvariant, PrintfPlace, PTL

(***************************************************************************)
(* TextAsSpecified for "%s" and "%c", for every string, width, precision,  *)
(* number of literal characters and buffer size: the string is cut at its  *)
(* precision and padded on the side the standard says.                     *)
(***************************************************************************)
THEOREM StringsAsSpecified == PrintfSpec => [](~IsNumber(conv) => TextAsSpecified)
<1>1. BufferInv => (~IsNumber(conv) => TextAsSpecified)
  <2> SUFFICES ASSUME BufferInv, ~IsNumber(conv), pc = "done" PROVE TextAsSpecified
    BY DEF TextAsSpecified
  <2>1. Finished(Expected(conv))
    BY Zenon DEF BufferInv, Meant
  <2> DEFINE t == Repeat("t", start) \o Expected(conv)
             end == Min({Len(t), count - 1})
  <2>2. idx = Len(t) /\ buffer = Ended(t, count)
    BY <2>1, Zenon DEF Finished
  <2> HIDE DEF t
  <2>3. \A i \in DOMAIN buffer : buffer[i] = IF count > 0 /\ i < end THEN t[i + 1]
                                          ELSE IF count > 0 /\ i = end THEN "nul" ELSE "junk"
    BY <2>2, Zenon DEF Ended
  <2> QED
    BY <2>2, <2>3, Zenon DEF TextAsSpecified, t
<1> QED
  BY <1>1, BufferInvariant, PTL
=============================================================================
