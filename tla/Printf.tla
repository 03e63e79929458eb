------------------------------- MODULE Printf -------------------------------
(***************************************************************************)
(* vsnprintf of Libk (vsnprintf.c), which printk and the heap's messages   *)
(* use: one call with a format of some literal characters followed by one  *)
(* conversion, and the result stored in a buffer of `count` bytes.         *)
(*                                                                         *)
(* A number is converted in a local array of PRINTF_NTOA_BUFFER_SIZE       *)
(* characters, lowest digit first: digits, zeros, prefix, sign, and is     *)
(* then copied out backwards between its padding.  buf is that array up to *)
(* `len`.  Characters are one-letter strings; the parsing of the format is *)
(* abstracted to the record it yields.  Upper case ('X') is left out: it   *)
(* changes no length and no digit.  Floating point is not modelled.        *)
(***************************************************************************)
EXTENDS Integers, Sequences, FiniteSetsExt

CONSTANTS PRINTF_NTOA_BUFFER_SIZE,
          TypeRange,     \* number of values of "hh", "h", "int" and "ll"
          PointerDigits, \* sizeof(void* ) * 2
          Conversions,   \* the conversions a caller may ask for
          Leads,         \* how many literal characters stand before it
          Counts,        \* sizes a caller may pass for its buffer
          Room           \* bytes there are behind the buffer's address

Flag == {"ZEROPAD", "LEFT", "PLUS", "SPACE", "HASH", "PRECISION"}
Specifier == {"d", "u", "x", "o", "b", "p", "s", "c"}

\* What the evaluation of "%[flags][width][.precision][length]specifier" and
\* the argument amount to.  The argument of "s" is the length of the string.
Conversion == [specifier : Specifier, length : {"hh", "h", "int", "ll"},
               flags : SUBSET Flag, width : Nat, precision : Nat, arg : Nat]

ASSUME FormatAssumption ==
    /\ PRINTF_NTOA_BUFFER_SIZE \in Nat \ {0} /\ PointerDigits \in Nat /\ Room \in Nat
    /\ TypeRange \in [{"hh", "h", "int", "ll"} -> Nat \ {0}]
    /\ Conversions \subseteq Conversion
    /\ \A c \in Conversions : "PRECISION" \notin c.flags => c.precision = 0
    /\ Leads \subseteq Nat /\ Counts \subseteq 0..Room

VARIABLES pc,        \* where the call is
          conv,      \* the conversion being evaluated
          count,     \* maxlen
          lead,      \* literal characters still to be copied
          start,     \* idx when the conversion is reached, for the properties
          flags, value, negative, base, width,
          buf,       \* the characters of the number, lowest digit first
          buffer,    \* what the caller's memory holds
          idx        \* characters produced so far

printfVars == <<pc, conv, count, lead, start, flags, value, negative, base, width, buf, buffer, idx>>
number == <<flags, value, negative, base, width, buf>>
call == <<conv, count, start>>

DigitChar == <<"0", "1", "2", "3", "4", "5", "6", "7", "8", "9", "a", "b", "c", "d", "e", "f">>
Digit(n) == DigitChar[n + 1]
Repeat(ch, n) == [i \in 1..n |-> ch]

PrintfInit ==
    /\ pc = "format" /\ conv \in Conversions /\ count \in Counts /\ lead \in Leads
    /\ start = lead /\ flags = {} /\ value = 0 /\ negative = FALSE /\ base = 0
    /\ width = 0 /\ buf = <<>> /\ idx = 0
    /\ buffer = [i \in 0..(Room - 1) |-> "junk"]

\* One byte to the buffer, if it has room for it.
Stored(i) == i < count

\* The characters of text go out one after the other.
OutText(text) ==
    /\ buffer' = [i \in DOMAIN buffer |->
                    IF idx <= i /\ i < idx + Len(text) /\ Stored(i) THEN text[i - idx + 1] ELSE buffer[i]]
    /\ idx' = idx + Len(text)

\* Characters that do not start a conversion are copied.
Literal == /\ pc = "format" /\ lead > 0
           /\ OutText(<<"t">>) /\ lead' = lead - 1
           /\ UNCHANGED <<pc, call, number>>

\* An argument of the type the length field names, as the signed or unsigned
\* value the cast yields.
Unsigned(c) == c.arg % TypeRange[c.length]
Signed(c) == IF 2 * Unsigned(c) < TypeRange[c.length] THEN Unsigned(c) ELSE Unsigned(c) - TypeRange[c.length]

BaseOf(c) == CASE c.specifier \in {"x", "p"} -> 16 [] c.specifier = "o" -> 8
               [] c.specifier = "b" -> 2 [] OTHER -> 10

\* The flags that reach _ntoa_format: the ones that mean nothing for the
\* specifier, the value or a given precision are cleared.
FlagsOf(c, v) ==
    IF c.specifier = "p" THEN (c.flags \cup {"ZEROPAD"}) \ (IF v = 0 THEN {"HASH"} ELSE {})
    ELSE c.flags \ ((IF BaseOf(c) = 10 \/ v = 0 THEN {"HASH"} ELSE {})
                    \cup (IF c.specifier # "d" THEN {"PLUS", "SPACE"} ELSE {})
                    \cup (IF "PRECISION" \in c.flags THEN {"ZEROPAD"} ELSE {}))

\* The specifier of a number: its sign and magnitude, base, flags and width.
\* A zero with a precision has no digits.
EvaluateNumber ==
    /\ pc = "format" /\ lead = 0 /\ conv.specifier \in {"d", "u", "x", "o", "b", "p"}
    /\ LET v == IF conv.specifier = "d" THEN Signed(conv) ELSE Unsigned(conv) IN
         /\ negative' = (v < 0)
         /\ value' = IF v < 0 THEN 0 - v ELSE v
         /\ base' = BaseOf(conv)
         /\ flags' = FlagsOf(conv, v)
         /\ width' = IF conv.specifier = "p" THEN PointerDigits ELSE conv.width
         /\ pc' = IF "PRECISION" \notin conv.flags \/ v # 0 THEN "digit" ELSE "zeros"
    /\ UNCHANGED <<call, lead, buf, buffer, idx>>

\* One turn of the loop of _ntoa_long and _ntoa_long_long.
ConvertDigit ==
    /\ pc = "digit"
    /\ buf' = Append(buf, Digit(value % base))
    /\ value' = value \div base
    /\ pc' = IF value' # 0 /\ Len(buf') < PRINTF_NTOA_BUFFER_SIZE THEN "digit" ELSE "zeros"
    /\ UNCHANGED <<call, lead, flags, negative, base, width, buffer, idx>>

\* Mutant: the size of the array is not compared.
ZeroTarget_NoLimit(w) == Max({conv.precision, IF "ZEROPAD" \in flags THEN w ELSE 0})

\* Leading zeros up to the precision and, with '0', up to the width, of
\* which the sign takes one; none of them with '-'.
ZeroTarget(w) == Min({PRINTF_NTOA_BUFFER_SIZE,
                      Max({conv.precision, IF "ZEROPAD" \in flags THEN w ELSE 0})})

PadZeros ==
    /\ pc = "zeros" /\ pc' = "hash"
    /\ IF "LEFT" \in flags THEN UNCHANGED <<width, buf>>
       ELSE LET signed == "ZEROPAD" \in flags /\ (negative \/ flags \cap {"PLUS", "SPACE"} # {})
            IN /\ width' = IF width > 0 /\ signed THEN width - 1 ELSE width
               /\ buf' = buf \o Repeat("0", ZeroTarget(width') - Len(buf))
    /\ UNCHANGED <<call, lead, flags, value, negative, base, buffer, idx>>

\* A character is added only where the array has room for it.
Push(b, ch) == IF Len(b) < PRINTF_NTOA_BUFFER_SIZE THEN Append(b, ch) ELSE b

\* The prefix of '#'.  When the characters fill the precision or the field
\* exactly, one or two are taken back for it, zeros or not.
Hash ==
    /\ pc = "hash" /\ pc' = "sign"
    /\ LET fills == "PRECISION" \notin flags /\ buf # <<>> /\ Len(buf) \in {conv.precision, width}
           taken == IF ~fills THEN 0 ELSE IF base = 16 /\ Len(buf) > 1 THEN 2 ELSE 1
           kept == SubSeq(buf, 1, Len(buf) - taken)
           marked == CASE base = 16 -> Push(kept, "x") [] base = 2 -> Push(kept, "b") [] OTHER -> kept
       IN buf' = IF "HASH" \in flags THEN Push(marked, "0") ELSE buf
    /\ UNCHANGED <<call, lead, flags, value, negative, base, width, buffer, idx>>

Sign ==
    /\ pc = "sign" /\ pc' = "out"
    /\ buf' = CASE negative -> Push(buf, "-") [] ~negative /\ "PLUS" \in flags -> Push(buf, "+")
                [] ~negative /\ "PLUS" \notin flags /\ "SPACE" \in flags -> Push(buf, " ")
                [] OTHER -> buf
    /\ UNCHANGED <<call, lead, flags, value, negative, base, width, buffer, idx>>

\* Mutant: the spaces are counted from the start of the text.
Appended_FromStart == width - (idx + Len(buf))

\* The spaces _out_rev appends are counted from where the conversion began.
Appended == width - Len(buf)

\* _out_rev: the characters in reverse, between the spaces of the field.
OutRev ==
    /\ pc = "out" /\ pc' = "end"
    /\ LET before == IF flags \cap {"LEFT", "ZEROPAD"} = {} THEN width - Len(buf) ELSE 0
           after == IF "LEFT" \in flags THEN Appended ELSE 0
           reversed == [i \in 1..Len(buf) |-> buf[Len(buf) + 1 - i]]
       IN OutText(Repeat(" ", before) \o reversed \o Repeat(" ", after))
    /\ UNCHANGED <<call, lead, number>>

\* A string, cut at the precision, or a character, between its spaces.
OutString ==
    /\ pc = "format" /\ lead = 0 /\ conv.specifier \in {"s", "c"} /\ pc' = "end"
    /\ LET l == CASE conv.specifier = "c" -> 1
                  [] conv.specifier = "s" /\ "PRECISION" \in conv.flags -> Min({conv.arg, conv.precision})
                  [] OTHER -> conv.arg
           spaces == Repeat(" ", conv.width - l)
           text == Repeat("s", l)
       IN OutText(IF "LEFT" \in conv.flags THEN text \o spaces ELSE spaces \o text)
    /\ UNCHANGED <<call, lead, number>>

\* The terminating zero, over the last byte when the text is too long.
Terminate ==
    /\ pc = "end" /\ pc' = "done"
    /\ buffer' = [i \in DOMAIN buffer |->
                    IF Stored(i) /\ i = (IF idx < count THEN idx ELSE count - 1) THEN "nul" ELSE buffer[i]]
    /\ UNCHANGED <<call, lead, number, idx>>

PrintfNext ==
    \/ Literal \/ EvaluateNumber \/ ConvertDigit \/ PadZeros \/ Hash \/ Sign \/ OutRev
    \/ OutString \/ Terminate

PrintfSpec == PrintfInit /\ [][PrintfNext]_printfVars

-----------------------------------------------------------------------------
(***************************************************************************)
(* What the C standard says the text of a conversion is.                   *)
(***************************************************************************)
Character == {DigitChar[i] : i \in 1..16} \cup {"x", "-", "+", " ", "t", "s", "nul", "junk"}

\* The shortest numeral of n in base b, highest digit first.
Numeral(n, b) ==
    LET k == CHOOSE k \in 1..20 : n < b^k /\ (k = 1 \/ n >= b^(k - 1))
    IN [i \in 1..k |-> Digit((n \div b^(k - i)) % b)]

Magnitude(c) == IF c.specifier = "d" /\ Signed(c) < 0 THEN -Signed(c) ELSE Unsigned(c)
Digits(c) == IF "PRECISION" \in c.flags /\ Magnitude(c) = 0 THEN <<>> ELSE Numeral(Magnitude(c), BaseOf(c))
SignText(c) == CASE c.specifier # "d" -> <<>> [] c.specifier = "d" /\ Signed(c) < 0 -> <<"-">>
                 [] c.specifier = "d" /\ Signed(c) >= 0 /\ "PLUS" \in c.flags -> <<"+">>
                 [] c.specifier = "d" /\ Signed(c) >= 0 /\ c.flags \cap {"PLUS", "SPACE"} = {"SPACE"} -> <<" ">>
                 [] OTHER -> <<>>
Prefixed(c) == "HASH" \in c.flags /\ Magnitude(c) # 0 /\ BaseOf(c) # 10
Prefix(c) == IF ~Prefixed(c) THEN <<>>
             ELSE CASE BaseOf(c) = 16 -> <<"0", "x">> [] BaseOf(c) = 2 -> <<"0", "b">>
                    [] OTHER -> IF c.precision > Len(Digits(c)) THEN <<>> ELSE <<"0">>

\* A pointer is a number of all its digits.
FieldWidth(c) == IF c.specifier = "p" THEN PointerDigits ELSE c.width
ZeroFilled(c) == /\ "ZEROPAD" \in c.flags \/ c.specifier = "p"
                 /\ c.flags \cap {"LEFT", "PRECISION"} = {}

\* Sign, prefix, zeros and digits.
NumberText(c) ==
    LET fixed == Len(SignText(c)) + Len(Prefix(c)) + Len(Digits(c))
        zeros == CASE "PRECISION" \in c.flags -> c.precision - Len(Digits(c))
                   [] ZeroFilled(c) -> FieldWidth(c) - fixed
                   [] OTHER -> 0
    IN SignText(c) \o Prefix(c) \o Repeat("0", zeros) \o Digits(c)

Body(c) == CASE c.specifier = "c" -> <<"s">>
             [] c.specifier = "s" /\ "PRECISION" \notin c.flags -> Repeat("s", c.arg)
             [] c.specifier = "s" /\ "PRECISION" \in c.flags -> Repeat("s", Min({c.arg, c.precision}))
             [] OTHER -> NumberText(c)

Expected(c) ==
    LET spaces == Repeat(" ", FieldWidth(c) - Len(Body(c)))
    IN IF "LEFT" \in c.flags THEN Body(c) \o spaces ELSE spaces \o Body(c)

\* Where this printf is known to depart from the standard: a number longer
\* than its array; the zeros of a precision under '-'; and '#' when digits
\* and field (or a precision) meet, because Hash takes characters back.
IsNumber(c) == c.specifier \notin {"s", "c"}
HashSafe(c) ==
    Prefixed(c) =>
        IF "PRECISION" \in c.flags THEN c.specifier = "o" => c.precision <= Len(Digits(c))
        ELSE \/ Len(Digits(c)) > c.width
             \/ Len(Digits(c)) < c.width /\ ~ZeroFilled(c)
             \/ Len(Digits(c)) + Len(Prefix(c)) <= c.width /\ c.specifier # "b"
Regular(c) ==
    IsNumber(c) => /\ Len(NumberText(c)) <= PRINTF_NTOA_BUFFER_SIZE
                   /\ "LEFT" \in c.flags => c.precision <= Len(Digits(c))
                   /\ HashSafe(c)

PrintfTypeOK ==
    /\ pc \in {"format", "digit", "zeros", "hash", "sign", "out", "end", "done"}
    /\ conv \in Conversions /\ count \in Counts /\ lead \in Nat /\ start \in Nat
    /\ flags \subseteq Flag /\ value \in Nat /\ negative \in BOOLEAN
    /\ base \in {0, 2, 8, 10, 16} /\ width \in Nat /\ buf \in Seq(Character)
    /\ buffer \in [0..(Room - 1) -> Character] /\ idx \in Nat

(***************************************************************************)
(* The array of a number conversion is never overrun, whatever digits,     *)
(* zeros, prefix and sign are asked for: every store of _ntoa_long and     *)
(* _ntoa_format tests the length first, but in different ways.             *)
(***************************************************************************)
NumberBufferHolds == Len(buf) <= PRINTF_NTOA_BUFFER_SIZE

(***************************************************************************)
(* When the call returns, the buffer holds the text the C standard defines *)
(* for the conversion, after the literal characters, cut to fit and        *)
(* terminated; the bytes after the terminator and outside the buffer are   *)
(* untouched; and the result is the full length.  Excepted are the         *)
(* conversions that are not Regular.                                       *)
(***************************************************************************)
TextAsSpecified ==
    pc = "done" /\ Regular(conv) =>
        LET text == Repeat("t", start) \o Expected(conv)
            end == Min({Len(text), count - 1})
        IN /\ idx = Len(text)
           /\ \A i \in DOMAIN buffer :
                buffer[i] = IF count > 0 /\ i < end THEN text[i + 1]
                            ELSE IF count > 0 /\ i = end THEN "nul" ELSE "junk"
=============================================================================
