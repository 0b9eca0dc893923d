------------------------------- MODULE Numbers ------------------------------
(***************************************************************************)
(* Numbers to text and back: itoa, vsprintf and the printing functions of  *)
(* the serial port on one side, atoi, strtol, strtoul and their wider kin  *)
(* on the other (src/libs/stdlib.c, stdio.c, serial.c).                    *)
(*                                                                         *)
(* A text is a sequence of characters without the 0 that ends it.  The     *)
(* state is a buffer: something is printed into it, or it is a literal,    *)
(* and then read number by number, each call going on at the end the last  *)
(* one reported.  int has INT_BITS bits, long and long long LONG_BITS;     *)
(* signed overflow, undefined in C, wraps around as the compiled loops do. *)
(***************************************************************************)
EXTENDS Integers, Sequences, SequencesExt

CONSTANTS
  INT_BITS, LONG_BITS,
  Values,    \* arguments of the printing functions
  Bases,     \* bases asked for
  Formats,   \* formats given to sprintf
  Literals,  \* texts that were not printed
  MaxReads   \* bound: calls of the reading functions on one text

ASSUME NumbersAssumption ==
  /\ INT_BITS \in Nat \ {0} /\ LONG_BITS \in Nat /\ LONG_BITS % 4 = 0
  /\ INT_BITS <= LONG_BITS
  /\ Values \subseteq Int /\ Bases \subseteq Int /\ MaxReads \in Nat
  /\ Formats \subseteq Seq(STRING) /\ Literals \subseteq Seq(STRING)

\* True of all numbers; said here because provers may know nothing of powers.
ASSUME PowersAssumption ==
  2 ^ 0 = 1 /\ \A n \in 1 .. LONG_BITS : 2 ^ n = 2 * 2 ^ (n - 1)

NUL == ""
Blank == {" ", "\t", "\n", "\r", "\f", "vt"}
Lower == <<"0", "1", "2", "3", "4", "5", "6", "7", "8", "9", "a", "b", "c",
           "d", "e", "f", "g", "h", "i", "j", "k", "l", "m", "n", "o", "p",
           "q", "r", "s", "t", "u", "v", "w", "x", "y", "z">>
Upper == <<"0", "1", "2", "3", "4", "5", "6", "7", "8", "9", "A", "B", "C",
           "D", "E", "F", "G", "H", "I", "J", "K", "L", "M", "N", "O", "P",
           "Q", "R", "S", "T", "U", "V", "W", "X", "Y", "Z">>

VARIABLES
  buf,      \* the text
  at,       \* where the next reading function starts
  stopped,  \* how far the last format was read
  printed,  \* what the numbers in buf were printed from
  reads     \* what has been read since

vars == <<buf, at, stopped, printed, reads>>

Unsigned(v, bits) == v % 2 ^ bits
Signed(v, bits) ==
  LET u == Unsigned(v, bits) IN IF u < 2 ^ (bits - 1) THEN u ELSE u - 2 ^ bits

-----------------------------------------------------------------------------
(***************************************************************************)
(* Printing                                                                *)
(***************************************************************************)

emit_uint(value, base) ==
  LET digits[v \in 0 .. value] ==
        IF v < base THEN <<Lower[v + 1]>>
        ELSE Append(digits[v \div base], Lower[(v % base) + 1])
  IN  digits[value]

\* Through an int, whatever the width.
Magnitude_Int(value, bits) == Unsigned(0 - value, INT_BITS)

\* Subtracted from 0 as an unsigned number.
Magnitude(value, bits) == Unsigned(0 - value, bits)

emit_int(value, base) ==
  IF value < 0 THEN <<"-">> \o emit_uint(Magnitude(value, LONG_BITS), base)
  ELSE emit_uint(value, base)

\* The text itoa leaves in str; only base 10 prints a sign.
ItoaText(value, base) ==
  IF base < 2 \/ base > 36 THEN << >>
  ELSE IF base = 10 /\ value < 0
  THEN <<"-">> \o emit_uint(Magnitude(value, INT_BITS), base)
  ELSE emit_uint(Unsigned(value, INT_BITS), base)

\* Every digit of the width, in capitals.
serial_put_hex(v) ==
  <<"0", "x">> \o [k \in 1 .. LONG_BITS \div 4 |->
                     Upper[((v \div 2 ^ (LONG_BITS - 4 * k)) % 16) + 1]]

serial_put_dec(v) == IF v = 0 THEN <<"0">> ELSE emit_uint(v, 10)

\* The character at position i; behind the 0 lies anything.
Char(s, i) == IF i <= Len(s) THEN s[i] ELSE IF i = Len(s) + 1 THEN NUL ELSE "wild"

\* The conversion that starts behind the % before p: its characters.
Conversion(s, p) ==
  IF Char(s, p) \in {"l", "L"} THEN <<Char(s, p), Char(s, p + 1)>> ELSE <<Char(s, p)>>

\* How the argument of a conversion is read back, if it is a number.
Sign(conv) == IF Last(conv) = "d" THEN "signed" ELSE "unsigned"
Radix(conv) == IF Last(conv) \in {"x", "p"} THEN 16 ELSE 10
Width(conv) == IF conv[1] \in {"l", "L", "p"} THEN LONG_BITS ELSE INT_BITS
Numeric(conv) == Last(conv) \in {"d", "u", "x"} \/ conv = <<"p">>

\* The number a conversion takes its argument for.
Taken(conv, arg) ==
  IF Sign(conv) = "signed" THEN Signed(arg, Width(conv)) ELSE Unsigned(arg, Width(conv))

\* What the switch of vsprintf emits.
Emitted(conv, arg) ==
  CASE conv = <<"p">> -> <<"0", "x">> \o emit_uint(Taken(conv, arg), 16)
    [] Numeric(conv) /\ Sign(conv) = "signed" -> emit_int(Taken(conv, arg), 10)
    [] Numeric(conv) /\ Sign(conv) = "unsigned" /\ conv # <<"p">> ->
         emit_uint(Taken(conv, arg), Radix(conv))
    [] conv = <<"c">> -> <<arg>>
    [] conv = <<"s">> -> arg
    [] Len(conv) = 2 /\ ~ Numeric(conv) -> <<"(", "b", "a", "d", " ", "%", conv[1], ")">>
    [] conv = <<NUL>> -> << >>
    [] OTHER -> conv

\* The 0 is stepped over like any character.
Onward_Blind(s, p) == p + 1

\* The last step of a turn of vsprintf's loop.
Onward(s, p) == IF Char(s, p) = NUL THEN p ELSE p + 1

\* The turns of vsprintf's loop: the conversion or the character of the format
\* each deals with, and where the loop ends.
Turns(format) ==
  LET turns[p \in 1 .. Len(format) + 3] ==
        LET conv == Conversion(format, p + 1)
        IN  IF p > Len(format) THEN [emit |-> << >>, stop |-> p]
            ELSE IF format[p] = "%"
            THEN LET next == turns[Onward(format, p + Len(conv))]
                 IN  [next EXCEPT !.emit = <<[kind |-> "conversion", chars |-> conv]>> \o @]
            ELSE LET next == turns[p + 1]
                 IN  [next EXCEPT !.emit = <<[kind |-> "text", chars |-> <<format[p]>>]>> \o @]
  IN  turns[1]

TakesArgument(turn) ==
  turn.kind = "conversion" /\ (Numeric(turn.chars) \/ turn.chars \in {<<"c">>, <<"s">>})

\* args has an argument for each turn, None where none is taken.
None == 0

vsprintf(format, args) ==
  LET emit == Turns(format).emit
  IN  FlattenSeq([k \in DOMAIN emit |->
        IF emit[k].kind = "text" THEN emit[k].chars ELSE Emitted(emit[k].chars, args[k])])

-----------------------------------------------------------------------------
(***************************************************************************)
(* Reading                                                                 *)
(***************************************************************************)

\* The first position from i on that holds none of C.
Past(s, i, C) ==
  CHOOSE j \in i .. Len(s) + 1 :
    Char(s, j) \notin C /\ \A k \in i .. (j - 1) : s[k] \in C

DigitValue(c) == CHOOSE d \in 0 .. 35 : c \in {Lower[d + 1], Upper[d + 1]}

\* result = result * base + digit, for each digit of s from i to before j.
Sum(s, i, j, base, bits) ==
  LET result[k \in 0 .. (j - i)] ==
        IF k = 0 THEN 0
        ELSE Unsigned(result[k - 1] * base + DigitValue(s[i + k - 1]), bits)
  IN  result[j - i]

\* Blanks and a sign are skipped: what follows, and whether it was a minus.
Start(s, i) ==
  LET j == Past(s, i, Blank)
  IN  [from |-> IF Char(s, j) \in {"-", "+"} THEN j + 1 ELSE j, minus |-> Char(s, j) = "-"]

\* The base and the position after its prefix.  The x need not have a digit
\* behind it to count as a prefix.
Prefix(s, i, base) ==
  LET hex == Char(s, i) = "0" /\ Char(s, i + 1) \in {"x", "X"}
  IN  IF base \in {0, 16} /\ hex THEN <<16, i + 2>>
      ELSE IF base = 0 /\ Char(s, i) = "0" THEN <<8, i + 1>>
      ELSE IF base = 0 THEN <<10, i>> ELSE <<base, i>>

\* A digit equal to the base passes.
DigitsOf_OneMore(base) ==
  UNION {{Lower[d], Upper[d]} : d \in (1 .. base + 1) \cap DOMAIN Lower}

DigitsOf(base) == UNION {{Lower[d], Upper[d]} : d \in 1 .. base}

Negated(minus, v) == IF minus THEN 0 - v ELSE v

atoi(s, i, bits) ==
  LET start == Start(s, i)
      end == Past(s, start.from, DigitsOf(10))
  IN  Signed(Negated(start.minus, Sum(s, start.from, end, 10, bits)), bits)

\* The two loops of strtol and strtoul are the same.
Scan(s, i, base) ==
  LET start == Start(s, i)
      prefix == Prefix(s, start.from, base)
      end == Past(s, prefix[2], DigitsOf(prefix[1]))
  IN  [value |-> Negated(start.minus, Sum(s, prefix[2], end, prefix[1], LONG_BITS)),
       end |-> end]

strtol(s, i, base) ==
  LET scan == Scan(s, i, base) IN [scan EXCEPT !.value = Signed(@, LONG_BITS)]

strtoul(s, i, base) ==
  LET scan == Scan(s, i, base) IN [scan EXCEPT !.value = Unsigned(@, LONG_BITS)]

-----------------------------------------------------------------------------
(***************************************************************************)
(* Calls                                                                   *)
(***************************************************************************)

Init ==
  /\ buf \in Literals /\ at = 1 /\ stopped = 1
  /\ printed = << >> /\ reads = << >>

\* The buffer is filled anew; only a literal is there to begin with.
Fill(text, numbers) ==
  /\ reads = << >> /\ printed = << >>
  /\ buf' = text /\ at' = 1 /\ printed' = numbers
  /\ UNCHANGED reads

Number(value, sign, base) == [value |-> value, sign |-> sign, base |-> base]

itoa(value, base) ==
  /\ Fill(ItoaText(value, base),
           IF base \notin 2 .. 36 THEN << >>
           ELSE IF base = 10 THEN <<Number(value, "signed", 10)>>
           ELSE <<Number(Unsigned(value, INT_BITS), "unsigned", base)>>)
  /\ UNCHANGED stopped

\* What a turn prints of its argument.
Printed(turn, arg) ==
  IF ~ TakesArgument(turn) THEN << >>
  ELSE IF Numeric(turn.chars)
  THEN <<Number(Taken(turn.chars, arg), Sign(turn.chars), Radix(turn.chars))>>
  ELSE <<Number(0, "text", 0)>>

sprintf(format, args) ==
  LET turns == Turns(format)
  IN  /\ Fill(vsprintf(format, args),
               FlattenSeq([k \in DOMAIN turns.emit |-> Printed(turns.emit[k], args[k])]))
      /\ stopped' = turns.stop - Len(format)

\* The serial port's own functions.
Log(v) ==
  /\ \/ Fill(serial_put_hex(v), <<Number(v, "unsigned", 16)>>)
     \/ Fill(serial_put_dec(v), <<Number(v, "unsigned", 10)>>)
  /\ UNCHANGED stopped

\* One of the reading functions, with the range of its result.
Read(value, sign, bits, base, end) ==
  /\ Len(reads) < MaxReads /\ at <= Len(buf) + 1
  /\ reads' = Append(reads, [value |-> value, sign |-> sign, bits |-> bits, base |-> base,
                             from |-> at, end |-> end])
  /\ at' = end
  /\ UNCHANGED <<buf, stopped, printed>>

\* atoi, atol and atoll do not say where they stop, so nothing is read after them.
ReadDecimal(bits) == Read(atoi(buf, at, bits), "signed", bits, 10, Len(buf) + 2)

ReadLong(base) ==
  \/ LET r == strtol(buf, at, base) IN Read(r.value, "signed", LONG_BITS, base, r.end)
  \/ LET r == strtoul(buf, at, base) IN Read(r.value, "unsigned", LONG_BITS, base, r.end)

\* What may be passed for a turn, and for all of them.
Passed(turn) ==
  IF ~ TakesArgument(turn) THEN {None}
  ELSE IF Numeric(turn.chars) THEN Values
  ELSE IF turn.chars = <<"c">> THEN {"a"} ELSE {<< >>, <<"a", "%">>}
Longer(lists, S) == {Append(args, a) : args \in lists, a \in S}
ArgumentLists(emit) ==
  LET lists[k \in 0 .. Len(emit)] ==
        IF k = 0 THEN {<< >>} ELSE Longer(lists[k - 1], Passed(emit[k]))
  IN  lists[Len(emit)]

Next ==
  \/ \E v \in Values, b \in Bases : itoa(Signed(v, INT_BITS), b)
  \/ \E f \in Formats : \E args \in ArgumentLists(Turns(f).emit) : sprintf(f, args)
  \/ \E v \in Values : Log(Unsigned(v, LONG_BITS))
  \/ \E bits \in {INT_BITS, LONG_BITS} : ReadDecimal(bits)
  \/ \E b \in Bases : b \in {0} \cup 2 .. 36 /\ ReadLong(b)

Spec == Init /\ [][Next]_vars

-----------------------------------------------------------------------------
(***************************************************************************)
(* Properties                                                              *)
(***************************************************************************)

\* The result of a reading function can be the number that was printed.
InRange(n, r) == (IF r.sign = "signed" THEN Signed(n.value, r.bits) ELSE Unsigned(n.value, r.bits)) = n.value

\* A turn of vsprintf's loop that prints a number, one that prints a blank,
\* and one whose text always starts with something that is no digit.
PrintsNumber(turn) == TakesArgument(turn) /\ Numeric(turn.chars)
PrintsBlank(turn) == turn.kind = "text" /\ \E c \in Blank : turn.chars = <<c>>
Separates(turn) ==
  LET text == IF turn.kind = "text" THEN turn.chars ELSE Emitted(turn.chars, None)
  IN  ~ TakesArgument(turn) /\ text # << >> /\ text[1] \notin DigitsOf(36)

\* The numbers a format prints before any %c or %s can be told apart: nothing
\* but blanks is between them, and no digit of any base follows one.
FormatsApart ==
  \A f \in Formats :
    LET emit == Turns(f).emit
    IN  \A k \in DOMAIN emit :
          /\ PrintsNumber(emit[k])
          /\ \A i \in 1 .. (k - 1) : TakesArgument(emit[i]) => PrintsNumber(emit[i])
          => /\ \A i \in 1 .. (k - 1) : PrintsNumber(emit[i]) \/ PrintsBlank(emit[i])
             /\ k < Len(emit) => Separates(emit[k + 1])

\* It was asked for the base the number is printed in, or left to find it.
SameBase(n, r) == r.base = n.base \/ (r.base = 0 /\ n.base = 10)

(* Numbers that itoa, sprintf or the serial port print, from the least to  *)
(* the greatest of each width, are read back as they were by atoi, strtol  *)
(* and strtoul, one after the other by the end pointers, whenever the      *)
(* function that reads them can return them.                               *)
ReadsBack ==
  \A k \in DOMAIN reads \cap DOMAIN printed :
    (\A j \in 1 .. k : /\ printed[j].sign # "text"
                       /\ InRange(printed[j], reads[j]) /\ SameBase(printed[j], reads[j]))
      => reads[k].value = printed[k].value

\* The characters of s from i to j - 1 are blanks, a sign, a prefix and digits.
IsNumber(s, i, j, base) ==
  \E a \in i .. j : \E b \in a .. j : \E c \in b .. j :
    LET prefix == SubSeq(s, b, c - 1)
        radix == IF Len(prefix) = 2 THEN 16
                 ELSE IF Len(prefix) = 1 THEN 8 ELSE IF base = 0 THEN 10 ELSE base
    IN  /\ \A k \in i .. (a - 1) : s[k] \in Blank
        /\ SubSeq(s, a, b - 1) \in {<< >>, <<"-">>, <<"+">>}
        /\ \/ prefix = << >> /\ ~ (base = 0 /\ b < j /\ s[b] = "0")
           \/ prefix = <<"0">> /\ base = 0
           \/ prefix \in {<<"0", "x">>, <<"0", "X">>} /\ base \in {0, 16}
        /\ \A k \in c .. (j - 1) : \E d \in 1 .. radix : s[k] \in {Lower[d], Upper[d]}

(* The end pointer of strtol and strtoul marks the longest piece of the    *)
(* text that is a number in the base asked for, or in the one its prefix   *)
(* says for base 0 (test_stdlib.c:90: a digit beyond the base ends it).    *)
EndsAfterNumber ==
  reads # << >> /\ Last(reads).end <= Len(buf) + 1 =>
    LET r == Last(reads)
    IN  /\ IsNumber(buf, r.from, r.end, r.base)
        /\ \A j \in (r.end + 1) .. (Len(buf) + 1) : ~ IsNumber(buf, r.from, j, r.base)

(* vsprintf reads a format to its 0 and never on, also when a % or a %l is *)
(* the last thing in it.                                                   *)
FormatReadToEnd == stopped = 1
=============================================================================
