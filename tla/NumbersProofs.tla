---------------------------- MODULE NumbersProofs ---------------------------
(***************************************************************************)
(* Proofs about Numbers, for any texts, any formats and any widths.        *)
(***************************************************************************)
EXTENDS Numbers, SequenceTheorems, NaturalsInduction, WellFoundedInduction, TLAPS

-----------------------------------------------------------------------------
(***************************************************************************)
(* Numbers                                                                 *)
(***************************************************************************)

\* Strictly less, as a relation.
Below == {p \in Nat \X Nat : p[1] < p[2]}

\* A nonempty set of numbers has a least one.
LEMMA LeastNumber ==
  ASSUME NEW S \in SUBSET Nat, S # {}
  PROVE  \E n \in S : \A m \in S : n <= m
<1>1. IsWellFoundedOn(OpToRel(<, Nat), Nat)
  BY NatLessThanWellFounded
<1>2. OpToRel(<, Nat) = Below
  BY DEF OpToRel, Below
<1>3. IsWellFoundedOn(Below, Nat)
  BY <1>1, <1>2
<1>4. PICK n \in S : \A m \in S : ~ (<<m, n>> \in Below)
  BY <1>3, WFMin
<1>5. \A m, k \in Nat : <<m, k>> \in Below <=> m < k
  BY DEF Below
<1>6. \A m \in S : ~ (m < n)
  BY <1>4, <1>5
<1> QED
  BY <1>4, <1>6

\* What holds of 0 and of each number's successor up to l.
LEMMA Induction ==
  ASSUME NEW l \in Nat, NEW S \in SUBSET (0 .. l), 0 \in S,
         \A n \in 1 .. l : n - 1 \in S => n \in S
  PROVE  S = 0 .. l
<1> SUFFICES ASSUME (0 .. l) \ S # {} PROVE FALSE
  OBVIOUS
<1>1. (0 .. l) \ S \in SUBSET Nat
  OBVIOUS
<1>2. PICK n \in (0 .. l) \ S : \A m \in (0 .. l) \ S : n <= m
  BY <1>1, LeastNumber
<1>3. n \in 1 .. l
  BY <1>2
<1>4. n - 1 \in S
  BY <1>2, <1>3
<1> QED
  BY <1>2, <1>3, <1>4

-----------------------------------------------------------------------------
(***************************************************************************)
(* Texts                                                                   *)
(***************************************************************************)

\* A sequence, of whatever.
Text(x) == \E S : x \in Seq(S)

LEMMA TextLength ==
  ASSUME NEW s, Text(s)
  PROVE  Len(s) \in Nat /\ DOMAIN s = 1 .. Len(s)
<1>1. PICK S : s \in Seq(S)
  BY DEF Text
<1> QED
  BY <1>1

LEMMA TextOne == ASSUME NEW e PROVE Text(<<e>>) /\ Len(<<e>>) = 1
<1>1. <<e>> \in Seq({e})
  OBVIOUS
<1> QED
  BY <1>1 DEF Text

LEMMA TextConcat ==
  ASSUME NEW s, NEW t, Text(s), Text(t)
  PROVE  Text(s \o t) /\ Len(s \o t) = Len(s) + Len(t)
<1>1. PICK S : s \in Seq(S)
  BY DEF Text
<1>2. PICK T : t \in Seq(T)
  BY DEF Text
<1>3. s \in Seq(S \cup T) /\ t \in Seq(S \cup T)
  BY <1>1, <1>2
<1>4. s \o t \in Seq(S \cup T) /\ Len(s \o t) = Len(s) + Len(t)
  BY <1>3
<1> QED
  BY <1>4 DEF Text

LEMMA TextAppend ==
  ASSUME NEW s, NEW e, Text(s)
  PROVE  /\ Text(Append(s, e)) /\ Len(Append(s, e)) = Len(s) + 1
         /\ Append(s, e)[Len(s) + 1] = e
         /\ \A k \in 1 .. Len(s) : Append(s, e)[k] = s[k]
<1>1. PICK S : s \in Seq(S)
  BY DEF Text
<1>2. s \in Seq(S \cup {e}) /\ e \in S \cup {e}
  BY <1>1
<1>3. /\ Append(s, e) \in Seq(S \cup {e}) /\ Len(Append(s, e)) = Len(s) + 1
      /\ Append(s, e)[Len(s) + 1] = e
      /\ \A k \in 1 .. Len(s) : Append(s, e)[k] = s[k]
  BY <1>2
<1> QED
  BY <1>3 DEF Text

\* The piece of s from a to before b.
Between(s, a, b) == SubSeq(s, a, b - 1)
IsPiece(u, s, a, b) == Text(u) /\ Len(u) = b - a /\ \A k \in 1 .. (b - a) : u[k] = s[a + k - 1]

LEMMA Piece ==
  ASSUME NEW s, Len(s) \in Nat, NEW a \in 1 .. (Len(s) + 1), NEW b \in a .. (Len(s) + 1)
  PROVE  IsPiece(Between(s, a, b), s, a, b)
<1> DEFINE S == {s[k] : k \in a .. (b - 1)}
           e == b - 1
<1>1. \A k \in a .. e : s[k] \in S
  OBVIOUS
<1>2. a \in Int /\ e \in Int /\ e - a + 1 = b - a /\ (~ (a <= e) => b - a = 0)
  OBVIOUS
<1>3. Between(s, a, b) = SubSeq(s, a, e)
  BY DEF Between
<1> HIDE DEF S, e
<1>4. /\ SubSeq(s, a, e) \in Seq(S)
      /\ Len(SubSeq(s, a, e)) = IF a <= e THEN e - a + 1 ELSE 0
      /\ \A k \in 1 .. (e - a + 1) : SubSeq(s, a, e)[k] = s[a + k - 1]
  BY <1>1, <1>2, SubSeqProperties
<1>5. /\ \E T : Between(s, a, b) \in Seq(T)
      /\ Len(Between(s, a, b)) = IF a <= e THEN b - a ELSE 0
      /\ \A k \in 1 .. (b - a) : Between(s, a, b)[k] = s[a + k - 1]
  BY <1>2, <1>3, <1>4
<1> QED
  BY <1>2, <1>5 DEF IsPiece, Text

LEMMA TextEmpty == ASSUME NEW t, Text(t) PROVE t = << >> <=> Len(t) = 0
<1>1. PICK S : t \in Seq(S)
  BY DEF Text
<1> QED
  BY <1>1

LEMMA TextIsOne ==
  ASSUME NEW t, Text(t), NEW c
  PROVE  t = <<c>> <=> (Len(t) = 1 /\ t[1] = c)
<1>1. PICK S : t \in Seq(S)
  BY DEF Text
<1>2. ASSUME t = <<c>> PROVE Len(t) = 1 /\ t[1] = c
  BY <1>2
<1>3. ASSUME Len(t) = 1, t[1] = c PROVE t = <<c>>
  BY <1>1, <1>3
<1> QED
  BY <1>2, <1>3

LEMMA TextIsTwo ==
  ASSUME NEW t, Text(t), NEW c, NEW d
  PROVE  t = <<c, d>> <=> (Len(t) = 2 /\ t[1] = c /\ t[2] = d)
<1>1. PICK S : t \in Seq(S)
  BY DEF Text
<1>2. ASSUME t = <<c, d>> PROVE Len(t) = 2 /\ t[1] = c /\ t[2] = d
  BY <1>2
<1>3. ASSUME Len(t) = 2, t[1] = c, t[2] = d PROVE t = <<c, d>>
  BY <1>1, <1>3
<1> QED
  BY <1>2, <1>3

\* When a piece is nothing, one character, or two.
Shapes(u, s, a, b) ==
  /\ u = << >> <=> b = a
  /\ \A c : u = <<c>> <=> (b = a + 1 /\ s[a] = c)
  /\ \A c, d : u = <<c, d>> <=> (b = a + 2 /\ s[a] = c /\ s[a + 1] = d)

LEMMA PieceIs ==
  ASSUME NEW s, NEW a \in Nat, NEW b \in Nat, a <= b, NEW u, IsPiece(u, s, a, b)
  PROVE  Len(u) = b - a /\ Shapes(u, s, a, b)
<1>1. Text(u) /\ Len(u) = b - a /\ \A k \in 1 .. (b - a) : u[k] = s[a + k - 1]
  BY DEF IsPiece
<1>2. u = << >> <=> b = a
  BY <1>1, TextEmpty
<1>3. ASSUME b - a >= 1 PROVE u[1] = s[a]
  <2>1. 1 \in 1 .. (b - a) /\ a + 1 - 1 = a
    BY <1>3
  <2>2. u[1] = s[a + 1 - 1]
    BY <1>1, <2>1
  <2> QED
    BY <2>1, <2>2
<1>4. ASSUME b - a >= 2 PROVE u[2] = s[a + 1]
  <2>1. 2 \in 1 .. (b - a) /\ a + 2 - 1 = a + 1
    BY <1>4
  <2>2. u[2] = s[a + 2 - 1]
    BY <1>1, <2>1
  <2> QED
    BY <2>1, <2>2
<1>t. Text(u)
  BY <1>1
<1>b. Len(u) = b - a
  BY <1>1
<1>5. ASSUME NEW c PROVE u = <<c>> <=> (b = a + 1 /\ s[a] = c)
  <2>1. u = <<c>> <=> (Len(u) = 1 /\ u[1] = c)
    BY <1>t, TextIsOne, SMT
  <2>2. Len(u) = 1 <=> b = a + 1
    BY <1>b
  <2>3. b = a + 1 => u[1] = s[a]
    BY <1>3
  <2> QED
    BY <2>1, <2>2, <2>3, Zenon
<1>6. ASSUME NEW c, NEW d PROVE u = <<c, d>> <=> (b = a + 2 /\ s[a] = c /\ s[a + 1] = d)
  <2>1. u = <<c, d>> <=> (Len(u) = 2 /\ u[1] = c /\ u[2] = d)
    BY <1>t, TextIsTwo, SMT
  <2>2. Len(u) = 2 <=> b = a + 2
    BY <1>b
  <2>3. b = a + 2 => u[1] = s[a] /\ u[2] = s[a + 1]
    BY <1>3, <1>4
  <2> QED
    BY <2>1, <2>2, <2>3, Zenon
<1> QED
  BY <1>b, <1>2, <1>5, <1>6 DEF Shapes

-----------------------------------------------------------------------------
(***************************************************************************)
(* Reading                                                                 *)
(***************************************************************************)

\* A loop over characters ends at the first that it does not pass, or at the 0.
LEMMA PastStops ==
  ASSUME NEW s, Len(s) \in Nat, NEW i \in 1 .. (Len(s) + 1), NEW C, NUL \notin C
  PROVE  /\ Past(s, i, C) \in i .. (Len(s) + 1)
         /\ Char(s, Past(s, i, C)) \notin C
         /\ \A k \in i .. (Past(s, i, C) - 1) : s[k] \in C
<1> DEFINE S == {j \in i .. (Len(s) + 1) : Char(s, j) \notin C}
<1>1. Len(s) + 1 \in S
  BY DEF Char
<1>2. S \in SUBSET Nat
  OBVIOUS
<1> HIDE DEF S
<1>3. PICK n \in S : \A m \in S : n <= m
  BY <1>1, <1>2, LeastNumber
<1>4. n \in i .. (Len(s) + 1) /\ Char(s, n) \notin C
  BY <1>3 DEF S
<1>5. ASSUME NEW k \in i .. (n - 1) PROVE s[k] \in C
  <2>1. k \in i .. (Len(s) + 1) /\ k < n /\ k <= Len(s)
    BY <1>4
  <2>2. k \notin S
    BY <1>2, <1>3, <2>1
  <2>3. Char(s, k) \in C
    BY <2>1, <2>2 DEF S
  <2> QED
    BY <2>1, <2>3 DEF Char
<1> QED
  BY <1>4, <1>5 DEF Past

DigitCharacters ==
  {"0", "1", "2", "3", "4", "5", "6", "7", "8", "9", "a", "b", "c", "d", "e", "f", "g", "h", "i",
   "j", "k", "l", "m", "n", "o", "p", "q", "r", "s", "t", "u", "v", "w", "x", "y", "z", "A", "B",
   "C", "D", "E", "F", "G", "H", "I", "J", "K", "L", "M", "N", "O", "P", "Q", "R", "S", "T", "U",
   "V", "W", "X", "Y", "Z"}

LEMMA DigitsOfCases ==
  ASSUME NEW d \in 1 .. 36
  PROVE  Lower[d] \in DigitCharacters /\ Upper[d] \in DigitCharacters
BY DEF Lower, Upper, DigitCharacters

\* No digit is a blank, a sign or the end of a text.
LEMMA CharactersApart ==
  ASSUME NEW c \in DigitCharacters
  PROVE  c \notin Blank \cup {"-", "+"} /\ c # NUL
BY Zenon DEF DigitCharacters, Blank, NUL

LEMMA SignsApart == "-" \notin Blank /\ "+" \notin Blank /\ NUL \notin Blank \cup {"-", "+"}
BY Zenon DEF Blank, NUL

\* The letter of the prefix is no digit up to base 16.
LEMMA PrefixApart ==
  ASSUME NEW d \in 1 .. 16
  PROVE  Lower[d] \notin {"x", "X"} /\ Upper[d] \notin {"x", "X"}
BY DEF Lower, Upper

LEMMA DigitsApart ==
  ASSUME NEW radix \in 2 .. 36, NEW c \in DigitsOf(radix)
  PROVE  c \in DigitCharacters /\ (radix <= 16 => c \notin {"x", "X"})
<1>1. PICK d \in 1 .. radix : c \in {Lower[d], Upper[d]}
  BY DEF DigitsOf
<1>2. d \in 1 .. 36 /\ (radix <= 16 => d \in 1 .. 16)
  OBVIOUS
<1> QED
  BY <1>1, <1>2, DigitsOfCases, PrefixApart

LEMMA NoDigitEnds == ASSUME NEW radix \in 2 .. 36 PROVE NUL \notin DigitsOf(radix)
BY DigitsApart, CharactersApart

LEMMA DigitsAre ==
  ASSUME NEW radix, NEW c, NEW d \in 1 .. radix, c \in {Lower[d], Upper[d]}
  PROVE  c \in DigitsOf(radix)
BY DEF DigitsOf

Figures(s, c, j, radix) == \A k \in c .. (j - 1) : s[k] \in DigitsOf(radix)

\* The three ways in which characters from b on, up to j, are prefix and digits.
Ways(s, b, j, base) ==
  \/ ~ (base = 0 /\ b < j /\ s[b] = "0") /\ Figures(s, b, j, IF base = 0 THEN 10 ELSE base)
  \/ base = 0 /\ b + 1 <= j /\ s[b] = "0" /\ Figures(s, b + 1, j, 8)
  \/ base \in {0, 16} /\ b + 2 <= j /\ s[b] = "0" /\ s[b + 1] \in {"x", "X"}
     /\ Figures(s, b + 2, j, 16)

\* Blanks from i to a - 1, and perhaps a sign before b.
Led(s, i, a, b) ==
  /\ \A k \in i .. (a - 1) : s[k] \in Blank
  /\ b = a \/ (b = a + 1 /\ s[a] \in {"-", "+"})

LEMMA FiguresAre ==
  ASSUME NEW s, NEW c, NEW j, NEW radix
  PROVE  (\A k \in c .. (j - 1) : \E d \in 1 .. radix : s[k] \in {Lower[d], Upper[d]})
           <=> Figures(s, c, j, radix)
BY DEF Figures, DigitsOf

RadixOf(prefix, base) ==
  IF Len(prefix) = 2 THEN 16 ELSE IF Len(prefix) = 1 THEN 8 ELSE IF base = 0 THEN 10 ELSE base

\* IsNumber, for given pieces.
Pieces(s, i, j, base, a, b, c) ==
  /\ \A k \in i .. (a - 1) : s[k] \in Blank
  /\ Between(s, a, b) \in {<< >>, <<"-">>, <<"+">>}
  /\ \/ Between(s, b, c) = << >> /\ ~ (base = 0 /\ b < j /\ s[b] = "0")
     \/ Between(s, b, c) = <<"0">> /\ base = 0
     \/ Between(s, b, c) \in {<<"0", "x">>, <<"0", "X">>} /\ base \in {0, 16}
  /\ \A k \in c .. (j - 1) : \E d \in 1 .. RadixOf(Between(s, b, c), base) :
       s[k] \in {Lower[d], Upper[d]}

LEMMA IsNumberPieces ==
  ASSUME NEW s, NEW i, NEW j, NEW base
  PROVE  IsNumber(s, i, j, base)
           <=> \E a \in i .. j : \E b \in a .. j : \E c \in b .. j : Pieces(s, i, j, base, a, b, c)
BY Zenon DEF IsNumber, Pieces, Between, RadixOf

LEMMA LedIs ==
  ASSUME NEW s, Len(s) \in Nat, NEW i, NEW a \in 1 .. (Len(s) + 1), NEW b \in a .. (Len(s) + 1)
  PROVE  Led(s, i, a, b) <=> /\ \A k \in i .. (a - 1) : s[k] \in Blank
                             /\ Between(s, a, b) \in {<< >>, <<"-">>, <<"+">>}
<1> DEFINE u == Between(s, a, b)
<1>1. IsPiece(u, s, a, b)
  BY Piece
<1>2. a \in Nat /\ b \in Nat /\ a <= b
  OBVIOUS
<1> HIDE DEF u
<1>3. Shapes(u, s, a, b)
  BY <1>1, <1>2, PieceIs
<1>4. u \in {<< >>, <<"-">>, <<"+">>} <=> (b = a \/ (b = a + 1 /\ s[a] \in {"-", "+"}))
  BY <1>3, Zenon DEF Shapes
<1> QED
  BY <1>4 DEF Led, u

LEMMA WaysGiven ==
  ASSUME NEW s, Len(s) \in Nat, NEW j \in 1 .. (Len(s) + 1), NEW base \in {0} \cup 2 .. 36,
         NEW b \in 1 .. j, NEW c \in b .. j, NEW i, NEW a, Pieces(s, i, j, base, a, b, c)
  PROVE  Ways(s, b, j, base)
<1> DEFINE u == Between(s, b, c)
<1>1. b \in Nat /\ c \in Nat /\ b <= c /\ c \in b .. (Len(s) + 1) /\ b \in 1 .. (Len(s) + 1)
  OBVIOUS
<1>2. IsPiece(u, s, b, c)
  BY <1>1, Piece
<1>3. /\ \/ u = << >> /\ ~ (base = 0 /\ b < j /\ s[b] = "0")
         \/ u = <<"0">> /\ base = 0
         \/ u \in {<<"0", "x">>, <<"0", "X">>} /\ base \in {0, 16}
      /\ Figures(s, c, j, RadixOf(u, base))
  BY Zenon DEF Pieces, Figures, DigitsOf
<1> HIDE DEF u
<1>4. Len(u) = c - b /\ Shapes(u, s, b, c)
  BY <1>1, <1>2, PieceIs
<1>5. CASE u = << >> /\ ~ (base = 0 /\ b < j /\ s[b] = "0")
  <2>1. c = b
    BY <1>4, <1>5, Zenon DEF Shapes
  <2>2. RadixOf(u, base) = IF base = 0 THEN 10 ELSE base
    BY <1>4, <2>1 DEF RadixOf
  <2> QED
    BY <1>3, <1>5, <2>1, <2>2 DEF Ways
<1>6. CASE u = <<"0">> /\ base = 0
  <2>1. c = b + 1 /\ s[b] = "0"
    BY <1>4, <1>6, Zenon DEF Shapes
  <2>2. RadixOf(u, base) = 8 /\ b + 1 <= j
    BY <1>4, <2>1 DEF RadixOf
  <2> QED
    BY <1>3, <1>6, <2>1, <2>2 DEF Ways
<1>7. CASE u \in {<<"0", "x">>, <<"0", "X">>} /\ base \in {0, 16}
  <2>1. c = b + 2 /\ s[b] = "0" /\ s[b + 1] \in {"x", "X"}
    BY <1>4, <1>7, Zenon DEF Shapes
  <2>2. RadixOf(u, base) = 16 /\ b + 2 <= j
    BY <1>4, <2>1 DEF RadixOf
  <2> QED
    BY <1>3, <1>7, <2>1, <2>2 DEF Ways
<1> QED
  BY <1>3, <1>5, <1>6, <1>7

\* Each way is a prefix and digits.
LEMMA WaysAre ==
  ASSUME NEW s, Len(s) \in Nat, NEW j \in 1 .. (Len(s) + 1), NEW base \in {0} \cup 2 .. 36,
         NEW b \in 1 .. j, Ways(s, b, j, base)
  PROVE  \E c \in b .. j :
           /\ \/ Between(s, b, c) = << >> /\ ~ (base = 0 /\ b < j /\ s[b] = "0")
              \/ Between(s, b, c) = <<"0">> /\ base = 0
              \/ Between(s, b, c) \in {<<"0", "x">>, <<"0", "X">>} /\ base \in {0, 16}
           /\ Figures(s, c, j, RadixOf(Between(s, b, c), base))
<1>1. ASSUME NEW c \in b .. j
      PROVE  Len(Between(s, b, c)) = c - b /\ Shapes(Between(s, b, c), s, b, c)
  <2>1. b \in Nat /\ c \in Nat /\ b <= c /\ c \in b .. (Len(s) + 1) /\ b \in 1 .. (Len(s) + 1)
    OBVIOUS
  <2>2. IsPiece(Between(s, b, c), s, b, c)
    BY <2>1, Piece
  <2> QED
    BY <2>1, <2>2, PieceIs
<1>2. CASE ~ (base = 0 /\ b < j /\ s[b] = "0") /\ Figures(s, b, j, IF base = 0 THEN 10 ELSE base)
  <2>1. b \in b .. j /\ b - b = 0
    OBVIOUS
  <2>2. Between(s, b, b) = << >>
    BY <1>1, <2>1, Zenon DEF Shapes
  <2>3. RadixOf(Between(s, b, b), base) = IF base = 0 THEN 10 ELSE base
    <3>1. Len(Between(s, b, b)) = 0
      BY <1>1, <2>1
    <3> QED
      BY <3>1 DEF RadixOf
  <2> QED
    BY <1>2, <2>1, <2>2, <2>3
<1>3. CASE base = 0 /\ b + 1 <= j /\ s[b] = "0" /\ Figures(s, b + 1, j, 8)
  <2> DEFINE c == b + 1
  <2>1. c \in b .. j /\ c = b + 1 /\ c - b = 1
    BY <1>3
  <2> HIDE DEF c
  <2>2. Between(s, b, c) = <<"0">>
    BY <1>1, <1>3, <2>1, Zenon DEF Shapes
  <2>3. Len(Between(s, b, c)) = 1
    BY <1>1, <2>1
  <2>4. RadixOf(Between(s, b, c), base) = 8
    BY <2>3 DEF RadixOf
  <2> QED
    BY <1>3, <2>1, <2>2, <2>4, Zenon
<1>4. CASE base \in {0, 16} /\ b + 2 <= j /\ s[b] = "0" /\ s[b + 1] \in {"x", "X"}
           /\ Figures(s, b + 2, j, 16)
  <2> DEFINE c == b + 2
  <2>1. c \in b .. j /\ c = b + 2 /\ c - b = 2
    BY <1>4
  <2> HIDE DEF c
  <2>7. \A e, f : Between(s, b, c) = <<e, f>> <=> (c = b + 2 /\ s[b] = e /\ s[b + 1] = f)
    BY <1>1, <2>1, Zenon DEF Shapes
  <2>2. s[b + 1] = "x" => Between(s, b, c) = <<"0", "x">>
    BY <1>4, <2>1, <2>7, SMT
  <2>6. s[b + 1] = "X" => Between(s, b, c) = <<"0", "X">>
    BY <1>4, <2>1, <2>7, SMT
  <2>3. Len(Between(s, b, c)) = 2
    BY <1>1, <2>1
  <2>4. RadixOf(Between(s, b, c), base) = 16
    BY <2>3 DEF RadixOf
  <2>5. Between(s, b, c) \in {<<"0", "x">>, <<"0", "X">>}
    BY <1>4, <2>2, <2>6, Zenon
  <2> QED
    BY <1>4, <2>1, <2>5, <2>4, Zenon
<1> QED
  BY <1>2, <1>3, <1>4 DEF Ways

\* A number: blanks, perhaps a sign, perhaps a prefix, and digits.
LEMMA IsNumberIs ==
  ASSUME NEW s, Len(s) \in Nat, NEW i \in 1 .. (Len(s) + 1), NEW j \in i .. (Len(s) + 1),
         NEW base \in {0} \cup 2 .. 36
  PROVE  IsNumber(s, i, j, base)
           <=> \E a \in i .. j : \E b \in a .. j : Led(s, i, a, b) /\ Ways(s, b, j, base)
<1>1. ASSUME NEW a \in i .. j, NEW b \in a .. j, NEW c \in b .. j, Pieces(s, i, j, base, a, b, c)
      PROVE  Led(s, i, a, b) /\ Ways(s, b, j, base)
  <2>1. /\ a \in 1 .. (Len(s) + 1) /\ b \in a .. (Len(s) + 1) /\ b \in 1 .. j
        /\ j \in 1 .. (Len(s) + 1)
    OBVIOUS
  <2>2. Ways(s, b, j, base)
    BY <1>1, <2>1, WaysGiven
  <2>3. Led(s, i, a, b)
    BY <1>1, <2>1, LedIs DEF Pieces
  <2> QED
    BY <2>2, <2>3
<1>2. ASSUME NEW a \in i .. j, NEW b \in a .. j, Led(s, i, a, b), Ways(s, b, j, base)
      PROVE  \E c \in b .. j : Pieces(s, i, j, base, a, b, c)
  <2>1. /\ a \in 1 .. (Len(s) + 1) /\ b \in a .. (Len(s) + 1) /\ b \in 1 .. j
        /\ j \in 1 .. (Len(s) + 1)
    OBVIOUS
  <2>2. /\ \A k \in i .. (a - 1) : s[k] \in Blank
        /\ Between(s, a, b) \in {<< >>, <<"-">>, <<"+">>}
    BY <1>2, <2>1, LedIs
  <2>3. PICK c \in b .. j :
          /\ \/ Between(s, b, c) = << >> /\ ~ (base = 0 /\ b < j /\ s[b] = "0")
             \/ Between(s, b, c) = <<"0">> /\ base = 0
             \/ Between(s, b, c) \in {<<"0", "x">>, <<"0", "X">>} /\ base \in {0, 16}
          /\ Figures(s, c, j, RadixOf(Between(s, b, c), base))
    BY <1>2, <2>1, WaysAre
  <2>4. \A k \in c .. (j - 1) : \E d \in 1 .. RadixOf(Between(s, b, c), base) :
          s[k] \in {Lower[d], Upper[d]}
    BY <2>3, FiguresAre
  <2> QED
    BY <2>2, <2>3, <2>4, Zenon DEF Pieces
<1> QED
  BY <1>1, <1>2, IsNumberPieces, Zenon

Marks == {"0", "x", "X", "-", "+"}

\* What is one of these characters is in the text.
LEMMA CharIn ==
  ASSUME NEW s, Len(s) \in Nat, NEW i \in Nat \ {0}
  PROVE  /\ \A c \in Marks : Char(s, i) = c <=> (i <= Len(s) /\ s[i] = c)
         /\ i <= Len(s) => Char(s, i) = s[i]
<1>1. "wild" \notin Marks /\ NUL \notin Marks
  BY Zenon DEF Marks, NUL
<1>2. Char(s, i) = s[i] \/ Char(s, i) \notin Marks
  BY <1>1 DEF Char
<1>3. i <= Len(s) => Char(s, i) = s[i]
  BY DEF Char
<1>4. ~ (i <= Len(s)) => Char(s, i) \notin Marks
  BY <1>1 DEF Char
<1> QED
  BY <1>3, <1>4

LEMMA PrefixHex ==
  ASSUME NEW s, Len(s) \in Nat, NEW b \in 1 .. (Len(s) + 1), NEW base \in {0, 16},
         b + 1 <= Len(s), s[b] = "0", s[b + 1] \in {"x", "X"}
  PROVE  Prefix(s, b, base) = <<16, b + 2>>
<1>1. b \in Nat \ {0} /\ b + 1 \in Nat \ {0} /\ b <= Len(s)
  OBVIOUS
<1>2. Char(s, b) = "0" /\ Char(s, b + 1) \in {"x", "X"}
  BY <1>1, CharIn
<1> QED
  BY <1>2 DEF Prefix

LEMMA PrefixNotHex ==
  ASSUME NEW s, Len(s) \in Nat, NEW b \in 1 .. (Len(s) + 1), NEW base,
         ~ (base \in {0, 16} /\ b + 1 <= Len(s) /\ s[b] = "0" /\ s[b + 1] \in {"x", "X"})
  PROVE  Prefix(s, b, base) = IF base = 0 /\ b <= Len(s) /\ s[b] = "0" THEN <<8, b + 1>>
                              ELSE IF base = 0 THEN <<10, b>> ELSE <<base, b>>
<1>1. b \in Nat \ {0} /\ b + 1 \in Nat \ {0}
  OBVIOUS
<1>2. "0" \in Marks /\ "x" \in Marks /\ "X" \in Marks
  BY DEF Marks
<1>3. Char(s, b) = "0" <=> (b <= Len(s) /\ s[b] = "0")
  BY <1>1, <1>2, CharIn
<1>4. Char(s, b + 1) \in {"x", "X"} <=> (b + 1 <= Len(s) /\ s[b + 1] \in {"x", "X"})
  <2>1. Char(s, b + 1) = "x" <=> (b + 1 <= Len(s) /\ s[b + 1] = "x")
    BY <1>1, <1>2, CharIn
  <2>2. Char(s, b + 1) = "X" <=> (b + 1 <= Len(s) /\ s[b + 1] = "X")
    BY <1>1, <1>2, CharIn
  <2> QED
    BY <2>1, <2>2, Zenon
<1>5. ~ (base \in {0, 16} /\ Char(s, b) = "0" /\ Char(s, b + 1) \in {"x", "X"})
  BY <1>3, <1>4
<1> QED
  BY <1>3, <1>5, Zenon DEF Prefix

\* The loop over digits goes to the end of the figures and no figures go on.
FiguresTo(s, c, end, radix) ==
  /\ end \in c .. (Len(s) + 1)
  /\ Figures(s, c, end, radix)
  /\ \A j \in (end + 1) .. (Len(s) + 1) : ~ Figures(s, c, j, radix)

LEMMA FiguresEnd ==
  ASSUME NEW s, Len(s) \in Nat, NEW c \in 1 .. (Len(s) + 1), NEW radix \in 2 .. 36
  PROVE  FiguresTo(s, c, Past(s, c, DigitsOf(radix)), radix)
<1> DEFINE end == Past(s, c, DigitsOf(radix))
<1>1. /\ end \in c .. (Len(s) + 1)
      /\ Char(s, end) \notin DigitsOf(radix)
      /\ \A k \in c .. (end - 1) : s[k] \in DigitsOf(radix)
  BY NoDigitEnds, PastStops
<1> HIDE DEF end
<1>2. ASSUME NEW j \in (end + 1) .. (Len(s) + 1), Figures(s, c, j, radix) PROVE FALSE
  <2>1. end \in c .. (j - 1) /\ end <= Len(s) /\ end \in Nat \ {0}
    BY <1>1
  <2>2. s[end] \in DigitsOf(radix)
    BY <1>2, <2>1 DEF Figures
  <2>3. Char(s, end) = s[end]
    BY <2>1, CharIn
  <2> QED
    BY <1>1, <2>2, <2>3
<1> QED
  BY <1>1, <1>2 DEF FiguresTo, Figures, end

WaysTo(s, b, end, base) ==
  /\ end \in b .. (Len(s) + 1)
  /\ Ways(s, b, end, base)
  /\ \A j \in (end + 1) .. (Len(s) + 1) : ~ Ways(s, b, j, base)

LEMMA WaysEnd ==
  ASSUME NEW s, Len(s) \in Nat, NEW b \in 1 .. (Len(s) + 1), NEW base \in {0} \cup 2 .. 36,
         NEW end, end = Past(s, Prefix(s, b, base)[2], DigitsOf(Prefix(s, b, base)[1]))
  PROVE  WaysTo(s, b, end, base)
<1> SUFFICES /\ end \in b .. (Len(s) + 1)
             /\ Ways(s, b, end, base)
             /\ \A j \in (end + 1) .. (Len(s) + 1) : ~ Ways(s, b, j, base)
  BY DEF WaysTo
<1>x. /\ "x" \notin DigitsOf(16) /\ "X" \notin DigitsOf(16)
      /\ "x" \notin DigitsOf(8) /\ "X" \notin DigitsOf(8)
  BY DigitsApart
<1>1. CASE base \in {0, 16} /\ b + 1 <= Len(s) /\ s[b] = "0" /\ s[b + 1] \in {"x", "X"}
  <2> DEFINE c == b + 2
  <2>1. Prefix(s, b, base)[2] = c /\ Prefix(s, b, base)[1] = 16
    BY <1>1, PrefixHex
  <2>2. c \in 1 .. (Len(s) + 1) /\ 16 \in 2 .. 36 /\ c = b + 2
    BY <1>1
  <2> HIDE DEF c
  <2>3. end = Past(s, c, DigitsOf(16))
    BY <2>1
  <2>4. /\ end \in c .. (Len(s) + 1)
        /\ Figures(s, c, end, 16)
        /\ \A j \in (end + 1) .. (Len(s) + 1) : ~ Figures(s, c, j, 16)
    <3>1. FiguresTo(s, c, end, 16)
      BY <2>2, <2>3, FiguresEnd
    <3> QED
      BY <3>1 DEF FiguresTo
  <2>5. end \in b .. (Len(s) + 1) /\ Ways(s, b, end, base)
    BY <1>1, <2>2, <2>4 DEF Ways
  <2>6. ASSUME NEW j \in (end + 1) .. (Len(s) + 1), Ways(s, b, j, base) PROVE FALSE
    <3>1. b + 1 \in b .. (j - 1) /\ b + 1 \in (b + 1) .. (j - 1) /\ b < j
      BY <2>2, <2>4
    <3>2. ASSUME Figures(s, b, j, 16) PROVE FALSE
      BY <1>x, <1>1, <3>1, <3>2 DEF Figures
    <3>3. ASSUME Figures(s, b + 1, j, 8) PROVE FALSE
      BY <1>x, <1>1, <3>1, <3>3 DEF Figures
    <3> QED
      BY <1>1, <2>2, <2>4, <2>6, <3>1, <3>2, <3>3 DEF Ways
  <2> QED
    BY <2>5, <2>6
<1>2. CASE base = 0 /\ b <= Len(s) /\ s[b] = "0"
           /\ ~ (b + 1 <= Len(s) /\ s[b + 1] \in {"x", "X"})
  <2> DEFINE c == b + 1
  <2>1. Prefix(s, b, base)[2] = c /\ Prefix(s, b, base)[1] = 8
    <3>1. Prefix(s, b, base) = <<8, b + 1>>
      BY <1>2, PrefixNotHex
    <3> QED
      BY <3>1
  <2>2. c \in 1 .. (Len(s) + 1) /\ 8 \in 2 .. 36 /\ c = b + 1
    BY <1>2
  <2> HIDE DEF c
  <2>3. end = Past(s, c, DigitsOf(8))
    BY <2>1
  <2>4. /\ end \in c .. (Len(s) + 1)
        /\ Figures(s, c, end, 8)
        /\ \A j \in (end + 1) .. (Len(s) + 1) : ~ Figures(s, c, j, 8)
    <3>1. FiguresTo(s, c, end, 8)
      BY <2>2, <2>3, FiguresEnd
    <3> QED
      BY <3>1 DEF FiguresTo
  <2>5. end \in b .. (Len(s) + 1) /\ Ways(s, b, end, base)
    BY <1>2, <2>2, <2>4 DEF Ways
  <2>6. ASSUME NEW j \in (end + 1) .. (Len(s) + 1), Ways(s, b, j, base) PROVE FALSE
    <3>1. b < j /\ (b + 2 <= j => b + 1 <= Len(s))
      BY <2>2, <2>4
    <3> QED
      BY <1>2, <2>2, <2>4, <2>6, <3>1 DEF Ways
  <2> QED
    BY <2>5, <2>6
<1>3. CASE /\ ~ (base \in {0, 16} /\ b + 1 <= Len(s) /\ s[b] = "0" /\ s[b + 1] \in {"x", "X"})
           /\ ~ (base = 0 /\ b <= Len(s) /\ s[b] = "0")
  <2> DEFINE radix == IF base = 0 THEN 10 ELSE base
  <2>1. Prefix(s, b, base)[2] = b /\ Prefix(s, b, base)[1] = radix
    <3>1. Prefix(s, b, base) = IF base = 0 THEN <<10, b>> ELSE <<base, b>>
      BY <1>3, PrefixNotHex
    <3> QED
      BY <3>1
  <2>2. radix \in 2 .. 36 /\ radix = IF base = 0 THEN 10 ELSE base
    OBVIOUS
  <2> HIDE DEF radix
  <2>3. end = Past(s, b, DigitsOf(radix))
    BY <2>1
  <2>4. /\ end \in b .. (Len(s) + 1)
        /\ Figures(s, b, end, radix)
        /\ \A j \in (end + 1) .. (Len(s) + 1) : ~ Figures(s, b, j, radix)
    <3>1. FiguresTo(s, b, end, radix)
      BY <2>2, <2>3, FiguresEnd
    <3> QED
      BY <3>1 DEF FiguresTo
  <2>5. ~ (base = 0 /\ b < end /\ s[b] = "0")
    BY <1>3, <2>4
  <2>6. Ways(s, b, end, base)
    BY <2>2, <2>4, <2>5 DEF Ways
  <2>7. ASSUME NEW j \in (end + 1) .. (Len(s) + 1), Ways(s, b, j, base) PROVE FALSE
    <3>1. b + 1 <= j => b <= Len(s)
      BY <2>4
    <3>2. b + 2 <= j => b + 1 <= Len(s)
      BY <2>4
    <3>3. ~ Figures(s, b, j, radix)
      BY <2>4
    <3> QED
      BY <1>3, <2>2, <2>7, <3>1, <3>2, <3>3 DEF Ways
  <2> QED
    BY <2>4, <2>6, <2>7
<1> QED
  BY <1>1, <1>2, <1>3

\* Blanks and a sign go as far as Start says.
LEMMA StartLeads ==
  ASSUME NEW s, Len(s) \in Nat, NEW i \in 1 .. (Len(s) + 1)
  PROVE  \E a \in i .. (Len(s) + 1) :
           /\ Start(s, i).from \in a .. (Len(s) + 1)
           /\ Led(s, i, a, Start(s, i).from)
           /\ a <= Len(s) => s[a] \notin Blank
           /\ Start(s, i).from = a => (a <= Len(s) => s[a] \notin {"-", "+"})
<1> DEFINE a == Past(s, i, Blank)
           b == Start(s, i).from
<1>1. /\ a \in i .. (Len(s) + 1)
      /\ Char(s, a) \notin Blank
      /\ \A k \in i .. (a - 1) : s[k] \in Blank
  BY SignsApart, PastStops
<1>2. b = IF Char(s, a) \in {"-", "+"} THEN a + 1 ELSE a
  BY DEF Start
<1> HIDE DEF a, b
<1>3. a \in Nat \ {0} /\ "-" \in Marks /\ "+" \in Marks
  BY <1>1 DEF Marks
<1>4. a <= Len(s) => Char(s, a) = s[a]
  BY <1>3, CharIn
<1>5. Char(s, a) \in {"-", "+"} <=> (a <= Len(s) /\ s[a] \in {"-", "+"})
  <2>1. Char(s, a) = "-" <=> (a <= Len(s) /\ s[a] = "-")
    BY <1>3, CharIn
  <2>2. Char(s, a) = "+" <=> (a <= Len(s) /\ s[a] = "+")
    BY <1>3, CharIn
  <2> QED
    BY <2>1, <2>2, Zenon
<1>6. b \in a .. (Len(s) + 1) /\ (b = a \/ (b = a + 1 /\ s[a] \in {"-", "+"}))
  BY <1>1, <1>2, <1>5
<1>7. Led(s, i, a, b)
  BY <1>1, <1>6 DEF Led
<1>8. b = a => (a <= Len(s) => s[a] \notin {"-", "+"})
  BY <1>1, <1>2, <1>5
<1>9. a <= Len(s) => s[a] \notin Blank
  BY <1>1, <1>4
<1> QED
  BY <1>1, <1>6, <1>7, <1>8, <1>9 DEF b

\* What begins figures or a prefix is no blank and no sign.
LEMMA WaysBegin ==
  ASSUME NEW s, NEW b \in Nat, NEW j \in Nat, b < j, NEW base \in {0} \cup 2 .. 36,
         Ways(s, b, j, base)
  PROVE  s[b] \notin Blank \cup {"-", "+"}
<1>1. b \in b .. (j - 1)
  OBVIOUS
<1>2. "0" \in DigitCharacters
  BY DEF DigitCharacters
<1>3. s[b] = "0" \/ s[b] \in DigitsOf(IF base = 0 THEN 10 ELSE base)
  BY <1>1 DEF Ways, Figures
<1>4. (IF base = 0 THEN 10 ELSE base) \in 2 .. 36
  OBVIOUS
<1>5. s[b] \in DigitCharacters
  BY <1>2, <1>3, <1>4, DigitsApart
<1> QED
  BY <1>5, CharactersApart

\* Longer than that, blanks and a sign can only be the same.
LEMMA LedSame ==
  ASSUME NEW s, Len(s) \in Nat, NEW i \in 1 .. (Len(s) + 1),
         NEW a \in i .. (Len(s) + 1), NEW b \in a .. (Len(s) + 1), Led(s, i, a, b),
         a <= Len(s) => s[a] \notin Blank,
         b = a => (a <= Len(s) => s[a] \notin {"-", "+"}),
         NEW base \in {0} \cup 2 .. 36, NEW j \in (b + 1) .. (Len(s) + 1),
         NEW c \in i .. j, NEW d \in c .. j, Led(s, i, c, d), Ways(s, d, j, base)
  PROVE  d = b
<1>1. /\ \A k \in i .. (a - 1) : s[k] \in Blank
      /\ \A k \in i .. (c - 1) : s[k] \in Blank
      /\ b = a \/ (b = a + 1 /\ s[a] \in {"-", "+"})
      /\ d = c \/ (d = c + 1 /\ s[c] \in {"-", "+"})
  BY DEF Led
<1>2. a < j /\ a <= Len(s) /\ d \in Nat /\ j \in Nat
  OBVIOUS
<1>3. ~ (a < c)
  BY <1>1, <1>2
<1>4. d < j => s[d] \notin Blank \cup {"-", "+"}
  BY <1>2, WaysBegin
<1>5. ASSUME c < a PROVE FALSE
  <2>1. s[c] \in Blank
    BY <1>1, <1>5
  <2>2. d = c
    BY <1>1, <2>1, SignsApart
  <2> QED
    BY <1>2, <1>4, <1>5, <2>1, <2>2
<1>6. c = a
  BY <1>3, <1>5
<1>7. CASE b = a
  BY <1>1, <1>2, <1>6, <1>7
<1>8. CASE b = a + 1 /\ s[a] \in {"-", "+"}
  <2>1. d # c
    BY <1>2, <1>4, <1>6, <1>8
  <2> QED
    BY <1>1, <1>6, <1>8, <2>1
<1> QED
  BY <1>1, <1>7, <1>8

\* Where strtol and strtoul end: the longest piece that is a number.
LEMMA ScanEnds ==
  ASSUME NEW s, Len(s) \in Nat, NEW i \in 1 .. (Len(s) + 1), NEW base \in {0} \cup 2 .. 36
  PROVE  /\ Scan(s, i, base).end \in i .. (Len(s) + 1)
         /\ IsNumber(s, i, Scan(s, i, base).end, base)
         /\ \A j \in (Scan(s, i, base).end + 1) .. (Len(s) + 1) : ~ IsNumber(s, i, j, base)
<1> DEFINE b == Start(s, i).from
           end == Scan(s, i, base).end
<1>1. end = Past(s, Prefix(s, b, base)[2], DigitsOf(Prefix(s, b, base)[1]))
  BY DEF Scan
<1>2. PICK a \in i .. (Len(s) + 1) :
        /\ b \in a .. (Len(s) + 1)
        /\ Led(s, i, a, b)
        /\ a <= Len(s) => s[a] \notin Blank
        /\ b = a => (a <= Len(s) => s[a] \notin {"-", "+"})
  BY StartLeads
<1> HIDE DEF b, end
<1>3. b \in 1 .. (Len(s) + 1)
  BY <1>2
<1>4. /\ end \in b .. (Len(s) + 1)
      /\ Ways(s, b, end, base)
      /\ \A j \in (end + 1) .. (Len(s) + 1) : ~ Ways(s, b, j, base)
  <2>1. WaysTo(s, b, end, base)
    BY <1>1, <1>3, WaysEnd
  <2> QED
    BY <2>1 DEF WaysTo
<1>5. end \in i .. (Len(s) + 1) /\ a \in i .. end /\ b \in a .. end
  BY <1>2, <1>4
<1>6. IsNumber(s, i, end, base)
  BY <1>2, <1>4, <1>5, IsNumberIs
<1>7. ASSUME NEW j \in (end + 1) .. (Len(s) + 1), IsNumber(s, i, j, base) PROVE FALSE
  <2>1. j \in i .. (Len(s) + 1) /\ j \in (b + 1) .. (Len(s) + 1)
    BY <1>3, <1>4, <1>5
  <2>2. \E c \in i .. j : \E d \in c .. j : Led(s, i, c, d) /\ Ways(s, d, j, base)
    BY <1>7, <2>1, IsNumberIs
  <2>3. PICK c \in i .. j : \E d \in c .. j : Led(s, i, c, d) /\ Ways(s, d, j, base)
    BY <2>2
  <2>4. PICK d \in c .. j : Led(s, i, c, d) /\ Ways(s, d, j, base)
    BY <2>3
  <2>5. d = b
    BY <1>2, <2>1, <2>4, LedSame
  <2> QED
    BY <1>4, <2>4, <2>5
<1> QED
  BY <1>5, <1>6, <1>7 DEF end

-----------------------------------------------------------------------------
(***************************************************************************)
(* Printing.  Each recursive function is shown to exist, number by number, *)
(* and then to be a text.                                                  *)
(***************************************************************************)

LEMMA Quotient ==
  ASSUME NEW base \in 2 .. 36, NEW v \in Nat, ~ (v < base)
  PROVE  v \div base \in 0 .. (v - 1)
BY SMTT(60)

\* g[v] are the digits of v.
Digits(l, base, g) ==
  g = [v \in 0 .. l |-> IF v < base THEN <<Lower[v + 1]>>
                        ELSE Append(g[v \div base], Lower[(v % base) + 1])]

LEMMA DigitsExist ==
  ASSUME NEW base \in 2 .. 36, NEW value \in Nat
  PROVE  \E g : Digits(value, base, g)
<1> DEFINE e(g, v) == IF v < base THEN <<Lower[v + 1]>>
                      ELSE Append(g[v \div base], Lower[(v % base) + 1])
           T == {l \in 0 .. value : \E g : Digits(l, base, g)}
<1>1. 0 \in T
  <2> DEFINE g == [v \in 0 .. 0 |-> <<Lower[v + 1]>>]
  <2>1. \A v \in 0 .. 0 : v < base
    OBVIOUS
  <2>2. g = [v \in 0 .. 0 |-> e(g, v)]
    <3>1. g = [v \in 0 .. 0 |-> g[v]] /\ \A v \in 0 .. 0 : g[v] = e(g, v)
      BY <2>1
    <3> HIDE DEF g, e
    <3> QED
      BY <3>1
  <2>3. \E f : Digits(0, base, f)
    BY <2>2, Zenon DEF Digits
  <2> QED
    BY <2>3
<1>2. ASSUME NEW l \in 1 .. value, l - 1 \in T PROVE l \in T
  <2>1. PICK g : Digits(l - 1, base, g)
    BY <1>2
  <2>2. g = [v \in 0 .. (l - 1) |-> e(g, v)]
    BY <2>1, Zenon DEF Digits
  <2> DEFINE h == [v \in 0 .. l |-> IF v = l THEN e(g, l) ELSE g[v]]
  <2>3. ASSUME NEW v \in 0 .. l PROVE h[v] = e(h, v)
    <3>1. h[v] = e(g, v)
      <4>1. v = l \/ v \in 0 .. (l - 1)
        OBVIOUS
      <4> QED
        BY <2>2, <4>1, Zenon
    <3>2. CASE v < base
      BY <3>1, <3>2, Zenon
    <3>3. CASE ~ (v < base)
      <4>1. v \div base \in 0 .. (v - 1)
        BY <3>3, Quotient
      <4>2. v \div base \in 0 .. l /\ v \div base # l
        BY <4>1
      <4>3. h[v \div base] = g[v \div base]
        BY <4>2, Zenon
      <4> QED
        BY <3>1, <4>3, Zenon
    <3> QED
      BY <3>2, <3>3
  <2>4. h = [v \in 0 .. l |-> e(h, v)]
    <3>1. h = [v \in 0 .. l |-> h[v]]
      OBVIOUS
    <3> HIDE DEF h, e
    <3> QED
      BY <2>3, <3>1
  <2>5. \E f : Digits(l, base, f)
    BY <2>4, Zenon DEF Digits
  <2> QED
    BY <2>5
<1>3. T \in SUBSET (0 .. value)
  OBVIOUS
<1>4. value \in T
  <2> HIDE DEF T
  <2>1. T = 0 .. value
    BY <1>1, <1>2, <1>3, Induction
  <2> QED
    BY <2>1
<1> QED
  BY <1>4

LEMMA emit_uintText ==
  ASSUME NEW base \in 2 .. 36, NEW value \in Nat
  PROVE  Text(emit_uint(value, base))
<1> DEFINE g == CHOOSE x : x = [v \in 0 .. value |-> IF v < base THEN <<Lower[v + 1]>>
                                 ELSE Append(x[v \div base], Lower[(v % base) + 1])]
<1>1. g = [v \in 0 .. value |-> IF v < base THEN <<Lower[v + 1]>>
                                 ELSE Append(g[v \div base], Lower[(v % base) + 1])]
  BY DigitsExist, Zenon DEF Digits
<1>2. emit_uint(value, base) = g[value]
  BY Zenon DEF emit_uint
<1> HIDE DEF g
<1> DEFINE e(v) == IF v < base THEN <<Lower[v + 1]>>
                   ELSE Append(g[v \div base], Lower[(v % base) + 1])
<1>3. \A v \in 0 .. value : g[v] = e(v)
  BY <1>1, Zenon
<1> DEFINE T == {l \in 0 .. value : \A v \in 0 .. l : Text(g[v])}
<1>4. ASSUME NEW v \in 0 .. value, \A w \in 0 .. (v - 1) : Text(g[w]) PROVE Text(g[v])
  <2>1. CASE v < base
    <3>1. g[v] = <<Lower[v + 1]>>
      BY <1>3, <2>1, Zenon
    <3> QED
      BY <3>1, TextOne
  <2>2. CASE ~ (v < base)
    <3>1. Text(g[v \div base])
      BY <1>4, <2>2, Quotient
    <3>2. g[v] = Append(g[v \div base], Lower[(v % base) + 1])
      BY <1>3, <2>2, Zenon
    <3> QED
      BY <3>1, <3>2, TextAppend
  <2> QED
    BY <2>1, <2>2
<1>5. 0 \in T
  <2>1. Text(g[0])
    BY <1>4
  <2> QED
    BY <2>1
<1>6. ASSUME NEW l \in 1 .. value, l - 1 \in T PROVE l \in T
  <2>1. \A v \in 0 .. (l - 1) : Text(g[v])
    BY <1>6
  <2>2. Text(g[l])
    BY <1>4, <2>1
  <2>3. \A v \in 0 .. l : Text(g[v])
    BY <2>1, <2>2
  <2> QED
    BY <2>3
<1>7. T \in SUBSET (0 .. value)
  OBVIOUS
<1>8. value \in T
  <2> HIDE DEF T
  <2>1. T = 0 .. value
    BY <1>5, <1>6, <1>7, Induction
  <2> QED
    BY <2>1
<1> QED
  BY <1>2, <1>8

LEMMA Power == ASSUME NEW n \in 0 .. LONG_BITS PROVE 2 ^ n \in Nat \ {0}
<1> DEFINE T == {m \in 0 .. LONG_BITS : 2 ^ m \in Nat \ {0}}
<1>1. LONG_BITS \in Nat
  BY NumbersAssumption
<1>2. 0 \in T
  BY <1>1, PowersAssumption
<1>3. ASSUME NEW m \in 1 .. LONG_BITS, m - 1 \in T PROVE m \in T
  <2>1. 2 ^ (m - 1) \in Nat \ {0}
    BY <1>3
  <2>2. 2 ^ m = 2 * 2 ^ (m - 1)
    BY PowersAssumption
  <2>3. 2 ^ m \in Nat \ {0}
    BY <2>1, <2>2
  <2> QED
    BY <2>3, <1>1
<1>4. T \in SUBSET (0 .. LONG_BITS)
  OBVIOUS
<1> HIDE DEF T
<1>5. T = 0 .. LONG_BITS
  BY <1>1, <1>2, <1>3, <1>4, Induction
<1>6. n \in T
  BY <1>5
<1> QED
  BY <1>6 DEF T

\* Numbers of a width.
LEMMA Widths ==
  ASSUME NEW v \in Int, NEW bits \in {INT_BITS, LONG_BITS}
  PROVE  Unsigned(v, bits) \in Nat /\ Signed(v, bits) \in Int /\ Magnitude(v, bits) \in Nat
<1>1. bits \in 0 .. LONG_BITS
  BY NumbersAssumption
<1>2. PICK p \in Nat \ {0} : p = 2 ^ bits
  BY <1>1, Power
<1>3. \A n \in Int : n % p \in Nat
  BY <1>2
<1>4. \A n \in Int : Unsigned(n, bits) \in Nat
  BY <1>2, <1>3 DEF Unsigned
<1>5. Signed(v, bits) = Unsigned(v, bits) \/ Signed(v, bits) = Unsigned(v, bits) - p
  BY <1>2, Zenon DEF Signed
<1>6. 0 - v \in Int
  OBVIOUS
<1> QED
  BY <1>4, <1>5, <1>6 DEF Magnitude

LEMMA emit_intText ==
  ASSUME NEW value \in Int
  PROVE  Text(emit_int(value, 10))
<1>1. CASE value < 0
  <2>1. Text(emit_uint(Magnitude(value, LONG_BITS), 10))
    <3>1. Magnitude(value, LONG_BITS) \in Nat /\ 10 \in 2 .. 36
      BY Widths
    <3> QED
      BY <3>1, emit_uintText
  <2> QED
    BY <1>1, <2>1, TextOne, TextConcat DEF emit_int
<1>2. CASE ~ (value < 0)
  <2>1. value \in Nat /\ 10 \in 2 .. 36
    BY <1>2
  <2> QED
    BY <1>2, <2>1, emit_uintText DEF emit_int
<1> QED
  BY <1>1, <1>2

LEMMA ItoaTextIsText ==
  ASSUME NEW value \in Int, NEW base \in Int
  PROVE  Text(ItoaText(value, base))
<1>1. CASE base < 2 \/ base > 36
  <2>1. << >> \in Seq({})
    OBVIOUS
  <2> QED
    BY <1>1, <2>1 DEF ItoaText, Text
<1>2. CASE ~ (base < 2 \/ base > 36)
  <2>1. base \in 2 .. 36
    BY <1>2
  <2>2. /\ Text(emit_uint(Magnitude(value, INT_BITS), base))
        /\ Text(emit_uint(Unsigned(value, INT_BITS), base))
    BY <2>1, Widths, emit_uintText
  <2>3. Text(<<"-">> \o emit_uint(Magnitude(value, INT_BITS), base))
    BY <2>2, TextOne, TextConcat
  <2> QED
    BY <1>2, <2>2, <2>3, Zenon DEF ItoaText
<1> QED
  BY <1>1, <1>2

\* A function on the first numbers is a text.
LEMMA TextFunction ==
  ASSUME NEW l \in Nat, NEW f, f = [k \in 1 .. l |-> f[k]]
  PROVE  Text(f) /\ Len(f) = l
<1> DEFINE S == {f[k] : k \in 1 .. l}
<1>1. f \in [1 .. l -> S]
  <2>1. \A k \in 1 .. l : f[k] \in S
    OBVIOUS
  <2> HIDE DEF S
  <2> QED
    BY <2>1
<1> HIDE DEF S
<1>2. f \in Seq(S) /\ Len(f) = l
  BY <1>1
<1> QED
  BY <1>2 DEF Text

LEMMA TextTwo == ASSUME NEW c, NEW d PROVE Text(<<c, d>>)
<1>1. <<c, d>> \in Seq({c, d})
  OBVIOUS
<1> QED
  BY <1>1 DEF Text

LEMMA serial_put_hexText ==
  ASSUME NEW v PROVE Text(serial_put_hex(v))
<1> DEFINE f == [k \in 1 .. LONG_BITS \div 4 |-> Upper[((v \div 2 ^ (LONG_BITS - 4 * k)) % 16) + 1]]
<1>1. LONG_BITS \div 4 \in Nat
  BY NumbersAssumption
<1>2. f = [k \in 1 .. LONG_BITS \div 4 |-> f[k]]
  OBVIOUS
<1>3. serial_put_hex(v) = <<"0", "x">> \o f
  BY Zenon DEF serial_put_hex
<1> HIDE DEF f
<1>4. Text(f)
  BY <1>1, <1>2, TextFunction
<1> QED
  BY <1>3, <1>4, TextTwo, TextConcat

LEMMA serial_put_decText ==
  ASSUME NEW v \in Nat PROVE Text(serial_put_dec(v))
<1>1. Text(emit_uint(v, 10)) /\ Text(<<"0">>)
  BY emit_uintText, TextOne
<1> QED
  BY <1>1 DEF serial_put_dec

\* A conversion is one character or two.
LEMMA ConversionIs ==
  ASSUME NEW s, NEW p
  PROVE  \/ \E c : Conversion(s, p) = <<c>>
         \/ \E c, d : Conversion(s, p) = <<c, d>>
BY Zenon DEF Conversion

\* What a conversion leaves, if it has the argument it takes.
LEMMA EmittedText ==
  ASSUME NEW conv, Text(conv),
         NEW arg, Numeric(conv) => arg \in Int, conv = <<"s">> => Text(arg)
  PROVE  Text(Emitted(conv, arg))
<1>1. ASSUME Numeric(conv)
      PROVE  /\ Taken(conv, arg) \in Int
             /\ Sign(conv) = "unsigned" => Taken(conv, arg) \in Nat
             /\ Radix(conv) \in 2 .. 36
  <2>1. Width(conv) \in {INT_BITS, LONG_BITS}
    BY DEF Width
  <2>2. Unsigned(arg, Width(conv)) \in Nat /\ Signed(arg, Width(conv)) \in Int
    BY <1>1, <2>1, Widths
  <2>3. Sign(conv) # "signed" => Sign(conv) = "unsigned"
    BY DEF Sign
  <2>4. Radix(conv) \in 2 .. 36
    BY DEF Radix
  <2> QED
    BY <2>2, <2>3, <2>4 DEF Taken
<1>2. conv = <<"p">> => Numeric(conv) /\ Sign(conv) = "unsigned"
  BY DEF Numeric, Sign, Last
<1>3. ASSUME conv = <<"p">> PROVE Text(<<"0", "x">> \o emit_uint(Taken(conv, arg), 16))
  <2>1. Text(emit_uint(Taken(conv, arg), 16))
    BY <1>1, <1>2, <1>3, emit_uintText
  <2> QED
    BY <2>1, TextTwo, TextConcat
<1>4. Numeric(conv) => Text(emit_int(Taken(conv, arg), 10))
  BY <1>1, emit_intText
<1>5. Numeric(conv) /\ Sign(conv) = "unsigned" => Text(emit_uint(Taken(conv, arg), Radix(conv)))
  BY <1>1, emit_uintText
<1>6. Text(<<arg>>) /\ Text(<< >>)
  <2>1. << >> \in Seq({})
    OBVIOUS
  <2> QED
    BY <2>1, TextOne DEF Text
<1>7. \A c : Text(<<"(", "b", "a", "d", " ", "%", c, ")">>)
  <2>1. ASSUME NEW c PROVE Text(<<"(", "b", "a", "d", " ", "%", c, ")">>)
    <3>1. <<"(", "b", "a", "d", " ", "%", c, ")">> \in Seq({"(", "b", "a", "d", " ", "%", c, ")"})
      OBVIOUS
    <3> QED
      BY <3>1 DEF Text
  <2> QED
    BY <2>1
<1> QED
  BY <1>3, <1>4, <1>5, <1>6, <1>7, Zenon DEF Emitted

\* g[i] are the first i of the texts p, put together.
Joined(l, p, g) == g = [i \in 1 .. l |-> IF i = 1 THEN p[i] ELSE g[i - 1] \o p[i]]

LEMMA JoinedExists ==
  ASSUME NEW l \in Nat, NEW p
  PROVE  \E g : Joined(l, p, g)
<1> DEFINE e(g, i) == IF i = 1 THEN p[i] ELSE g[i - 1] \o p[i]
           T == {n \in 0 .. l : \E g : Joined(n, p, g)}
<1>1. 0 \in T
  <2> DEFINE g == [i \in 1 .. 0 |-> p[i]]
  <2>1. g = [i \in 1 .. 0 |-> e(g, i)]
    <3>1. g = [i \in 1 .. 0 |-> g[i]] /\ \A i \in 1 .. 0 : g[i] = e(g, i)
      OBVIOUS
    <3> HIDE DEF g, e
    <3> QED
      BY <3>1
  <2>2. \E f : Joined(0, p, f)
    BY <2>1, Zenon DEF Joined
  <2> QED
    BY <2>2
<1>2. ASSUME NEW n \in 1 .. l, n - 1 \in T PROVE n \in T
  <2>1. PICK g : Joined(n - 1, p, g)
    BY <1>2
  <2>2. g = [i \in 1 .. (n - 1) |-> e(g, i)]
    BY <2>1, Zenon DEF Joined
  <2> DEFINE h == [i \in 1 .. n |-> IF i = n THEN e(g, n) ELSE g[i]]
  <2>3. ASSUME NEW i \in 1 .. n PROVE h[i] = e(h, i)
    <3>1. h[i] = e(g, i)
      <4>1. i = n \/ i \in 1 .. (n - 1)
        OBVIOUS
      <4> QED
        BY <2>2, <4>1, Zenon
    <3>2. CASE i = 1
      BY <3>1, <3>2, Zenon
    <3>3. CASE i # 1
      <4>1. i - 1 \in 1 .. n /\ i - 1 # n
        BY <3>3
      <4>2. h[i - 1] = g[i - 1]
        BY <4>1, Zenon
      <4> QED
        BY <3>1, <4>2, Zenon
    <3> QED
      BY <3>2, <3>3
  <2>4. h = [i \in 1 .. n |-> e(h, i)]
    <3>1. h = [i \in 1 .. n |-> h[i]]
      OBVIOUS
    <3> HIDE DEF h, e
    <3> QED
      BY <2>3, <3>1
  <2>5. \E f : Joined(n, p, f)
    BY <2>4, Zenon DEF Joined
  <2> QED
    BY <2>5
<1>3. T \in SUBSET (0 .. l)
  OBVIOUS
<1>4. l \in T
  <2> HIDE DEF T
  <2>1. T = 0 .. l
    BY <1>1, <1>2, <1>3, Induction
  <2> QED
    BY <2>1
<1> QED
  BY <1>4

\* G[k] are the first k of the texts p, put together.
Grown(p, l, G) ==
  /\ G[0] = << >> /\ \A k \in 0 .. l : Text(G[k])
  /\ \A k \in 1 .. l : G[k] = G[k - 1] \o p[k]

\* Texts put together one by one.
LEMMA FlattenGrown ==
  ASSUME NEW p, Text(p), NEW l \in Nat, l = Len(p), \A i \in 1 .. l : Text(p[i])
  PROVE  \E G : Grown(p, l, G) /\ FlattenSeq(p) = G[l]
<1>0. Text(<< >>) /\ \A t : Text(t) => << >> \o t = t
  <2>1. << >> \in Seq({})
    OBVIOUS
  <2>2. ASSUME NEW t, Text(t) PROVE << >> \o t = t
    <3>1. PICK S : t \in Seq(S)
      BY <2>2 DEF Text
    <3> QED
      BY <3>1
  <2> QED
    BY <2>1, <2>2 DEF Text
<1>1. CASE l = 0
  <2>1. FlattenSeq(p) = p
    BY <1>1, Zenon DEF FlattenSeq
  <2>2. p = << >>
    BY <1>1, TextEmpty
  <2> DEFINE G == [k \in 0 .. 0 |-> << >>]
  <2>3. G[0] = << >> /\ \A k \in 0 .. 0 : G[k] = << >>
    OBVIOUS
  <2> HIDE DEF G
  <2>4. Grown(p, l, G) /\ FlattenSeq(p) = G[l]
    BY <1>0, <1>1, <2>1, <2>2, <2>3 DEF Grown
  <2> QED
    BY <2>4
<1>3. CASE l # 0
  <2> DEFINE g == CHOOSE x : x = [i \in 1 .. Len(p) |-> IF i = 1 THEN p[i] ELSE x[i - 1] \o p[i]]
  <2>1. \E x : x = [i \in 1 .. Len(p) |-> IF i = 1 THEN p[i] ELSE x[i - 1] \o p[i]]
    BY JoinedExists, Zenon DEF Joined
  <2>2. g = [i \in 1 .. Len(p) |-> IF i = 1 THEN p[i] ELSE g[i - 1] \o p[i]]
    BY <2>1, Zenon
  <2>3. FlattenSeq(p) = g[Len(p)]
    BY <1>3, Zenon DEF FlattenSeq
  <2> HIDE DEF g
  <2>4. \A i \in 1 .. l : g[i] = IF i = 1 THEN p[i] ELSE g[i - 1] \o p[i]
    BY <2>2, Zenon
  <2> DEFINE G == [k \in 0 .. l |-> IF k = 0 THEN << >> ELSE g[k]]
             T == {n \in 0 .. l : Text(G[n])}
  <2>a. G[0] = << >> /\ \A k \in 1 .. l : G[k] = g[k]
    OBVIOUS
  <2> HIDE DEF G
  <2>b. ASSUME NEW n \in 1 .. l, Text(G[n - 1]) PROVE G[n] = G[n - 1] \o p[n]
    <3>1. CASE n = 1
      <4>1. n - 1 = 0 /\ 1 \in 1 .. l
        BY <3>1
      <4>2. G[1] = p[1]
        BY <2>4, <2>a, <4>1
      <4>3. << >> \o p[1] = p[1]
        BY <1>0, <4>1
      <4> QED
        BY <2>a, <3>1, <4>1, <4>2, <4>3
    <3>2. CASE n # 1
      <4>1. n - 1 \in 1 .. l
        BY <3>2
      <4> QED
        BY <2>4, <2>a, <3>2, <4>1
    <3> QED
      BY <3>1, <3>2
  <2>5. ASSUME NEW n \in 1 .. l, n - 1 \in T PROVE n \in T
    <3>1. Text(p[n]) /\ n \in 0 .. l /\ Text(G[n - 1])
      BY <2>5
    <3>2. G[n] = G[n - 1] \o p[n]
      BY <2>b, <3>1
    <3>3. Text(G[n])
      BY <3>1, <3>2, TextConcat
    <3> QED
      BY <3>1, <3>3
  <2>6. 0 \in T /\ T \in SUBSET (0 .. l)
    BY <1>0, <2>a
  <2>7. T = 0 .. l
    <3> HIDE DEF T
    <3> QED
      BY <2>5, <2>6, Induction
  <2>8. \A n \in 0 .. l : Text(G[n])
    BY <2>7
  <2>9. \A n \in 1 .. l : G[n] = G[n - 1] \o p[n]
    <3>1. \A n \in 1 .. l : n - 1 \in 0 .. l
      OBVIOUS
    <3> QED
      BY <2>8, <2>b, <3>1
  <2>10. FlattenSeq(p) = G[l]
    BY <1>3, <2>3, <2>a
  <2>11. Grown(p, l, G)
    BY <2>8, <2>9, <2>a DEF Grown
  <2> QED
    BY <2>10, <2>11
<1> QED
  BY <1>1, <1>3

-----------------------------------------------------------------------------
(***************************************************************************)
(* Formats                                                                 *)
(***************************************************************************)

\* The turn of vsprintf's loop at p goes on here.
GoesOn(format, p) ==
  IF format[p] = "%" THEN Onward(format, p + Len(Conversion(format, p + 1))) ELSE p + 1

\* It is in the format still, or at its end.
LEMMA GoesOnInside ==
  ASSUME NEW format, Len(format) \in Nat, NEW p \in 1 .. Len(format)
  PROVE  GoesOn(format, p) \in (p + 1) .. (Len(format) + 1)
<1> DEFINE l == Len(format)
           c == Char(format, p + 1)
<1>1. CASE format[p] # "%"
  BY <1>1 DEF GoesOn
<1>2. CASE format[p] = "%" /\ c \in {"l", "L"}
  <2>1. p + 1 <= l
    <3>1. "l" # "wild" /\ "L" # "wild" /\ "l" # NUL /\ "L" # NUL
      BY Zenon DEF NUL
    <3> QED
      BY <1>2, <3>1 DEF Char
  <2>2. Conversion(format, p + 1) = <<c, Char(format, (p + 1) + 1)>>
    BY <1>2, Zenon DEF Conversion
  <2>3. Len(Conversion(format, p + 1)) = 2
    BY <2>2
  <2>4. GoesOn(format, p) = Onward(format, p + 2)
    BY <1>2, <2>3 DEF GoesOn
  <2>5. p + 2 = l + 1 => Char(format, p + 2) = NUL
    BY DEF Char
  <2> QED
    BY <2>1, <2>4, <2>5 DEF Onward
<1>3. CASE format[p] = "%" /\ c \notin {"l", "L"}
  <2>1. Conversion(format, p + 1) = <<c>>
    BY <1>3, Zenon DEF Conversion
  <2>2. Len(Conversion(format, p + 1)) = 1
    BY <2>1
  <2>3. GoesOn(format, p) = Onward(format, p + 1)
    BY <1>3, <2>2 DEF GoesOn
  <2>4. p + 1 = l + 1 => Char(format, p + 1) = NUL
    BY DEF Char
  <2> QED
    BY <2>3, <2>4 DEF Onward
<1> QED
  BY <1>1, <1>2, <1>3

\* What the turn at p deals with, and what the turns from p on make, g of the later ones.
Turn(format, p) ==
  IF format[p] = "%" THEN [kind |-> "conversion", chars |-> Conversion(format, p + 1)]
  ELSE [kind |-> "text", chars |-> <<format[p]>>]

TurnAt(format, g, p) ==
  IF p > Len(format) THEN [emit |-> << >>, stop |-> p]
  ELSE IF format[p] = "%"
  THEN [g[Onward(format, p + Len(Conversion(format, p + 1)))] EXCEPT
          !.emit = <<[kind |-> "conversion", chars |-> Conversion(format, p + 1)]>> \o @]
  ELSE [g[p + 1] EXCEPT !.emit = <<[kind |-> "text", chars |-> <<format[p]>>]>> \o @]

LEMMA TurnAtIs ==
  ASSUME NEW format, NEW g, NEW p
  PROVE  TurnAt(format, g, p) =
           IF p > Len(format) THEN [emit |-> << >>, stop |-> p]
           ELSE [g[GoesOn(format, p)] EXCEPT !.emit = <<Turn(format, p)>> \o @]
<1>1. CASE p > Len(format)
  BY <1>1, Zenon DEF TurnAt
<1>2. CASE ~ (p > Len(format)) /\ format[p] = "%"
  <2>1. /\ GoesOn(format, p) = Onward(format, p + Len(Conversion(format, p + 1)))
        /\ Turn(format, p) = [kind |-> "conversion", chars |-> Conversion(format, p + 1)]
    BY <1>2, Zenon DEF GoesOn, Turn
  <2> QED
    BY <1>2, <2>1, Zenon DEF TurnAt
<1>3. CASE ~ (p > Len(format)) /\ format[p] # "%"
  <2>1. /\ GoesOn(format, p) = p + 1
        /\ Turn(format, p) = [kind |-> "text", chars |-> <<format[p]>>]
    BY <1>3, Zenon DEF GoesOn, Turn
  <2> QED
    BY <1>3, <2>1, Zenon DEF TurnAt
<1> QED
  BY <1>1, <1>2, <1>3

TurnsFrom(format, k, g) == g = [p \in k .. (Len(format) + 3) |-> TurnAt(format, g, p)]

LEMMA TurnsExist ==
  ASSUME NEW format, Len(format) \in Nat
  PROVE  \E g : TurnsFrom(format, 1, g)
<1> DEFINE l == Len(format)
           T == {n \in 0 .. (l + 2) : \E g : TurnsFrom(format, l + 3 - n, g)}
<1>1. 0 \in T
  <2> DEFINE g == [p \in (l + 3 - 0) .. (l + 3) |-> [emit |-> << >>, stop |-> p]]
  <2>1. \A p \in (l + 3 - 0) .. (l + 3) : p > Len(format)
    OBVIOUS
  <2>2. \A p \in (l + 3 - 0) .. (l + 3) : g[p] = TurnAt(format, g, p)
    BY <2>1, Zenon DEF TurnAt
  <2>3. g = [p \in (l + 3 - 0) .. (l + 3) |-> g[p]]
    OBVIOUS
  <2> HIDE DEF g
  <2>4. TurnsFrom(format, l + 3 - 0, g)
    BY <2>2, <2>3 DEF TurnsFrom
  <2> QED
    BY <2>4
<1>2. ASSUME NEW n \in 1 .. (l + 2), n - 1 \in T PROVE n \in T
  <2> DEFINE k == l + 3 - n
  <2>1. k \in 1 .. (l + 2) /\ l + 3 - (n - 1) = k + 1
    OBVIOUS
  <2>2. PICK g : TurnsFrom(format, k + 1, g)
    BY <1>2, <2>1
  <2> HIDE DEF k
  <2>3. g = [p \in (k + 1) .. (l + 3) |-> TurnAt(format, g, p)]
    BY <2>2, Zenon DEF TurnsFrom
  <2> DEFINE h == [p \in k .. (l + 3) |-> IF p = k THEN TurnAt(format, g, k) ELSE g[p]]
  <2>4. ASSUME NEW p \in k .. (l + 3) PROVE h[p] = TurnAt(format, h, p)
    <3>1. h[p] = TurnAt(format, g, p)
      <4>1. p = k \/ p \in (k + 1) .. (l + 3)
        BY <2>1
      <4> QED
        BY <2>3, <4>1, Zenon
    <3>2. CASE p > l
      BY <3>1, <3>2, TurnAtIs, Zenon
    <3>3. CASE ~ (p > l)
      <4>1. p \in 1 .. l
        BY <2>1, <3>3
      <4>2. GoesOn(format, p) \in (p + 1) .. (l + 1)
        BY <4>1, GoesOnInside
      <4>3. GoesOn(format, p) \in k .. (l + 3) /\ GoesOn(format, p) # k
        BY <2>1, <4>2
      <4>4. h[GoesOn(format, p)] = g[GoesOn(format, p)]
        BY <4>3, Zenon
      <4> HIDE DEF h
      <4>5. TurnAt(format, h, p) = TurnAt(format, g, p)
        BY <3>3, <4>4, TurnAtIs, Zenon
      <4> QED
        BY <3>1, <4>5
    <3> QED
      BY <3>2, <3>3
  <2>5. h = [p \in k .. (l + 3) |-> h[p]]
    OBVIOUS
  <2> HIDE DEF h
  <2>6. TurnsFrom(format, k, h)
    BY <2>4, <2>5 DEF TurnsFrom
  <2> QED
    BY <2>6 DEF k
<1>3. T \in SUBSET (0 .. (l + 2))
  OBVIOUS
<1>4. l + 2 \in T
  <2> HIDE DEF T
  <2>1. T = 0 .. (l + 2)
    BY <1>1, <1>2, <1>3, Induction
  <2> QED
    BY <2>1
<1>5. l + 3 - (l + 2) = 1
  OBVIOUS
<1> QED
  BY <1>4, <1>5

LEMMA TurnsAre ==
  ASSUME NEW format, Len(format) \in Nat
  PROVE  \E g : /\ Turns(format) = g[1]
                /\ \A p \in 1 .. (Len(format) + 3) : g[p] = TurnAt(format, g, p)
<1> DEFINE g == CHOOSE x : x = [p \in 1 .. Len(format) + 3 |-> TurnAt(format, x, p)]
<1>1. \E x : x = [p \in 1 .. Len(format) + 3 |-> TurnAt(format, x, p)]
  BY TurnsExist, Zenon DEF TurnsFrom
<1>2. g = [p \in 1 .. Len(format) + 3 |-> TurnAt(format, g, p)]
  BY <1>1, Zenon
<1>3. Turns(format) = g[1]
  BY Zenon DEF Turns, TurnAt
<1> HIDE DEF g
<1>4. \A p \in 1 .. (Len(format) + 3) : g[p] = TurnAt(format, g, p)
  BY <1>2, Zenon
<1> QED
  BY <1>3, <1>4

TurnSet(C) == [kind : {"conversion", "text"}, chars : Seq(C)]

LEMMA TurnType ==
  ASSUME NEW format, Len(format) \in Nat, NEW p \in 1 .. Len(format),
         NEW C, \A k \in 1 .. (Len(format) + 2) : Char(format, k) \in C
  PROVE  Turn(format, p) \in TurnSet(C)
<1>1. Char(format, p) = format[p]
  BY DEF Char
<1>2. Char(format, p) \in C /\ Char(format, p + 1) \in C /\ Char(format, (p + 1) + 1) \in C
  BY SMT
<1>3. Conversion(format, p + 1) \in Seq(C)
  <2>1. /\ <<Char(format, p + 1), Char(format, (p + 1) + 1)>> \in Seq(C)
        /\ <<Char(format, p + 1)>> \in Seq(C)
    BY <1>2
  <2> QED
    BY <2>1, Zenon DEF Conversion
<1>4. <<format[p]>> \in Seq(C)
  BY <1>1, <1>2
<1> QED
  BY <1>3, <1>4 DEF Turn, TurnSet

\* The turns end at the end of the format.
LEMMA TurnsType ==
  ASSUME NEW format, Len(format) \in Nat,
         NEW C, \A k \in 1 .. (Len(format) + 2) : Char(format, k) \in C
  PROVE  Turns(format).emit \in Seq(TurnSet(C)) /\ Turns(format).stop = Len(format) + 1
<1> DEFINE l == Len(format)
           R == [emit : Seq(TurnSet(C)), stop : {l + 1}]
<1>1. PICK g : /\ Turns(format) = g[1]
               /\ \A p \in 1 .. (l + 3) : g[p] = TurnAt(format, g, p)
  BY TurnsAre
<1> DEFINE T == {n \in 0 .. l : \A p \in (l + 1 - n) .. (l + 1) : g[p] \in R}
<1>2. 0 \in T
  <2>1. l + 1 \in 1 .. (l + 3) /\ l + 1 > Len(format)
    OBVIOUS
  <2>2. g[l + 1] = [emit |-> << >>, stop |-> l + 1]
    BY <1>1, <2>1, TurnAtIs, Zenon
  <2>3. g[l + 1] \in R
    BY <2>2
  <2> HIDE DEF R
  <2>4. \A p \in (l + 1 - 0) .. (l + 1) : p = l + 1
    OBVIOUS
  <2> QED
    BY <2>3, <2>4
<1>3. ASSUME NEW n \in 1 .. l, n - 1 \in T PROVE n \in T
  <2> DEFINE p == l + 1 - n
  <2>1. p \in 1 .. l /\ p \in 1 .. (l + 3) /\ ~ (p > l) /\ l + 1 - (n - 1) = p + 1
    OBVIOUS
  <2> HIDE DEF p
  <2>2. \A q \in (p + 1) .. (l + 1) : g[q] \in R
    BY <1>3, <2>1
  <2>3. g[GoesOn(format, p)] \in R
    BY <2>1, <2>2, GoesOnInside
  <2>4. g[p] = [g[GoesOn(format, p)] EXCEPT !.emit = <<Turn(format, p)>> \o @]
    BY <1>1, <2>1, TurnAtIs, Zenon
  <2>5. Turn(format, p) \in TurnSet(C)
    BY <2>1, TurnType
  <2>6. g[p] \in R
    <3>1. PICK r \in R : r = g[GoesOn(format, p)]
      BY <2>3
    <3>2. <<Turn(format, p)>> \o r.emit \in Seq(TurnSet(C))
      BY <2>5, <3>1
    <3> DEFINE e == <<Turn(format, p)>> \o r.emit
    <3> HIDE DEF e
    <3>3. [r EXCEPT !.emit = e] \in R
      BY <3>1, <3>2 DEF e
    <3> QED
      BY <2>4, <3>1, <3>3 DEF e
  <2>7. \A q \in p .. (l + 1) : q = p \/ q \in (p + 1) .. (l + 1)
    BY <2>1
  <2>8. \A q \in p .. (l + 1) : g[q] \in R
    BY <2>2, <2>6, <2>7, Zenon
  <2> QED
    BY <2>8 DEF p
<1>4. T \in SUBSET (0 .. l)
  OBVIOUS
<1>5. l \in T
  <2> HIDE DEF T
  <2>1. T = 0 .. l
    BY <1>2, <1>3, <1>4, Induction
  <2> QED
    BY <2>1
<1>6. g[1] \in R
  <2>1. 1 \in (l + 1 - l) .. (l + 1)
    OBVIOUS
  <2> QED
    BY <1>5, <2>1, Zenon
<1> QED
  BY <1>1, <1>6

\* A list of arguments has one for each turn.
ListsOf(l, emit, g) ==
  g = [k \in 0 .. l |-> IF k = 0 THEN {<< >>}
                        ELSE Longer(g[k - 1], Passed(emit[k]))]

LEMMA ListsExist ==
  ASSUME NEW l \in Nat, NEW emit
  PROVE  \E g : ListsOf(l, emit, g)
<1> DEFINE e(g, k) == IF k = 0 THEN {<< >>}
                      ELSE Longer(g[k - 1], Passed(emit[k]))
           T == {n \in 0 .. l : \E g : ListsOf(n, emit, g)}
<1>1. 0 \in T
  <2> DEFINE g == [k \in 0 .. 0 |-> {<< >>}]
  <2>1. \A k \in 0 .. 0 : k = 0
    OBVIOUS
  <2>2. g = [k \in 0 .. 0 |-> e(g, k)]
    <3>1. g = [k \in 0 .. 0 |-> g[k]]
      OBVIOUS
    <3>2. \A k \in 0 .. 0 : g[k] = e(g, k)
      BY <2>1, Zenon
    <3> HIDE DEF g, e
    <3> QED
      BY <3>1, <3>2
  <2>3. \E f : ListsOf(0, emit, f)
    BY <2>2, Zenon DEF ListsOf
  <2> QED
    BY <2>3
<1>2. ASSUME NEW n \in 1 .. l, n - 1 \in T PROVE n \in T
  <2>1. PICK g : ListsOf(n - 1, emit, g)
    BY <1>2
  <2>2. g = [k \in 0 .. (n - 1) |-> e(g, k)]
    BY <2>1, Zenon DEF ListsOf
  <2> DEFINE h == [k \in 0 .. n |-> IF k = n THEN e(g, n) ELSE g[k]]
  <2>3. ASSUME NEW k \in 0 .. n PROVE h[k] = e(h, k)
    <3>1. h[k] = e(g, k)
      <4>1. k = n \/ k \in 0 .. (n - 1)
        OBVIOUS
      <4> QED
        BY <2>2, <4>1, Zenon
    <3>2. CASE k = 0
      BY <3>1, <3>2, Zenon
    <3>3. CASE k # 0
      <4>1. k - 1 \in 0 .. n /\ k - 1 # n
        BY <3>3
      <4>2. h[k - 1] = g[k - 1]
        BY <4>1, Zenon
      <4> QED
        BY <3>1, <4>2, Zenon
    <3> QED
      BY <3>2, <3>3
  <2>4. h = [k \in 0 .. n |-> e(h, k)]
    <3>1. h = [k \in 0 .. n |-> h[k]]
      OBVIOUS
    <3> HIDE DEF h, e
    <3> QED
      BY <2>3, <3>1
  <2>5. \E f : ListsOf(n, emit, f)
    BY <2>4, Zenon DEF ListsOf
  <2> QED
    BY <2>5
<1>3. T \in SUBSET (0 .. l)
  OBVIOUS
<1>4. l \in T
  <2> HIDE DEF T
  <2>1. T = 0 .. l
    BY <1>1, <1>2, <1>3, Induction
  <2> QED
    BY <2>1
<1> QED
  BY <1>4

LEMMA ArgumentsPassed ==
  ASSUME NEW emit, Len(emit) \in Nat, NEW args \in ArgumentLists(emit)
  PROVE  \A k \in 1 .. Len(emit) : args[k] \in Passed(emit[k])
<1> DEFINE l == Len(emit)
           g == CHOOSE x : x = [k \in 0 .. Len(emit) |->
                  IF k = 0 THEN {<< >>}
                  ELSE Longer(x[k - 1], Passed(emit[k]))]
           Fit(n, as) == /\ Text(as) /\ Len(as) = n
                         /\ \A k \in 1 .. n : as[k] \in Passed(emit[k])
<1>1. g = [k \in 0 .. Len(emit) |->
             IF k = 0 THEN {<< >>}
             ELSE Longer(g[k - 1], Passed(emit[k]))]
  BY ListsExist, Zenon DEF ListsOf
<1>2. ArgumentLists(emit) = g[Len(emit)]
  BY Zenon DEF ArgumentLists
<1> HIDE DEF g
<1>3. \A k \in 0 .. l : g[k] = IF k = 0 THEN {<< >>}
                               ELSE Longer(g[k - 1], Passed(emit[k]))
  BY <1>1, Zenon
<1> DEFINE T == {n \in 0 .. l : \A as \in g[n] : Fit(n, as)}
<1>4. 0 \in T
  <2>1. g[0] = {<< >>}
    BY <1>3
  <2>2. Text(<< >>) /\ Len(<< >>) = 0
    <3>1. << >> \in Seq({})
      OBVIOUS
    <3> QED
      BY <3>1 DEF Text
  <2>3. Fit(0, << >>)
    BY <2>2
  <2> QED
    BY <2>1, <2>3
<1>5. ASSUME NEW n \in 1 .. l, n - 1 \in T PROVE n \in T
  <2>1. n \in 0 .. l /\ n # 0
    OBVIOUS
  <2>2. g[n] = Longer(g[n - 1], Passed(emit[n]))
    BY <1>3, <2>1, Zenon
  <2>3. \A as \in g[n - 1] : Fit(n - 1, as)
    BY <1>5
  <2>4. ASSUME NEW bs \in g[n] PROVE Fit(n, bs)
    <3>1. PICK as \in g[n - 1], a \in Passed(emit[n]) : bs = Append(as, a)
      BY <2>2 DEF Longer
    <3>2. Fit(n - 1, as)
      BY <2>3
    <3>3. /\ Text(bs) /\ Len(bs) = Len(as) + 1
          /\ bs[Len(as) + 1] = a
          /\ \A k \in 1 .. Len(as) : bs[k] = as[k]
      BY <3>1, <3>2, TextAppend
    <3>4. Len(as) = n - 1 /\ (n - 1) + 1 = n
      BY <3>2
    <3>5. /\ Len(bs) = n /\ bs[n] = a
          /\ \A k \in 1 .. (n - 1) : bs[k] = as[k]
      BY <3>3, <3>4, Zenon
    <3>6. \A k \in 1 .. (n - 1) : bs[k] \in Passed(emit[k])
      BY <3>2, <3>5
    <3>7. \A k \in 1 .. n : k = n \/ k \in 1 .. (n - 1)
      OBVIOUS
    <3>8. \A k \in 1 .. n : bs[k] \in Passed(emit[k])
      BY <3>1, <3>5, <3>6, <3>7, Zenon
    <3> QED
      BY <3>3, <3>5, <3>8
  <2> QED
    BY <2>1, <2>4
<1>6. T \in SUBSET (0 .. l)
  OBVIOUS
<1>7. l \in T
  <2> HIDE DEF T
  <2>1. T = 0 .. l
    BY <1>4, <1>5, <1>6, Induction
  <2> QED
    BY <2>1
<1> QED
  BY <1>2, <1>7

\* What a turn leaves of its argument.
LeftBy(turn, arg) == IF turn.kind = "text" THEN turn.chars ELSE Emitted(turn.chars, arg)

\* It is a text, and the argument of a number is one.
LEMMA PieceText ==
  ASSUME NEW turn, turn.kind \in {"conversion", "text"}, Text(turn.chars), NEW arg \in Passed(turn)
  PROVE  /\ Text(LeftBy(turn, arg))
         /\ PrintsNumber(turn) => turn.kind = "conversion" /\ Numeric(turn.chars) /\ arg \in Int
<1> DEFINE conv == turn.chars
<1>1. CASE turn.kind = "text"
  BY <1>1 DEF LeftBy, PrintsNumber, TakesArgument
<1>2. CASE turn.kind = "conversion"
  <2>1. turn.kind # "text"
    BY <1>2
  <2>2. Numeric(conv) => arg \in Int
    <3>1. Numeric(conv) => TakesArgument(turn)
      BY <1>2, Zenon DEF TakesArgument
    <3>2. Numeric(conv) => arg \in Values
      BY <3>1, Zenon DEF Passed
    <3> QED
      BY <3>2, NumbersAssumption
  <2>3. conv = <<"s">> => Text(arg)
    <3>1. ASSUME conv = <<"s">> PROVE arg \in {<< >>, <<"a", "%">>}
      <4>1. TakesArgument(turn)
        BY <1>2, <3>1, Zenon DEF TakesArgument
      <4>2. ~ Numeric(conv) /\ conv # <<"c">>
        BY <3>1 DEF Numeric, Last
      <4> QED
        BY <4>1, <4>2, Zenon DEF Passed
    <3>2. Text(<< >>)
      <4>1. << >> \in Seq({})
        OBVIOUS
      <4> QED
        BY <4>1 DEF Text
    <3>3. conv = <<"s">> => arg = << >> \/ arg = <<"a", "%">>
      BY <3>1, Zenon
    <3> QED
      BY <3>2, <3>3, TextTwo
  <2>4. Text(Emitted(conv, arg))
    BY <2>2, <2>3, EmittedText
  <2> QED
    BY <1>2, <2>1, <2>2, <2>4, Zenon DEF LeftBy, PrintsNumber
<1> QED
  BY <1>1, <1>2

LEMMA vsprintfText ==
  ASSUME NEW format \in Formats, NEW args \in ArgumentLists(Turns(format).emit)
  PROVE  Text(vsprintf(format, args)) /\ Turns(format).stop = Len(format) + 1
<1> DEFINE C == {Char(format, k) : k \in 1 .. (Len(format) + 2)}
           emit == Turns(format).emit
           f == [k \in DOMAIN emit |-> IF emit[k].kind = "text" THEN emit[k].chars
                                       ELSE Emitted(emit[k].chars, args[k])]
<1>1. Len(format) \in Nat
  BY NumbersAssumption
<1>2. \A k \in 1 .. (Len(format) + 2) : Char(format, k) \in C
  OBVIOUS
<1> HIDE DEF C
<1>3. emit \in Seq(TurnSet(C)) /\ Turns(format).stop = Len(format) + 1
  BY <1>1, <1>2, TurnsType
<1>4. vsprintf(format, args) = FlattenSeq(f)
  BY Zenon DEF vsprintf
<1> HIDE DEF emit
<1>5. PICK l \in Nat : l = Len(emit) /\ DOMAIN emit = 1 .. l
  BY <1>3
<1>6. \A k \in 1 .. l : args[k] \in Passed(emit[k])
  BY <1>5, ArgumentsPassed DEF emit
<1>7. ASSUME NEW k \in 1 .. l PROVE Text(f[k])
  <2>1. emit[k] \in TurnSet(C)
    BY <1>3, <1>5
  <2>2. Text(emit[k].chars) /\ emit[k].kind \in {"conversion", "text"}
    BY <2>1 DEF TurnSet, Text
  <2>3. f[k] = LeftBy(emit[k], args[k])
    BY <1>5, Zenon DEF LeftBy
  <2> QED
    BY <1>6, <2>2, <2>3, PieceText
<1>8. f = [k \in 1 .. l |-> f[k]]
  BY <1>5
<1> HIDE DEF f
<1>9. Text(f) /\ Len(f) = l
  BY <1>8, TextFunction
<1>10. Text(FlattenSeq(f))
  <2>1. PICK G : Grown(f, l, G) /\ FlattenSeq(f) = G[l]
    BY <1>7, <1>9, FlattenGrown
  <2> QED
    BY <2>1 DEF Grown
<1> QED
  BY <1>3, <1>4, <1>10

-----------------------------------------------------------------------------
(***************************************************************************)
(* What digits stand for                                                   *)
(***************************************************************************)

\* The characters that stand for the digit d.
FigureOf(d) == {Lower[d + 1], Upper[d + 1]}

\* Each character stands for one digit at most.
LEMMA FigureIs ==
  ASSUME NEW d \in 0 .. 35, NEW c \in FigureOf(d)
  PROVE  /\ (c = "0" <=> d = 0) /\ (c = "1" <=> d = 1) /\ (c = "2" <=> d = 2)
         /\ (c = "3" <=> d = 3) /\ (c = "4" <=> d = 4) /\ (c = "5" <=> d = 5)
         /\ (c = "6" <=> d = 6) /\ (c = "7" <=> d = 7) /\ (c = "8" <=> d = 8)
         /\ (c = "9" <=> d = 9)
         /\ (c \in {"a", "A"} <=> d = 10) /\ (c \in {"b", "B"} <=> d = 11)
         /\ (c \in {"c", "C"} <=> d = 12) /\ (c \in {"d", "D"} <=> d = 13)
         /\ (c \in {"e", "E"} <=> d = 14) /\ (c \in {"f", "F"} <=> d = 15)
         /\ (c \in {"g", "G"} <=> d = 16) /\ (c \in {"h", "H"} <=> d = 17)
         /\ (c \in {"i", "I"} <=> d = 18) /\ (c \in {"j", "J"} <=> d = 19)
         /\ (c \in {"k", "K"} <=> d = 20) /\ (c \in {"l", "L"} <=> d = 21)
         /\ (c \in {"m", "M"} <=> d = 22) /\ (c \in {"n", "N"} <=> d = 23)
         /\ (c \in {"o", "O"} <=> d = 24) /\ (c \in {"p", "P"} <=> d = 25)
         /\ (c \in {"q", "Q"} <=> d = 26) /\ (c \in {"r", "R"} <=> d = 27)
         /\ (c \in {"s", "S"} <=> d = 28) /\ (c \in {"t", "T"} <=> d = 29)
         /\ (c \in {"u", "U"} <=> d = 30) /\ (c \in {"v", "V"} <=> d = 31)
         /\ (c \in {"w", "W"} <=> d = 32) /\ (c \in {"x", "X"} <=> d = 33)
         /\ (c \in {"y", "Y"} <=> d = 34) /\ (c \in {"z", "Z"} <=> d = 35)
<1> USE DEF FigureOf, Lower, Upper
<1>1. CASE d \in 0 .. 5
  BY <1>1
<1>2. CASE d \in 6 .. 11
  BY <1>2
<1>3. CASE d \in 12 .. 17
  BY <1>3
<1>4. CASE d \in 18 .. 23
  BY <1>4
<1>5. CASE d \in 24 .. 29
  BY <1>5
<1>6. CASE d \in 30 .. 35
  BY <1>6
<1> QED
  BY <1>1, <1>2, <1>3, <1>4, <1>5, <1>6

\* So no character stands for two.
LEMMA FiguresApart ==
  ASSUME NEW d \in 0 .. 35, NEW e \in 0 .. 35, NEW c, c \in FigureOf(d), c \in FigureOf(e)
  PROVE  d = e
BY FigureIs, SMTT(60)

\* The value the reading functions take a character for.
LEMMA DigitValueIs ==
  ASSUME NEW d \in 0 .. 35, NEW c \in FigureOf(d)
  PROVE  DigitValue(c) = d
<1>1. \A e \in 0 .. 35 : c \in {Lower[e + 1], Upper[e + 1]} => e = d
  BY FiguresApart DEF FigureOf
<1>2. c \in {Lower[d + 1], Upper[d + 1]}
  BY DEF FigureOf
<1> QED
  BY <1>1, <1>2 DEF DigitValue

\* A digit below the base is one of its digits.
LEMMA FigureInDigits ==
  ASSUME NEW base \in 2 .. 36, NEW d \in 0 .. (base - 1)
  PROVE  FigureOf(d) \subseteq DigitsOf(base)
<1>1. d + 1 \in 1 .. base
  OBVIOUS
<1> QED
  BY <1>1 DEF FigureOf, DigitsOf

\* h[k] is the number that the first k characters of s from i on stand for.
Counts(s, i, l, base, h) ==
  /\ h \in [0 .. l -> Nat] /\ h[0] = 0
  /\ \A k \in 1 .. l : \E d \in 0 .. (base - 1) :
       s[i + k - 1] \in FigureOf(d) /\ h[k] = (h[k - 1] * base) + d

\* A number does not get smaller by one more digit.
LEMMA OneMore ==
  ASSUME NEW v \in Nat, NEW base \in 2 .. 36, NEW d \in Nat
  PROVE  (v * base) + d \in Nat /\ v <= (v * base) + d
OBVIOUS

\* What the first digits count is no more than all of them do.
LEMMA CountsRise ==
  ASSUME NEW s, NEW i \in Nat, NEW l \in Nat, NEW base \in 2 .. 36, NEW h, Counts(s, i, l, base, h),
         NEW k \in 0 .. l
  PROVE  h[k] <= h[l]
<1> DEFINE T == {n \in 0 .. l : h[l - n] <= h[l]}
<1>1. \A n \in 0 .. l : h[n] \in Nat
  BY DEF Counts
<1>2. 0 \in T
  <2>1. l - 0 = l /\ l \in 0 .. l
    OBVIOUS
  <2>2. h[l - 0] <= h[l]
    BY <1>1, <2>1
  <2> QED
    BY <2>2
<1>3. ASSUME NEW n \in 1 .. l, n - 1 \in T PROVE n \in T
  <2>1. h[l - (n - 1)] <= h[l]
    BY <1>3
  <2>2. l - (n - 1) \in 1 .. l /\ (l - (n - 1)) - 1 = l - n /\ l - n \in 0 .. l /\ l \in 0 .. l
    OBVIOUS
  <2>3. PICK d \in 0 .. (base - 1) : h[l - (n - 1)] = (h[(l - (n - 1)) - 1] * base) + d
    BY <2>2 DEF Counts
  <2>4. h[l - (n - 1)] = (h[l - n] * base) + d /\ h[l - n] \in Nat /\ d \in Nat /\ h[l] \in Nat
    BY <1>1, <2>2, <2>3
  <2>5. h[l - n] <= h[l - (n - 1)]
    BY <2>4, OneMore
  <2>6. h[l - (n - 1)] \in Nat
    BY <1>1, <2>2
  <2>7. h[l - n] <= h[l]
    BY <2>1, <2>4, <2>5, <2>6
  <2> QED
    BY <2>7
<1>4. T \in SUBSET (0 .. l)
  OBVIOUS
<1>5. l - k \in T
  <2> HIDE DEF T
  <2>1. T = 0 .. l
    BY <1>2, <1>3, <1>4, Induction
  <2> QED
    BY <2>1
<1>6. l - (l - k) = k
  OBVIOUS
<1> QED
  BY <1>5, <1>6

\* A number below the width is not wrapped around.
LEMMA Narrow ==
  ASSUME NEW bits \in {INT_BITS, LONG_BITS}, NEW v \in Nat, v < 2 ^ bits
  PROVE  Unsigned(v, bits) = v
<1>1. bits \in 0 .. LONG_BITS
  BY NumbersAssumption
<1>2. PICK p \in Nat \ {0} : p = 2 ^ bits
  BY <1>1, Power
<1>3. v % p = v
  BY <1>2
<1> QED
  BY <1>2, <1>3 DEF Unsigned

\* Digits of a number that the width has room for sum up to it.
LEMMA SumIs ==
  ASSUME NEW s, NEW i \in Nat, NEW j \in Nat, i <= j, NEW base \in 2 .. 36, NEW h,
         Counts(s, i, j - i, base, h),
         NEW bits \in {INT_BITS, LONG_BITS}, h[j - i] < 2 ^ bits
  PROVE  Sum(s, i, j, base, bits) = h[j - i]
<1> DEFINE l == j - i
           e(g, k) == IF k = 0 THEN 0
                      ELSE Unsigned(g[k - 1] * base + DigitValue(s[i + k - 1]), bits)
           g == CHOOSE x : x = [k \in 0 .. (j - i) |-> e(x, k)]
<1>1. l \in Nat
  OBVIOUS
<1>2. 2 ^ bits \in Nat
  BY Power, NumbersAssumption
<1>3. ASSUME NEW k \in 0 .. l PROVE h[k] = e(h, k)
  <2>1. CASE k = 0
    BY <2>1 DEF Counts
  <2>2. CASE k # 0
    <3>1. k \in 1 .. l /\ k - 1 \in 0 .. l /\ l \in 0 .. l
      BY <2>2
    <3>2. PICK d \in 0 .. (base - 1) : s[i + k - 1] \in FigureOf(d) /\ h[k] = (h[k - 1] * base) + d
      BY <3>1 DEF Counts
    <3>3. d \in 0 .. 35
      OBVIOUS
    <3>4. DigitValue(s[i + k - 1]) = d
      BY <3>2, <3>3, DigitValueIs
    <3>5. h[k] \in Nat /\ h[l] \in Nat
      BY <3>1 DEF Counts
    <3>6. h[k] <= h[l]
      BY <1>1, CountsRise
    <3>7. h[k] < 2 ^ bits
      BY <1>2, <3>5, <3>6
    <3>8. Unsigned(h[k], bits) = h[k]
      BY <3>5, <3>7, Narrow
    <3> QED
      BY <2>2, <3>2, <3>4, <3>8
  <2> QED
    BY <2>1, <2>2
<1>4. h = [k \in 0 .. l |-> h[k]]
  BY DEF Counts
<1> HIDE DEF e
<1>5. h = [k \in 0 .. (j - i) |-> e(h, k)]
  BY <1>3, <1>4
<1>6. g = [k \in 0 .. (j - i) |-> e(g, k)]
  BY <1>5, Zenon
<1>7. Sum(s, i, j, base, bits) = g[j - i]
  BY Zenon DEF Sum, e
<1> HIDE DEF g
<1> DEFINE T == {k \in 0 .. l : g[k] = h[k]}
<1>8. \A k \in 0 .. l : g[k] = e(g, k)
  BY <1>6, Zenon
<1>9. 0 \in T
  <2>1. 0 \in 0 .. l
    BY <1>1
  <2>2. g[0] = 0 /\ h[0] = 0
    BY <1>3, <1>8, <2>1, Zenon DEF e
  <2> QED
    BY <2>1, <2>2
<1>10. ASSUME NEW k \in 1 .. l, k - 1 \in T PROVE k \in T
  <2>1. k \in 0 .. l /\ k # 0 /\ g[k - 1] = h[k - 1]
    BY <1>10
  <2>2. g[k] = e(g, k) /\ h[k] = e(h, k)
    BY <1>3, <1>8, <2>1
  <2>3. e(g, k) = e(h, k)
    BY <2>1, Zenon DEF e
  <2> QED
    BY <2>1, <2>2, <2>3
<1>11. T \in SUBSET (0 .. l)
  OBVIOUS
<1>12. l \in T
  <2> HIDE DEF T, l
  <2>1. T = 0 .. l
    BY <1>1, <1>9, <1>10, <1>11, Induction
  <2> QED
    BY <1>1, <2>1
<1> QED
  BY <1>7, <1>12

-----------------------------------------------------------------------------
(***************************************************************************)
(* A number in a text is read back                                         *)
(***************************************************************************)

Size(v) == IF v < 0 THEN 0 - v ELSE v

\* What may be between i and the first digit, at c, of the number v.
InFront(s, i, c, v, r) ==
  \/ v < 0 /\ c = i + 1 /\ s[i] = "-"
  \/ ~ (v < 0) /\ c = i
  \/ ~ (v < 0) /\ r = 16 /\ c = i + 2 /\ s[i] = "0" /\ s[i + 1] = "x"

\* The characters of s from i to before j are the number v; in base 10 it
\* has no 0 in front.
Numeral(s, i, j, v, r) ==
  \E c \in i .. (j - 1) : \E h :
    /\ InFront(s, i, c, v, r)
    /\ Counts(s, c, j - c, r, h) /\ h[j - c] = Size(v)
    /\ r = 10 /\ h[1] = 0 => j - c = 1

\* From a on, s has blanks up to i, the number v up to j, and then no digit.
Readable(s, a, i, j, v, r) ==
  /\ Len(s) \in Nat /\ a \in 1 .. (Len(s) + 1) /\ i \in a .. Len(s) /\ j \in (i + 1) .. (Len(s) + 1)
  /\ \A k \in a .. (i - 1) : s[k] \in Blank
  /\ Numeral(s, i, j, v, r)
  /\ Char(s, j) \notin DigitCharacters
  /\ v \in Int /\ r \in 2 .. 36

\* A position is the first beyond the characters of C if it is one.
LEMMA PastIs ==
  ASSUME NEW s, Len(s) \in Nat, NEW i \in 1 .. (Len(s) + 1), NEW j \in i .. (Len(s) + 1),
         NEW C, NUL \notin C, \A k \in i .. (j - 1) : s[k] \in C, Char(s, j) \notin C
  PROVE  Past(s, i, C) = j
<1> DEFINE p == Past(s, i, C)
<1>1. /\ p \in i .. (Len(s) + 1) /\ Char(s, p) \notin C
      /\ \A k \in i .. (p - 1) : s[k] \in C
  BY PastStops
<1> HIDE DEF p
<1>2. ASSUME p < j PROVE FALSE
  <2>1. p \in i .. (j - 1) /\ p <= Len(s)
    BY <1>1, <1>2
  <2> QED
    BY <1>1, <2>1 DEF Char
<1>3. ASSUME j < p PROVE FALSE
  <2>1. j \in i .. (p - 1) /\ j <= Len(s)
    BY <1>1, <1>3
  <2> QED
    BY <1>1, <2>1 DEF Char
<1> QED
  BY <1>1, <1>2, <1>3 DEF p

\* Characters that count are digits of the base.
LEMMA CountsFigures ==
  ASSUME NEW s, NEW c \in Nat, NEW j \in Nat, c <= j, NEW base \in 2 .. 36, NEW h,
         Counts(s, c, j - c, base, h)
  PROVE  Figures(s, c, j, base)
<1>1. ASSUME NEW k \in c .. (j - 1) PROVE s[k] \in DigitsOf(base)
  <2>1. (k - c) + 1 \in 1 .. (j - c) /\ c + ((k - c) + 1) - 1 = k
    OBVIOUS
  <2>2. PICK d \in 0 .. (base - 1) : s[c + ((k - c) + 1) - 1] \in FigureOf(d)
    BY <2>1 DEF Counts
  <2> QED
    BY <2>1, <2>2, FigureInDigits
<1> QED
  BY <1>1 DEF Figures

\* A number that starts with the character 0 starts with the digit 0.
LEMMA ZeroFirst ==
  ASSUME NEW s, NEW c \in Nat, NEW l \in Nat \ {0}, NEW base \in 2 .. 36, NEW h,
         Counts(s, c, l, base, h), s[c] = "0"
  PROVE  h[1] = 0
<1>1. 1 \in 1 .. l /\ c + 1 - 1 = c /\ 1 - 1 = 0
  OBVIOUS
<1>2. PICK d \in 0 .. (base - 1) : s[c + 1 - 1] \in FigureOf(d) /\ h[1] = (h[1 - 1] * base) + d
  BY <1>1 DEF Counts
<1>3. d = 0
  <2>1. d \in 0 .. 35 /\ s[c] \in FigureOf(d)
    BY <1>1, <1>2
  <2> QED
    BY <2>1, FigureIs
<1>4. h[0] = 0
  BY DEF Counts
<1> QED
  BY <1>1, <1>2, <1>3, <1>4

\* Blanks and a sign are skipped.
LEMMA NumeralStart ==
  ASSUME NEW s, NEW a, NEW i, NEW j, NEW v, NEW r, Readable(s, a, i, j, v, r),
         NEW c \in i .. (j - 1), NEW h, InFront(s, i, c, v, r), Counts(s, c, j - c, r, h)
  PROVE  Start(s, a) = [from |-> IF v < 0 THEN c ELSE i, minus |-> v < 0]
<1> USE DEF Readable
<1>1. s[c] \in DigitCharacters
  <2>1. c \in Nat /\ j \in Nat /\ c <= j /\ r \in 2 .. 36 /\ c \in c .. (j - 1)
    BY SMT
  <2>2. Figures(s, c, j, r)
    BY <2>1, CountsFigures
  <2>3. s[c] \in DigitsOf(r)
    BY <2>1, <2>2 DEF Figures
  <2> QED
    BY <2>1, <2>3, DigitsApart
<1>2. "0" \in DigitCharacters
  BY DEF DigitCharacters
<1>3. IF v < 0 THEN c = i + 1 /\ s[i] = "-" ELSE s[i] \in DigitCharacters
  BY <1>1, <1>2 DEF InFront
<1>4. s[i] \notin Blank
  BY <1>3, CharactersApart, SignsApart
<1>5. i <= Len(s) /\ Char(s, i) = s[i]
  BY DEF Char
<1>6. Past(s, a, Blank) = i
  <2>1. i \in a .. (Len(s) + 1) /\ NUL \notin Blank
    BY SignsApart
  <2> QED
    BY <1>4, <1>5, <2>1, PastIs
<1>7. Start(s, a) = [from |-> IF s[i] \in {"-", "+"} THEN i + 1 ELSE i, minus |-> s[i] = "-"]
  BY <1>5, <1>6, Zenon DEF Start
<1>8. CASE v < 0
  BY <1>3, <1>7, <1>8
<1>9. CASE ~ (v < 0)
  <2>1. s[i] \notin {"-", "+"}
    BY <1>3, <1>9, CharactersApart
  <2> QED
    BY <1>7, <1>9, <2>1
<1> QED
  BY <1>8, <1>9

\* The loop over the digits of a number ends behind it and adds them up.
LEMMA DigitsRead ==
  ASSUME NEW s, NEW a, NEW i, NEW j, NEW v, NEW r, Readable(s, a, i, j, v, r),
         NEW c \in i .. (j - 1), NEW h, Counts(s, c, j - c, r, h), h[j - c] = Size(v),
         NEW bits \in {INT_BITS, LONG_BITS}, Size(v) < 2 ^ bits
  PROVE  Past(s, c, DigitsOf(r)) = j /\ Sum(s, c, j, r, bits) = Size(v)
<1>1. c \in Nat /\ j \in Nat /\ c <= j /\ r \in 2 .. 36
  BY DEF Readable
<1>2. Figures(s, c, j, r)
  BY <1>1, CountsFigures
<1>3. Past(s, c, DigitsOf(r)) = j
  <2>1. c \in 1 .. (Len(s) + 1) /\ j \in c .. (Len(s) + 1)
    BY DEF Readable
  <2>2. NUL \notin DigitsOf(r) /\ Char(s, j) \notin DigitsOf(r)
    BY <1>1, NoDigitEnds, DigitsApart DEF Readable
  <2> QED
    BY <1>2, <2>1, <2>2, PastIs DEF Figures, Readable
<1>4. Sum(s, c, j, r, bits) = Size(v)
  <2>1. h[j - c] < 2 ^ bits
    OBVIOUS
  <2>2. Sum(s, c, j, r, bits) = h[j - c]
    <3>1. Counts(s, c, j - c, r, h)
      OBVIOUS
    <3> QED
      BY <1>1, <2>1, <3>1, SumIs, Zenon
  <2> QED
    BY <2>2
<1> QED
  BY <1>3, <1>4

\* Where no digit is, the loop over the digits ends at once, with 0.
LEMMA NoDigitsRead ==
  ASSUME NEW s, Len(s) \in Nat, NEW j \in 1 .. (Len(s) + 1), Char(s, j) \notin DigitCharacters,
         NEW bits
  PROVE  Past(s, j, DigitsOf(8)) = j /\ Sum(s, j, j, 8, bits) = 0
<1>1. Past(s, j, DigitsOf(8)) = j
  <2>1. NUL \notin DigitsOf(8) /\ Char(s, j) \notin DigitsOf(8) /\ j \in j .. (Len(s) + 1)
    BY NoDigitEnds, DigitsApart
  <2> QED
    BY <2>1, PastIs
<1>2. Sum(s, j, j, 8, bits) = 0
  <2> DEFINE e(g, k) == IF k = 0 THEN 0
                        ELSE Unsigned(g[k - 1] * 8 + DigitValue(s[j + k - 1]), bits)
             z == [k \in 0 .. (j - j) |-> 0]
             g == CHOOSE x : x = [k \in 0 .. (j - j) |-> e(x, k)]
  <2>1. \A k \in 0 .. (j - j) : k = 0
    OBVIOUS
  <2>2. \A k \in 0 .. (j - j) : z[k] = e(z, k)
    BY <2>1, Zenon
  <2>3. z = [k \in 0 .. (j - j) |-> z[k]]
    OBVIOUS
  <2> HIDE DEF e, z
  <2>4. z = [k \in 0 .. (j - j) |-> e(z, k)]
    BY <2>2, <2>3
  <2>5. g = [k \in 0 .. (j - j) |-> e(g, k)]
    BY <2>4, Zenon
  <2>6. Sum(s, j, j, 8, bits) = g[j - j]
    BY Zenon DEF Sum, e
  <2> HIDE DEF g
  <2>7. j - j \in 0 .. (j - j) /\ j - j = 0
    OBVIOUS
  <2>8. g[j - j] = e(g, j - j)
    BY <2>5, <2>7, Zenon
  <2>9. e(g, j - j) = 0
    BY <2>7, Zenon DEF e
  <2> QED
    BY <2>6, <2>8, <2>9
<1> QED
  BY <1>1, <1>2

\* No x comes second in a number up to base 16.
LEMMA AfterSign ==
  ASSUME NEW s, NEW a, NEW i, NEW j, NEW v, NEW r, Readable(s, a, i, j, v, r),
         NEW c \in i .. (j - 1), NEW h, Counts(s, c, j - c, r, h),
         r \in 2 .. 16, NEW x \in {"x", "X"}
  PROVE  ~ (c + 1 <= Len(s) /\ s[c + 1] = x)
<1> USE DEF Readable
<1> SUFFICES ASSUME c + 1 <= Len(s), s[c + 1] = x PROVE FALSE
  OBVIOUS
<1>1. c \in Nat /\ j \in Nat /\ c <= j /\ c < j /\ r \in 2 .. 36
  BY SMT
<1>2. Figures(s, c, j, r)
  BY <1>1, CountsFigures
<1>b. r <= 16
  OBVIOUS
<1>3. CASE c + 1 = j
  <2>1. Char(s, j) = x
    BY <1>3, <1>1 DEF Char
  <2>2. x \in DigitCharacters
    BY DEF DigitCharacters
  <2> QED
    BY <2>1, <2>2
<1>4. CASE c + 1 # j
  <2>1. c + 1 \in c .. (j - 1)
    BY <1>1, <1>4
  <2>2. s[c + 1] \in DigitsOf(r)
    BY <1>2, <2>1 DEF Figures
  <2> QED
    BY <1>1, <1>b, <2>2, DigitsApart
<1> QED
  BY <1>3, <1>4

\* The sign gives the number back.
LEMMA SizeBack == ASSUME NEW v \in Int PROVE Negated(v < 0, Size(v)) = v
<1>1. CASE v < 0
  BY <1>1 DEF Negated, Size
<1>2. CASE ~ (v < 0)
  BY <1>2 DEF Negated, Size
<1> QED
  BY <1>1, <1>2

\* The functions that take a base read the number and stop behind it.
LEMMA ScanReads ==
  ASSUME NEW s, NEW a, NEW i, NEW j, NEW v, NEW r, Readable(s, a, i, j, v, r),
         NEW base, base = r \/ (base = 0 /\ r = 10),
         Size(v) < 2 ^ LONG_BITS
  PROVE  Scan(s, a, base).end = j /\ Scan(s, a, base).value = v
<1>1. PICK c, h :
        /\ c \in i .. (j - 1)
        /\ InFront(s, i, c, v, r)
        /\ Counts(s, c, j - c, r, h) /\ h[j - c] = Size(v)
        /\ r = 10 /\ h[1] = 0 => j - c = 1
  BY DEF Readable, Numeral
<1> DEFINE b == IF v < 0 THEN c ELSE i
           P == Prefix(s, b, base)
           end == Past(s, P[2], DigitsOf(P[1]))
<1>2. Start(s, a) = [from |-> b, minus |-> v < 0]
  BY <1>1, NumeralStart
<1>3. Scan(s, a, base) = [value |-> Negated(v < 0, Sum(s, P[2], end, P[1], LONG_BITS)),
                          end |-> end]
  <2>1. Start(s, a).from = b /\ Start(s, a).minus = (v < 0)
    BY <1>2
  <2> QED
    BY <2>1, Zenon DEF Scan
<1> HIDE DEF P, end
<1> SUFFICES end = j /\ Sum(s, P[2], end, P[1], LONG_BITS) = Size(v)
  <2>1. v \in Int
    BY DEF Readable
  <2> QED
    BY <1>3, <2>1, SizeBack
<1>4. /\ Len(s) \in Nat /\ b \in 1 .. (Len(s) + 1) /\ i \in Nat \ {0} /\ j \in Nat /\ j <= Len(s) + 1
      /\ c \in Nat \ {0} /\ j - c \in Nat \ {0} /\ r \in 2 .. 36
      /\ Char(s, j) \notin DigitCharacters
  BY <1>1 DEF Readable
<1>b. \/ b = c
      \/ /\ r = 16 /\ b = i /\ c = i + 2 /\ s[i] = "0" /\ s[i + 1] = "x"
  BY <1>1 DEF InFront
<1>z. base \in {0, 16} => r \in 2 .. 16
  BY <1>4
<1> HIDE DEF b
<1>5. ASSUME P = <<r, c>> PROVE end = j /\ Sum(s, P[2], end, P[1], LONG_BITS) = Size(v)
  <2>1. P[1] = r /\ P[2] = c
    BY <1>5
  <2>2. Past(s, c, DigitsOf(r)) = j /\ Sum(s, c, j, r, LONG_BITS) = Size(v)
    BY <1>1, DigitsRead
  <2> QED
    BY <2>1, <2>2 DEF end
<1>6. CASE b # c
  <2>1. /\ r = 16 /\ base = 16 /\ b = i /\ c = i + 2 /\ s[i] = "0" /\ s[i + 1] = "x"
    BY <1>b, <1>6
  <2>2. b + 1 <= Len(s)
    BY <1>4, <2>1
  <2>3. P = <<16, b + 2>>
    BY <1>4, <2>1, <2>2, PrefixHex DEF P
  <2> QED
    BY <1>5, <2>1, <2>3
<1>7. CASE b = c
  <2>1. ~ (base \in {0, 16} /\ b + 1 <= Len(s) /\ s[b] = "0" /\ s[b + 1] \in {"x", "X"})
    <3>1. ASSUME base \in {0, 16}, NEW x \in {"x", "X"} PROVE ~ (c + 1 <= Len(s) /\ s[c + 1] = x)
      BY <1>1, <1>z, <3>1, AfterSign
    <3> QED
      BY <1>7, <3>1
  <2>2. P = IF base = 0 /\ b <= Len(s) /\ s[b] = "0" THEN <<8, b + 1>>
            ELSE IF base = 0 THEN <<10, b>> ELSE <<base, b>>
    BY <1>4, <2>1, PrefixNotHex DEF P
  <2>3. CASE base = 0 /\ b <= Len(s) /\ s[b] = "0"
    <3>1. r = 10
      BY <2>3, <1>4
    <3>2. h[1] = 0
      <4>1. s[c] = "0" /\ Counts(s, c, j - c, r, h)
        BY <1>1, <1>7, <2>3
      <4>2. c \in Nat /\ j - c \in Nat \ {0} /\ r \in 2 .. 36
        BY <1>4
      <4> QED
        BY <4>1, <4>2, ZeroFirst, SMTT(30)
    <3>3. j - c = 1 /\ Size(v) = 0
      BY <1>1, <3>1, <3>2
    <3>4. b + 1 = j
      BY <1>4, <1>7, <3>3
    <3>5. P = <<8, j>>
      BY <2>2, <2>3, <3>4
    <3>6. P[1] = 8 /\ P[2] = j
      BY <3>5
    <3>7. j \in 1 .. (Len(s) + 1)
      BY <1>4
    <3>8. Past(s, j, DigitsOf(8)) = j /\ Sum(s, j, j, 8, LONG_BITS) = 0
      BY <1>4, <3>7, NoDigitsRead
    <3> QED
      BY <3>3, <3>6, <3>8 DEF end
  <2>4. CASE ~ (base = 0 /\ b <= Len(s) /\ s[b] = "0")
    <3>1. P = <<r, c>>
      <4>1. (base = 0 => r = 10) /\ (base # 0 => base = r)
        BY <1>4
      <4> QED
        BY <1>7, <2>2, <2>4, <4>1, Zenon
    <3> QED
      BY <1>5, <3>1
  <2> QED
    BY <2>3, <2>4
<1> QED
  BY <1>6, <1>7

\* atoi and its kin read a number printed in base 10.
LEMMA atoiReads ==
  ASSUME NEW s, NEW a, NEW i, NEW j, NEW v, NEW r, Readable(s, a, i, j, v, r), r = 10,
         NEW bits \in {INT_BITS, LONG_BITS}, Size(v) < 2 ^ bits
  PROVE  atoi(s, a, bits) = Signed(v, bits)
<1>1. PICK c, h :
        /\ c \in i .. (j - 1)
        /\ InFront(s, i, c, v, r)
        /\ Counts(s, c, j - c, r, h) /\ h[j - c] = Size(v)
  BY DEF Readable, Numeral
<1>2. (IF v < 0 THEN c ELSE i) = c
  BY <1>1 DEF InFront
<1>3. Start(s, a) = [from |-> c, minus |-> v < 0]
  BY <1>1, <1>2, NumeralStart
<1>4. Past(s, c, DigitsOf(r)) = j /\ Sum(s, c, j, r, bits) = Size(v)
  BY <1>1, DigitsRead
<1>5. Past(s, c, DigitsOf(10)) = j /\ Sum(s, c, j, 10, bits) = Size(v)
  BY <1>4
<1>6. atoi(s, a, bits) = Signed(Negated(v < 0, Size(v)), bits)
  <2>1. Start(s, a).from = c /\ Start(s, a).minus = (v < 0)
    BY <1>3
  <2> QED
    BY <1>5, <2>1, Zenon DEF atoi
<1>7. v \in Int
  BY DEF Readable
<1> QED
  BY <1>6, <1>7, SizeBack

-----------------------------------------------------------------------------
(***************************************************************************)
(* Printing leaves a number                                                *)
(***************************************************************************)

\* The same characters elsewhere count the same.
LEMMA CountsMoved ==
  ASSUME NEW t, NEW l \in Nat, NEW base, NEW h, NEW i \in Nat, Counts(t, i, l, base, h),
         NEW s, NEW c \in Nat, \A k \in 1 .. l : s[c + k - 1] = t[i + k - 1]
  PROVE  Counts(s, c, l, base, h)
BY DEF Counts

\* One more digit, d, goes on with what l of them count.
GoesOnWith(t, l, base, h, d) ==
  \E g : /\ Counts(t, 1, l + 1, base, g) /\ g[l + 1] = (h[l] * base) + d
         /\ \A k \in 0 .. l : g[k] = h[k]

\* One digit more counts base times as much, and itself.
LEMMA CountsOneMore ==
  ASSUME NEW t, NEW l \in Nat, NEW base \in 2 .. 36, NEW h, Counts(t, 1, l, base, h),
         NEW d \in 0 .. (base - 1), t[l + 1] \in FigureOf(d)
  PROVE  GoesOnWith(t, l, base, h, d)
<1> DEFINE v == (h[l] * base) + d
<1>v. v \in Nat /\ v = (h[l] * base) + d
  <2>1. h[l] \in Nat
    BY DEF Counts
  <2> QED
    BY <2>1, OneMore
<1> HIDE DEF v
<1> DEFINE g == [k \in 0 .. (l + 1) |-> IF k = l + 1 THEN v ELSE h[k]]
<1>1. \A k \in 0 .. l : h[k] \in Nat /\ g[k] = h[k]
  BY DEF Counts
<1>2. g[l + 1] = v
  OBVIOUS
<1>3. g \in [0 .. (l + 1) -> Nat] /\ g[0] = 0
  BY <1>1, <1>v DEF Counts
<1> HIDE DEF g
<1>4. ASSUME NEW k \in 1 .. (l + 1)
      PROVE  \E e \in 0 .. (base - 1) : t[1 + k - 1] \in FigureOf(e) /\ g[k] = (g[k - 1] * base) + e
  <2>1. CASE k = l + 1
    <3>1. 1 + k - 1 = l + 1 /\ k - 1 = l /\ l \in 0 .. l
      BY <2>1
    <3>2. g[k] = (g[k - 1] * base) + d /\ t[1 + k - 1] \in FigureOf(d)
      BY <1>1, <1>2, <1>v, <2>1, <3>1
    <3> QED
      BY <3>2
  <2>2. CASE k # l + 1
    <3>1. k \in 1 .. l /\ k \in 0 .. l /\ k - 1 \in 0 .. l
      BY <2>2
    <3>2. g[k] = h[k] /\ g[k - 1] = h[k - 1]
      BY <1>1, <3>1
    <3> QED
      BY <3>1, <3>2 DEF Counts
  <2> QED
    BY <2>1, <2>2
<1>5. Counts(t, 1, l + 1, base, g)
  BY <1>3, <1>4 DEF Counts
<1> QED
  BY <1>1, <1>2, <1>v, <1>5 DEF GoesOnWith

\* t are the digits of v, with no 0 in front.
Stands(t, v, base) ==
  /\ Text(t) /\ Len(t) \in Nat \ {0}
  /\ \E h : Counts(t, 1, Len(t), base, h) /\ h[Len(t)] = v /\ (h[1] = 0 => v = 0 /\ Len(t) = 1)

\* A number below the base is one digit.
LEMMA OneDigit ==
  ASSUME NEW base \in 2 .. 36, NEW v \in 0 .. (base - 1)
  PROVE  Stands(<<Lower[v + 1]>>, v, base)
<1> DEFINE t == <<Lower[v + 1]>>
           h == [k \in 0 .. 0 |-> 0]
<1>1. Text(t) /\ Len(t) = 1 /\ t[1] \in FigureOf(v)
  BY TextOne DEF FigureOf
<1>2. h[0] = 0 /\ h \in [0 .. 0 -> Nat]
  OBVIOUS
<1> HIDE DEF t, h
<1>3. Counts(t, 1, 0, base, h)
  BY <1>2 DEF Counts
<1>4. v \in Nat /\ v = (h[0] * base) + v /\ t[0 + 1] \in FigureOf(v)
  BY <1>1, <1>2
<1>5. PICK g : Counts(t, 1, 0 + 1, base, g) /\ g[0 + 1] = v
  <2>1. 0 \in Nat /\ v \in 0 .. (base - 1)
    OBVIOUS
  <2>2. \E g : /\ Counts(t, 1, 0 + 1, base, g) /\ g[0 + 1] = (h[0] * base) + v
               /\ \A k \in 0 .. 0 : g[k] = h[k]
    <3>1. GoesOnWith(t, 0, base, h, v)
      BY <1>3, <1>4, <2>1, CountsOneMore, Zenon
    <3> QED
      BY <3>1, Zenon DEF GoesOnWith
  <2> QED
    BY <1>4, <2>2, Zenon
<1>6. Counts(t, 1, 1, base, g) /\ g[1] = v
  BY <1>5
<1>7. Stands(t, v, base)
  BY <1>1, <1>6 DEF Stands
<1> QED
  BY <1>7 DEF t

\* Any other is the digits of its quotient and one more.
LEMMA MoreDigits ==
  ASSUME NEW base \in 2 .. 36, NEW v \in Nat, ~ (v < base),
         NEW t, Stands(t, v \div base, base)
  PROVE  Stands(Append(t, Lower[(v % base) + 1]), v, base)
<1> DEFINE d == v % base
           q == v \div base
           u == Append(t, Lower[(v % base) + 1])
<1>1. q \in Nat \ {0} /\ d \in 0 .. (base - 1) /\ v = (q * base) + d
  BY SMTT(60)
<1>2. PICK l \in Nat \ {0} : l = Len(t)
  BY DEF Stands
<1>3. PICK h : Counts(t, 1, l, base, h) /\ h[l] = q /\ (h[1] = 0 => q = 0 /\ l = 1)
  BY <1>2 DEF Stands
<1>4. /\ Text(u) /\ Len(u) = l + 1 /\ u[l + 1] = Lower[d + 1]
      /\ \A k \in 1 .. l : u[k] = t[k]
  BY <1>2, TextAppend DEF Stands
<1> HIDE DEF d, q, u
<1>5. Counts(u, 1, l, base, h)
  <2>1. \A k \in 1 .. l : u[1 + k - 1] = t[1 + k - 1]
    BY <1>4
  <2> QED
    BY <1>3, <2>1, CountsMoved
<1>6. u[l + 1] \in FigureOf(d)
  BY <1>4 DEF FigureOf
<1>7. PICK g : /\ Counts(u, 1, l + 1, base, g) /\ g[l + 1] = v
               /\ \A k \in 0 .. l : g[k] = h[k]
  <2>1. l \in Nat
    OBVIOUS
  <2>2. \E g : /\ Counts(u, 1, l + 1, base, g) /\ g[l + 1] = (h[l] * base) + d
               /\ \A k \in 0 .. l : g[k] = h[k]
    <3>1. GoesOnWith(u, l, base, h, d)
      BY <1>1, <1>5, <1>6, <2>1, CountsOneMore, Zenon
    <3> QED
      BY <3>1, Zenon DEF GoesOnWith
  <2>3. (h[l] * base) + d = v
    BY <1>1, <1>3
  <2> QED
    BY <2>2, <2>3, Zenon
<1>8. g[1] # 0
  <2>1. 1 \in 0 .. l
    BY <1>2
  <2> QED
    BY <1>1, <1>3, <1>7, <2>1
<1>9. l + 1 \in Nat \ {0}
  BY <1>2
<1>10. Stands(u, v, base)
  BY <1>4, <1>7, <1>8, <1>9 DEF Stands
<1> QED
  BY <1>10 DEF u

\* emit_uint leaves the digits of the number.
LEMMA emit_uintDigits ==
  ASSUME NEW base \in 2 .. 36, NEW value \in Nat
  PROVE  Stands(emit_uint(value, base), value, base)
<1> DEFINE g == CHOOSE x : x = [v \in 0 .. value |-> IF v < base THEN <<Lower[v + 1]>>
                                 ELSE Append(x[v \div base], Lower[(v % base) + 1])]
<1>1. g = [v \in 0 .. value |-> IF v < base THEN <<Lower[v + 1]>>
                                 ELSE Append(g[v \div base], Lower[(v % base) + 1])]
  BY DigitsExist, Zenon DEF Digits
<1>2. emit_uint(value, base) = g[value]
  BY Zenon DEF emit_uint
<1> HIDE DEF g
<1> DEFINE e(v) == IF v < base THEN <<Lower[v + 1]>>
                   ELSE Append(g[v \div base], Lower[(v % base) + 1])
<1>3. \A v \in 0 .. value : g[v] = e(v)
  BY <1>1, Zenon
<1> DEFINE T == {l \in 0 .. value : \A v \in 0 .. l : Stands(g[v], v, base)}
<1>4. ASSUME NEW v \in 0 .. value, \A w \in 0 .. (v - 1) : Stands(g[w], w, base)
      PROVE  Stands(g[v], v, base)
  <2>1. CASE v < base
    <3>1. g[v] = <<Lower[v + 1]>>
      BY <1>3, <2>1, Zenon
    <3>2. v \in 0 .. (base - 1)
      BY <2>1
    <3> QED
      BY <3>1, <3>2, OneDigit
  <2>2. CASE ~ (v < base)
    <3>1. Stands(g[v \div base], v \div base, base)
      BY <1>4, <2>2, Quotient
    <3>2. g[v] = Append(g[v \div base], Lower[(v % base) + 1])
      BY <1>3, <2>2, Zenon
    <3> QED
      BY <2>2, <3>1, <3>2, MoreDigits
  <2> QED
    BY <2>1, <2>2
<1>5. 0 \in T
  <2>1. Stands(g[0], 0, base)
    BY <1>4
  <2> QED
    BY <2>1
<1>6. ASSUME NEW l \in 1 .. value, l - 1 \in T PROVE l \in T
  <2>1. \A v \in 0 .. (l - 1) : Stands(g[v], v, base)
    BY <1>6
  <2>2. Stands(g[l], l, base)
    BY <1>4, <2>1
  <2>3. \A v \in 0 .. l : Stands(g[v], v, base)
    BY <2>1, <2>2
  <2> QED
    BY <2>3
<1>7. T \in SUBSET (0 .. value)
  OBVIOUS
<1>8. value \in T
  <2> HIDE DEF T
  <2>1. T = 0 .. value
    BY <1>5, <1>6, <1>7, Induction
  <2> QED
    BY <2>1
<1> QED
  BY <1>2, <1>8

\* The characters of two texts put together.
LEMMA ConcatAt ==
  ASSUME NEW s, NEW t, Text(s), Text(t)
  PROVE  /\ \A k \in 1 .. Len(s) : (s \o t)[k] = s[k]
         /\ \A k \in 1 .. Len(t) : (s \o t)[Len(s) + k] = t[k]
<1>1. PICK S : s \in Seq(S)
  BY DEF Text
<1>2. PICK T : t \in Seq(T)
  BY DEF Text
<1>3. s \in Seq(S \cup T) /\ t \in Seq(S \cup T)
  BY <1>1, <1>2
<1> QED
  BY <1>3

\* The text t is the number v in base r.
NumeralText(t, v, r) == Text(t) /\ Len(t) \in Nat \ {0} /\ Numeral(t, 1, Len(t) + 1, v, r)

\* Digits alone are a number,
LEMMA DigitsNumeral ==
  ASSUME NEW v \in Nat, NEW r, NEW t, Stands(t, v, r)
  PROVE  NumeralText(t, v, r)
<1>1. PICK l \in Nat \ {0} : l = Len(t) /\ Text(t)
  BY DEF Stands
<1>2. PICK h : Counts(t, 1, l, r, h) /\ h[l] = v /\ (h[1] = 0 => v = 0 /\ l = 1)
  BY <1>1 DEF Stands
<1>3. (l + 1) - 1 = l /\ 1 \in 1 .. ((l + 1) - 1)
  OBVIOUS
<1>4. Size(v) = v /\ InFront(t, 1, 1, v, r)
  BY DEF Size, InFront
<1>5. Numeral(t, 1, l + 1, v, r)
  BY <1>2, <1>3, <1>4, Zenon DEF Numeral
<1> QED
  BY <1>1, <1>5 DEF NumeralText

\* and so they are behind what may be in front of one:
LEMMA PrefixedNumeral ==
  ASSUME NEW pre, Text(pre), NEW t, Text(t), Len(t) \in Nat \ {0},
         NEW v, NEW r, NEW h, Counts(t, 1, Len(t), r, h), h[Len(t)] = Size(v),
         InFront(pre \o t, 1, Len(pre) + 1, v, r), r = 10 /\ h[1] = 0 => Len(t) = 1
  PROVE  NumeralText(pre \o t, v, r)
<1> DEFINE u == pre \o t
<1>1. Len(pre) \in Nat
  BY TextLength
<1>2. PICK p \in Nat : p = Len(pre)
  BY <1>1
<1>3. PICK l \in Nat \ {0} : l = Len(t)
  OBVIOUS
<1>4. /\ Text(u) /\ Len(u) = p + l
      /\ \A k \in 1 .. l : u[p + k] = t[k]
  BY <1>2, <1>3, TextConcat, ConcatAt
<1>8. InFront(u, 1, p + 1, v, r)
  BY <1>2
<1> HIDE DEF u
<1>5. Counts(u, p + 1, l, r, h)
  <2>1. \A k \in 1 .. l : u[(p + 1) + k - 1] = t[1 + k - 1]
    BY <1>4
  <2>2. Counts(t, 1, l, r, h)
    BY <1>3
  <2> QED
    <3>1. 1 \in Nat /\ p + 1 \in Nat /\ l \in Nat
      OBVIOUS
    <3> QED
      BY <2>1, <2>2, <3>1, CountsMoved, Zenon
<1>6. (p + l + 1) - (p + 1) = l /\ p + 1 \in 1 .. ((p + l + 1) - 1) /\ p + l \in Nat \ {0}
  OBVIOUS
<1>7. h[l] = Size(v) /\ (r = 10 /\ h[1] = 0 => l = 1)
  BY <1>3
<1>9. Numeral(u, 1, p + l + 1, v, r)
  BY <1>5, <1>6, <1>7, <1>8, Zenon DEF Numeral
<1>10. NumeralText(u, v, r)
  BY <1>4, <1>6, <1>9 DEF NumeralText
<1> QED
  BY <1>10 DEF u

\* a minus,
LEMMA MinusNumeral ==
  ASSUME NEW m \in Nat \ {0}, NEW r, NEW t, Stands(t, m, r)
  PROVE  NumeralText(<<"-">> \o t, 0 - m, r)
<1>1. PICK h : Counts(t, 1, Len(t), r, h) /\ h[Len(t)] = m /\ (h[1] = 0 => m = 0 /\ Len(t) = 1)
  BY DEF Stands
<1>2. Text(t) /\ Len(t) \in Nat \ {0} /\ Text(<<"-">>) /\ Len(<<"-">>) = 1
  BY TextOne DEF Stands
<1>3. Size(0 - m) = m
  BY DEF Size
<1>4. (<<"-">> \o t)[1] = "-"
  <2>1. 1 \in 1 .. Len(<<"-">>)
    BY <1>2
  <2>2. (<<"-">> \o t)[1] = <<"-">>[1]
    BY <1>2, <2>1, ConcatAt
  <2> QED
    BY <2>2
<1>5. InFront(<<"-">> \o t, 1, Len(<<"-">>) + 1, 0 - m, r)
  BY <1>2, <1>4 DEF InFront
<1>6. h[Len(t)] = Size(0 - m) /\ (r = 10 /\ h[1] = 0 => Len(t) = 1)
  BY <1>1, <1>3
<1> QED
  BY <1>1, <1>2, <1>5, <1>6, PrefixedNumeral

\* or 0x.
LEMMA HexNumeral ==
  ASSUME NEW v \in Nat, NEW t, Text(t), Len(t) \in Nat \ {0},
         NEW h, Counts(t, 1, Len(t), 16, h), h[Len(t)] = v
  PROVE  NumeralText(<<"0", "x">> \o t, v, 16)
<1>1. Text(<<"0", "x">>) /\ Len(<<"0", "x">>) = 2
  BY TextTwo
<1>2. Size(v) = v
  BY DEF Size
<1>3. (<<"0", "x">> \o t)[1] = "0" /\ (<<"0", "x">> \o t)[2] = "x"
  <2>1. 1 \in 1 .. Len(<<"0", "x">>) /\ 2 \in 1 .. Len(<<"0", "x">>)
    BY <1>1
  <2>2. (<<"0", "x">> \o t)[1] = <<"0", "x">>[1] /\ (<<"0", "x">> \o t)[2] = <<"0", "x">>[2]
    BY <1>1, <2>1, ConcatAt
  <2> QED
    BY <2>2
<1>4. InFront(<<"0", "x">> \o t, 1, Len(<<"0", "x">>) + 1, v, 16)
  BY <1>1, <1>3 DEF InFront
<1> QED
  <2>1. h[Len(t)] = Size(v) /\ (16 = 10 /\ h[1] = 0 => Len(t) = 1)
    BY <1>2
  <2> QED
    BY <1>1, <1>4, <2>1, PrefixedNumeral, Zenon

\* An int is no wider than a long.
LEMMA PowersRise == 2 ^ INT_BITS <= 2 ^ LONG_BITS
<1> DEFINE T == {n \in 0 .. (LONG_BITS - INT_BITS) : 2 ^ INT_BITS <= 2 ^ (INT_BITS + n)}
<1>1. LONG_BITS \in Nat /\ INT_BITS \in 0 .. LONG_BITS /\ LONG_BITS - INT_BITS \in Nat
  BY NumbersAssumption
<1>2. \A n \in 0 .. LONG_BITS : 2 ^ n \in Nat
  BY Power
<1>3. 0 \in T
  <2>1. 2 ^ INT_BITS <= 2 ^ (INT_BITS + 0)
    BY <1>1, <1>2
  <2> QED
    BY <1>1, <2>1
<1>4. ASSUME NEW n \in 1 .. (LONG_BITS - INT_BITS), n - 1 \in T PROVE n \in T
  <2>1. INT_BITS + n \in 1 .. LONG_BITS /\ (INT_BITS + n) - 1 = INT_BITS + (n - 1)
        /\ INT_BITS + (n - 1) \in 0 .. LONG_BITS /\ INT_BITS + n \in 0 .. LONG_BITS
    BY <1>1
  <2>2. 2 ^ (INT_BITS + n) = 2 * 2 ^ (INT_BITS + (n - 1))
    BY <2>1, PowersAssumption
  <2>3. 2 ^ INT_BITS <= 2 ^ (INT_BITS + (n - 1))
    BY <1>4
  <2>4. /\ 2 ^ (INT_BITS + (n - 1)) \in Nat /\ 2 ^ INT_BITS \in Nat /\ 2 ^ (INT_BITS + n) \in Nat
    BY <1>1, <1>2, <2>1
  <2>5. 2 ^ INT_BITS <= 2 ^ (INT_BITS + n)
    BY <2>2, <2>3, <2>4
  <2> QED
    BY <1>1, <2>5
<1>5. T \in SUBSET (0 .. (LONG_BITS - INT_BITS))
  OBVIOUS
<1>6. LONG_BITS - INT_BITS \in T
  <2> HIDE DEF T
  <2>1. T = 0 .. (LONG_BITS - INT_BITS)
    BY <1>1, <1>3, <1>4, <1>5, Induction
  <2> QED
    BY <1>1, <2>1
<1>7. INT_BITS + (LONG_BITS - INT_BITS) = LONG_BITS
  BY <1>1
<1> QED
  BY <1>6, <1>7

\* What a width has room for.
LEMMA Bounds ==
  ASSUME NEW v \in Int, NEW bits \in {INT_BITS, LONG_BITS}
  PROVE  /\ Unsigned(v, bits) \in Nat /\ Unsigned(v, bits) < 2 ^ bits
         /\ Signed(v, bits) \in Int /\ Size(Signed(v, bits)) \in Nat
         /\ Size(Signed(v, bits)) < 2 ^ bits
<1>1. bits \in 1 .. LONG_BITS /\ bits - 1 \in 0 .. LONG_BITS /\ bits \in 0 .. LONG_BITS
  BY NumbersAssumption
<1>2. PICK p \in Nat \ {0} : p = 2 ^ bits
  BY <1>1, Power
<1>3. PICK q \in Nat \ {0} : q = 2 ^ (bits - 1)
  BY <1>1, Power
<1>4. PICK u \in 0 .. (p - 1) : u = Unsigned(v, bits)
  <2>1. v % p \in 0 .. (p - 1)
    OBVIOUS
  <2> QED
    BY <1>2, <2>1 DEF Unsigned
<1>5. Signed(v, bits) = IF u < q THEN u ELSE u - p
  BY <1>2, <1>3, <1>4, Zenon DEF Signed
<1>6. PICK w \in Int : w = Signed(v, bits) /\ 0 - p < w /\ w < p
  BY <1>5
<1> QED
  BY <1>2, <1>4, <1>6 DEF Size

\* The size of a number.
LEMMA SizeType ==
  ASSUME NEW v \in Int
  PROVE  /\ Size(v) \in Nat
         /\ v < 0 => Size(v) \in Nat \ {0} /\ 0 - Size(v) = v
         /\ ~ (v < 0) => Size(v) = v /\ v \in Nat
BY DEF Size

\* itoa.
LEMMA ItoaNumeral ==
  ASSUME NEW value \in Int, Size(value) < 2 ^ INT_BITS, NEW base \in 2 .. 36
  PROVE  NumeralText(ItoaText(value, base),
                     IF base = 10 THEN value ELSE Unsigned(value, INT_BITS), base)
<1>1. ~ (base < 2 \/ base > 36)
  OBVIOUS
<1>2. CASE base = 10 /\ value < 0
  <2>1. Magnitude(value, INT_BITS) = Size(value) /\ Size(value) \in Nat \ {0} /\ 0 - Size(value) = value
    BY <1>2, SizeType, Narrow DEF Magnitude, Size
  <2>2. ItoaText(value, base) = <<"-">> \o emit_uint(Magnitude(value, INT_BITS), base)
    BY <1>1, <1>2, Zenon DEF ItoaText
  <2>3. Stands(emit_uint(Size(value), base), Size(value), base)
    BY <2>1, emit_uintDigits
  <2>4. NumeralText(<<"-">> \o emit_uint(Size(value), base), 0 - Size(value), base)
    BY <2>1, <2>3, MinusNumeral
  <2> QED
    BY <1>2, <2>1, <2>2, <2>4
<1>3. CASE ~ (base = 10 /\ value < 0)
  <2>1. ItoaText(value, base) = emit_uint(Unsigned(value, INT_BITS), base)
    BY <1>1, <1>3, Zenon DEF ItoaText
  <2>2. Unsigned(value, INT_BITS) \in Nat
    BY Widths
  <2>3. NumeralText(ItoaText(value, base), Unsigned(value, INT_BITS), base)
    BY <2>1, <2>2, emit_uintDigits, DigitsNumeral
  <2>4. base = 10 => Unsigned(value, INT_BITS) = value
    BY <1>3, SizeType, Narrow
  <2> QED
    BY <2>3, <2>4
<1> QED
  BY <1>2, <1>3

\* emit_int, for %d and its kin.
LEMMA emit_intNumeral ==
  ASSUME NEW value \in Int, Size(value) < 2 ^ LONG_BITS
  PROVE  NumeralText(emit_int(value, 10), value, 10)
<1>0. 10 \in 2 .. 36
  OBVIOUS
<1>1. CASE value < 0
  <2>1. Magnitude(value, LONG_BITS) = Size(value) /\ Size(value) \in Nat \ {0} /\ 0 - Size(value) = value
    BY <1>1, SizeType, Narrow DEF Magnitude, Size
  <2>2. emit_int(value, 10) = <<"-">> \o emit_uint(Magnitude(value, LONG_BITS), 10)
    BY <1>1, Zenon DEF emit_int
  <2>3. Stands(emit_uint(Size(value), 10), Size(value), 10)
    BY <1>0, <2>1, emit_uintDigits
  <2>4. NumeralText(<<"-">> \o emit_uint(Size(value), 10), 0 - Size(value), 10)
    BY <2>1, <2>3, MinusNumeral
  <2> QED
    BY <2>1, <2>2, <2>4
<1>2. CASE ~ (value < 0)
  <2>1. emit_int(value, 10) = emit_uint(value, 10) /\ value \in Nat
    BY <1>2 DEF emit_int
  <2> QED
    BY <1>0, <2>1, emit_uintDigits, DigitsNumeral
<1> QED
  BY <1>1, <1>2

\* serial_put_dec.
LEMMA DecNumeral ==
  ASSUME NEW v \in Nat
  PROVE  NumeralText(serial_put_dec(v), v, 10)
<1>0. 10 \in 2 .. 36 /\ 0 \in 0 .. (10 - 1)
  OBVIOUS
<1>1. CASE v = 0
  <2>1. Stands(<<Lower[0 + 1]>>, 0, 10)
    BY <1>0, OneDigit
  <2>2. <<Lower[0 + 1]>> = <<"0">>
    BY DEF Lower
  <2>3. NumeralText(<<"0">>, 0, 10)
    BY <2>1, <2>2, DigitsNumeral
  <2> QED
    BY <1>1, <2>3 DEF serial_put_dec
<1>2. CASE v # 0
  <2>1. serial_put_dec(v) = emit_uint(v, 10)
    BY <1>2 DEF serial_put_dec
  <2> QED
    BY <1>0, <2>1, emit_uintDigits, DigitsNumeral
<1> QED
  BY <1>1, <1>2

\* Four bits are one digit of base 16.
LEMMA FourBits ==
  ASSUME NEW m \in 0 .. LONG_BITS, m + 4 <= LONG_BITS
  PROVE  2 ^ (m + 4) = 16 * 2 ^ m
<1>1. LONG_BITS \in Nat
  BY NumbersAssumption
<1>2. \A n \in 0 .. LONG_BITS : 2 ^ n \in Nat \ {0}
  BY Power
<1>3. ASSUME NEW n \in 0 .. LONG_BITS, n + 1 <= LONG_BITS
      PROVE  2 ^ (n + 1) = 2 * 2 ^ n
  <2>1. n + 1 \in 1 .. LONG_BITS /\ (n + 1) - 1 = n
    BY <1>1, <1>3
  <2> QED
    BY <2>1, PowersAssumption
<1>4. /\ m + 1 \in 0 .. LONG_BITS /\ (m + 1) + 1 \in 0 .. LONG_BITS
      /\ ((m + 1) + 1) + 1 \in 0 .. LONG_BITS
      /\ m + 1 <= LONG_BITS /\ (m + 1) + 1 <= LONG_BITS /\ ((m + 1) + 1) + 1 <= LONG_BITS
      /\ (((m + 1) + 1) + 1) + 1 <= LONG_BITS /\ (((m + 1) + 1) + 1) + 1 = m + 4
  BY <1>1
<1>5. /\ 2 ^ (m + 1) = 2 * 2 ^ m /\ 2 ^ ((m + 1) + 1) = 2 * 2 ^ (m + 1)
      /\ 2 ^ (((m + 1) + 1) + 1) = 2 * 2 ^ ((m + 1) + 1)
      /\ 2 ^ ((((m + 1) + 1) + 1) + 1) = 2 * 2 ^ (((m + 1) + 1) + 1)
  BY <1>3, <1>4
<1> DEFINE q == 2 ^ m
<1>6. q \in Nat
  BY <1>2
<1> HIDE DEF q
<1>7. 2 * (2 * (2 * (2 * q))) = 16 * q
  BY <1>6
<1>8. 2 ^ ((((m + 1) + 1) + 1) + 1) = 2 * (2 * (2 * (2 * q)))
  BY <1>5, Zenon DEF q
<1> QED
  BY <1>4, <1>7, <1>8 DEF q

\* A digit of base 16 split off.
LEMMA LastFigure ==
  ASSUME NEW v \in Nat, NEW p \in Nat \ {0}
  PROVE  /\ v \div p \in Nat /\ (v \div p) % 16 \in 0 .. 15
         /\ v \div p = ((v \div (16 * p)) * 16) + ((v \div p) % 16)
<1>1. PICK q \in Nat : q = v \div p
  OBVIOUS
<1>2. v \div (16 * p) = (v \div p) \div 16
  OBVIOUS
<1>3. q = ((q \div 16) * 16) + (q % 16) /\ q % 16 \in 0 .. 15
  OBVIOUS
<1> QED
  BY <1>1, <1>2, <1>3

\* serial_put_hex.
LEMMA serial_put_hexNumeral ==
  ASSUME NEW v \in Nat, v < 2 ^ LONG_BITS
  PROVE  NumeralText(serial_put_hex(v), v, 16)
<1> DEFINE n == LONG_BITS \div 4
           t == [k \in 1 .. LONG_BITS \div 4 |-> Upper[((v \div 2 ^ (LONG_BITS - 4 * k)) % 16) + 1]]
           h == [k \in 0 .. n |-> v \div 2 ^ (LONG_BITS - 4 * k)]
<1>1. n \in Nat \ {0} /\ LONG_BITS = 4 * n /\ LONG_BITS \in Nat
  BY NumbersAssumption
<1>2. ASSUME NEW k \in 0 .. n
      PROVE  /\ LONG_BITS - 4 * k \in 0 .. LONG_BITS
             /\ h[k] = v \div 2 ^ (LONG_BITS - 4 * k) /\ h[k] \in Nat
  <2>1. LONG_BITS - 4 * k \in 0 .. LONG_BITS
    BY <1>1
  <2>2. 2 ^ (LONG_BITS - 4 * k) \in Nat \ {0}
    BY <2>1, Power
  <2>3. v \div 2 ^ (LONG_BITS - 4 * k) \in Nat
    BY <2>2, LastFigure
  <2>4. h[k] = v \div 2 ^ (LONG_BITS - 4 * k)
    BY Zenon
  <2> QED
    BY <2>1, <2>3, <2>4
<1>3. \A k \in 1 .. n : t[k] = Upper[((v \div 2 ^ (LONG_BITS - 4 * k)) % 16) + 1]
  BY Zenon
<1>4. t = [k \in 1 .. n |-> t[k]]
  BY Zenon
<1>5. serial_put_hex(v) = <<"0", "x">> \o t
  BY Zenon DEF serial_put_hex
<1>6. h = [k \in 0 .. n |-> h[k]]
  BY Zenon
<1> HIDE DEF n, t, h
<1>7. Text(t) /\ Len(t) = n
  <2>1. n \in Nat
    BY <1>1
  <2> QED
    BY <1>4, <2>1, TextFunction
<1>8. h[0] = 0
  <2>1. 0 \in 0 .. n /\ LONG_BITS - 4 * 0 = LONG_BITS
    BY <1>1
  <2>2. h[0] = v \div 2 ^ LONG_BITS
    BY <1>2, <2>1
  <2>3. 2 ^ LONG_BITS \in Nat \ {0}
    BY <1>1, Power
  <2> QED
    BY <2>2, <2>3
<1>9. ASSUME NEW k \in 1 .. n
      PROVE  \E d \in 0 .. (16 - 1) : t[1 + k - 1] \in FigureOf(d) /\ h[k] = (h[k - 1] * 16) + d
  <2> DEFINE m == LONG_BITS - 4 * k
             p == 2 ^ m
  <2>1. /\ k \in 0 .. n /\ k - 1 \in 0 .. n /\ 1 + k - 1 = k
        /\ LONG_BITS - 4 * (k - 1) = m + 4 /\ m \in 0 .. LONG_BITS /\ m + 4 <= LONG_BITS
    BY <1>1
  <2>2. h[k] = v \div p
    BY <1>2, <2>1
  <2>3. h[k - 1] = v \div (16 * p)
    <3>1. h[k - 1] = v \div 2 ^ (m + 4)
      BY <1>2, <2>1
    <3> QED
      BY <2>1, <3>1, FourBits
  <2>4. p \in Nat \ {0}
    BY <2>1, Power
  <2>5. t[k] = Upper[((v \div p) % 16) + 1]
    BY <1>3
  <2> HIDE DEF p, m
  <2> DEFINE d == (v \div p) % 16
  <2>6. d \in 0 .. 15 /\ v \div p = ((v \div (16 * p)) * 16) + d
    BY <2>4, LastFigure
  <2>7. t[k] \in FigureOf(d)
    BY <2>5 DEF FigureOf
  <2> HIDE DEF d
  <2>8. h[k] = (h[k - 1] * 16) + d
    BY <2>2, <2>3, <2>6
  <2> QED
    BY <2>1, <2>6, <2>7, <2>8
<1>10. h \in [0 .. n -> Nat]
  BY <1>2, <1>6
<1>11. Counts(t, 1, n, 16, h)
  BY <1>8, <1>9, <1>10 DEF Counts
<1>12. h[n] = v
  <2>1. n \in 0 .. n /\ LONG_BITS - 4 * n = 0
    BY <1>1
  <2>2. h[n] = v \div 2 ^ 0
    BY <1>2, <2>1
  <2>3. 2 ^ 0 = 1
    BY PowersAssumption
  <2> QED
    BY <2>2, <2>3
<1>13. Counts(t, 1, Len(t), 16, h) /\ h[Len(t)] = v /\ Len(t) \in Nat \ {0}
  BY <1>1, <1>7, <1>11, <1>12
<1> QED
  BY <1>5, <1>7, <1>13, HexNumeral

\* The kinds of conversions.
LEMMA ConvKinds ==
  ASSUME NEW conv
  PROVE  /\ Sign(conv) = "signed" \/ Sign(conv) = "unsigned"
         /\ Width(conv) \in {INT_BITS, LONG_BITS}
         /\ Radix(conv) \in {10, 16}
         /\ conv = <<"p">> => Numeric(conv) /\ Sign(conv) = "unsigned" /\ Radix(conv) = 16
         /\ Sign(conv) = "signed" => Radix(conv) = 10
         /\ Numeric(conv) => conv # <<"c">> /\ conv # <<"s">> /\ conv # <<NUL>>
<1>1. /\ conv = <<"p">> => Last(conv) = "p"
      /\ conv = <<"c">> => Last(conv) = "c"
      /\ conv = <<"s">> => Last(conv) = "s"
      /\ conv = <<NUL>> => Last(conv) = NUL
  BY DEF Last
<1>2. /\ <<"c">> # <<"p">> /\ <<"s">> # <<"p">> /\ <<NUL>> # <<"p">>
      /\ NUL \notin {"d", "u", "x"}
  BY DEF NUL
<1>3. Numeric(conv) => conv # <<"c">> /\ conv # <<"s">> /\ conv # <<NUL>>
  BY <1>1, <1>2 DEF Numeric
<1> QED
  BY <1>1, <1>3 DEF Sign, Width, Radix, Numeric

\* The case of the switch for a number.
LEMMA EmittedIs ==
  ASSUME NEW conv, Numeric(conv), NEW arg
  PROVE  Emitted(conv, arg) =
           IF conv = <<"p">> THEN <<"0", "x">> \o emit_uint(Taken(conv, arg), 16)
           ELSE IF Sign(conv) = "signed" THEN emit_int(Taken(conv, arg), 10)
           ELSE emit_uint(Taken(conv, arg), Radix(conv))
<1> DEFINE A == <<"0", "x">> \o emit_uint(Taken(conv, arg), 16)
           B == emit_int(Taken(conv, arg), 10)
           C == emit_uint(Taken(conv, arg), Radix(conv))
           D == <<"(", "b", "a", "d", " ", "%", conv[1], ")">>
<1>1. Emitted(conv, arg) =
        CASE conv = <<"p">> -> A
          [] Numeric(conv) /\ Sign(conv) = "signed" -> B
          [] Numeric(conv) /\ Sign(conv) = "unsigned" /\ conv # <<"p">> -> C
          [] conv = <<"c">> -> <<arg>>
          [] conv = <<"s">> -> arg
          [] Len(conv) = 2 /\ ~ Numeric(conv) -> D
          [] conv = <<NUL>> -> << >>
          [] OTHER -> conv
  BY Zenon DEF Emitted
<1> HIDE DEF A, B, C, D
<1>2. "signed" # "unsigned"
  OBVIOUS
<1>3. /\ conv = <<"p">> => Emitted(conv, arg) = A
      /\ conv # <<"p">> /\ Sign(conv) = "signed" => Emitted(conv, arg) = B
      /\ conv # <<"p">> /\ Sign(conv) = "unsigned" => Emitted(conv, arg) = C
  BY <1>1, <1>2, ConvKinds, SMTT(30)
<1>4. Sign(conv) = "signed" \/ Sign(conv) = "unsigned"
  BY ConvKinds
<1> QED
  BY <1>2, <1>3, <1>4, Zenon DEF A, B, C

\* What vsprintf leaves of the number it takes an argument for.
LEMMA EmittedNumeral ==
  ASSUME NEW conv, Numeric(conv), NEW arg \in Int
  PROVE  NumeralText(Emitted(conv, arg), Taken(conv, arg), Radix(conv))
<1>1. /\ Unsigned(arg, Width(conv)) \in Nat
      /\ Signed(arg, Width(conv)) \in Int /\ Size(Signed(arg, Width(conv))) \in Nat
      /\ Size(Signed(arg, Width(conv))) < 2 ^ Width(conv)
  BY ConvKinds, Bounds
<1>2. Radix(conv) \in 2 .. 36
  BY ConvKinds
<1>3. CASE conv = <<"p">>
  <2>1. Emitted(conv, arg) = <<"0", "x">> \o emit_uint(Taken(conv, arg), 16)
    BY <1>3, ConvKinds, EmittedIs
  <2>2. Taken(conv, arg) \in Nat /\ Radix(conv) = 16 /\ 16 \in 2 .. 36
    BY <1>1, <1>3, ConvKinds DEF Taken
  <2>3. Stands(emit_uint(Taken(conv, arg), 16), Taken(conv, arg), 16)
    BY <2>2, emit_uintDigits
  <2> QED
    BY <2>1, <2>2, <2>3, HexNumeral DEF Stands
<1>4. CASE conv # <<"p">> /\ Sign(conv) = "signed"
  <2>1. Emitted(conv, arg) = emit_int(Taken(conv, arg), 10)
    BY <1>4, EmittedIs
  <2>2. Taken(conv, arg) = Signed(arg, Width(conv)) /\ Radix(conv) = 10
    BY <1>4, ConvKinds DEF Taken
  <2>3. Size(Taken(conv, arg)) < 2 ^ LONG_BITS
    <3>1. 2 ^ INT_BITS \in Nat /\ 2 ^ LONG_BITS \in Nat
      BY Power, NumbersAssumption
    <3>2. Width(conv) = INT_BITS \/ Width(conv) = LONG_BITS
      BY ConvKinds
    <3> QED
      BY <1>1, <2>2, <3>1, <3>2, PowersRise
  <2> QED
    BY <1>1, <2>1, <2>2, <2>3, emit_intNumeral
<1>5. CASE conv # <<"p">> /\ Sign(conv) = "unsigned"
  <2>1. Emitted(conv, arg) = emit_uint(Taken(conv, arg), Radix(conv))
    BY <1>5, EmittedIs
  <2>2. Taken(conv, arg) \in Nat
    BY <1>1, <1>5 DEF Taken
  <2> QED
    BY <1>2, <2>1, <2>2, emit_uintDigits, DigitsNumeral
<1> QED
  BY <1>3, <1>4, <1>5, ConvKinds

-----------------------------------------------------------------------------
(***************************************************************************)
(* Numbers one after the other                                             *)
(***************************************************************************)

\* The digits of the largest base are all there are.
LEMMA DigitCharactersAre ==
  ASSUME NEW c, c \notin DigitsOf(36)
  PROVE  c \notin DigitCharacters
<1>1. \A d \in 1 .. 36 : c # Lower[d] /\ c # Upper[d]
  BY DEF DigitsOf
<1>2. /\ c # Lower[1] /\ c # Lower[2] /\ c # Lower[3] /\ c # Lower[4] /\ c # Lower[5]
      /\ c # Lower[6] /\ c # Lower[7] /\ c # Lower[8] /\ c # Lower[9] /\ c # Lower[10]
      /\ c # Lower[11] /\ c # Lower[12] /\ c # Lower[13] /\ c # Lower[14] /\ c # Lower[15]
      /\ c # Lower[16] /\ c # Lower[17] /\ c # Lower[18] /\ c # Lower[19] /\ c # Lower[20]
      /\ c # Lower[21] /\ c # Lower[22] /\ c # Lower[23] /\ c # Lower[24] /\ c # Lower[25]
      /\ c # Lower[26] /\ c # Lower[27] /\ c # Lower[28] /\ c # Lower[29] /\ c # Lower[30]
      /\ c # Lower[31] /\ c # Lower[32] /\ c # Lower[33] /\ c # Lower[34] /\ c # Lower[35]
      /\ c # Lower[36]
  BY <1>1
<1>3. /\ c # Upper[11] /\ c # Upper[12] /\ c # Upper[13] /\ c # Upper[14] /\ c # Upper[15]
      /\ c # Upper[16] /\ c # Upper[17] /\ c # Upper[18] /\ c # Upper[19] /\ c # Upper[20]
      /\ c # Upper[21] /\ c # Upper[22] /\ c # Upper[23] /\ c # Upper[24] /\ c # Upper[25]
      /\ c # Upper[26] /\ c # Upper[27] /\ c # Upper[28] /\ c # Upper[29] /\ c # Upper[30]
      /\ c # Upper[31] /\ c # Upper[32] /\ c # Upper[33] /\ c # Upper[34] /\ c # Upper[35]
      /\ c # Upper[36]
  BY <1>1
<1> QED
  BY <1>2, <1>3 DEF Lower, Upper, DigitCharacters

\* u starts with something that is no digit.
Ends(u) == Len(u) \in Nat \ {0} /\ u[1] \notin DigitCharacters

\* A number in a text is still there when the text gets longer, unless a
\* digit comes right behind it.
LEMMA ReadableLonger ==
  ASSUME NEW t, NEW u, Text(t), Text(u), NEW a, NEW i, NEW j, NEW v, NEW r,
         Readable(t, a, i, j, v, r), j <= Len(t) \/ Ends(u) \/ Len(u) = 0
  PROVE  Readable(t \o u, a, i, j, v, r)
<1> DEFINE s == t \o u
<1>1. PICK l \in Nat : l = Len(t)
  BY TextLength
<1>2. PICK m \in Nat : m = Len(u)
  BY TextLength
<1>3. /\ Len(s) = l + m
      /\ \A k \in 1 .. l : s[k] = t[k]
      /\ \A k \in 1 .. m : s[l + k] = u[k]
  BY <1>1, <1>2, TextConcat, ConcatAt
<1> HIDE DEF s
<1>4. /\ a \in 1 .. (l + 1) /\ i \in a .. l /\ j \in (i + 1) .. (l + 1)
      /\ \A k \in a .. (i - 1) : t[k] \in Blank
      /\ Char(t, j) \notin DigitCharacters
      /\ v \in Int /\ r \in 2 .. 36
  BY <1>1 DEF Readable
<1>5. /\ a \in 1 .. (Len(s) + 1) /\ i \in a .. Len(s) /\ j \in (i + 1) .. (Len(s) + 1)
      /\ Len(s) \in Nat
  BY <1>3, <1>4
<1>6. \A k \in a .. (i - 1) : s[k] \in Blank
  <2>1. \A k \in a .. (i - 1) : k \in 1 .. l
    BY <1>4
  <2> QED
    BY <1>3, <1>4, <2>1
<1>7. Char(s, j) \notin DigitCharacters
  <2>1. CASE j <= l
    <3>1. j \in 1 .. l /\ j <= Len(s)
      BY <1>3, <1>4, <2>1
    <3> QED
      BY <1>1, <1>3, <1>4, <3>1 DEF Char
  <2>2. CASE j = l + 1 /\ Ends(u)
    <3>1. 1 \in 1 .. m /\ j <= Len(s)
      BY <1>2, <1>3, <2>2 DEF Ends
    <3>2. s[j] = u[1]
      BY <1>3, <2>2, <3>1
    <3> QED
      BY <2>2, <3>1, <3>2 DEF Char, Ends
  <2>3. CASE j = l + 1 /\ m = 0
    <3>1. j = Len(s) + 1 /\ ~ (j <= Len(s))
      BY <1>3, <2>3
    <3>2. Char(s, j) = NUL
      BY <3>1 DEF Char
    <3> QED
      BY <3>2, CharactersApart
  <2> QED
    BY <1>1, <1>2, <1>4, <2>1, <2>2, <2>3
<1>8. Numeral(s, i, j, v, r)
  <2>0. PICK c \in i .. (j - 1) :
          \E h : /\ InFront(t, i, c, v, r)
                 /\ Counts(t, c, j - c, r, h) /\ h[j - c] = Size(v)
                 /\ r = 10 /\ h[1] = 0 => j - c = 1
    BY DEF Readable, Numeral
  <2>1. PICK h : /\ InFront(t, i, c, v, r)
                 /\ Counts(t, c, j - c, r, h) /\ h[j - c] = Size(v)
                 /\ r = 10 /\ h[1] = 0 => j - c = 1
    BY <2>0
  <2>2. c \in Nat /\ j - c \in Nat /\ i \in Nat
    BY <1>4
  <2>3. \A k \in 1 .. (j - c) : c + k - 1 \in 1 .. l
    BY <1>4
  <2>4. \A k \in 1 .. (j - c) : s[c + k - 1] = t[c + k - 1]
    BY <1>3, <2>3
  <2>5. Counts(s, c, j - c, r, h)
    BY <2>1, <2>2, <2>4, CountsMoved, Zenon
  <2>6. InFront(s, i, c, v, r)
    <3>1. i \in 1 .. l /\ (c = i + 2 => i + 1 \in 1 .. l)
      BY <1>4
    <3>2. s[i] = t[i] /\ (c = i + 2 => s[i + 1] = t[i + 1])
      BY <1>3, <3>1
    <3> QED
      BY <2>1, <3>2 DEF InFront
  <2> QED
    BY <2>1, <2>5, <2>6, Zenon DEF Numeral
<1>9. Readable(s, a, i, j, v, r)
  BY <1>4, <1>5, <1>6, <1>7, <1>8 DEF Readable
<1> QED
  BY <1>9 DEF s

\* A number put behind a text, with blanks in front of it.
LEMMA ReadableNew ==
  ASSUME NEW t, NEW u, Text(t), NEW v \in Int, NEW r \in 2 .. 36, NumeralText(u, v, r),
         NEW a \in 1 .. (Len(t) + 1), \A k \in a .. Len(t) : t[k] \in Blank
  PROVE  Readable(t \o u, a, Len(t) + 1, Len(t \o u) + 1, v, r)
<1> DEFINE s == t \o u
<1>1. PICK l \in Nat : l = Len(t)
  BY TextLength
<1>2. PICK m \in Nat \ {0} : m = Len(u) /\ Text(u) /\ Numeral(u, 1, m + 1, v, r)
  BY DEF NumeralText
<1>3. /\ Len(s) = l + m
      /\ \A k \in 1 .. l : s[k] = t[k]
      /\ \A k \in 1 .. m : s[l + k] = u[k]
  BY <1>1, <1>2, TextConcat, ConcatAt
<1> HIDE DEF s
<1>4. \A k \in a .. ((l + 1) - 1) : s[k] \in Blank
  <2>1. \A k \in a .. ((l + 1) - 1) : k \in 1 .. l /\ k \in a .. l
    BY <1>1
  <2> QED
    BY <1>1, <1>3, <2>1
<1>0. PICK c \in 1 .. m :
        \E h : /\ InFront(u, 1, c, v, r)
               /\ Counts(u, c, (m + 1) - c, r, h) /\ h[(m + 1) - c] = Size(v)
               /\ r = 10 /\ h[1] = 0 => (m + 1) - c = 1
  <2>1. (m + 1) - 1 = m
    OBVIOUS
  <2> QED
    BY <1>2, <2>1, Zenon DEF Numeral
<1>5. PICK h : /\ InFront(u, 1, c, v, r)
               /\ Counts(u, c, (m + 1) - c, r, h) /\ h[(m + 1) - c] = Size(v)
               /\ r = 10 /\ h[1] = 0 => (m + 1) - c = 1
  BY <1>0
<1>6. /\ l + c \in Nat /\ c \in Nat /\ (m + 1) - c \in Nat
      /\ (l + m + 1) - (l + c) = (m + 1) - c /\ l + c \in (l + 1) .. ((l + m + 1) - 1)
  OBVIOUS
<1>7. Counts(s, l + c, (m + 1) - c, r, h)
  <2>1. ASSUME NEW k \in 1 .. ((m + 1) - c) PROVE s[(l + c) + k - 1] = u[c + k - 1]
    <3>1. c + k - 1 \in 1 .. m /\ (l + c) + k - 1 = l + (c + k - 1)
      BY <1>1
    <3> QED
      BY <1>3, <3>1
  <2> QED
    BY <1>5, <1>6, <2>1, CountsMoved, Zenon
<1>8. InFront(s, l + 1, l + c, v, r)
  <2>1. s[l + 1] = u[1] /\ (c = 1 + 2 => s[(l + 1) + 1] = u[1 + 1])
    <3>1. 1 \in 1 .. m /\ (c = 1 + 2 => 2 \in 1 .. m) /\ (l + 1) + 1 = l + 2 /\ 1 + 1 = 2
      OBVIOUS
    <3> QED
      BY <1>3, <3>1
  <2> QED
    BY <1>5, <2>1 DEF InFront
<1>9. Numeral(s, l + 1, l + m + 1, v, r)
  BY <1>5, <1>6, <1>7, <1>8, Zenon DEF Numeral
<1>10. /\ Len(s) \in Nat /\ a \in 1 .. (Len(s) + 1) /\ l + 1 \in a .. Len(s)
       /\ l + m + 1 \in ((l + 1) + 1) .. (Len(s) + 1) /\ l + m + 1 = Len(s) + 1
  BY <1>1, <1>3
<1>11. Char(s, l + m + 1) \notin DigitCharacters
  <2>1. Char(s, l + m + 1) = NUL
    BY <1>10 DEF Char
  <2> QED
    BY <2>1, CharactersApart
<1>12. Readable(s, a, l + 1, l + m + 1, v, r)
  BY <1>4, <1>9, <1>10, <1>11 DEF Readable
<1> QED
  BY <1>1, <1>10, <1>12 DEF s

\* The first m of the numbers p are in the text t, one after the other; the
\* one behind them, if any, is none.
Laid(t, p, m, from, to) ==
  /\ m \in Nat /\ m <= Len(p) /\ to[0] = 1
  /\ \A j \in 1 .. m : Readable(t, to[j - 1], from[j], to[j], p[j].value, p[j].base)
  /\ m < Len(p) => p[m + 1].sign = "text"

\* Where the numbers end: in the text, and all but the last before its end.
LEMMA LaidEnds ==
  ASSUME NEW t, NEW l \in Nat, l = Len(t), NEW p, NEW m, NEW from, NEW to, Laid(t, p, m, from, to)
  PROVE  /\ \A j \in 0 .. m : to[j] \in 1 .. (l + 1)
         /\ \A j \in 0 .. (m - 1) : to[j] <= l
<1>1. ASSUME NEW j \in 1 .. m PROVE to[j] \in 1 .. (l + 1) /\ to[j - 1] <= l
  <2>1. Readable(t, to[j - 1], from[j], to[j], p[j].value, p[j].base)
    BY DEF Laid
  <2> QED
    BY <2>1 DEF Readable
<1>2. to[0] \in 1 .. (l + 1) /\ m \in Nat
  BY DEF Laid
<1>3. ASSUME NEW j \in 0 .. m PROVE to[j] \in 1 .. (l + 1)
  <2>1. j = 0 \/ j \in 1 .. m
    BY <1>2
  <2> QED
    BY <1>1, <1>2, <2>1
<1>4. ASSUME NEW j \in 0 .. (m - 1) PROVE to[j] <= l
  <2>1. j + 1 \in 1 .. m /\ (j + 1) - 1 = j
    BY <1>2
  <2>2. to[(j + 1) - 1] <= l
    BY <1>1, <2>1
  <2> QED
    BY <2>1, <2>2
<1> QED
  BY <1>3, <1>4

\* Something is put behind the text, and no number with it that counts.
LEMMA LaidSame ==
  ASSUME NEW t, Text(t), NEW u, Text(u), NEW p, Text(p), NEW q, Text(q),
         NEW m, NEW from, NEW to, Laid(t, p, m, from, to),
         m = 0 \/ to[m] <= Len(t) \/ Ends(u),
         m < Len(p) \/ Len(q) = 0 \/ q[1].sign = "text"
  PROVE  Laid(t \o u, p \o q, m, from, to)
<1>1. PICK l \in Nat : l = Len(t)
  BY TextLength
<1>2. PICK n \in Nat : n = Len(p)
  BY TextLength
<1>3. PICK k \in Nat : k = Len(q)
  BY TextLength
<1>4. /\ Len(p \o q) = n + k
      /\ \A j \in 1 .. n : (p \o q)[j] = p[j]
      /\ \A j \in 1 .. k : (p \o q)[n + j] = q[j]
  BY <1>2, <1>3, TextConcat, ConcatAt
<1>5. m \in Nat /\ m <= n /\ to[0] = 1
  BY <1>2 DEF Laid
<1>6. \A j \in 0 .. (m - 1) : to[j] <= l
  BY <1>1, LaidEnds
<1>7. ASSUME NEW j \in 1 .. m
      PROVE  Readable(t \o u, to[j - 1], from[j], to[j], (p \o q)[j].value, (p \o q)[j].base)
  <2>1. Readable(t, to[j - 1], from[j], to[j], p[j].value, p[j].base)
    BY DEF Laid
  <2>2. to[j] <= Len(t) \/ Ends(u) \/ Len(u) = 0
    <3>1. j = m \/ j \in 0 .. (m - 1)
      BY <1>5
    <3>2. m # 0
      BY <1>5
    <3> QED
      BY <1>1, <1>6, <3>1, <3>2
  <2>3. Readable(t \o u, to[j - 1], from[j], to[j], p[j].value, p[j].base)
    BY <2>1, <2>2, ReadableLonger
  <2>4. (p \o q)[j] = p[j]
    BY <1>4, <1>5
  <2> QED
    BY <2>3, <2>4
<1>8. m < n + k => (p \o q)[m + 1].sign = "text"
  <2>1. CASE m < n
    <3>1. m + 1 \in 1 .. n
      BY <1>5, <2>1
    <3>2. p[m + 1].sign = "text"
      BY <1>2, <2>1 DEF Laid
    <3> QED
      BY <1>4, <3>1, <3>2
  <2>2. CASE ~ (m < n) /\ k # 0
    <3>1. m = n /\ 1 \in 1 .. k
      BY <1>5, <2>2
    <3>2. (p \o q)[m + 1] = q[1]
      BY <1>4, <3>1
    <3>3. q[1].sign = "text"
      BY <1>2, <1>3, <2>2
    <3> QED
      BY <3>2, <3>3
  <2>3. CASE ~ (m < n) /\ k = 0
    BY <1>5, <2>3
  <2> QED
    BY <2>1, <2>2, <2>3
<1>9. m <= n + k
  BY <1>5
<1> QED
  BY <1>4, <1>5, <1>7, <1>8, <1>9 DEF Laid

LaidUpTo(t, p, m) == \E from, to : Laid(t, p, m, from, to) /\ to[m] = Len(t) + 1

\* A number is put behind a text that ends with blanks.
LEMMA LaidMore ==
  ASSUME NEW t, Text(t), NEW u, NEW p, Text(p), NEW n,
         NEW m, NEW from, NEW to, Laid(t, p, m, from, to), m = Len(p),
         m = 0 \/ to[m] <= Len(t), \A k \in to[m] .. Len(t) : t[k] \in Blank,
         n.value \in Int, n.base \in 2 .. 36, NumeralText(u, n.value, n.base)
  PROVE  LaidUpTo(t \o u, Append(p, n), m + 1)
<1> DEFINE q == Append(p, n)
           s == t \o u
<1>1. PICK l \in Nat : l = Len(t)
  BY TextLength
<1>2. m \in Nat /\ to[0] = 1
  BY DEF Laid
<1>3. Text(q) /\ Len(q) = m + 1 /\ q[m + 1] = n /\ \A k \in 1 .. m : q[k] = p[k]
  BY TextAppend
<1>4. Text(u)
  BY DEF NumeralText
<1>5. Text(s) /\ Len(s) \in Nat
  BY <1>4, TextConcat, TextLength
<1>6. to[m] \in 1 .. (l + 1) /\ \A j \in 0 .. (m - 1) : to[j] <= l
  BY <1>1, <1>2, LaidEnds
<1>7. Readable(s, to[m], l + 1, Len(s) + 1, n.value, n.base)
  BY <1>1, <1>6, ReadableNew
<1> HIDE DEF q, s
<1> DEFINE from2 == [j \in 1 .. (m + 1) |-> IF j = m + 1 THEN l + 1 ELSE from[j]]
           to2 == [j \in 0 .. (m + 1) |-> IF j = m + 1 THEN Len(s) + 1 ELSE to[j]]
<1>8. /\ from2[m + 1] = l + 1 /\ to2[m + 1] = Len(s) + 1 /\ to2[0] = 1 /\ to2[m] = to[m]
      /\ \A j \in 1 .. m : from2[j] = from[j] /\ to2[j] = to[j] /\ to2[j - 1] = to[j - 1]
  BY <1>2
<1> HIDE DEF from2, to2
<1>9. ASSUME NEW j \in 1 .. m
      PROVE  Readable(s, to2[j - 1], from2[j], to2[j], q[j].value, q[j].base)
  <2>1. Readable(t, to[j - 1], from[j], to[j], p[j].value, p[j].base)
    BY DEF Laid
  <2>2. to[j] <= Len(t)
    <3>1. j = m \/ j \in 0 .. (m - 1)
      BY <1>2
    <3>2. m # 0
      BY <1>2
    <3> QED
      BY <1>1, <1>6, <3>1, <3>2
  <2>3. Readable(s, to[j - 1], from[j], to[j], p[j].value, p[j].base)
    BY <1>4, <2>1, <2>2, ReadableLonger DEF s
  <2> QED
    BY <1>3, <1>8, <2>3
<1>10. Readable(s, to2[(m + 1) - 1], from2[m + 1], to2[m + 1], q[m + 1].value, q[m + 1].base)
  <2>1. (m + 1) - 1 = m
    BY <1>2
  <2> QED
    BY <1>3, <1>7, <1>8, <2>1
<1>11. ASSUME NEW j \in 1 .. (m + 1)
       PROVE  Readable(s, to2[j - 1], from2[j], to2[j], q[j].value, q[j].base)
  <2>1. j = m + 1 \/ j \in 1 .. m
    BY <1>2
  <2> QED
    BY <1>9, <1>10, <2>1
<1>12. m + 1 \in Nat /\ m + 1 <= Len(q) /\ ~ (m + 1 < Len(q))
  BY <1>2, <1>3
<1>13. Laid(s, q, m + 1, from2, to2)
  BY <1>8, <1>11, <1>12 DEF Laid
<1>14. LaidUpTo(s, q, m + 1)
  BY <1>8, <1>13 DEF LaidUpTo
<1> QED
  BY <1>14 DEF q, s

\* No number is in any text.
LEMMA LaidNone == ASSUME NEW t PROVE Laid(t, << >>, 0, << >>, [j \in 0 .. 0 |-> 1])
BY DEF Laid

\* One number alone.
LEMMA LaidOne ==
  ASSUME NEW n, n.value \in Int, n.base \in 2 .. 36, NEW u, NumeralText(u, n.value, n.base)
  PROVE  LaidUpTo(u, <<n>>, 1)
<1> DEFINE to == [j \in 0 .. 0 |-> 1]
<1>1. Laid(<< >>, << >>, 0, << >>, to)
  BY LaidNone
<1>2. Text(<< >>) /\ Len(<< >>) = 0
  <2>1. << >> \in Seq({})
    OBVIOUS
  <2> QED
    BY <2>1 DEF Text
<1>3. to[0] = 1 /\ \A k \in to[0] .. Len(<< >>) : (<< >>)[k] \in Blank
  BY <1>2
<1> HIDE DEF to
<1>4. LaidUpTo(<< >> \o u, Append(<< >>, n), 0 + 1)
  BY <1>1, <1>2, <1>3, LaidMore
<1>5. << >> \o u = u /\ Append(<< >>, n) = <<n>> /\ 0 + 1 = 1
  <2>1. Text(u)
    BY DEF NumeralText
  <2>2. PICK S : u \in Seq(S)
    BY <2>1 DEF Text
  <2> QED
    BY <2>2
<1> QED
  BY <1>4, <1>5

\* Among the first k turns none prints a text it is given; none prints but
\* numbers and blanks.
Open(emit, k) == \A i \in 1 .. k : TakesArgument(emit[i]) => PrintsNumber(emit[i])
Plain(emit, k) == \A i \in 1 .. k : PrintsNumber(emit[i]) \/ PrintsBlank(emit[i])

\* The condition FormatsApart makes of the turns of one format.
Apart(emit) ==
  \A k \in DOMAIN emit :
    PrintsNumber(emit[k]) /\ Open(emit, k - 1)
      => Plain(emit, k - 1) /\ (k < Len(emit) => Separates(emit[k + 1]))

\* The condition, for one format.
LEMMA FormatApart ==
  ASSUME FormatsApart, NEW f \in Formats
  PROVE  Apart(Turns(f).emit)
BY Zenon DEF FormatsApart, Apart, Open, Plain

\* What the first k turns left, t, and the numbers in it, p.
TurnsLaid(emit, k, t, p) ==
  \E m, from, to :
    /\ Laid(t, p, m, from, to)
    /\ Open(emit, k) => m = Len(p)
    /\ ~ Open(emit, k) => m < Len(p)
    /\ Plain(emit, k) => \A i \in to[m] .. Len(t) : t[i] \in Blank
    /\ m # 0 /\ to[m] = Len(t) + 1 => k # 0 /\ PrintsNumber(emit[k]) /\ Open(emit, k)

\* What one turn leaves, u, and the number in it, q.
TurnLaid(turn, u, q) ==
  /\ Text(u) /\ Text(q)
  /\ PrintsNumber(turn) =>
       \E n : q = <<n>> /\ n.value \in Int /\ n.base \in 2 .. 36 /\ NumeralText(u, n.value, n.base)
  /\ TakesArgument(turn) /\ ~ PrintsNumber(turn) => Len(q) = 1 /\ q[1].sign = "text"
  /\ ~ TakesArgument(turn) =>
       /\ Len(q) = 0
       /\ Separates(turn) => Ends(u)
       /\ PrintsBlank(turn) => Len(u) = 1 /\ u[1] \in Blank

\* One turn more.
LEMMA TurnsLaidNext ==
  ASSUME NEW emit, NEW l \in Nat, l = Len(emit), DOMAIN emit = 1 .. l, Apart(emit),
         NEW k \in 1 .. l, NEW t, Text(t), NEW p, Text(p), TurnsLaid(emit, k - 1, t, p),
         NEW u, NEW q, TurnLaid(emit[k], u, q)
  PROVE  TurnsLaid(emit, k, t \o u, p \o q)
<1>1. PICK m, from, to :
        /\ Laid(t, p, m, from, to)
        /\ Open(emit, k - 1) => m = Len(p)
        /\ ~ Open(emit, k - 1) => m < Len(p)
        /\ Plain(emit, k - 1) => \A i \in to[m] .. Len(t) : t[i] \in Blank
        /\ m # 0 /\ to[m] = Len(t) + 1 => k - 1 # 0 /\ PrintsNumber(emit[k - 1]) /\ Open(emit, k - 1)
  BY DEF TurnsLaid
<1>2. PICK a \in Nat : a = Len(t)
  BY TextLength
<1>3. PICK n \in Nat : n = Len(p)
  BY TextLength
<1>4. m \in Nat /\ m <= n /\ to[0] = 1
  BY <1>1, <1>3 DEF Laid
<1>5. to[m] \in 1 .. (a + 1)
  BY <1>1, <1>2, <1>4, LaidEnds
<1>6. Text(u) /\ Text(q)
  BY DEF TurnLaid
<1>7. PICK b \in Nat : b = Len(u)
  BY <1>6, TextLength
<1>8. PICK c \in Nat : c = Len(q)
  BY <1>6, TextLength
<1>9. /\ Len(t \o u) = a + b /\ Len(p \o q) = n + c
      /\ \A j \in 1 .. a : (t \o u)[j] = t[j]
      /\ \A j \in 1 .. b : (t \o u)[a + j] = u[j]
  BY <1>2, <1>3, <1>6, <1>7, <1>8, TextConcat, ConcatAt
<1>10. \A i \in 1 .. k : i = k \/ i \in 1 .. (k - 1)
  OBVIOUS
<1>11. /\ Open(emit, k) <=> (Open(emit, k - 1) /\ (TakesArgument(emit[k]) => PrintsNumber(emit[k])))
       /\ Plain(emit, k) => Plain(emit, k - 1) /\ (PrintsNumber(emit[k]) \/ PrintsBlank(emit[k]))
  <2>1. k \in 1 .. k /\ \A i \in 1 .. (k - 1) : i \in 1 .. k
    OBVIOUS
  <2> QED
    BY <1>10, <2>1, Zenon DEF Open, Plain
<1>12. PrintsNumber(emit[k]) => TakesArgument(emit[k])
  BY DEF PrintsNumber
\* Right behind a number comes a turn that separates.
<1>13. m # 0 /\ to[m] = a + 1 => ~ TakesArgument(emit[k]) /\ Ends(u)
  <2> SUFFICES ASSUME m # 0, to[m] = a + 1 PROVE ~ TakesArgument(emit[k]) /\ Ends(u)
    OBVIOUS
  <2>1. k - 1 # 0 /\ PrintsNumber(emit[k - 1]) /\ Open(emit, k - 1)
    BY <1>1, <1>2
  <2>2. k - 1 \in DOMAIN emit /\ k - 1 < Len(emit) /\ (k - 1) + 1 = k
    BY <2>1
  <2>3. Open(emit, (k - 1) - 1)
    <3>1. \A i \in 1 .. ((k - 1) - 1) : i \in 1 .. (k - 1)
      OBVIOUS
    <3> QED
      BY <2>1, <3>1, Zenon DEF Open
  <2>4. Separates(emit[(k - 1) + 1])
    BY <2>1, <2>2, <2>3, Zenon DEF Apart
  <2>5. Separates(emit[k])
    BY <2>2, <2>4
  <2>6. ~ TakesArgument(emit[k])
    BY <2>5 DEF Separates
  <2> QED
    BY <2>5, <2>6 DEF TurnLaid
<1>14. m = 0 \/ to[m] <= Len(t) \/ Ends(u)
  BY <1>2, <1>5, <1>13
<1>15. CASE PrintsNumber(emit[k]) /\ Open(emit, k - 1)
  <2>1. PICK x : q = <<x>> /\ x.value \in Int /\ x.base \in 2 .. 36 /\ NumeralText(u, x.value, x.base)
    BY <1>15 DEF TurnLaid
  <2>2. p \o q = Append(p, x)
    <3>1. PICK S : p \in Seq(S)
      BY DEF Text
    <3>2. p \in Seq(S \cup {x})
      BY <3>1
    <3> QED
      BY <2>1, <3>2
  <2>3. Plain(emit, k - 1)
    BY <1>15 DEF Apart
  <2>4. m = Len(p) /\ (m = 0 \/ to[m] <= Len(t))
    BY <1>1, <1>2, <1>5, <1>12, <1>13, <1>15
  <2>5. LaidUpTo(t \o u, Append(p, x), m + 1)
    BY <1>1, <2>1, <2>3, <2>4, LaidMore
  <2>6. PICK from2, to2 : Laid(t \o u, p \o q, m + 1, from2, to2) /\ to2[m + 1] = Len(t \o u) + 1
    BY <2>2, <2>5, Zenon DEF LaidUpTo
  <2>7. Open(emit, k)
    BY <1>11, <1>15
  <2>8. m + 1 = Len(p \o q)
    BY <2>2, <2>4, TextAppend
  <2>9. \A i \in to2[m + 1] .. Len(t \o u) : (t \o u)[i] \in Blank
    BY <1>9, <2>6
  <2>10. k # 0
    OBVIOUS
  <2> QED
    BY <1>15, <2>6, <2>7, <2>8, <2>9, <2>10, Zenon DEF TurnsLaid
<1>16. CASE ~ (PrintsNumber(emit[k]) /\ Open(emit, k - 1))
  <2>1. m < Len(p) \/ Len(q) = 0 \/ q[1].sign = "text"
    <3>1. CASE Open(emit, k - 1)
      BY <1>16, <3>1 DEF TurnLaid
    <3>2. CASE ~ Open(emit, k - 1)
      BY <1>1, <3>2
    <3> QED
      BY <3>1, <3>2
  <2>2. Laid(t \o u, p \o q, m, from, to)
    BY <1>1, <1>6, <1>14, <2>1, LaidSame
  <2>3. Open(emit, k) => m = Len(p \o q)
    <3>1. ASSUME Open(emit, k) PROVE m = n + c
      <4>1. Open(emit, k - 1) /\ ~ TakesArgument(emit[k])
        BY <1>11, <1>16, <3>1
      <4>2. Len(q) = 0
        BY <4>1 DEF TurnLaid
      <4> QED
        BY <1>1, <1>3, <1>8, <4>1, <4>2
    <3> QED
      BY <1>9, <3>1
  <2>4. ~ Open(emit, k) => m < Len(p \o q)
    <3>1. ASSUME ~ Open(emit, k) PROVE m < n + c
      <4>1. CASE ~ Open(emit, k - 1)
        BY <1>1, <1>3, <1>4, <4>1
      <4>2. CASE Open(emit, k - 1)
        <5>1. TakesArgument(emit[k]) /\ ~ PrintsNumber(emit[k])
          BY <1>11, <3>1, <4>2
        <5>2. c = 1
          BY <1>8, <5>1 DEF TurnLaid
        <5> QED
          BY <1>4, <5>2
      <4> QED
        BY <4>1, <4>2
    <3> QED
      BY <1>9, <3>1
  <2>5. Plain(emit, k) => \A i \in to[m] .. Len(t \o u) : (t \o u)[i] \in Blank
    <3>1. ASSUME Plain(emit, k), NEW i \in to[m] .. (a + b) PROVE (t \o u)[i] \in Blank
      <4>1. Plain(emit, k - 1)
        BY <1>11, <3>1
      <4>2. Open(emit, k - 1)
        <5>1. ASSUME NEW h \in 1 .. (k - 1), TakesArgument(emit[h]) PROVE PrintsNumber(emit[h])
          <6>1. PrintsNumber(emit[h]) \/ PrintsBlank(emit[h])
            BY <4>1 DEF Plain
          <6>2. ~ PrintsBlank(emit[h])
            BY <5>1 DEF PrintsBlank, TakesArgument
          <6> QED
            BY <6>1, <6>2
        <5> QED
          BY <5>1 DEF Open
      <4>3. PrintsBlank(emit[k])
        BY <1>11, <1>16, <3>1, <4>2
      <4>4. ~ TakesArgument(emit[k])
        BY <4>3 DEF PrintsBlank, TakesArgument
      <4>5. b = 1 /\ u[1] \in Blank
        BY <1>7, <4>3, <4>4 DEF TurnLaid
      <4>6. CASE i <= a
        <5>1. i \in 1 .. a /\ i \in to[m] .. a
          BY <1>5, <4>6
        <5> QED
          BY <1>1, <1>2, <1>9, <4>1, <5>1
      <4>7. CASE i = a + 1
        <5>1. 1 \in 1 .. b
          BY <4>5
        <5> QED
          BY <1>9, <4>5, <4>7, <5>1
      <4>8. i <= a \/ i = a + 1
        <5>1. b = 1
          BY <4>5
        <5>2. to[m] \in Nat
          BY <1>5
        <5> QED
          BY <5>1, <5>2
      <4> QED
        BY <4>6, <4>7, <4>8
    <3> QED
      BY <1>9, <3>1
  <2>6. m # 0 => to[m] # Len(t \o u) + 1
    <3>1. m # 0 => to[m] <= a \/ (to[m] = a + 1 /\ b # 0)
      <4>1. Ends(u) => b # 0
        BY <1>7 DEF Ends
      <4> QED
        BY <1>5, <1>13, <4>1
    <3> QED
      BY <1>5, <1>9, <3>1
  <2> QED
    BY <2>2, <2>3, <2>4, <2>5, <2>6, Zenon DEF TurnsLaid
<1> QED
  BY <1>15, <1>16

\* Every turn leaves what it should.
LEMMA TurnIsLaid ==
  ASSUME NEW turn, turn.kind \in {"conversion", "text"}, Text(turn.chars), NEW arg \in Passed(turn)
  PROVE  TurnLaid(turn, LeftBy(turn, arg), Printed(turn, arg))
<1> DEFINE u == LeftBy(turn, arg)
           q == Printed(turn, arg)
<1>1. Text(u) /\ (PrintsNumber(turn) => turn.kind = "conversion" /\ Numeric(turn.chars) /\ arg \in Int)
  BY PieceText
<1>2. ASSUME PrintsNumber(turn)
      PROVE  \E n : q = <<n>> /\ n.value \in Int /\ n.base \in 2 .. 36 /\ NumeralText(u, n.value, n.base)
  <2> DEFINE v == Taken(turn.chars, arg)
             s == Sign(turn.chars)
             r == Radix(turn.chars)
  <2>1. q = <<Number(v, s, r)>>
    BY <1>2, Zenon DEF Printed, PrintsNumber
  <2>2. u = Emitted(turn.chars, arg)
    <3>1. turn.kind # "text"
      BY <1>1, <1>2
    <3> QED
      BY <3>1, Zenon DEF LeftBy
  <2>3. NumeralText(u, v, r)
    BY <1>1, <1>2, <2>2, EmittedNumeral
  <2>4. v \in Int /\ r \in 2 .. 36
    BY <1>1, <1>2, ConvKinds, Bounds DEF Taken
  <2> HIDE DEF u, q, v, s, r
  <2>5. Number(v, s, r).value = v /\ Number(v, s, r).base = r
    BY DEF Number
  <2> QED
    BY <2>1, <2>3, <2>4, <2>5
<1>3. ASSUME TakesArgument(turn), ~ PrintsNumber(turn)
      PROVE  Len(q) = 1 /\ q[1].sign = "text" /\ Text(q)
  <2>1. q = <<Number(0, "text", 0)>>
    BY <1>3, Zenon DEF Printed, PrintsNumber
  <2> HIDE DEF q
  <2>2. Number(0, "text", 0).sign = "text"
    BY DEF Number
  <2> QED
    BY <2>1, <2>2, TextOne
<1>4. ASSUME ~ TakesArgument(turn)
      PROVE  /\ Len(q) = 0 /\ Text(q)
             /\ Separates(turn) => Ends(u)
             /\ PrintsBlank(turn) => Len(u) = 1 /\ u[1] \in Blank
  <2>1. q = << >>
    BY <1>4, Zenon DEF Printed
  <2>2. << >> \in Seq({}) /\ Len(<< >>) = 0
    OBVIOUS
  <2>3. Separates(turn) => Ends(u)
    <3>1. arg = None
      BY <1>4 DEF Passed
    <3>2. Separates(turn) => u # << >> /\ u[1] \notin DigitsOf(36)
      BY <3>1, Zenon DEF Separates, LeftBy
    <3> HIDE DEF u
    <3>3. Len(u) \in Nat /\ (u = << >> <=> Len(u) = 0)
      BY <1>1, TextLength, TextEmpty
    <3> QED
      BY <3>2, <3>3, DigitCharactersAre DEF Ends
  <2>4. PrintsBlank(turn) => Len(u) = 1 /\ u[1] \in Blank
    <3> SUFFICES ASSUME PrintsBlank(turn) PROVE Len(u) = 1 /\ u[1] \in Blank
      OBVIOUS
    <3>1. PICK c \in Blank : turn.kind = "text" /\ turn.chars = <<c>>
      BY DEF PrintsBlank
    <3>2. u = <<c>>
      BY <3>1 DEF LeftBy
    <3> HIDE DEF u
    <3> QED
      BY <3>2
  <2> HIDE DEF u, q
  <2> QED
    BY <2>1, <2>2, <2>3, <2>4 DEF Text
<1>5. Text(q)
  <2>1. ASSUME PrintsNumber(turn) PROVE Text(q)
    BY <1>2, <2>1, TextOne
  <2> QED
    BY <1>3, <1>4, <2>1
<1> HIDE DEF u, q
<1> QED
  <2>1. TurnLaid(turn, u, q)
    BY <1>1, <1>2, <1>3, <1>4, <1>5, Zenon DEF TurnLaid
  <2> QED
    BY <2>1 DEF u, q

\* The numbers p are in the text t, up to the first that is none.
SomeLaid(t, p) == \E m, from, to : Laid(t, p, m, from, to)

\* So are vsprintf's, whatever it is given.
LEMMA vsprintfLaid ==
  ASSUME NEW emit, NEW l \in Nat, l = Len(emit), DOMAIN emit = 1 .. l, Apart(emit),
         NEW f, NEW g, Text(f), Text(g), Len(f) = l, Len(g) = l,
         \A k \in 1 .. l : TurnLaid(emit[k], f[k], g[k])
  PROVE  SomeLaid(FlattenSeq(f), FlattenSeq(g)) /\ Text(FlattenSeq(g))
<1>1. \A k \in 1 .. l : Text(f[k]) /\ Text(g[k])
  BY DEF TurnLaid
<1>2. PICK F : Grown(f, l, F) /\ FlattenSeq(f) = F[l]
  BY <1>1, FlattenGrown
<1>3. PICK G : Grown(g, l, G) /\ FlattenSeq(g) = G[l]
  BY <1>1, FlattenGrown
<1> DEFINE T == {k \in 0 .. l : TurnsLaid(emit, k, F[k], G[k])}
<1>4. 0 \in T
  <2>1. F[0] = << >> /\ G[0] = << >>
    BY <1>2, <1>3 DEF Grown
  <2> DEFINE to == [j \in 0 .. 0 |-> 1]
  <2>2. Laid(<< >>, << >>, 0, << >>, to)
    BY LaidNone
  <2>3. Open(emit, 0)
    BY DEF Open
  <2>4. Len(<< >>) = 0 /\ to[0] = 1
    OBVIOUS
  <2> HIDE DEF to
  <2>5. \A i \in to[0] .. Len(<< >>) : (<< >>)[i] \in Blank
    BY <2>4
  <2>6. TurnsLaid(emit, 0, << >>, << >>)
    BY <2>2, <2>3, <2>4, <2>5, Zenon DEF TurnsLaid
  <2> QED
    BY <2>1, <2>6
<1>5. ASSUME NEW k \in 1 .. l, k - 1 \in T PROVE k \in T
  <2>1. TurnsLaid(emit, k - 1, F[k - 1], G[k - 1])
    BY <1>5
  <2>2. k - 1 \in 0 .. l
    OBVIOUS
  <2>3. Text(F[k - 1]) /\ Text(G[k - 1])
    BY <1>2, <1>3, <2>2 DEF Grown
  <2>4. F[k] = F[k - 1] \o f[k] /\ G[k] = G[k - 1] \o g[k]
    BY <1>2, <1>3 DEF Grown
  <2>5. TurnsLaid(emit, k, F[k - 1] \o f[k], G[k - 1] \o g[k])
    BY <2>1, <2>3, TurnsLaidNext
  <2>6. k \in 0 .. l
    OBVIOUS
  <2> QED
    BY <2>4, <2>5, <2>6
<1>6. T \in SUBSET (0 .. l)
  OBVIOUS
<1>7. l \in T
  <2> HIDE DEF T
  <2>1. T = 0 .. l
    BY <1>4, <1>5, <1>6, Induction
  <2> QED
    BY <2>1
<1>8. SomeLaid(F[l], G[l])
  BY <1>7, Zenon DEF TurnsLaid, SomeLaid
<1>9. Text(G[l])
  BY <1>3 DEF Grown
<1> QED
  BY <1>2, <1>3, <1>8, <1>9

-----------------------------------------------------------------------------
(***************************************************************************)
(* The calls                                                               *)
(***************************************************************************)

\* The next call starts in the text or behind it, and no format is overrun.
IInv ==
  /\ Text(buf) /\ Text(reads)
  /\ at \in Nat \ {0}
  /\ FormatReadToEnd
  /\ EndsAfterNumber

LEMMA InitKeeps == Init => IInv
<1> SUFFICES ASSUME Init PROVE IInv
  OBVIOUS
<1>1. buf \in Seq(STRING) /\ at = 1 /\ stopped = 1 /\ reads = << >>
  BY NumbersAssumption DEF Init
<1>2. << >> \in Seq({})
  OBVIOUS
<1> QED
  BY <1>1, <1>2 DEF IInv, Text, FormatReadToEnd, EndsAfterNumber

LEMMA FillKeeps ==
  ASSUME IInv, NEW text, Text(text), NEW numbers, Fill(text, numbers), stopped' = 1
  PROVE  IInv'
<1>1. buf' = text /\ at' = 1 /\ reads' = << >> /\ reads = << >>
  BY DEF Fill
<1>2. Text(reads')
  BY <1>1 DEF IInv
<1>3. EndsAfterNumber'
  BY <1>1 DEF EndsAfterNumber
<1>4. Text(buf')
  BY <1>1
<1> QED
  BY <1>1, <1>2, <1>3, <1>4 DEF IInv, FormatReadToEnd

LEMMA ReadKeeps ==
  ASSUME IInv, NEW value, NEW sign, NEW bits, NEW base, NEW end \in Nat \ {0},
         Read(value, sign, bits, base, end),
         end <= Len(buf) + 1 =>
           /\ IsNumber(buf, at, end, base)
           /\ \A j \in (end + 1) .. (Len(buf) + 1) : ~ IsNumber(buf, at, j, base)
  PROVE  IInv'
<1> DEFINE r == [value |-> value, sign |-> sign, bits |-> bits, base |-> base,
                 from |-> at, end |-> end]
<1>1. /\ reads' = Append(reads, r) /\ at' = end
      /\ buf' = buf /\ stopped' = stopped
  BY DEF Read
<1>2. r.from = at /\ r.end = end /\ r.base = base
  OBVIOUS
<1> HIDE DEF r
<1>3. Text(reads') /\ Len(reads') = Len(reads) + 1 /\ reads'[Len(reads) + 1] = r
  BY <1>1, TextAppend DEF IInv
<1>4. Last(reads') = r
  BY <1>3 DEF Last
<1>5. EndsAfterNumber'
  BY <1>1, <1>2, <1>4 DEF EndsAfterNumber
<1>6. Text(buf')
  BY <1>1 DEF IInv
<1> QED
  BY <1>1, <1>3, <1>5, <1>6 DEF IInv, FormatReadToEnd

LEMMA itoaKeeps ==
  ASSUME IInv, NEW v \in Values, NEW b \in Bases, itoa(Signed(v, INT_BITS), b)
  PROVE  IInv'
<1>1. Signed(v, INT_BITS) \in Int /\ b \in Int
  BY Widths, NumbersAssumption
<1>2. Text(ItoaText(Signed(v, INT_BITS), b))
  BY <1>1, ItoaTextIsText
<1>3. stopped' = 1
  BY DEF itoa, IInv, FormatReadToEnd
<1> QED
  BY <1>2, <1>3, FillKeeps DEF itoa

LEMMA sprintfKeeps ==
  ASSUME IInv, NEW f \in Formats, NEW args \in ArgumentLists(Turns(f).emit), sprintf(f, args)
  PROVE  IInv'
<1>1. Text(vsprintf(f, args)) /\ Turns(f).stop = Len(f) + 1
  BY vsprintfText
<1>2. Len(f) \in Nat
  BY NumbersAssumption
<1>3. PICK numbers : Fill(vsprintf(f, args), numbers)
  BY Zenon DEF sprintf
<1>4. stopped' = Turns(f).stop - Len(f)
  BY Zenon DEF sprintf
<1>5. stopped' = 1
  BY <1>1, <1>2, <1>4
<1> QED
  BY <1>1, <1>3, <1>5, FillKeeps

LEMMA LogKeeps ==
  ASSUME IInv, NEW v \in Values, Log(Unsigned(v, LONG_BITS))
  PROVE  IInv'
<1> DEFINE u == Unsigned(v, LONG_BITS)
<1>1. u \in Nat
  BY Widths, NumbersAssumption
<1> HIDE DEF u
<1>2. Text(serial_put_hex(u)) /\ Text(serial_put_dec(u))
  BY <1>1, serial_put_hexText, serial_put_decText
<1>3. stopped' = 1
  BY DEF Log, IInv, FormatReadToEnd
<1>4. \/ Fill(serial_put_hex(u), <<Number(u, "unsigned", 16)>>)
      \/ Fill(serial_put_dec(u), <<Number(u, "unsigned", 10)>>)
  BY Zenon DEF Log, u
<1> QED
  BY <1>2, <1>3, <1>4, FillKeeps

LEMMA ReadDecimalKeeps ==
  ASSUME IInv, NEW bits, ReadDecimal(bits)
  PROVE  IInv'
<1>1. Len(buf) \in Nat
  BY TextLength DEF IInv
<1>2. Len(buf) + 2 \in Nat \ {0} /\ ~ (Len(buf) + 2 <= Len(buf) + 1)
  BY <1>1
<1> QED
  BY <1>2, ReadKeeps DEF ReadDecimal

LEMMA ReadLongKeeps ==
  ASSUME IInv, NEW b \in {0} \cup 2 .. 36, ReadLong(b)
  PROVE  IInv'
<1> DEFINE end == Scan(buf, at, b).end
<1>1. PICK value, sign : Read(value, sign, LONG_BITS, b, end)
  <2>1. strtol(buf, at, b).end = end /\ strtoul(buf, at, b).end = end
    BY DEF strtol, strtoul, Scan
  <2> QED
    BY <2>1, Zenon DEF ReadLong
<1>2. Len(buf) \in Nat /\ at \in 1 .. (Len(buf) + 1)
  <2>1. Len(buf) \in Nat /\ at \in Nat \ {0}
    BY TextLength DEF IInv
  <2>2. at <= Len(buf) + 1
    BY <1>1 DEF Read
  <2> QED
    BY <2>1, <2>2
<1>3. /\ end \in at .. (Len(buf) + 1)
      /\ IsNumber(buf, at, end, b)
      /\ \A j \in (end + 1) .. (Len(buf) + 1) : ~ IsNumber(buf, at, j, b)
  BY <1>2, ScanEnds
<1> HIDE DEF end
<1>4. end \in Nat \ {0}
  BY <1>2, <1>3
<1> QED
  BY <1>1, <1>3, <1>4, ReadKeeps

LEMMA NextKeeps == IInv /\ [Next]_vars => IInv'
<1> SUFFICES ASSUME IInv, [Next]_vars PROVE IInv'
  OBVIOUS
<1>1. CASE \E v \in Values, b \in Bases : itoa(Signed(v, INT_BITS), b)
  BY <1>1, itoaKeeps
<1>2. CASE \E f \in Formats : \E args \in ArgumentLists(Turns(f).emit) : sprintf(f, args)
  BY <1>2, sprintfKeeps
<1>3. CASE \E v \in Values : Log(Unsigned(v, LONG_BITS))
  BY <1>3, LogKeeps
<1>4. CASE \E bits \in {INT_BITS, LONG_BITS} : ReadDecimal(bits)
  BY <1>4, ReadDecimalKeeps
<1>5. CASE \E b \in Bases : b \in {0} \cup 2 .. 36 /\ ReadLong(b)
  BY <1>5, ReadLongKeeps
<1>6. CASE UNCHANGED vars
  BY <1>6 DEF vars, IInv, FormatReadToEnd, EndsAfterNumber
<1> QED
  BY <1>1, <1>2, <1>3, <1>4, <1>5, <1>6 DEF Next

LEMMA InductiveCorrect == Spec => []IInv
<1>1. Init => IInv
  BY InitKeeps
<1>2. IInv /\ [Next]_vars => IInv'
  BY NextKeeps
<1> QED
  BY <1>1, <1>2, PTL DEF Spec

(* For any texts, any bases the functions take and any width, the end      *)
(* pointer of strtol and strtoul marks the longest piece of the text that  *)
(* is a number in the base asked for (stdlib.c, strtol and strtoul).       *)
THEOREM EndsAfterNumberCorrect == Spec => []EndsAfterNumber
<1>1. IInv => EndsAfterNumber
  BY DEF IInv
<1> QED
  BY <1>1, InductiveCorrect, PTL

(* vsprintf reads any format to its 0 and never on (stdio.c, vsprintf).    *)
THEOREM FormatReadToEndCorrect == Spec => []FormatReadToEnd
<1>1. IInv => FormatReadToEnd
  BY DEF IInv
<1> QED
  BY <1>1, InductiveCorrect, PTL

-----------------------------------------------------------------------------
(***************************************************************************)
(* What is printed is read back                                            *)
(***************************************************************************)

\* The reads up to the k-th can give the numbers that were printed.
Fair(k) ==
  /\ k \in DOMAIN printed
  /\ \A j \in 1 .. k : /\ printed[j].sign # "text"
                       /\ InRange(printed[j], reads[j]) /\ SameBase(printed[j], reads[j])

\* As long as they do, the next call starts right behind the last number.
InStep(m, to) ==
  Len(reads) = 0 \/ Fair(Len(reads))
    => at > Len(buf) + 1 \/ (Len(reads) <= m /\ at = to[Len(reads)])

BackInv ==
  /\ Text(printed)
  /\ ReadsBack
  /\ \E m, from, to : Laid(buf, printed, m, from, to) /\ InStep(m, to)

\* Numbers printed into the buffer are there to be read.
LEMMA FillBack ==
  ASSUME NEW text, NEW numbers, Text(numbers), SomeLaid(text, numbers), Fill(text, numbers)
  PROVE  BackInv'
<1>1. buf' = text /\ at' = 1 /\ printed' = numbers /\ reads' = << >>
  BY DEF Fill
<1>2. PICK m, from, to : Laid(text, numbers, m, from, to)
  BY DEF SomeLaid
<1>3. m \in Nat /\ to[0] = 1
  BY <1>2 DEF Laid
<1>4. Laid(buf', printed', m, from, to)
  BY <1>1, <1>2
<1>5. InStep(m, to)'
  BY <1>1, <1>3 DEF InStep
<1>6. ReadsBack'
  BY <1>1 DEF ReadsBack
<1>7. Text(printed')
  BY <1>1
<1> QED
  BY <1>4, <1>5, <1>6, <1>7, Zenon DEF BackInv

Fits(v, sign, bits) == (IF sign = "signed" THEN Signed(v, bits) ELSE Unsigned(v, bits)) = v

\* What a read that starts at a number gives.
Gives(value, sign, bits, base, end) ==
  \A i, j, v, r :
    Readable(buf, at, i, j, v, r) /\ Fits(v, sign, bits) /\ (base = r \/ (base = 0 /\ r = 10))
      => value = v /\ (end = j \/ end > Len(buf) + 1)

\* A read that gives the number it starts at keeps step.
LEMMA ReadBack ==
  ASSUME IInv, BackInv, NEW value, NEW sign, NEW bits, NEW base, NEW end,
         Read(value, sign, bits, base, end), Gives(value, sign, bits, base, end)
  PROVE  BackInv'
<1> DEFINE x == [value |-> value, sign |-> sign, bits |-> bits, base |-> base,
                 from |-> at, end |-> end]
<1>1. /\ reads' = Append(reads, x) /\ at' = end
      /\ buf' = buf /\ printed' = printed /\ at <= Len(buf) + 1
  BY DEF Read
<1>2. x.value = value /\ x.sign = sign /\ x.bits = bits /\ x.base = base
  OBVIOUS
<1> HIDE DEF x
<1>3. PICK n \in Nat : n = Len(reads) /\ DOMAIN reads = 1 .. n
  BY TextLength DEF IInv
<1>4. /\ Text(reads') /\ Len(reads') = n + 1 /\ reads'[n + 1] = x
      /\ \A k \in 1 .. n : reads'[k] = reads[k]
  BY <1>1, <1>3, TextAppend DEF IInv
<1>5. DOMAIN reads' = 1 .. (n + 1)
  BY <1>4, TextLength
<1>6. PICK l \in Nat : l = Len(printed) /\ DOMAIN printed = 1 .. l
  BY TextLength DEF BackInv
<1>7. PICK m, from, to : Laid(buf, printed, m, from, to) /\ InStep(m, to)
  BY DEF BackInv
<1>8. /\ m \in Nat /\ m <= l
      /\ \A j \in 1 .. m : Readable(buf, to[j - 1], from[j], to[j], printed[j].value, printed[j].base)
      /\ m < l => printed[m + 1].sign = "text"
  BY <1>6, <1>7 DEF Laid
<1>9. PICK b \in Nat : b = Len(buf)
  BY TextLength DEF IInv
<1>10. at \in Nat
  BY DEF IInv
\* The new read gives the number.
<1>11. ASSUME Fair(n + 1)'
       PROVE  /\ value = printed[n + 1].value /\ n + 1 <= m
              /\ end = to[n + 1] \/ end > Len(buf) + 1
  <2>1. n + 1 \in 1 .. l
    BY <1>1, <1>6, <1>11 DEF Fair
  <2>2. \A j \in 1 .. (n + 1) : /\ printed[j].sign # "text"
                                /\ InRange(printed[j], reads'[j]) /\ SameBase(printed[j], reads'[j])
    BY <1>1, <1>11 DEF Fair, InRange, SameBase
  <2>3. n = 0 \/ Fair(n)
    <3>1. ASSUME n # 0 PROVE n \in 1 .. l
      BY <2>1, <3>1
    <3>2. ASSUME NEW j \in 1 .. n
          PROVE  /\ printed[j].sign # "text"
                 /\ InRange(printed[j], reads[j]) /\ SameBase(printed[j], reads[j])
      <4>1. j \in 1 .. (n + 1) /\ reads'[j] = reads[j]
        BY <1>4
      <4> QED
        BY <2>2, <4>1
    <3> QED
      BY <1>6, <3>1, <3>2, Zenon DEF Fair
  <2>4. n <= m /\ at = to[n]
    BY <1>1, <1>3, <1>7, <1>9, <1>10, <2>3 DEF InStep
  <2>5. n + 1 \in 1 .. (n + 1)
    OBVIOUS
  <2>6. n + 1 \in 1 .. m
    <3>1. n # m
      <4>1. ASSUME n = m PROVE FALSE
        <5>1. m < l
          BY <2>1, <4>1
        <5> QED
          BY <1>8, <2>2, <2>5, <4>1, <5>1
      <4> QED
        BY <4>1
    <3> QED
      BY <1>8, <2>4, <3>1
  <2>7. Readable(buf, at, from[n + 1], to[n + 1], printed[n + 1].value, printed[n + 1].base)
    <3>1. (n + 1) - 1 = n
      OBVIOUS
    <3> QED
      BY <1>8, <2>4, <2>6, <3>1
  <2>8. InRange(printed[n + 1], x) /\ SameBase(printed[n + 1], x)
    BY <1>4, <2>2, <2>5
  <2>9. Fits(printed[n + 1].value, sign, bits)
    BY <1>2, <2>8, Zenon DEF InRange, Fits
  <2>10. base = printed[n + 1].base \/ (base = 0 /\ printed[n + 1].base = 10)
    BY <1>2, <2>8 DEF SameBase
  <2>11. value = printed[n + 1].value /\ (end = to[n + 1] \/ end > Len(buf) + 1)
    BY <2>7, <2>9, <2>10, Zenon DEF Gives
  <2> QED
    BY <2>6, <2>11
<1>12. ReadsBack'
  <2> SUFFICES ASSUME NEW k \in DOMAIN reads' \cap DOMAIN printed',
                      \A j \in 1 .. k :
                        /\ printed'[j].sign # "text"
                        /\ InRange(printed'[j], reads'[j]) /\ SameBase(printed'[j], reads'[j])
               PROVE  reads'[k].value = printed'[k].value
    BY DEF ReadsBack, InRange, SameBase
  <2>1. k \in 1 .. (n + 1) /\ k \in DOMAIN printed
    BY <1>1, <1>5
  <2>2. CASE k = n + 1
    <3>1. Fair(n + 1)'
      BY <1>1, <2>1, <2>2 DEF Fair, InRange, SameBase
    <3> QED
      BY <1>1, <1>2, <1>4, <1>11, <2>2, <3>1
  <2>3. CASE k # n + 1
    <3>1. k \in 1 .. n
      BY <2>1, <2>3
    <3>2. \A j \in 1 .. k : reads'[j] = reads[j]
      BY <1>4, <3>1
    <3>3. \A j \in 1 .. k : /\ printed[j].sign # "text"
                            /\ InRange(printed[j], reads[j]) /\ SameBase(printed[j], reads[j])
      BY <1>1, <3>2
    <3>4. reads[k].value = printed[k].value
      BY <1>3, <2>1, <3>1, <3>3, Zenon DEF BackInv, ReadsBack
    <3> QED
      BY <1>1, <1>4, <3>1, <3>4
  <2> QED
    BY <2>2, <2>3
<1>13. InStep(m, to)'
  <2>1. ASSUME Fair(n + 1)'
        PROVE  end > Len(buf) + 1 \/ (n + 1 <= m /\ end = to[n + 1])
    BY <1>11, <2>1
  <2>2. n + 1 # 0
    OBVIOUS
  <2> QED
    BY <1>1, <1>4, <2>1, <2>2 DEF InStep
<1>14. Laid(buf', printed', m, from, to) /\ Text(printed')
  BY <1>1, <1>7 DEF BackInv
<1> QED
  BY <1>12, <1>13, <1>14, Zenon DEF BackInv

\* A number in the range of a reading function fits its width.
LEMMA FitsSize ==
  ASSUME NEW v \in Int, NEW sign, NEW bits \in {INT_BITS, LONG_BITS}, Fits(v, sign, bits)
  PROVE  Size(v) < 2 ^ bits /\ Size(v) < 2 ^ LONG_BITS
<1>1. /\ Unsigned(v, bits) \in Nat /\ Unsigned(v, bits) < 2 ^ bits
      /\ Size(Signed(v, bits)) < 2 ^ bits
  BY Bounds
<1>2. v = Signed(v, bits) \/ v = Unsigned(v, bits)
  BY Zenon DEF Fits
<1>3. v \in Nat => Size(v) = v
  BY DEF Size
<1>4. Size(v) < 2 ^ bits
  BY <1>1, <1>2, <1>3
<1>5. 2 ^ INT_BITS \in Nat /\ 2 ^ LONG_BITS \in Nat
  BY Power, NumbersAssumption
<1>6. Size(v) \in Nat
  BY SizeType
<1>7. bits = INT_BITS \/ bits = LONG_BITS
  OBVIOUS
<1> QED
  BY <1>4, <1>5, <1>6, <1>7, PowersRise

\* atoi, atol and atoll.
LEMMA ReadDecimalBack ==
  ASSUME IInv, BackInv, NEW bits \in {INT_BITS, LONG_BITS}, ReadDecimal(bits)
  PROVE  BackInv'
<1>1. Read(atoi(buf, at, bits), "signed", bits, 10, Len(buf) + 2)
  BY Zenon DEF ReadDecimal
<1>2. PICK b \in Nat : b = Len(buf)
  BY TextLength DEF IInv
<1>3. ASSUME NEW i, NEW j, NEW v, NEW r, Readable(buf, at, i, j, v, r), Fits(v, "signed", bits),
             10 = r \/ (10 = 0 /\ r = 10)
      PROVE  atoi(buf, at, bits) = v
  <2>1. v \in Int /\ r = 10
    BY <1>3 DEF Readable
  <2>2. Size(v) < 2 ^ bits
    BY <1>3, <2>1, FitsSize
  <2>3. atoi(buf, at, bits) = Signed(v, bits)
    BY <1>3, <2>1, <2>2, atoiReads
  <2>4. Signed(v, bits) = v
    BY <1>3, Zenon DEF Fits
  <2> QED
    BY <2>3, <2>4
<1>4. Len(buf) + 2 > Len(buf) + 1
  BY <1>2
<1>5. Gives(atoi(buf, at, bits), "signed", bits, 10, Len(buf) + 2)
  BY <1>3, <1>4, Zenon DEF Gives
<1> QED
  BY <1>1, <1>5, ReadBack

\* strtol and strtoul.
LEMMA ReadLongBack ==
  ASSUME IInv, BackInv, NEW b, ReadLong(b)
  PROVE  BackInv'
<1>1. /\ strtol(buf, at, b).end = Scan(buf, at, b).end
      /\ strtol(buf, at, b).value = Signed(Scan(buf, at, b).value, LONG_BITS)
      /\ strtoul(buf, at, b).end = Scan(buf, at, b).end
      /\ strtoul(buf, at, b).value = Unsigned(Scan(buf, at, b).value, LONG_BITS)
  BY DEF strtol, strtoul, Scan
<1>2. ASSUME NEW i, NEW j, NEW v, NEW r, NEW sign, Readable(buf, at, i, j, v, r),
             Fits(v, sign, LONG_BITS), b = r \/ (b = 0 /\ r = 10)
      PROVE  Scan(buf, at, b).end = j /\ Scan(buf, at, b).value = v
  <2>1. v \in Int
    BY <1>2 DEF Readable
  <2>2. Size(v) < 2 ^ LONG_BITS
    BY <1>2, <2>1, FitsSize
  <2> QED
    BY <1>2, <2>2, ScanReads
<1>3. Gives(strtol(buf, at, b).value, "signed", LONG_BITS, b, strtol(buf, at, b).end)
  <2> SUFFICES ASSUME NEW i, NEW j, NEW v, NEW r, Readable(buf, at, i, j, v, r),
                      Fits(v, "signed", LONG_BITS), b = r \/ (b = 0 /\ r = 10)
               PROVE  strtol(buf, at, b).value = v /\ strtol(buf, at, b).end = j
    BY Zenon DEF Gives
  <2>1. Scan(buf, at, b).end = j /\ Scan(buf, at, b).value = v
    BY <1>2
  <2>2. Signed(v, LONG_BITS) = v
    BY Zenon DEF Fits
  <2> QED
    BY <1>1, <2>1, <2>2
<1>4. Gives(strtoul(buf, at, b).value, "unsigned", LONG_BITS, b, strtoul(buf, at, b).end)
  <2> SUFFICES ASSUME NEW i, NEW j, NEW v, NEW r, Readable(buf, at, i, j, v, r),
                      Fits(v, "unsigned", LONG_BITS), b = r \/ (b = 0 /\ r = 10)
               PROVE  strtoul(buf, at, b).value = v /\ strtoul(buf, at, b).end = j
    BY Zenon DEF Gives
  <2>1. Scan(buf, at, b).end = j /\ Scan(buf, at, b).value = v
    BY <1>2
  <2>2. Unsigned(v, LONG_BITS) = v
    <3>1. "unsigned" # "signed"
      OBVIOUS
    <3> QED
      BY <3>1, Zenon DEF Fits
  <2> QED
    BY <1>1, <2>1, <2>2
<1> QED
  BY <1>3, <1>4, ReadBack, Zenon DEF ReadLong

LEMMA NumberIs ==
  ASSUME NEW v, NEW s, NEW r
  PROVE  Number(v, s, r).value = v /\ Number(v, s, r).sign = s /\ Number(v, s, r).base = r
BY DEF Number

\* One number printed alone.
LEMMA NumberLaid ==
  ASSUME NEW v \in Int, NEW r \in 2 .. 36, NEW s, NEW u, NumeralText(u, v, r)
  PROVE  SomeLaid(u, <<Number(v, s, r)>>)
<1> DEFINE n == Number(v, s, r)
<1>1. n.value = v /\ n.base = r
  BY NumberIs
<1> HIDE DEF n
<1>2. LaidUpTo(u, <<n>>, 1)
  BY <1>1, LaidOne
<1>3. SomeLaid(u, <<n>>)
  BY <1>2, Zenon DEF LaidUpTo, SomeLaid
<1> QED
  BY <1>3 DEF n

LEMMA NothingLaid == ASSUME NEW t PROVE SomeLaid(t, << >>) /\ Text(<< >>)
<1>1. << >> \in Seq({})
  OBVIOUS
<1> QED
  BY <1>1, LaidNone DEF SomeLaid, Text

LEMMA InitBack == Init => BackInv
<1> SUFFICES ASSUME Init PROVE BackInv
  OBVIOUS
<1>1. at = 1 /\ printed = << >> /\ reads = << >>
  BY DEF Init
<1>2. SomeLaid(buf, printed) /\ Text(printed)
  BY <1>1, NothingLaid
<1>3. PICK m, from, to : Laid(buf, printed, m, from, to)
  BY <1>2 DEF SomeLaid
<1>4. m \in Nat /\ to[0] = 1
  BY <1>3 DEF Laid
<1>5. InStep(m, to)
  BY <1>1, <1>4 DEF InStep
<1>6. ReadsBack
  BY <1>1 DEF ReadsBack
<1> QED
  BY <1>2, <1>3, <1>5, <1>6, Zenon DEF BackInv

\* itoa.
LEMMA itoaBack ==
  ASSUME NEW v \in Values, NEW b \in Bases, itoa(Signed(v, INT_BITS), b)
  PROVE  BackInv'
<1> DEFINE w == Signed(v, INT_BITS)
<1>1. w \in Int /\ Size(w) < 2 ^ INT_BITS /\ b \in Int
  BY Bounds, NumbersAssumption
<1> HIDE DEF w
<1>2. Fill(ItoaText(w, b),
           IF b \notin 2 .. 36 THEN << >>
           ELSE IF b = 10 THEN <<Number(w, "signed", 10)>>
           ELSE <<Number(Unsigned(w, INT_BITS), "unsigned", b)>>)
  BY Zenon DEF itoa, w
<1>3. CASE b \notin 2 .. 36
  BY <1>2, <1>3, NothingLaid, FillBack
<1>4. CASE b \in 2 .. 36
  <2> DEFINE u == IF b = 10 THEN w ELSE Unsigned(w, INT_BITS)
             s == IF b = 10 THEN "signed" ELSE "unsigned"
  <2>1. NumeralText(ItoaText(w, b), u, b)
    BY <1>1, <1>4, ItoaNumeral
  <2>2. u \in Int
    BY <1>1, Bounds
  <2>3. Fill(ItoaText(w, b), <<Number(u, s, b)>>)
    BY <1>2, <1>4, Zenon
  <2> HIDE DEF u, s
  <2>4. SomeLaid(ItoaText(w, b), <<Number(u, s, b)>>)
    BY <1>4, <2>1, <2>2, NumberLaid
  <2>5. Text(<<Number(u, s, b)>>)
    BY TextOne
  <2> QED
    BY <2>3, <2>4, <2>5, FillBack
<1> QED
  BY <1>3, <1>4

\* The serial port's functions.
LEMMA LogBack ==
  ASSUME NEW v \in Values, Log(Unsigned(v, LONG_BITS))
  PROVE  BackInv'
<1> DEFINE u == Unsigned(v, LONG_BITS)
<1>1. u \in Nat /\ u < 2 ^ LONG_BITS
  BY Bounds, NumbersAssumption
<1> HIDE DEF u
<1>2. \/ Fill(serial_put_hex(u), <<Number(u, "unsigned", 16)>>)
      \/ Fill(serial_put_dec(u), <<Number(u, "unsigned", 10)>>)
  BY Zenon DEF Log, u
<1>3. u \in Int /\ 16 \in 2 .. 36 /\ 10 \in 2 .. 36
  BY <1>1
<1>4. /\ SomeLaid(serial_put_hex(u), <<Number(u, "unsigned", 16)>>)
      /\ SomeLaid(serial_put_dec(u), <<Number(u, "unsigned", 10)>>)
  <2>1. NumeralText(serial_put_hex(u), u, 16) /\ NumeralText(serial_put_dec(u), u, 10)
    BY <1>1, serial_put_hexNumeral, DecNumeral
  <2> QED
    BY <1>3, <2>1, NumberLaid
<1>5. Text(<<Number(u, "unsigned", 16)>>) /\ Text(<<Number(u, "unsigned", 10)>>)
  BY TextOne
<1> QED
  BY <1>2, <1>4, <1>5, FillBack

\* sprintf.
LEMMA sprintfBack ==
  ASSUME FormatsApart,
         NEW f \in Formats, NEW args \in ArgumentLists(Turns(f).emit), sprintf(f, args)
  PROVE  BackInv'
<1> DEFINE C == {Char(f, k) : k \in 1 .. (Len(f) + 2)}
           emit == Turns(f).emit
           F == [k \in DOMAIN emit |-> IF emit[k].kind = "text" THEN emit[k].chars
                                       ELSE Emitted(emit[k].chars, args[k])]
           G == [k \in DOMAIN emit |-> Printed(emit[k], args[k])]
<1>1. Len(f) \in Nat
  BY NumbersAssumption
<1>2. \A k \in 1 .. (Len(f) + 2) : Char(f, k) \in C
  OBVIOUS
<1> HIDE DEF C
<1>3. emit \in Seq(TurnSet(C))
  BY <1>1, <1>2, TurnsType
<1>4. Fill(FlattenSeq(F), FlattenSeq(G))
  BY Zenon DEF sprintf, vsprintf
<1>5. Apart(emit)
  BY FormatApart
<1>6. args \in ArgumentLists(emit)
  OBVIOUS
<1> HIDE DEF emit
<1>7. PICK l \in Nat : l = Len(emit) /\ DOMAIN emit = 1 .. l
  BY <1>3
<1>8. \A k \in 1 .. l : args[k] \in Passed(emit[k])
  BY <1>6, <1>7, ArgumentsPassed
<1>9. \A k \in 1 .. l : F[k] = LeftBy(emit[k], args[k]) /\ G[k] = Printed(emit[k], args[k])
  BY <1>7, Zenon DEF LeftBy
<1>10. F = [k \in 1 .. l |-> F[k]] /\ G = [k \in 1 .. l |-> G[k]]
  BY <1>7
<1> HIDE DEF F, G
<1>11. Text(F) /\ Len(F) = l /\ Text(G) /\ Len(G) = l
  BY <1>10, TextFunction
<1>12. ASSUME NEW k \in 1 .. l PROVE TurnLaid(emit[k], F[k], G[k])
  <2>1. emit[k] \in TurnSet(C)
    BY <1>3, <1>7
  <2>2. Text(emit[k].chars) /\ emit[k].kind \in {"conversion", "text"}
    BY <2>1 DEF TurnSet, Text
  <2> QED
    BY <1>8, <1>9, <2>2, TurnIsLaid
<1>13. SomeLaid(FlattenSeq(F), FlattenSeq(G)) /\ Text(FlattenSeq(G))
  BY <1>5, <1>7, <1>11, <1>12, vsprintfLaid
<1> QED
  BY <1>4, <1>13, FillBack

LEMMA NextBack ==
  ASSUME FormatsApart
  PROVE  IInv /\ BackInv /\ [Next]_vars => BackInv'
<1> SUFFICES ASSUME IInv, BackInv, [Next]_vars PROVE BackInv'
  OBVIOUS
<1>1. CASE \E v \in Values, b \in Bases : itoa(Signed(v, INT_BITS), b)
  BY <1>1, itoaBack
<1>2. CASE \E f \in Formats : \E args \in ArgumentLists(Turns(f).emit) : sprintf(f, args)
  BY <1>2, sprintfBack
<1>3. CASE \E v \in Values : Log(Unsigned(v, LONG_BITS))
  BY <1>3, LogBack
<1>4. CASE \E bits \in {INT_BITS, LONG_BITS} : ReadDecimal(bits)
  BY <1>4, ReadDecimalBack
<1>5. CASE \E b \in Bases : b \in {0} \cup 2 .. 36 /\ ReadLong(b)
  BY <1>5, ReadLongBack
<1>6. CASE UNCHANGED vars
  <2>1. buf' = buf /\ at' = at /\ printed' = printed /\ reads' = reads
    BY <1>6 DEF vars
  <2>2. PICK m, from, to : Laid(buf, printed, m, from, to) /\ InStep(m, to)
    BY DEF BackInv
  <2>3. InStep(m, to)'
    BY <2>1, <2>2 DEF InStep, Fair, InRange, SameBase
  <2>4. Laid(buf', printed', m, from, to) /\ Text(printed')
    BY <2>1, <2>2 DEF BackInv
  <2>5. ReadsBack'
    BY <2>1 DEF BackInv, ReadsBack, InRange, SameBase
  <2> QED
    BY <2>3, <2>4, <2>5, Zenon DEF BackInv
<1> QED
  BY <1>1, <1>2, <1>3, <1>4, <1>5, <1>6 DEF Next

(* Numbers of any width that itoa, sprintf or the serial port print, in    *)
(* any base and from the least to the greatest, are read back as they were *)
(* by atoi, strtol and strtoul, one after the other by the end pointers,   *)
(* where a format keeps its numbers apart: only blanks between them and no *)
(* digit right behind one (stdlib.c, itoa, atoi, strtol, strtoul; stdio.c, *)
(* vsprintf; serial.c, serial_put_hex, serial_put_dec).                    *)
THEOREM ReadsBackCorrect ==
  ASSUME FormatsApart
  PROVE  Spec => []ReadsBack
<1>1. Init => BackInv
  BY InitBack
<1>2. IInv /\ BackInv /\ [Next]_vars => BackInv'
  BY NextBack
<1>3. BackInv => ReadsBack
  BY DEF BackInv
<1> QED
  BY <1>1, <1>2, <1>3, InductiveCorrect, PTL DEF Spec

=============================================================================
