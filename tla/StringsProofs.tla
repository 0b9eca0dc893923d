---------------------------- MODULE StringsProofs ---------------------------
(***************************************************************************)
(* Proofs about Strings, for an arena of any size and any content, any     *)
(* alphabet and any sets of delimiters.                                    *)
(***************************************************************************)
EXTENDS Strings, SequenceTheorems, NaturalsInduction, WellFoundedInduction, TLAPS

Memory == mem \in [Addr -> Chars]

-----------------------------------------------------------------------------
(***************************************************************************)
(* Numbers                                                                 *)
(***************************************************************************)

\* Strictly less, as a relation.
Below == {p \in Nat \X Nat : p[1] < p[2]}

\* A nonempty set of numbers has a least one.
LEMMA LeastNumber ==
  ASSUME NEW S \in SUBSET Nat, S # {}
  PROVE  \E n \in S : \A m \in S : n <= m
<1>1. IsWellFoundedOn(OpToRel(<, Nat), Nat)
  BY NatLessThanWellFounded
<1>2. OpToRel(<, Nat) = Below
  BY DEF OpToRel, Below
<1>3. IsWellFoundedOn(Below, Nat)
  BY <1>1, <1>2
<1>4. PICK n \in S : \A m \in S : ~ (<<m, n>> \in Below)
  BY <1>3, WFMin
<1>5. \A m, k \in Nat : <<m, k>> \in Below <=> m < k
  BY DEF Below
<1>6. \A m \in S : ~ (m < n)
  BY <1>4, <1>5
<1> QED
  BY <1>4, <1>6

\* What holds of 0 and of each number's successor up to l.
LEMMA Induction ==
  ASSUME NEW l \in Nat, NEW S \in SUBSET (0 .. l), 0 \in S,
         \A n \in 1 .. l : n - 1 \in S => n \in S
  PROVE  S = 0 .. l
<1> SUFFICES ASSUME (0 .. l) \ S # {} PROVE FALSE
  OBVIOUS
<1>1. (0 .. l) \ S \in SUBSET Nat
  OBVIOUS
<1>2. PICK n \in (0 .. l) \ S : \A m \in (0 .. l) \ S : n <= m
  BY <1>1, LeastNumber
<1>3. n \in 1 .. l
  BY <1>2
<1>4. n - 1 \in S
  BY <1>2, <1>3
<1> QED
  BY <1>2, <1>3, <1>4

\* A loop that has a turn to end at ends at the first.
LEMMA FirstTurn ==
  ASSUME NEW S \in SUBSET (0 .. SIZE), S # {}
  PROVE  \E i \in 0 .. SIZE : i \in S /\ \A j \in 0 .. (i - 1) : j \notin S
<1>1. S \in SUBSET Nat
  BY StringsAssumption
<1>2. PICK n \in S : \A m \in S : n <= m
  BY <1>1, LeastNumber
<1>3. \A j \in 0 .. (n - 1) : j \notin S
  BY <1>1, <1>2
<1> QED
  BY <1>2, <1>3

-----------------------------------------------------------------------------
(***************************************************************************)
(* What each search returns                                                *)
(***************************************************************************)

\* The end of a string is in the arena, and before it are characters.
LEMMA StringEnds ==
  ASSUME NEW s, IsString(s)
  PROVE  /\ s \in Addr /\ s \in Nat
         /\ strlen(s) \in 0 .. SIZE /\ s + strlen(s) \in Addr
         /\ mem[s + strlen(s)] = NUL
         /\ \A j \in 0 .. (strlen(s) - 1) : mem[s + j] # NUL /\ s + j \in Addr
<1> DEFINE S == {i \in 0 .. SIZE : s + i <= SIZE /\ mem[s + i] = NUL}
<1>1. s \in Addr /\ s \in Nat /\ s >= 1 /\ SIZE \in Nat
  BY StringsAssumption DEF IsString, Addr
<1>2. PICK q \in s .. SIZE : mem[q] = NUL
  BY DEF IsString
<1>3. q - s \in S
  <2>1. s + (q - s) = q
    BY <1>1
  <2> QED
    BY <1>1, <1>2, <2>1
<1>4. PICK n \in 0 .. SIZE : n \in S /\ \A j \in 0 .. (n - 1) : j \notin S
  <2> HIDE DEF S
  <2>1. S \in SUBSET (0 .. SIZE)
    BY DEF S
  <2> QED
    BY <1>3, <2>1, FirstTurn
<1>5. mem[s + n] = NUL /\ \A j \in 0 .. (n - 1) : mem[s + j] # NUL
  BY <1>1, <1>4
<1>6. /\ strlen(s) \in 0 .. SIZE /\ mem[s + strlen(s)] = NUL
      /\ \A j \in 0 .. (strlen(s) - 1) : mem[s + j] # NUL
  BY <1>5 DEF strlen, Turns
<1>7. strlen(s) <= n
  BY <1>1, <1>5, <1>6
<1>8. s + n <= SIZE
  BY <1>4
<1> QED
  BY <1>1, <1>6, <1>7, <1>8 DEF Addr

\* A search that would end at the end of the string ends there or before.
LEMMA SearchEnds ==
  ASSUME NEW s, IsString(s), NEW S \in SUBSET (0 .. SIZE), strlen(s) \in S
  PROVE  \E i \in 0 .. strlen(s) : i \in 0 .. SIZE /\ i \in S /\ \A j \in 0 .. (i - 1) : j \notin S
<1>1. PICK i \in 0 .. SIZE : i \in S /\ \A j \in 0 .. (i - 1) : j \notin S
  BY FirstTurn
<1>2. strlen(s) \in 0 .. SIZE /\ SIZE \in Nat
  BY StringEnds, StringsAssumption
<1>3. i <= strlen(s)
  BY <1>1, <1>2
<1> QED
  BY <1>1, <1>2, <1>3

\* The rest of a string is a string.
LEMMA RestIsString ==
  ASSUME NEW s, IsString(s), NEW p \in s .. (s + strlen(s))
  PROVE  IsString(p) /\ p + strlen(p) = s + strlen(s)
<1>1. /\ s \in Nat /\ s >= 1 /\ SIZE \in Nat /\ strlen(s) \in Nat /\ s + strlen(s) <= SIZE
      /\ mem[s + strlen(s)] = NUL
      /\ \A j \in 0 .. (strlen(s) - 1) : mem[s + j] # NUL
  BY StringEnds, StringsAssumption DEF Addr
<1>2. IsString(p)
  BY <1>1 DEF IsString, Addr
<1>3. /\ p \in Nat /\ strlen(p) \in Nat /\ mem[p + strlen(p)] = NUL
      /\ \A j \in 0 .. (strlen(p) - 1) : mem[p + j] # NUL
  BY <1>2, StringEnds
<1>4. p + strlen(p) >= s + strlen(s)
  <2> SUFFICES ASSUME p + strlen(p) < s + strlen(s) PROVE FALSE
    BY <1>1, <1>3
  <2>1. (p - s) + strlen(p) \in 0 .. (strlen(s) - 1)
    BY <1>1, <1>3
  <2>2. s + ((p - s) + strlen(p)) = p + strlen(p)
    BY <1>1, <1>3
  <2> QED
    BY <1>1, <1>3, <2>1, <2>2
<1>5. p + strlen(p) <= s + strlen(s)
  <2> SUFFICES ASSUME p + strlen(p) > s + strlen(s) PROVE FALSE
    BY <1>1, <1>3
  <2>1. (s + strlen(s)) - p \in 0 .. (strlen(p) - 1)
    BY <1>1, <1>3
  <2>2. p + ((s + strlen(s)) - p) = s + strlen(s)
    BY <1>1, <1>3
  <2> QED
    BY <1>1, <1>3, <2>1, <2>2
<1> QED
  BY <1>1, <1>2, <1>3, <1>4, <1>5

\* strcspn stops at the first character it is to stop at, or at the end.
LEMMA StrcspnStops ==
  ASSUME NEW s, IsString(s), NEW D
  PROVE  /\ strcspn(s, D) \in 0 .. strlen(s)
         /\ mem[s + strcspn(s, D)] \in D \cup {NUL}
         /\ \A j \in 0 .. (strcspn(s, D) - 1) : mem[s + j] \notin D \cup {NUL}
<1> DEFINE S == {i \in 0 .. SIZE : mem[s + i] \in D \cup {NUL}}
<1>1. strlen(s) \in S
  BY StringEnds
<1>2. PICK i \in 0 .. strlen(s) :
        i \in 0 .. SIZE /\ i \in S /\ \A j \in 0 .. (i - 1) : j \notin S
  <2> HIDE DEF S
  <2>1. S \in SUBSET (0 .. SIZE)
    BY DEF S
  <2> QED
    BY <1>1, <2>1, SearchEnds
<1>3. SIZE \in Nat
  BY StringsAssumption
<1>4. mem[s + i] \in D \cup {NUL} /\ \A j \in 0 .. (i - 1) : mem[s + j] \notin D \cup {NUL}
  BY <1>2, <1>3
<1>5. /\ strcspn(s, D) \in 0 .. SIZE
      /\ mem[s + strcspn(s, D)] \in D \cup {NUL}
      /\ \A j \in 0 .. (strcspn(s, D) - 1) : mem[s + j] \notin D \cup {NUL}
  BY <1>2, <1>4 DEF strcspn, Turns
<1> QED
  BY <1>2, <1>3, <1>4, <1>5

\* strspn stops at the first character that is not accepted.
LEMMA StrspnStops ==
  ASSUME NEW s, IsString(s), NEW D, NUL \notin D
  PROVE  /\ strspn(s, D) \in 0 .. strlen(s)
         /\ mem[s + strspn(s, D)] \notin D
         /\ \A j \in 0 .. (strspn(s, D) - 1) : mem[s + j] \in D
<1> DEFINE S == {i \in 0 .. SIZE : mem[s + i] \notin D}
<1>1. strlen(s) \in S
  BY StringEnds
<1>2. PICK i \in 0 .. strlen(s) :
        i \in 0 .. SIZE /\ i \in S /\ \A j \in 0 .. (i - 1) : j \notin S
  <2> HIDE DEF S
  <2>1. S \in SUBSET (0 .. SIZE)
    BY DEF S
  <2> QED
    BY <1>1, <2>1, SearchEnds
<1>3. SIZE \in Nat
  BY StringsAssumption
<1>4. mem[s + i] \notin D /\ \A j \in 0 .. (i - 1) : mem[s + j] \in D
  BY <1>2, <1>3
<1>5. /\ strspn(s, D) \in 0 .. SIZE
      /\ mem[s + strspn(s, D)] \notin D
      /\ \A j \in 0 .. (strspn(s, D) - 1) : mem[s + j] \in D
  BY <1>2, <1>4 DEF strspn, Turns
<1> QED
  BY <1>2, <1>3, <1>4, <1>5

\* strchr finds what strcspn stops at, and memchr finds it in the string's length.
LEMMA StrchrAgrees ==
  ASSUME Memory, NEW s, IsString(s), NEW c \in Chars \ {NUL}
  PROVE  /\ strchr(s, c) = Found(s + strcspn(s, {c}))
         /\ strchr(s, c) = memchr(s, c, strlen(s))
<1> DEFINE k == strcspn(s, {c})
           l == strlen(s)
<1>1. /\ k \in 0 .. l /\ mem[s + k] \in {c, NUL}
      /\ \A j \in 0 .. (k - 1) : mem[s + j] # c /\ mem[s + j] # NUL
  BY StrcspnStops
<1>2. /\ l \in 0 .. SIZE /\ SIZE \in Nat /\ mem[s + l] = NUL /\ s \in Nat
      /\ \A j \in 0 .. (l - 1) : mem[s + j] # NUL
  BY StringEnds, StringsAssumption
<1> HIDE DEF k, l
<1> DEFINE m == Turns(LAMBDA i : mem[s + i] \in {c, NUL})
<1>3. m = k
  <2>1. m \in 0 .. SIZE /\ mem[s + m] \in {c, NUL} /\ \A j \in 0 .. (m - 1) : mem[s + j] \notin {c, NUL}
    <3>1. k \in 0 .. SIZE /\ mem[s + k] \in {c, NUL} /\ \A j \in 0 .. (k - 1) : mem[s + j] \notin {c, NUL}
      BY <1>1, <1>2
    <3> QED
      BY <3>1 DEF Turns
  <2> HIDE DEF m
  <2> QED
    BY <1>1, <1>2, <2>1
<1>4. strchr(s, c) = Found(s + k)
  BY <1>3 DEF strchr
<1>5. c % CHAR_MOD = c
  BY StringsAssumption DEF Chars
<1> DEFINE n == Turns(LAMBDA i : i = l \/ mem[s + i] = c % CHAR_MOD)
<1>6. n = k
  <2>1. n \in 0 .. SIZE /\ (n = l \/ mem[s + n] = c) /\ \A j \in 0 .. (n - 1) : ~ (j = l \/ mem[s + j] = c)
    <3>1. /\ k \in 0 .. SIZE /\ (k = l \/ mem[s + k] = c)
          /\ \A j \in 0 .. (k - 1) : ~ (j = l \/ mem[s + j] = c)
      BY <1>1, <1>2
    <3> QED
      BY <1>5, <3>1 DEF Turns
  <2> HIDE DEF n
  <2> QED
    BY <1>1, <1>2, <2>1
<1>7. memchr(s, c, l) = IF k = l THEN NULL ELSE s + k
  BY <1>6 DEF memchr
<1>8. k = l <=> mem[s + k] = NUL
  BY <1>1, <1>2
<1> QED
  BY <1>4, <1>7, <1>8 DEF Found, k, l

\* strrchr finds the last one, so that strchr finds none behind it.
LEMMA StrrchrAgrees ==
  ASSUME Memory, NEW s, IsString(s), NEW c \in Chars \ {NUL}
  PROVE  /\ strrchr(s, c) = NULL <=> strchr(s, c) = NULL
         /\ strrchr(s, c) # NULL => strchr(strrchr(s, c) + 1, c) = NULL
<1> DEFINE l == strlen(s)
           hits == {p \in s .. (s + l - 1) : mem[p] = c}
<1>1. /\ l \in Nat /\ s \in Nat /\ s >= 1 /\ mem[s + l] = NUL
      /\ \A j \in 0 .. (l - 1) : mem[s + j] # NUL
      /\ c # NUL
  BY StringEnds, StringsAssumption DEF Addr
<1>2. /\ strcspn(s, {c}) \in 0 .. l /\ mem[s + strcspn(s, {c})] \in {c, NUL}
      /\ \A j \in 0 .. (strcspn(s, {c}) - 1) : mem[s + j] # c
      /\ strchr(s, c) = Found(s + strcspn(s, {c}))
  BY StrcspnStops, StrchrAgrees
<1>3. strrchr(s, c) = IF hits = {} THEN NULL ELSE CHOOSE p \in hits : \A q \in hits : q <= p
  BY DEF strrchr
<1> HIDE DEF l
<1>4. CASE hits = {}
  <2>1. strcspn(s, {c}) = l
    <3> SUFFICES ASSUME strcspn(s, {c}) < l PROVE FALSE
      BY <1>1, <1>2
    <3>1. mem[s + strcspn(s, {c})] = c
      BY <1>1, <1>2
    <3>2. s + strcspn(s, {c}) \in hits
      BY <1>1, <1>2, <3>1
    <3> QED
      BY <1>4, <3>2
  <2> QED
    BY <1>1, <1>2, <1>3, <1>4, <2>1 DEF Found
<1>5. CASE hits # {}
  <2> DEFINE far == {s + l - p : p \in hits}
  <2>1. PICK n \in far : \A m \in far : n <= m
    <3>1. far \in SUBSET Nat /\ far # {}
      BY <1>1, <1>5
    <3> HIDE DEF far
    <3> QED
      BY <3>1, LeastNumber
  <2>2. PICK p \in hits : n = s + l - p
    BY <2>1
  <2>3. \A q \in hits : q <= p
    <3> SUFFICES ASSUME NEW q \in hits PROVE q <= p
      OBVIOUS
    <3>1. s + l - q \in far
      OBVIOUS
    <3>2. n <= s + l - q
      BY <2>1, <3>1
    <3> QED
      BY <1>1, <2>2, <3>2
  <2> DEFINE r == CHOOSE x \in hits : \A q \in hits : q <= x
  <2>4. r \in hits /\ \A q \in hits : q <= r
    BY <2>3
  <2>5. strrchr(s, c) = r
    BY <1>3, <1>5
  <2> HIDE DEF r
  <2>6. r \in s .. (s + l - 1) /\ mem[r] = c /\ r \in Nat
    BY <1>1, <2>4
  <2>7. strchr(s, c) # NULL
    <3>1. strcspn(s, {c}) < l
      <4>1. r - s \in 0 .. (l - 1) /\ s + (r - s) = r
        BY <1>1, <2>6
      <4>2. ~ (r - s \in 0 .. (strcspn(s, {c}) - 1))
        BY <1>2, <2>6, <4>1
      <4> QED
        BY <1>1, <1>2, <4>1, <4>2
    <3>2. mem[s + strcspn(s, {c})] # NUL
      BY <1>1, <1>2, <3>1
    <3> QED
      BY <1>1, <1>2, <3>2 DEF Found, NULL
  <2>8. IsString(r + 1) /\ (r + 1) + strlen(r + 1) = s + l
    <3>1. r + 1 \in s .. (s + l)
      BY <1>1, <2>6
    <3> QED
      BY <3>1, RestIsString DEF l
  <2> DEFINE k == strcspn(r + 1, {c})
  <2>9. /\ k \in 0 .. strlen(r + 1) /\ mem[(r + 1) + k] \in {c, NUL}
        /\ strchr(r + 1, c) = Found((r + 1) + k)
        /\ strlen(r + 1) \in Nat
    BY <2>8, StrcspnStops, StrchrAgrees, StringEnds
  <2> HIDE DEF k
  <2>10. mem[(r + 1) + k] # c
    <3> SUFFICES ASSUME mem[(r + 1) + k] = c PROVE FALSE
      OBVIOUS
    <3>1. (r + 1) + k # s + l
      BY <1>1
    <3>2. (r + 1) + k \in s .. (s + l - 1)
      BY <1>1, <2>6, <2>8, <2>9, <3>1
    <3>3. (r + 1) + k <= r
      BY <2>4, <3>2
    <3> QED
      BY <2>6, <2>9, <3>3
  <2>11. strchr(r + 1, c) = NULL
    BY <2>9, <2>10 DEF Found
  <2> QED
    BY <2>5, <2>6, <2>7, <2>11, <1>1 DEF NULL
<1> QED
  BY <1>4, <1>5

-----------------------------------------------------------------------------
(***************************************************************************)
(* What each comparison returns                                            *)
(***************************************************************************)

\* The two strings are alike up to k and end or differ there.
PartAt(s, t, k) ==
  /\ k \in 0 .. strlen(s) /\ k \in 0 .. strlen(t)
  /\ mem[s + k] = NUL \/ mem[s + k] # mem[t + k]
  /\ \A j \in 0 .. (k - 1) : mem[s + j] # NUL /\ mem[s + j] = mem[t + j]

\* There is one such place.
LEMMA StringsPart ==
  ASSUME NEW s, NEW t, IsString(s), IsString(t)
  PROVE  \E k \in 0 .. SIZE : PartAt(s, t, k)
<1> DEFINE S == {i \in 0 .. SIZE : mem[s + i] = NUL \/ mem[s + i] # mem[t + i]}
<1>1. /\ strlen(s) \in 0 .. SIZE /\ mem[s + strlen(s)] = NUL
      /\ strlen(t) \in 0 .. SIZE /\ mem[t + strlen(t)] = NUL
      /\ SIZE \in Nat
  BY StringEnds, StringsAssumption
<1>2. strlen(s) \in S /\ strlen(t) \in S
  BY <1>1
<1>3. PICK k \in 0 .. strlen(s) :
        k \in 0 .. SIZE /\ k \in S /\ \A j \in 0 .. (k - 1) : j \notin S
  <2> HIDE DEF S
  <2>1. S \in SUBSET (0 .. SIZE)
    BY DEF S
  <2> QED
    BY <1>2, <2>1, SearchEnds
<1>4. k <= strlen(t)
  BY <1>1, <1>2, <1>3
<1>5. \A j \in 0 .. (k - 1) : mem[s + j] # NUL /\ mem[s + j] = mem[t + j]
  <2> SUFFICES ASSUME NEW j \in 0 .. (k - 1) PROVE mem[s + j] # NUL /\ mem[s + j] = mem[t + j]
    OBVIOUS
  <2>1. j \in 0 .. SIZE /\ j \notin S
    BY <1>1, <1>3
  <2> QED
    BY <2>1
<1> QED
  BY <1>1, <1>3, <1>4, <1>5 DEF PartAt

\* And only one.
LEMMA PartOnce ==
  ASSUME NEW s, NEW t, IsString(s), IsString(t), NEW k, NEW i, PartAt(s, t, k), PartAt(s, t, i)
  PROVE  k = i
<1>1. k \in Nat /\ i \in Nat
  BY StringEnds DEF PartAt
<1>2. ~ (k < i) /\ ~ (i < k)
  BY <1>1 DEF PartAt
<1> QED
  BY <1>1, <1>2

\* It is the same from either side.
LEMMA PartSymmetric ==
  ASSUME NEW s, NEW t, NEW k, PartAt(s, t, k)
  PROVE  PartAt(t, s, k)
BY DEF PartAt

\* The comparing functions compare the characters there, if they come so far.
LEMMA ComparesThere ==
  ASSUME NEW s, NEW t, IsString(s), IsString(t), NEW k, PartAt(s, t, k)
  PROVE  /\ strcmp(s, t) = mem[s + k] - mem[t + k]
         /\ \A n \in 0 .. SIZE :
              strncmp(s, t, n) = IF n <= k THEN 0 ELSE mem[s + k] - mem[t + k]
<1>1. SIZE \in Nat /\ k \in 0 .. SIZE
  BY StringEnds, StringsAssumption DEF PartAt
<1> DEFINE m == Turns(LAMBDA i : mem[s + i] = NUL \/ mem[s + i] # mem[t + i])
<1>2. m = k
  <2>1. /\ m \in 0 .. SIZE /\ (mem[s + m] = NUL \/ mem[s + m] # mem[t + m])
        /\ \A j \in 0 .. (m - 1) : ~ (mem[s + j] = NUL \/ mem[s + j] # mem[t + j])
    <3>1. /\ mem[s + k] = NUL \/ mem[s + k] # mem[t + k]
          /\ \A j \in 0 .. (k - 1) : ~ (mem[s + j] = NUL \/ mem[s + j] # mem[t + j])
      BY DEF PartAt
    <3> QED
      BY <1>1, <3>1 DEF Turns
  <2> HIDE DEF m
  <2>2. ~ (m < k) /\ ~ (k < m)
    BY <1>1, <2>1 DEF PartAt
  <2> QED
    BY <1>1, <2>1, <2>2
<1>3. strcmp(s, t) = mem[s + k] - mem[t + k]
  BY <1>2 DEF strcmp
<1>4. ASSUME NEW n \in 0 .. SIZE
      PROVE  strncmp(s, t, n) = IF n <= k THEN 0 ELSE mem[s + k] - mem[t + k]
  <2> DEFINE d == Turns(LAMBDA i : i = n \/ mem[s + i] = NUL \/ mem[s + i] # mem[t + i])
             e == IF n <= k THEN n ELSE k
  <2>1. d = e
    <3>1. /\ e \in 0 .. SIZE /\ (e = n \/ mem[s + e] = NUL \/ mem[s + e] # mem[t + e])
          /\ \A j \in 0 .. (e - 1) : ~ (j = n \/ mem[s + j] = NUL \/ mem[s + j] # mem[t + j])
      BY <1>1 DEF PartAt
    <3> HIDE DEF e
    <3>2. /\ d \in 0 .. SIZE /\ (d = n \/ mem[s + d] = NUL \/ mem[s + d] # mem[t + d])
          /\ \A j \in 0 .. (d - 1) : ~ (j = n \/ mem[s + j] = NUL \/ mem[s + j] # mem[t + j])
      BY <3>1 DEF Turns
    <3> HIDE DEF d
    <3>3. ~ (d < e) /\ ~ (e < d)
      BY <1>1, <3>1, <3>2
    <3> QED
      BY <1>1, <3>1, <3>2, <3>3
  <2>2. strncmp(s, t, n) = IF d = n THEN 0 ELSE mem[s + d] - mem[t + d]
    BY DEF strncmp
  <2> HIDE DEF d
  <2> QED
    BY <1>1, <2>1, <2>2
<1> QED
  BY <1>3, <1>4

\* memcmp compares the characters where memory differs first, or none.
LEMMA MemcmpIsZero ==
  ASSUME Memory, NEW s, NEW t, NEW n \in 0 .. SIZE,
         \A j \in 0 .. (n - 1) : s + j \in Addr /\ t + j \in Addr
  PROVE  memcmp(s, t, n) = 0 <=> \A j \in 0 .. (n - 1) : mem[s + j] = mem[t + j]
<1> DEFINE d == Turns(LAMBDA i : i = n \/ mem[s + i] # mem[t + i])
           S == {i \in 0 .. SIZE : i = n \/ mem[s + i] # mem[t + i]}
<1>1. PICK i \in 0 .. SIZE : i \in S /\ \A j \in 0 .. (i - 1) : j \notin S
  <2>1. n \in S
    OBVIOUS
  <2> HIDE DEF S
  <2>2. S \in SUBSET (0 .. SIZE)
    BY DEF S
  <2> QED
    BY <2>1, <2>2, FirstTurn
<1>2. SIZE \in Nat
  BY StringsAssumption
<1>3. /\ d \in 0 .. SIZE /\ (d = n \/ mem[s + d] # mem[t + d])
      /\ \A j \in 0 .. (d - 1) : ~ (j = n \/ mem[s + j] # mem[t + j])
  <2>1. /\ i = n \/ mem[s + i] # mem[t + i]
        /\ \A j \in 0 .. (i - 1) : ~ (j = n \/ mem[s + j] # mem[t + j])
    BY <1>1, <1>2
  <2> QED
    BY <1>1, <2>1 DEF Turns
<1>4. memcmp(s, t, n) = IF d = n THEN 0 ELSE mem[s + d] - mem[t + d]
  BY DEF memcmp
<1> HIDE DEF d
<1>5. d <= n
  BY <1>2, <1>3
<1>6. CASE d = n
  BY <1>2, <1>3, <1>4, <1>6
<1>7. CASE d # n
  <2>1. d \in 0 .. (n - 1) /\ mem[s + d] # mem[t + d]
    BY <1>2, <1>3, <1>5, <1>7
  <2>2. mem[s + d] \in Int /\ mem[t + d] \in Int
    BY <2>1 DEF Memory, Chars
  <2> QED
    BY <1>4, <1>7, <2>1, <2>2
<1> QED
  BY <1>6, <1>7

\* strcmp changes its sign with its arguments, is strncmp without a limit that
\* matters, and 0 for equal strings.
LEMMA StrcmpAgrees ==
  ASSUME Memory, NEW s, NEW t, IsString(s), IsString(t)
  PROVE  /\ strcmp(s, t) = - strcmp(t, s)
         /\ strcmp(s, t) = strncmp(s, t, SIZE)
         /\ strcmp(s, t) = 0 <=> strlen(s) = strlen(t) /\ memcmp(s, t, strlen(s)) = 0
<1>1. PICK k \in 0 .. SIZE : PartAt(s, t, k)
  BY StringsPart
<1>2. strcmp(s, t) = mem[s + k] - mem[t + k] /\ strcmp(t, s) = mem[t + k] - mem[s + k]
  BY <1>1, ComparesThere, PartSymmetric
<1>3. /\ k \in 0 .. strlen(s) /\ k \in 0 .. strlen(t)
      /\ mem[s + k] = NUL \/ mem[s + k] # mem[t + k]
      /\ \A j \in 0 .. (k - 1) : mem[s + j] # NUL /\ mem[s + j] = mem[t + j]
  BY <1>1 DEF PartAt
<1>4. /\ s \in Nat /\ s >= 1 /\ strlen(s) \in Nat /\ s + strlen(s) <= SIZE
      /\ mem[s + strlen(s)] = NUL /\ \A j \in 0 .. (strlen(s) - 1) : mem[s + j] # NUL
      /\ t \in Nat /\ t >= 1 /\ strlen(t) \in Nat /\ t + strlen(t) <= SIZE
      /\ mem[t + strlen(t)] = NUL /\ \A j \in 0 .. (strlen(t) - 1) : mem[t + j] # NUL
      /\ SIZE \in Nat
  BY StringEnds, StringsAssumption DEF Addr
<1>5. mem[s + k] \in Int /\ mem[t + k] \in Int
  <2>1. s + k \in Addr /\ t + k \in Addr
    BY <1>3, <1>4 DEF Addr
  <2> QED
    BY <2>1 DEF Memory, Chars
<1>6. strcmp(s, t) = - strcmp(t, s)
  BY <1>2, <1>5
<1>7. strcmp(s, t) = strncmp(s, t, SIZE)
  <2>1. ~ (SIZE <= k) /\ SIZE \in 0 .. SIZE
    BY <1>3, <1>4
  <2> QED
    BY <1>1, <1>2, <2>1, ComparesThere
<1>8. ASSUME strcmp(s, t) = 0
      PROVE  strlen(s) = strlen(t) /\ memcmp(s, t, strlen(s)) = 0
  <2>1. mem[s + k] = NUL /\ mem[t + k] = NUL
    BY <1>2, <1>3, <1>5, <1>8
  <2>2. k = strlen(s) /\ k = strlen(t)
    BY <1>3, <1>4, <2>1
  <2>3. strlen(s) \in 0 .. SIZE /\ \A j \in 0 .. (strlen(s) - 1) : s + j \in Addr /\ t + j \in Addr
    BY <1>4, <2>2 DEF Addr
  <2> QED
    BY <1>3, <2>2, <2>3, MemcmpIsZero
<1>9. ASSUME strlen(s) = strlen(t), memcmp(s, t, strlen(s)) = 0
      PROVE  strcmp(s, t) = 0
  <2>1. strlen(s) \in 0 .. SIZE /\ \A j \in 0 .. (strlen(s) - 1) : s + j \in Addr /\ t + j \in Addr
    BY <1>4, <1>9 DEF Addr
  <2>2. \A j \in 0 .. (strlen(s) - 1) : mem[s + j] = mem[t + j]
    BY <1>9, <2>1, MemcmpIsZero
  <2>3. k = strlen(s)
    BY <1>3, <1>4, <2>2
  <2> QED
    BY <1>2, <1>4, <1>9, <2>3 DEF NUL
<1> QED
  BY <1>6, <1>7, <1>8, <1>9

-----------------------------------------------------------------------------
(***************************************************************************)
(* What strstr returns                                                     *)
(***************************************************************************)

\* The text t is found at p.
FoundAt(p, t) == \A j \in 0 .. (strlen(t) - 1) : mem[p + j] = mem[t + j]

\* strstr's inner loop and strncmp agree on what it is to be found.
LEMMA MatchesFound ==
  ASSUME Memory, NEW p, NEW t, IsString(p), IsString(t)
  PROVE  /\ MatchesAt(p, t) <=> FoundAt(p, t)
         /\ strncmp(p, t, strlen(t)) = 0 <=> FoundAt(p, t)
<1>1. PICK k \in 0 .. SIZE : PartAt(p, t, k)
  BY StringsPart
<1>2. /\ k \in 0 .. strlen(p) /\ k \in 0 .. strlen(t)
      /\ mem[p + k] = NUL \/ mem[p + k] # mem[t + k]
      /\ \A j \in 0 .. (k - 1) : mem[p + j] # NUL /\ mem[p + j] = mem[t + j]
  BY <1>1 DEF PartAt
<1>3. /\ strlen(t) \in 0 .. SIZE /\ mem[t + strlen(t)] = NUL
      /\ \A j \in 0 .. (strlen(t) - 1) : mem[t + j] # NUL
      /\ SIZE \in Nat /\ p \in Nat /\ p >= 1 /\ t \in Nat /\ t >= 1
      /\ strlen(p) \in Nat /\ p + strlen(p) <= SIZE /\ t + strlen(t) <= SIZE
  BY StringEnds, StringsAssumption DEF Addr
<1> DEFINE m == Turns(LAMBDA i : NUL \in {mem[p + i], mem[t + i]} \/ mem[p + i] # mem[t + i])
<1>4. m = k
  <2>1. /\ m \in 0 .. SIZE /\ (NUL \in {mem[p + m], mem[t + m]} \/ mem[p + m] # mem[t + m])
        /\ \A j \in 0 .. (m - 1) : ~ (NUL \in {mem[p + j], mem[t + j]} \/ mem[p + j] # mem[t + j])
    <3>1. /\ NUL \in {mem[p + k], mem[t + k]} \/ mem[p + k] # mem[t + k]
          /\ \A j \in 0 .. (k - 1) : ~ (NUL \in {mem[p + j], mem[t + j]} \/ mem[p + j] # mem[t + j])
      BY <1>2
    <3> QED
      BY <1>1, <3>1 DEF Turns
  <2> HIDE DEF m
  <2>2. ~ (m < k) /\ ~ (k < m)
    BY <1>2, <1>3, <2>1
  <2> QED
    BY <1>1, <1>3, <2>1, <2>2
<1>5. MatchesAt(p, t) <=> mem[t + k] = NUL
  BY <1>4 DEF MatchesAt
<1>6. mem[t + k] = NUL <=> k = strlen(t)
  BY <1>2, <1>3
<1>7. k = strlen(t) <=> FoundAt(p, t)
  <2>1. ASSUME k = strlen(t) PROVE FoundAt(p, t)
    BY <1>2, <2>1 DEF FoundAt
  <2>2. ASSUME FoundAt(p, t), k # strlen(t) PROVE FALSE
    <3>1. k \in 0 .. (strlen(t) - 1)
      BY <1>2, <1>3, <2>2
    <3>2. mem[p + k] = mem[t + k] /\ mem[t + k] # NUL
      BY <1>3, <2>2, <3>1 DEF FoundAt
    <3> QED
      BY <1>2, <3>2
  <2> QED
    BY <2>1, <2>2
<1>8. strncmp(p, t, strlen(t)) = IF strlen(t) <= k THEN 0 ELSE mem[p + k] - mem[t + k]
  BY <1>1, <1>3, ComparesThere
<1>9. strncmp(p, t, strlen(t)) = 0 <=> k = strlen(t)
  <2>1. CASE k = strlen(t)
    BY <1>3, <1>8, <2>1
  <2>2. CASE k # strlen(t)
    <3>1. mem[p + k] # mem[t + k] /\ ~ (strlen(t) <= k)
      BY <1>2, <1>3, <1>6, <2>2
    <3>2. p + k \in Addr /\ t + k \in Addr
      BY <1>2, <1>3 DEF Addr
    <3>3. mem[p + k] \in Int /\ mem[t + k] \in Int
      BY <3>2 DEF Memory, Chars
    <3> QED
      BY <1>8, <2>2, <3>1, <3>3
  <2> QED
    BY <2>1, <2>2
<1> QED
  BY <1>5, <1>6, <1>7, <1>9

\* strstr returns the first place of those where strncmp finds the text.
LEMMA StrstrAgrees ==
  ASSUME Memory, NEW s, NEW t, IsString(s), IsString(t)
  PROVE  LET hits == {p \in s .. (s + strlen(s)) : strncmp(p, t, strlen(t)) = 0}
         IN  IF hits = {} THEN strstr(s, t) = NULL
             ELSE strstr(s, t) \in hits /\ \A p \in hits : strstr(s, t) <= p
<1> DEFINE l == strlen(s)
           hits == {p \in s .. (s + l) : strncmp(p, t, strlen(t)) = 0}
<1>1. /\ s \in Nat /\ s >= 1 /\ l \in Nat /\ l \in 0 .. SIZE
      /\ mem[s + l] = NUL /\ \A j \in 0 .. (l - 1) : mem[s + j] # NUL
      /\ t \in Nat /\ strlen(t) \in Nat /\ mem[t + strlen(t)] = NUL
      /\ \A j \in 0 .. (strlen(t) - 1) : mem[t + j] # NUL
  BY StringEnds, StringsAssumption DEF Addr
<1>2. ASSUME NEW p \in s .. (s + l)
      PROVE  /\ p \in hits <=> FoundAt(p, t)
             /\ MatchesAt(p, t) <=> FoundAt(p, t)
  <2>1. IsString(p)
    BY RestIsString
  <2> QED
    BY <2>1, MatchesFound
<1>3. CASE mem[t] = NUL
  <2>1. strstr(s, t) = s
    BY <1>3 DEF strstr
  <2>2. strlen(t) = 0
    <3>1. ~ (0 \in 0 .. (strlen(t) - 1))
      BY <1>1, <1>3
    <3> QED
      BY <1>1, <3>1
  <2>3. FoundAt(s, t)
    BY <2>2 DEF FoundAt
  <2>4. s \in hits
    BY <1>1, <1>2, <2>3
  <2> QED
    BY <1>1, <2>1, <2>4
<1>4. CASE mem[t] # NUL
  <2> DEFINE m == Turns(LAMBDA i : mem[s + i] = NUL \/ MatchesAt(s + i, t))
             S == {i \in 0 .. SIZE : mem[s + i] = NUL \/ MatchesAt(s + i, t)}
  <2>1. strstr(s, t) = Found(s + m)
    BY <1>4 DEF strstr
  <2>2. PICK i \in 0 .. l : i \in 0 .. SIZE /\ i \in S /\ \A j \in 0 .. (i - 1) : j \notin S
    <3>1. l \in S
      BY <1>1
    <3> HIDE DEF S
    <3>2. S \in SUBSET (0 .. SIZE)
      BY DEF S
    <3> QED
      BY <3>1, <3>2, SearchEnds
  <2>3. /\ m \in 0 .. SIZE /\ (mem[s + m] = NUL \/ MatchesAt(s + m, t))
        /\ \A j \in 0 .. (m - 1) : ~ (mem[s + j] = NUL \/ MatchesAt(s + j, t))
    <3>1. /\ mem[s + i] = NUL \/ MatchesAt(s + i, t)
          /\ \A j \in 0 .. (i - 1) : ~ (mem[s + j] = NUL \/ MatchesAt(s + j, t))
      BY <1>1, <2>2, StringsAssumption
    <3> QED
      BY <2>2, <3>1 DEF Turns
  <2> HIDE DEF m
  <2>4. m \in 0 .. l
    BY <1>1, <2>3
  <2>5. ASSUME NEW p \in s .. (s + m - 1) PROVE p \notin hits
    <3>1. p - s \in 0 .. (m - 1) /\ s + (p - s) = p /\ p \in s .. (s + l)
      BY <1>1, <2>4
    <3>2. ~ MatchesAt(p, t)
      <4>1. ~ MatchesAt(s + (p - s), t)
        BY <2>3, <3>1
      <4> QED
        BY <3>1, <4>1
    <3> QED
      BY <1>2, <3>1, <3>2
  <2>6. s + m \in s .. (s + l)
    BY <1>1, <2>4
  <2>7. CASE mem[s + m] = NUL
    <3>1. m = l
      BY <1>1, <2>4, <2>7
    <3>2. ~ FoundAt(s + m, t)
      <4>1. strlen(t) # 0
        BY <1>1, <1>4
      <4>2. 0 \in 0 .. (strlen(t) - 1) /\ mem[s + m + 0] = NUL /\ mem[t + 0] # NUL
        BY <1>1, <1>4, <2>4, <2>7, <4>1
      <4> QED
        BY <4>2 DEF FoundAt
    <3>3. hits = {}
      <4> SUFFICES ASSUME NEW p \in s .. (s + l), p \in hits PROVE FALSE
        OBVIOUS
      <4>1. p \in s .. (s + m - 1) \/ p = s + m
        BY <1>1, <3>1
      <4> QED
        BY <1>2, <2>5, <2>6, <3>2, <4>1
    <3> QED
      BY <2>1, <2>7, <3>3 DEF Found
  <2>8. CASE mem[s + m] # NUL
    <3>1. s + m \in hits
      BY <1>2, <2>3, <2>6, <2>8
    <3>2. \A p \in hits : s + m <= p
      <4> SUFFICES ASSUME NEW p \in hits PROVE s + m <= p
        OBVIOUS
      <4>1. p \in s .. (s + l) /\ p \notin s .. (s + m - 1)
        BY <2>5
      <4> QED
        BY <1>1, <2>4, <4>1
    <3>3. strstr(s, t) = s + m
      BY <2>1, <2>8 DEF Found
    <3> QED
      BY <3>1, <3>2, <3>3
  <2> QED
    BY <2>7, <2>8
<1> QED
  BY <1>3, <1>4

\* In every memory the searching functions agree.
LEMMA MemorySearches ==
  ASSUME Memory
  PROVE  SearchesAgree
<1> SUFFICES ASSUME NEW s, NEW t, IsString(s), IsString(t)
             PROVE
        /\ \A D \in CharSets :
             strpbrk(s, D) = Found(s + strcspn(s, D)) /\ strspn(s, D) <= strlen(s)
        /\ \A c \in Chars \ {NUL} :
             /\ strchr(s, c) = Found(s + strcspn(s, {c}))
             /\ strchr(s, c) = memchr(s, c, strlen(s))
             /\ strrchr(s, c) = NULL <=> strchr(s, c) = NULL
             /\ strrchr(s, c) # NULL => strchr(strrchr(s, c) + 1, c) = NULL
        /\ strcmp(s, t) = - strcmp(t, s)
        /\ strcmp(s, t) = strncmp(s, t, SIZE)
        /\ strcmp(s, t) = 0 <=> strlen(s) = strlen(t) /\ memcmp(s, t, strlen(s)) = 0
        /\ LET hits == {p \in s .. (s + strlen(s)) : strncmp(p, t, strlen(t)) = 0}
           IN  IF hits = {} THEN strstr(s, t) = NULL
               ELSE strstr(s, t) \in hits /\ \A p \in hits : strstr(s, t) <= p
  BY DEF SearchesAgree
<1>1. ASSUME NEW D \in CharSets
      PROVE  strpbrk(s, D) = Found(s + strcspn(s, D)) /\ strspn(s, D) <= strlen(s)
  <2>1. NUL \notin D
    BY StringsAssumption DEF NUL
  <2>2. strspn(s, D) \in 0 .. strlen(s) /\ strlen(s) \in Nat
    BY <2>1, StrspnStops, StringEnds
  <2> QED
    BY <2>2 DEF strpbrk, strcspn
<1>2. ASSUME NEW c \in Chars \ {NUL}
      PROVE  /\ strchr(s, c) = Found(s + strcspn(s, {c}))
             /\ strchr(s, c) = memchr(s, c, strlen(s))
             /\ strrchr(s, c) = NULL <=> strchr(s, c) = NULL
             /\ strrchr(s, c) # NULL => strchr(strrchr(s, c) + 1, c) = NULL
  BY StrchrAgrees, StrrchrAgrees
<1> QED
  BY <1>1, <1>2, StrcmpAgrees, StrstrAgrees

-----------------------------------------------------------------------------
(***************************************************************************)
(* What memmove leaves                                                     *)
(***************************************************************************)

\* The bytes at the offsets from lo to hi - 1 have been copied.
Copied(d, s, lo, hi) ==
  [a \in Addr |-> IF a \in (d + lo) .. (d + hi - 1) THEN mem[s + a - d] ELSE mem[a]]

\* What has been done after k of n bytes, from the lowest up or the highest down.
Progress(d, s, n, way, k) == IF way = "up" THEN Copied(d, s, 0, k) ELSE Copied(d, s, n - k, n)
Offsets(n, way) == IF way = "up" THEN Upwards(n) ELSE Downwards(n)

\* No byte is overwritten before it has been copied.
Safe(d, s, n, way) ==
  /\ Fits(d, n) /\ Fits(s, n)
  /\ Apart(d, n, s, n) \/ (IF way = "up" THEN d < s ELSE ~ (d < s))

\* One byte more is what one turn adds.
LEMMA MoveStep ==
  ASSUME Memory, NEW d \in Addr, NEW s \in Addr, NEW n \in 0 .. SIZE, NEW way \in {"up", "down"},
         Safe(d, s, n, way), NEW k \in 1 .. n
  PROVE  Progress(d, s, n, way, k) =
           [Progress(d, s, n, way, k - 1) EXCEPT ![d + Offsets(n, way)[k]] =
              Progress(d, s, n, way, k - 1)[s + Offsets(n, way)[k]]]
<1> DEFINE o == IF way = "up" THEN k - 1 ELSE n - k
           m == Progress(d, s, n, way, k - 1)
<1>1. /\ SIZE \in Nat /\ d \in Nat /\ s \in Nat /\ d >= 1 /\ s >= 1
      /\ o \in 0 .. (n - 1)
  BY StringsAssumption DEF Addr
<1>2. Offsets(n, way)[k] = o
  BY DEF Offsets, Upwards, Downwards
<1>3. /\ d + o \in Addr /\ s + o \in Addr /\ s + o \in Span(s, n)
  <2>1. d + o \in Span(d, n) /\ s + o \in Span(s, n)
    BY <1>1 DEF Span
  <2> QED
    BY <2>1 DEF Fits, Safe
<1>4. m[s + o] = mem[s + o]
  <2>1. CASE way = "up"
    <3>1. ~ (s + o \in (d + 0) .. (d + (k - 1) - 1))
      <4>1. CASE d < s
        BY <1>1, <2>1, <4>1
      <4>2. CASE Apart(d, n, s, n)
        <5>1. s + o \notin Span(d, n)
          BY <1>3, <4>2 DEF Apart
        <5> QED
          BY <1>1, <5>1 DEF Span
      <4> QED
        BY <2>1, <4>1, <4>2 DEF Safe
    <3> QED
      BY <1>3, <2>1, <3>1 DEF Progress, Copied
  <2>2. CASE way # "up"
    <3>1. ~ (s + o \in (d + (n - (k - 1))) .. (d + n - 1))
      <4>1. CASE ~ (d < s)
        BY <1>1, <2>2, <4>1
      <4>2. CASE Apart(d, n, s, n)
        <5>1. s + o \notin Span(d, n)
          BY <1>3, <4>2 DEF Apart
        <5> QED
          BY <1>1, <5>1 DEF Span
      <4> QED
        BY <2>2, <4>1, <4>2 DEF Safe
    <3> QED
      BY <1>3, <2>2, <3>1 DEF Progress, Copied
  <2> QED
    BY <2>1, <2>2
<1>5. ASSUME NEW a \in Addr
      PROVE  Progress(d, s, n, way, k)[a] = IF a = d + o THEN mem[s + o] ELSE m[a]
  <2>1. CASE way = "up"
    <3>1. o = k - 1 /\ a \in Nat
      BY <2>1 DEF Addr
    <3>2. a \in (d + 0) .. (d + k - 1) <=> a = d + o \/ a \in (d + 0) .. (d + (k - 1) - 1)
      BY <1>1, <3>1
    <3>3. a = d + o => /\ ~ (a \in (d + 0) .. (d + (k - 1) - 1))
                       /\ s + a - d = s + o
      BY <1>1, <3>1
    <3> QED
      BY <2>1, <3>2, <3>3 DEF Progress, Copied
  <2>2. CASE way # "up"
    <3>1. o = n - k /\ a \in Nat
      BY <2>2 DEF Addr
    <3>2. a \in (d + (n - k)) .. (d + n - 1) <=>
            a = d + o \/ a \in (d + (n - (k - 1))) .. (d + n - 1)
      BY <1>1, <3>1
    <3>3. a = d + o => /\ ~ (a \in (d + (n - (k - 1))) .. (d + n - 1))
                       /\ s + a - d = s + o
      BY <1>1, <3>1
    <3> QED
      BY <2>2, <3>2, <3>3 DEF Progress, Copied
  <2> QED
    BY <2>1, <2>2
<1>6. /\ m = [a \in Addr |-> m[a]]
      /\ Progress(d, s, n, way, k) = [a \in Addr |-> Progress(d, s, n, way, k)[a]]
  BY DEF Progress, Copied
<1> HIDE DEF o
<1>7. [m EXCEPT ![d + o] = m[s + o]] = [a \in Addr |-> IF a = d + o THEN mem[s + o] ELSE m[a]]
  BY <1>3, <1>4, <1>6
<1> QED
  BY <1>2, <1>5, <1>6, <1>7

\* g[k] is memory after k turns.
Turned(d, s, order, g) ==
  g = [k \in 0 .. Len(order) |->
         IF k = 0 THEN mem
         ELSE LET m == g[k - 1] IN [m EXCEPT ![d + order[k]] = m[s + order[k]]]]

\* There is such a function.
LEMMA TurnsMove ==
  ASSUME Memory, NEW d \in Addr, NEW s \in Addr, NEW n \in 0 .. SIZE, NEW way \in {"up", "down"},
         Safe(d, s, n, way)
  PROVE  Turned(d, s, Offsets(n, way), [k \in 0 .. n |-> Progress(d, s, n, way, k)])
<1> DEFINE order == Offsets(n, way)
           done(k) == Progress(d, s, n, way, k)
<1>1. Len(order) = n /\ n \in Nat
  BY StringsAssumption DEF Offsets, Upwards, Downwards
<1>2. done(0) = mem
  <2>1. d \in Nat /\ n \in Nat
    BY <1>1 DEF Addr
  <2>2. \A a \in Addr : /\ ~ (a \in (d + 0) .. (d + 0 - 1))
                        /\ ~ (a \in (d + (n - 0)) .. (d + n - 1))
    BY <2>1 DEF Addr
  <2> QED
    BY <2>2 DEF Progress, Copied, Memory
<1> DEFINE next(m, k) == [m EXCEPT ![d + order[k]] = m[s + order[k]]]
<1>3. ASSUME NEW k \in 1 .. n
      PROVE  done(k) = next(done(k - 1), k)
  BY MoveStep
<1> HIDE DEF order, done
<1>4. Turned(d, s, order, [k \in 0 .. n |-> done(k)])
  <2> DEFINE g == [k \in 0 .. n |-> done(k)]
  <2>1. ASSUME NEW k \in 0 .. n
        PROVE  done(k) = IF k = 0 THEN mem ELSE next(g[k - 1], k)
    <3>1. CASE k = 0
      BY <1>2, <3>1
    <3>2. CASE k # 0
      <4>1. k \in 1 .. n /\ k - 1 \in 0 .. n
        BY <1>1, <3>2
      <4>2. g[k - 1] = done(k - 1)
        BY <4>1
      <4> HIDE DEF g
      <4> QED
        BY <1>3, <3>2, <4>1, <4>2, Zenon
    <3> QED
      BY <3>1, <3>2
  <2>2. g = [k \in 0 .. n |-> IF k = 0 THEN mem ELSE next(g[k - 1], k)]
    BY <2>1, Zenon
  <2> HIDE DEF g
  <2>3. Turned(d, s, order, g)
    BY <1>1, <2>2, Zenon DEF Turned
  <2> QED
    BY <2>3 DEF g
<1> QED
  BY <1>4 DEF order, done

\* And no other.
LEMMA TurnsOnlyMove ==
  ASSUME Memory, NEW d \in Addr, NEW s \in Addr, NEW n \in 0 .. SIZE, NEW way \in {"up", "down"},
         Safe(d, s, n, way),
         NEW g, Turned(d, s, Offsets(n, way), g)
  PROVE  g[n] = Progress(d, s, n, way, n)
<1> DEFINE order == Offsets(n, way)
           done(k) == Progress(d, s, n, way, k)
<1>1. Len(order) = n /\ n \in Nat
  BY StringsAssumption DEF Offsets, Upwards, Downwards
<1>2. done(0) = mem
  <2>1. d \in Nat /\ n \in Nat
    BY <1>1 DEF Addr
  <2>2. \A a \in Addr : /\ ~ (a \in (d + 0) .. (d + 0 - 1))
                        /\ ~ (a \in (d + (n - 0)) .. (d + n - 1))
    BY <2>1 DEF Addr
  <2> QED
    BY <2>2 DEF Progress, Copied, Memory
<1> DEFINE next(m, k) == [m EXCEPT ![d + order[k]] = m[s + order[k]]]
<1>3. ASSUME NEW k \in 1 .. n
      PROVE  done(k) = next(done(k - 1), k)
  BY MoveStep
<1>0. Turned(d, s, order, g)
  OBVIOUS
<1> HIDE DEF order, done
<1> DEFINE T == {k \in 0 .. n : g[k] = done(k)}
<1>4. \A k \in 0 .. n : g[k] = IF k = 0 THEN mem ELSE next(g[k - 1], k)
  <2>1. g = [k \in 0 .. n |-> IF k = 0 THEN mem ELSE next(g[k - 1], k)]
    BY <1>0, <1>1, Zenon DEF Turned
  <2> HIDE DEF next
  <2> QED
    BY <2>1, Zenon
<1>5. 0 \in T
  <2>1. 0 \in 0 .. n
    BY <1>1
  <2> QED
    BY <1>2, <1>4, <2>1
<1>6. ASSUME NEW k \in 1 .. n, k - 1 \in T PROVE k \in T
  <2>1. k \in 0 .. n /\ k # 0
    BY <1>1
  <2>2. g[k - 1] = done(k - 1)
    BY <1>6
  <2>3. g[k] = next(g[k - 1], k)
    BY <1>4, <2>1, Zenon
  <2>4. g[k] = done(k)
    BY <1>3, <2>2, <2>3, Zenon
  <2> QED
    BY <2>1, <2>4
<1>7. T = 0 .. n
  <2> HIDE DEF T
  <2>1. T \in SUBSET (0 .. n)
    BY DEF T
  <2> QED
    BY <1>1, <1>5, <1>6, <2>1, Induction
<1>8. n \in T
  <2> HIDE DEF T
  <2> QED
    BY <1>1, <1>7
<1> QED
  BY <1>8 DEF done

\* So the bytes arrive, whatever memory holds.
LEMMA BytesArrive ==
  ASSUME Memory, NEW d \in Addr, NEW s \in Addr, NEW n \in 0 .. SIZE, NEW way \in {"up", "down"},
         Safe(d, s, n, way)
  PROVE  Moved(d, s, Offsets(n, way))
           = [a \in Addr |-> IF a \in Span(d, n) THEN mem[s + a - d] ELSE mem[a]]
<1> DEFINE order == Offsets(n, way)
           h == CHOOSE g : g = [k \in 0 .. Len(order) |->
                  IF k = 0 THEN mem
                  ELSE LET m == g[k - 1] IN [m EXCEPT ![d + order[k]] = m[s + order[k]]]]
<1>1. Len(order) = n
  BY StringsAssumption DEF Offsets, Upwards, Downwards
<1>2. h = [k \in 0 .. Len(order) |->
             IF k = 0 THEN mem
             ELSE LET m == h[k - 1] IN [m EXCEPT ![d + order[k]] = m[s + order[k]]]]
  <2>1. \E g : Turned(d, s, order, g)
    BY TurnsMove, Zenon
  <2> HIDE DEF order
  <2> QED
    BY <2>1, Zenon DEF Turned
<1>3. Moved(d, s, order) = h[Len(order)]
  BY Zenon DEF Moved
<1> HIDE DEF h
<1>4. Moved(d, s, order) = Progress(d, s, n, way, n)
  <2>1. Turned(d, s, order, h)
    BY <1>2, Zenon DEF Turned
  <2>2. h[n] = Progress(d, s, n, way, n)
    BY <2>1, TurnsOnlyMove
  <2> QED
    BY <1>1, <1>3, <2>2, Zenon
<1> HIDE DEF order
<1>5. Progress(d, s, n, way, n)
        = [a \in Addr |-> IF a \in Span(d, n) THEN mem[s + a - d] ELSE mem[a]]
  <2>1. d + 0 = d /\ d + (n - n) = d
    BY StringsAssumption DEF Addr
  <2> QED
    BY <2>1 DEF Progress, Copied, Span
<1> QED
  BY <1>4, <1>5 DEF order

\* memmove starts at the end where nothing is lost.
LEMMA MemoryMoves ==
  ASSUME Memory
  PROVE  MoveExact
<1> SUFFICES ASSUME NEW d \in Addr, NEW s \in Addr, NEW n \in 0 .. SIZE, Fits(d, n), Fits(s, n)
             PROVE  Moved(d, s, Order(d, s, n))
                      = [a \in Addr |-> IF a \in Span(d, n) THEN mem[s + a - d] ELSE mem[a]]
  BY DEF MoveExact
<1>1. CASE d < s
  <2>1. Order(d, s, n) = Offsets(n, "up") /\ Safe(d, s, n, "up")
    BY <1>1 DEF Order, Offsets, Safe
  <2> QED
    BY <2>1, BytesArrive
<1>2. CASE ~ (d < s)
  <2>1. Order(d, s, n) = Offsets(n, "down") /\ Safe(d, s, n, "down")
    BY <1>2 DEF Order, Offsets, Safe
  <2> QED
    BY <2>1, BytesArrive
<1> QED
  BY <1>1, <1>2

-----------------------------------------------------------------------------
(***************************************************************************)
(* A string taken apart                                                    *)
(***************************************************************************)

Jobs == [at : Addr \cup {NULL}, was : Seq(Chars \ {NUL}),
         delim : SUBSET (Chars \ {NUL}), given : Seq(Addr)]

\* The cursor has not passed the i-th character of the string.
Ahead(j, cur, i) == cur # NULL /\ i >= cur - j.at + 1

Token1(j, e) == j.at + e[1] - 1
Returned(j, e) == \E k \in 1 .. Len(j.given) : j.given[k] = Token1(j, e)

\* The string lies in the arena, and the cursor in the string, where a stretch may begin.
JobPlaced(j, cur, m) ==
  /\ j.at \in Addr /\ j.at + Len(j.was) \in Addr
  /\ m[j.at + Len(j.was)] = NUL
  /\ cur # NULL =>
       /\ cur \in j.at .. (j.at + Len(j.was))
       /\ cur = j.at \/ cur = j.at + Len(j.was) \/ j.was[cur - j.at] \in j.delim

\* Only delimiters behind the cursor have been overwritten.
JobText(j, cur, m) ==
  \A i \in 1 .. Len(j.was) :
    \/ m[j.at + i - 1] = j.was[i]
    \/ ~ Ahead(j, cur, i) /\ m[j.at + i - 1] = NUL /\ j.was[i] \in j.delim

\* What has been returned are stretches behind the cursor, in order and ended.
JobReturned(j, cur, m) ==
  /\ \A k \in 1 .. Len(j.given) : \E e \in Stretches(j.was, j.delim) :
       j.given[k] = Token1(j, e) /\ m[j.at + e[2]] = NUL /\ ~ Ahead(j, cur, e[2])
  /\ \A k \in 1 .. (Len(j.given) - 1) : j.given[k] < j.given[k + 1]

\* What has not been returned is still ahead.
JobLeft(j, cur) ==
  \A e \in Stretches(j.was, j.delim) : Returned(j, e) \/ Ahead(j, cur, e[1])

JobHolds(j, cur, m) ==
  JobPlaced(j, cur, m) /\ JobText(j, cur, m) /\ JobReturned(j, cur, m) /\ JobLeft(j, cur)

\* The inductive invariant.
IInv ==
  /\ Memory /\ job \in Jobs
  /\ job # NoJob => JobHolds(job, next_token, mem)

\* Types of what a job consists of, and where its characters are.
LEMMA JobFacts ==
  ASSUME NEW j \in Jobs, NEW cur, NEW m, JobPlaced(j, cur, m)
  PROVE  /\ Len(j.was) \in Nat /\ j.at \in Nat /\ j.at >= 1 /\ j.at + Len(j.was) <= SIZE
         /\ SIZE \in Nat
         /\ \A i \in 1 .. Len(j.was) : j.was[i] \in Chars \ {NUL} /\ j.at + i - 1 \in Addr
         /\ NUL \notin j.delim
<1>1. SIZE \in Nat
  BY StringsAssumption
<1>2. /\ j.was \in Seq(Chars \ {NUL}) /\ j.delim \in SUBSET (Chars \ {NUL})
      /\ j.at \in Addr /\ j.at + Len(j.was) \in Addr
  BY DEF Jobs, JobPlaced
<1>3. /\ Len(j.was) \in Nat /\ \A i \in 1 .. Len(j.was) : j.was[i] \in Chars \ {NUL}
  BY <1>2
<1>4. j.at \in Nat /\ j.at >= 1 /\ j.at + Len(j.was) <= SIZE
  BY <1>1, <1>2, <1>3 DEF Addr
<1>5. \A i \in 1 .. Len(j.was) : j.at + i - 1 \in Addr
  BY <1>1, <1>3, <1>4 DEF Addr
<1> QED
  BY <1>1, <1>2, <1>3, <1>4, <1>5

\* A stretch is a piece of the text.
LEMMA StretchFacts ==
  ASSUME NEW text, Len(text) \in Nat, NEW D, NEW e \in Stretches(text, D)
  PROVE  /\ e[1] \in 1 .. Len(text) /\ e[2] \in 1 .. Len(text) /\ e[1] <= e[2]
         /\ \A k \in e[1] .. e[2] : text[k] \notin D
         /\ e[1] = 1 \/ text[e[1] - 1] \in D
         /\ e[2] = Len(text) \/ text[e[2] + 1] \in D
BY DEF Stretches

\* A stretch starts with no delimiter.
LEMMA StretchStarts ==
  ASSUME NEW text, Len(text) \in Nat, NEW D, NEW e \in Stretches(text, D)
  PROVE  e[1] \in 1 .. Len(text) /\ text[e[1]] \notin D
<1>1. /\ e[1] \in 1 .. Len(text) /\ e[2] \in 1 .. Len(text) /\ e[1] <= e[2]
      /\ \A k \in e[1] .. e[2] : text[k] \notin D
  BY StretchFacts
<1>2. e[1] \in e[1] .. e[2]
  BY <1>1
<1> QED
  BY <1>1, <1>2

\* A job depends on no memory outside its string.
LEMMA JobKept ==
  ASSUME NEW j \in Jobs, NEW cur, NEW m, NEW w, JobHolds(j, cur, m),
         \A a \in j.at .. (j.at + Len(j.was)) : w[a] = m[a]
  PROVE  JobHolds(j, cur, w)
<1>1. /\ Len(j.was) \in Nat /\ j.at \in Nat
      /\ JobPlaced(j, cur, m) /\ JobText(j, cur, m) /\ JobReturned(j, cur, m) /\ JobLeft(j, cur)
  BY JobFacts DEF JobHolds
<1>2. \A i \in 0 .. Len(j.was) : w[j.at + i] = m[j.at + i]
  BY <1>1
<1>3. \A i \in 1 .. Len(j.was) : w[j.at + i - 1] = m[j.at + i - 1]
  BY <1>1
<1>4. JobPlaced(j, cur, w)
  BY <1>1, <1>2 DEF JobPlaced
<1>5. JobText(j, cur, w)
  BY <1>1, <1>3 DEF JobText
<1>6. JobReturned(j, cur, w)
  <2>1. ASSUME NEW k \in 1 .. Len(j.given)
        PROVE  \E e \in Stretches(j.was, j.delim) :
                 j.given[k] = Token1(j, e) /\ w[j.at + e[2]] = NUL /\ ~ Ahead(j, cur, e[2])
    <3>1. PICK e \in Stretches(j.was, j.delim) :
            j.given[k] = Token1(j, e) /\ m[j.at + e[2]] = NUL /\ ~ Ahead(j, cur, e[2])
      BY <1>1 DEF JobReturned
    <3>2. e[2] \in 0 .. Len(j.was)
      BY <1>1, StretchFacts
    <3>3. w[j.at + e[2]] = NUL
      BY <1>2, <3>1, <3>2
    <3> QED
      BY <3>1, <3>3
  <2> QED
    BY <1>1, <2>1 DEF JobReturned
<1> QED
  BY <1>1, <1>4, <1>5, <1>6 DEF JobHolds

\* Characters of a text that are in memory as they were, and a 0 behind them, are
\* a string, and that piece of the text.
LEMMA PieceIsString ==
  ASSUME Memory, NEW A \in Nat, A >= 1, NEW text \in Seq(Chars \ {NUL}),
         NEW f \in 1 .. Len(text), NEW l \in 1 .. Len(text), f <= l, A + l <= SIZE,
         \A i \in f .. l : mem[A + i - 1] = text[i],
         mem[A + l] = NUL
  PROVE  /\ IsString(A + f - 1)
         /\ SubSeq(mem, A + f - 1, A + f - 1 + strlen(A + f - 1) - 1) = SubSeq(text, f, l)
<1> DEFINE p == A + f - 1
           n == l - f + 1
<1>1. /\ SIZE \in Nat /\ Len(text) \in Nat
      /\ \A i \in 1 .. Len(text) : text[i] # NUL
  BY StringsAssumption
<1>2. n \in Nat /\ p \in Nat /\ p >= 1 /\ p + n = A + l /\ p + n <= SIZE /\ p + n \in Addr
  BY <1>1 DEF Addr
<1>3. p \in Addr /\ p + n \in p .. SIZE
  BY <1>1, <1>2 DEF Addr
<1>4. IsString(p)
  BY <1>2, <1>3 DEF IsString
<1>5. ASSUME NEW i \in 0 .. (n - 1)
      PROVE  mem[p + i] = text[f + i] /\ mem[p + i] # NUL
  <2>1. f + i \in f .. l /\ f + i \in 1 .. Len(text) /\ A + (f + i) - 1 = p + i
    BY <1>1
  <2>2. mem[A + (f + i) - 1] = text[f + i] /\ text[f + i] # NUL
    BY <1>1, <2>1
  <2> QED
    BY <2>1, <2>2
<1>6. \A i \in 1 .. n : mem[p + i - 1] = text[f + i - 1] /\ text[f + i - 1] \in Chars
  <2> SUFFICES ASSUME NEW i \in 1 .. n
               PROVE  mem[p + i - 1] = text[f + i - 1] /\ text[f + i - 1] \in Chars
    OBVIOUS
  <2>1. f + i - 1 \in f .. l /\ f + i - 1 \in 1 .. Len(text) /\ A + (f + i - 1) - 1 = p + i - 1
    BY <1>1
  <2> QED
    BY <2>1
<1> HIDE DEF p, n
<1>7. strlen(p) = n
  <2>1. /\ strlen(p) \in Nat /\ mem[p + strlen(p)] = NUL
        /\ \A i \in 0 .. (strlen(p) - 1) : mem[p + i] # NUL
    BY <1>4, StringEnds
  <2>2. mem[p + n] = NUL
    BY <1>2
  <2>3. ASSUME strlen(p) < n PROVE FALSE
    <3>1. strlen(p) \in 0 .. (n - 1)
      BY <1>2, <2>1, <2>3
    <3> QED
      BY <1>5, <2>1, <3>1
  <2>4. ASSUME n < strlen(p) PROVE FALSE
    <3>1. n \in 0 .. (strlen(p) - 1)
      BY <1>2, <2>1, <2>4
    <3> QED
      BY <2>1, <2>2, <3>1
  <2> QED
    BY <1>2, <2>1, <2>3, <2>4
<1>8. /\ SubSeq(text, f, l) \in Seq(Chars) /\ Len(SubSeq(text, f, l)) = n
      /\ \A i \in 1 .. n : SubSeq(text, f, l)[i] = text[f + i - 1]
  <2>1. f \in Int /\ l \in Int /\ \A i \in f .. l : text[i] \in Chars
    BY <1>1
  <2> QED
    BY <2>1, SubSeqProperties DEF n
<1>9. /\ SubSeq(mem, p, p + n - 1) \in Seq(Chars) /\ Len(SubSeq(mem, p, p + n - 1)) = n
      /\ \A i \in 1 .. n : SubSeq(mem, p, p + n - 1)[i] = mem[p + i - 1]
  <2>1. p \in Int /\ p + n - 1 \in Int
    BY <1>2
  <2>2. \A i \in p .. (p + n - 1) : mem[i] \in Chars
    BY <1>1, <1>2 DEF Memory, Addr
  <2>3. p + n - 1 \in Int /\ (p + n - 1) - p + 1 = n
    BY <1>2
  <2>4. n >= 1
    BY DEF n
  <2> QED
    BY <1>2, <2>1, <2>2, <2>3, <2>4, SubSeqProperties
<1>10. SubSeq(mem, p, p + n - 1) = SubSeq(text, f, l)
  <2> DEFINE u == SubSeq(mem, p, p + n - 1)
             v == SubSeq(text, f, l)
  <2>1. /\ u \in Seq(Chars) /\ v \in Seq(Chars) /\ Len(u) = Len(v) /\ Len(u) = n
        /\ \A i \in 1 .. n : u[i] = mem[p + i - 1] /\ v[i] = text[f + i - 1]
    BY <1>8, <1>9
  <2> HIDE DEF u, v
  <2>2. \A i \in 1 .. Len(u) : u[i] = v[i]
    BY <1>6, <2>1
  <2>3. u = v
    BY <2>1, <2>2, SeqEqual
  <2> QED
    BY <2>3 DEF u, v
<1> QED
  BY <1>4, <1>7, <1>10 DEF p

\* A stretch of the string with a 0 behind it is a token.
LEMMA StretchIsToken ==
  ASSUME Memory, NEW j \in Jobs, NEW cur, JobPlaced(j, cur, mem), JobText(j, cur, mem),
         NEW e \in Stretches(j.was, j.delim), mem[j.at + e[2]] = NUL
  PROVE  /\ IsString(j.at + e[1] - 1)
         /\ SubSeq(mem, j.at + e[1] - 1, j.at + e[1] - 1 + strlen(j.at + e[1] - 1) - 1)
              = SubSeq(j.was, e[1], e[2])
<1>1. /\ Len(j.was) \in Nat /\ j.at \in Nat /\ j.at >= 1 /\ j.at + Len(j.was) <= SIZE
      /\ SIZE \in Nat /\ j.was \in Seq(Chars \ {NUL})
  BY JobFacts DEF Jobs
<1>2. /\ e[1] \in 1 .. Len(j.was) /\ e[2] \in 1 .. Len(j.was) /\ e[1] <= e[2]
      /\ \A k \in e[1] .. e[2] : j.was[k] \notin j.delim
  BY <1>1, StretchFacts
<1>3. j.at + e[2] <= SIZE
  BY <1>1, <1>2
<1>4. \A i \in e[1] .. e[2] : mem[j.at + i - 1] = j.was[i]
  <2> SUFFICES ASSUME NEW i \in e[1] .. e[2] PROVE mem[j.at + i - 1] = j.was[i]
    OBVIOUS
  <2>1. i \in 1 .. Len(j.was) /\ j.was[i] \notin j.delim
    BY <1>1, <1>2
  <2> QED
    BY <2>1 DEF JobText
<1> QED
  BY <1>1, <1>2, <1>3, <1>4, PieceIsString

\* What has been returned is in memory as it was in the string, ended by a 0.
LEMMA JobImplies == IInv => TokensInOrder
<1> SUFFICES ASSUME IInv, job # NoJob
             PROVE
        /\ \A k \in 1 .. Len(job.given) : \E e \in Stretches(job.was, job.delim) :
             /\ job.given[k] = job.at + e[1] - 1
             /\ IsString(job.given[k])
             /\ SubSeq(mem, job.given[k], job.given[k] + strlen(job.given[k]) - 1)
                  = SubSeq(job.was, e[1], e[2])
        /\ \A k \in 1 .. (Len(job.given) - 1) : job.given[k] < job.given[k + 1]
        /\ \A e \in Stretches(job.was, job.delim) :
             \/ \E k \in 1 .. Len(job.given) : job.given[k] = job.at + e[1] - 1
             \/ next_token # NULL /\ \A k \in 1 .. Len(job.given) : job.given[k] < job.at + e[1] - 1
  BY DEF TokensInOrder
<1> DEFINE A == job.at
           text == job.was
           L == Len(text)
           all == Stretches(text, job.delim)
<1>1. /\ job \in Jobs /\ Memory
      /\ JobPlaced(job, next_token, mem) /\ JobText(job, next_token, mem)
      /\ JobReturned(job, next_token, mem) /\ JobLeft(job, next_token)
  BY DEF IInv, JobHolds
<1>2. /\ L \in Nat /\ A \in Nat /\ A >= 1 /\ A + L <= SIZE /\ SIZE \in Nat
      /\ \A i \in 1 .. L : text[i] \in Chars \ {NUL} /\ A + i - 1 \in Addr
      /\ NUL \notin job.delim
  BY <1>1, JobFacts
<1>3. ASSUME NEW k \in 1 .. Len(job.given)
      PROVE  \E e \in all :
               /\ job.given[k] = A + e[1] - 1
               /\ IsString(job.given[k])
               /\ SubSeq(mem, job.given[k], job.given[k] + strlen(job.given[k]) - 1)
                    = SubSeq(text, e[1], e[2])
  <2>1. PICK e \in all : job.given[k] = A + e[1] - 1 /\ mem[A + e[2]] = NUL
    BY <1>1 DEF JobReturned, Token1
  <2> QED
    BY <1>1, <2>1, StretchIsToken
<1>4. \A k \in 1 .. (Len(job.given) - 1) : job.given[k] < job.given[k + 1]
  BY <1>1 DEF JobReturned
<1>5. ASSUME NEW e \in all, ~ \E k \in 1 .. Len(job.given) : job.given[k] = A + e[1] - 1
      PROVE  next_token # NULL /\ \A k \in 1 .. Len(job.given) : job.given[k] < A + e[1] - 1
  <2>1. Ahead(job, next_token, e[1])
    BY <1>1, <1>5 DEF JobLeft, Returned, Token1
  <2>2. ASSUME NEW k \in 1 .. Len(job.given) PROVE job.given[k] < A + e[1] - 1
    <3>1. PICK f \in all : job.given[k] = A + f[1] - 1 /\ ~ Ahead(job, next_token, f[2])
      BY <1>1 DEF JobReturned, Token1
    <3>2. f[1] \in Nat /\ f[2] \in Nat /\ f[1] <= f[2] /\ e[1] \in Nat
      BY <1>2, StretchFacts
    <3>3. next_token - A + 1 \in Int
      BY <1>1, <1>2, <2>1 DEF JobPlaced, Ahead
    <3>4. f[2] < next_token - A + 1 /\ e[1] >= next_token - A + 1
      BY <2>1, <3>1, <3>2, <3>3 DEF Ahead
    <3> QED
      BY <1>2, <3>1, <3>2, <3>3, <3>4
  <2> QED
    BY <2>1, <2>2 DEF Ahead
<1> QED
  BY <1>3, <1>4, <1>5

\* A writer that writes into memory no more than it says keeps the invariant.
LEMMA WriterKeeps ==
  ASSUME IInv, NEW p \in Int, NEW n \in Nat, WriteTo(p, n), Memory',
         \A a \in Addr : a \notin Span(p, n) => mem'[a] = mem[a]
  PROVE  IInv'
<1>1. NoJob \in Jobs
  BY DEF NoJob, Jobs
<1>2. CASE job' = NoJob
  BY <1>1, <1>2 DEF IInv
<1>3. CASE job' # NoJob
  <2>1. /\ job' = job /\ next_token' = next_token /\ job # NoJob
        /\ Apart(p, n, job.at, Len(job.was) + 1)
    BY <1>3 DEF WriteTo
  <2>2. job \in Jobs /\ JobHolds(job, next_token, mem)
    BY <2>1 DEF IInv
  <2>3. /\ Len(job.was) \in Nat /\ job.at \in Nat /\ job.at >= 1
        /\ job.at + Len(job.was) <= SIZE /\ SIZE \in Nat
    BY <2>2, JobFacts DEF JobHolds
  <2>4. ASSUME NEW a \in job.at .. (job.at + Len(job.was)) PROVE mem'[a] = mem[a]
    <3>1. a \in Addr /\ a \in Span(job.at, Len(job.was) + 1)
      BY <2>3 DEF Addr, Span
    <3>2. a \notin Span(p, n)
      BY <2>1, <3>1 DEF Apart
    <3> QED
      BY <3>1, <3>2
  <2>5. JobHolds(job, next_token, mem')
    BY <2>2, <2>4, JobKept
  <2> QED
    BY <2>1, <2>2, <2>5 DEF IInv
<1> QED
  BY <1>2, <1>3

\* What strcpy and its kin leave is memory: they copy characters of a string.
LEMMA TextInMemory ==
  ASSUME Memory, NEW d \in Int, NEW s, IsString(s), NEW k \in Nat, k <= strlen(s),
         NEW w, w = [a \in Addr |-> w[a]],
         \A a \in Addr : w[a] = mem[a] \/ w[a] = NUL \/ (a \in Span(d, k) /\ w[a] = mem[s + a - d])
  PROVE  w \in [Addr -> Chars]
<1>1. /\ s \in Nat /\ s >= 1 /\ strlen(s) \in Nat /\ s + strlen(s) <= SIZE /\ SIZE \in Nat
  BY StringEnds, StringsAssumption DEF Addr
<1>2. NUL \in Chars
  BY StringsAssumption DEF NUL, Chars
<1>3. ASSUME NEW a \in Addr, a \in Span(d, k) PROVE mem[s + a - d] \in Chars
  <2>1. s + a - d \in Addr
    BY <1>1, <1>3 DEF Addr, Span
  <2> QED
    BY <2>1 DEF Memory
<1>4. \A a \in Addr : mem[a] \in Chars
  BY DEF Memory
<1>5. \A a \in Addr : w[a] \in Chars
  BY <1>2, <1>3, <1>4
<1> QED
  BY <1>5

LEMMA StrcpyKeeps ==
  ASSUME IInv, NEW d \in Addr, NEW s \in Addr, strcpy(d, s)
  PROVE  IInv'
<1> DEFINE k == strlen(s)
<1>1. /\ IsString(s) /\ mem' = Text(d, s, k, TRUE) /\ WriteTo(d, k + 1)
  BY DEF strcpy
<1>2. IsString(s) /\ k \in Nat /\ k <= strlen(s) /\ k + 1 \in Nat /\ d \in Int /\ Memory
  BY <1>1, StringEnds DEF Addr, IInv
<1> HIDE DEF k
<1>3. Memory'
  <2>1. /\ mem' = [a \in Addr |-> mem'[a]]
        /\ \A a \in Addr : mem'[a] = mem[a] \/ mem'[a] = NUL
                             \/ (a \in Span(d, k) /\ mem'[a] = mem[s + a - d])
    BY <1>1 DEF Text
  <2> QED
    BY <1>2, <2>1, TextInMemory DEF Memory
<1>4. \A a \in Addr : a \notin Span(d, k + 1) => mem'[a] = mem[a]
  BY <1>1, <1>2 DEF Text, Span, Addr
<1> QED
  BY <1>1, <1>2, <1>3, <1>4, WriterKeeps

\* The shorter of a length and a bound.
LEMMA LeastFacts ==
  ASSUME NEW i \in Nat, NEW j \in Nat
  PROVE  Least(i, j) \in Nat /\ Least(i, j) <= i /\ Least(i, j) <= j
BY DEF Least

LEMMA StrncpyKeeps ==
  ASSUME IInv, NEW d \in Addr, NEW s \in Addr, NEW n \in 0 .. SIZE, strncpy(d, s, n)
  PROVE  IInv'
<1> DEFINE k == Least(n, strlen(s))
<1>1. /\ IsString(s) /\ mem' = Text(d, s, k, k < n) /\ WriteTo(d, n)
  BY DEF strncpy
<1>2. /\ k \in Nat /\ k <= strlen(s) /\ k <= n /\ n \in Nat /\ d \in Int /\ Memory
  BY <1>1, StringEnds, StringsAssumption, LeastFacts DEF Addr, IInv
<1> HIDE DEF k
<1>3. Memory'
  <2>1. /\ mem' = [a \in Addr |-> mem'[a]]
        /\ \A a \in Addr : mem'[a] = mem[a] \/ mem'[a] = NUL
                             \/ (a \in Span(d, k) /\ mem'[a] = mem[s + a - d])
    BY <1>1 DEF Text
  <2> QED
    BY <1>1, <1>2, <2>1, TextInMemory DEF Memory
<1>4. \A a \in Addr : a \notin Span(d, n) => mem'[a] = mem[a]
  BY <1>1, <1>2 DEF Text, Span, Addr
<1> QED
  BY <1>1, <1>2, <1>3, <1>4, WriterKeeps

LEMMA StrcatKeeps ==
  ASSUME IInv, NEW d \in Addr, NEW s \in Addr, strcat(d, s)
  PROVE  IInv'
<1> DEFINE end == d + strlen(d)
           k == strlen(s)
<1>1. /\ IsString(d) /\ IsString(s) /\ mem' = Text(end, s, k, TRUE) /\ WriteTo(end, k + 1)
  BY DEF strcat
<1>2. IsString(s) /\ k \in Nat /\ k <= strlen(s) /\ k + 1 \in Nat /\ end \in Int /\ Memory
  BY <1>1, StringEnds DEF Addr, IInv
<1> HIDE DEF k, end
<1>3. Memory'
  <2>1. /\ mem' = [a \in Addr |-> mem'[a]]
        /\ \A a \in Addr : mem'[a] = mem[a] \/ mem'[a] = NUL
                             \/ (a \in Span(end, k) /\ mem'[a] = mem[s + a - end])
    BY <1>1 DEF Text
  <2> QED
    BY <1>2, <2>1, TextInMemory DEF Memory
<1>4. \A a \in Addr : a \notin Span(end, k + 1) => mem'[a] = mem[a]
  BY <1>1, <1>2 DEF Text, Span, Addr
<1> QED
  BY <1>1, <1>2, <1>3, <1>4, WriterKeeps

LEMMA StrncatKeeps ==
  ASSUME IInv, NEW d \in Addr, NEW s \in Addr, NEW n \in 0 .. SIZE, strncat(d, s, n)
  PROVE  IInv'
<1> DEFINE end == d + strlen(d)
           k == Least(n, strlen(s))
<1>1. /\ IsString(d) /\ IsString(s) /\ mem' = Text(end, s, k, k < n) /\ WriteTo(end, n)
  BY DEF strncat
<1>2. k \in Nat /\ k <= strlen(s) /\ k <= n /\ n \in Nat /\ end \in Int /\ Memory
  BY <1>1, StringEnds, StringsAssumption, LeastFacts DEF Addr, IInv
<1> HIDE DEF k, end
<1>3. Memory'
  <2>1. /\ mem' = [a \in Addr |-> mem'[a]]
        /\ \A a \in Addr : mem'[a] = mem[a] \/ mem'[a] = NUL
                             \/ (a \in Span(end, k) /\ mem'[a] = mem[s + a - end])
    BY <1>1 DEF Text
  <2> QED
    BY <1>1, <1>2, <2>1, TextInMemory DEF Memory
<1>4. \A a \in Addr : a \notin Span(end, n) => mem'[a] = mem[a]
  BY <1>1, <1>2 DEF Text, Span, Addr
<1> QED
  BY <1>1, <1>2, <1>3, <1>4, WriterKeeps

LEMMA MemsetKeeps ==
  ASSUME IInv, NEW p \in Addr, NEW v \in Nat, NEW n \in 0 .. SIZE, memset(p, v, n)
  PROVE  IInv'
<1>1. /\ mem' = [a \in Addr |-> IF a \in Span(p, n) THEN v % CHAR_MOD ELSE mem[a]]
      /\ WriteTo(p, n)
  BY DEF memset
<1>2. v % CHAR_MOD \in Chars
  BY StringsAssumption DEF Chars
<1>3. Memory'
  BY <1>1, <1>2 DEF Memory, IInv
<1>4. \A a \in Addr : a \notin Span(p, n) => mem'[a] = mem[a]
  BY <1>1
<1>5. p \in Int /\ n \in Nat
  BY StringsAssumption DEF Addr
<1> QED
  BY <1>1, <1>3, <1>4, <1>5, WriterKeeps

\* What is moved is memory, and only the bytes it is moved to are written.
LEMMA MovedKeeps ==
  ASSUME IInv, NEW d \in Addr, NEW s \in Addr, NEW n \in 0 .. SIZE,
         Fits(d, n), Fits(s, n), WriteTo(d, n),
         mem' = [a \in Addr |-> IF a \in Span(d, n) THEN mem[s + a - d] ELSE mem[a]]
  PROVE  IInv'
<1>1. SIZE \in Nat /\ d \in Int /\ n \in Nat /\ s \in Int
  BY StringsAssumption DEF Addr
<1>2. ASSUME NEW a \in Addr, a \in Span(d, n) PROVE mem[s + a - d] \in Chars
  <2>1. s + a - d \in Span(s, n)
    BY <1>1, <1>2 DEF Span, Addr
  <2>2. s + a - d \in Addr
    BY <2>1 DEF Fits
  <2> QED
    BY <2>2 DEF IInv, Memory
<1>3. Memory'
  BY <1>2 DEF IInv, Memory
<1>4. \A a \in Addr : a \notin Span(d, n) => mem'[a] = mem[a]
  OBVIOUS
<1> QED
  BY <1>1, <1>3, <1>4, WriterKeeps

LEMMA MemcpyKeeps ==
  ASSUME IInv, NEW d \in Addr, NEW s \in Addr, NEW n \in 0 .. SIZE, memcpy(d, s, n)
  PROVE  IInv'
<1>1. /\ Fits(d, n) /\ Fits(s, n) /\ Apart(d, n, s, n) /\ WriteTo(d, n)
      /\ mem' = Moved(d, s, Upwards(n))
  BY DEF memcpy
<1>2. Safe(d, s, n, "up") /\ Offsets(n, "up") = Upwards(n) /\ Memory
  BY <1>1 DEF Safe, Offsets, IInv
<1>3. mem' = [a \in Addr |-> IF a \in Span(d, n) THEN mem[s + a - d] ELSE mem[a]]
  BY <1>1, <1>2, BytesArrive
<1> QED
  BY <1>1, <1>3, MovedKeeps

LEMMA MemmoveKeeps ==
  ASSUME IInv, NEW d \in Addr, NEW s \in Addr, NEW n \in 0 .. SIZE, memmove(d, s, n)
  PROVE  IInv'
<1>1. /\ Fits(d, n) /\ Fits(s, n) /\ WriteTo(d, n)
      /\ mem' = Moved(d, s, Order(d, s, n))
  BY DEF memmove
<1>2. MoveExact
  BY MemoryMoves DEF IInv
<1>3. mem' = [a \in Addr |-> IF a \in Span(d, n) THEN mem[s + a - d] ELSE mem[a]]
  BY <1>1, <1>2 DEF MoveExact
<1> QED
  BY <1>1, <1>3, MovedKeeps

\* From the cursor on the string is as it was, and ends where it ended.
LEMMA CursorText ==
  ASSUME Memory, NEW j \in Jobs, NEW cur, cur # NULL, JobHolds(j, cur, mem)
  PROVE  /\ IsString(cur) /\ cur \in Nat /\ cur - j.at + 1 \in 1 .. (Len(j.was) + 1)
         /\ cur + strlen(cur) = j.at + Len(j.was)
         /\ \A i \in 1 .. Len(j.was) : i >= cur - j.at + 1 => mem[j.at + i - 1] = j.was[i]
<1> DEFINE A == j.at
           L == Len(j.was)
<1>1. /\ L \in Nat /\ A \in Nat /\ A >= 1 /\ A + L <= SIZE /\ SIZE \in Nat
      /\ \A i \in 1 .. L : j.was[i] \in Chars \ {NUL}
  BY JobFacts DEF JobHolds
<1>2. /\ cur \in Nat /\ cur - A + 1 \in 1 .. (L + 1) /\ cur \in Addr
      /\ mem[A + L] = NUL
  BY <1>1 DEF JobHolds, JobPlaced, Addr
<1>3. \A i \in 1 .. L : i >= cur - A + 1 => mem[A + i - 1] = j.was[i]
  BY DEF JobHolds, JobText, Ahead
<1> HIDE DEF A, L
<1>4. IsString(cur)
  BY <1>1, <1>2 DEF IsString
<1>5. /\ strlen(cur) \in Nat /\ mem[cur + strlen(cur)] = NUL
      /\ \A i \in 0 .. (strlen(cur) - 1) : mem[cur + i] # NUL
  BY <1>4, StringEnds
<1>6. ASSUME cur + strlen(cur) < A + L PROVE FALSE
  <2> DEFINE i == cur + strlen(cur) - A + 1
  <2>1. i \in 1 .. L /\ i >= cur - A + 1 /\ A + i - 1 = cur + strlen(cur)
    BY <1>1, <1>2, <1>5, <1>6
  <2>2. mem[A + i - 1] = j.was[i] /\ j.was[i] # NUL
    BY <1>1, <1>3, <2>1 DEF A, L
  <2> QED
    BY <1>5, <2>1, <2>2
<1>7. ASSUME cur + strlen(cur) > A + L PROVE FALSE
  <2>1. A + L - cur \in 0 .. (strlen(cur) - 1) /\ cur + (A + L - cur) = A + L
    BY <1>1, <1>2, <1>5, <1>7
  <2> QED
    BY <1>2, <1>5, <2>1
<1>8. cur + strlen(cur) = A + L
  BY <1>1, <1>2, <1>5, <1>6, <1>7
<1> QED
  BY <1>2, <1>3, <1>4, <1>8 DEF A, L

\* The delimiters strtok skips first, and where that leaves it.
LEMMA DelimitersSkipped ==
  ASSUME Memory, NEW j \in Jobs, NEW cur, cur # NULL, JobHolds(j, cur, mem)
  PROVE  LET p == Token(cur, j.delim)
         IN  /\ p \in cur .. (j.at + Len(j.was)) /\ mem[p] \notin j.delim
             /\ \A i \in 1 .. Len(j.was) :
                  i >= cur - j.at + 1 /\ i < p - j.at + 1 => j.was[i] \in j.delim
             /\ mem[p] = NUL => p = j.at + Len(j.was)
<1> DEFINE A == j.at
           L == Len(j.was)
           D == j.delim
           p == Token(cur, D)
<1>1. /\ L \in Nat /\ A \in Nat /\ A >= 1 /\ A + L <= SIZE /\ SIZE \in Nat
      /\ \A i \in 1 .. L : j.was[i] \in Chars \ {NUL}
      /\ NUL \notin D
  BY JobFacts DEF JobHolds
<1>2. /\ IsString(cur) /\ cur \in Nat /\ cur - A + 1 \in 1 .. (L + 1)
      /\ cur + strlen(cur) = A + L
      /\ \A i \in 1 .. L : i >= cur - A + 1 => mem[A + i - 1] = j.was[i]
  BY CursorText
<1> DEFINE t == strspn(cur, D)
<1>3. /\ t \in 0 .. strlen(cur) /\ mem[cur + t] \notin D
      /\ \A i \in 0 .. (t - 1) : mem[cur + i] \in D
  <2> HIDE DEF D
  <2> QED
    BY <1>1, <1>2, StrspnStops
<1>4. strlen(cur) \in Nat /\ p = cur + t
  BY <1>2, StringEnds DEF Token
<1> HIDE DEF A, L, D, p, t
<1>5. p \in cur .. (A + L) /\ mem[p] \notin D
  BY <1>1, <1>2, <1>3, <1>4
<1>6. ASSUME NEW i \in 1 .. L, i >= cur - A + 1, i < p - A + 1 PROVE j.was[i] \in D
  <2>1. A + i - 1 - cur \in 0 .. (t - 1) /\ cur + (A + i - 1 - cur) = A + i - 1
    BY <1>1, <1>2, <1>3, <1>4, <1>6
  <2>2. mem[A + i - 1] \in D
    BY <1>3, <2>1
  <2> QED
    BY <1>2, <1>6, <2>2
<1>7. ASSUME mem[p] = NUL, p # A + L PROVE FALSE
  <2> DEFINE i == p - A + 1
  <2>1. i \in 1 .. L /\ i >= cur - A + 1 /\ A + i - 1 = p
    BY <1>1, <1>2, <1>5, <1>7
  <2>2. mem[A + i - 1] = j.was[i] /\ j.was[i] # NUL
    BY <1>1, <1>2, <2>1
  <2> QED
    BY <1>7, <2>1, <2>2
<1> QED
  BY <1>5, <1>6, <1>7 DEF A, L, D, p

\* What strtok finds next is a stretch, and behind it is a delimiter or the end.
LEMMA NextStretch ==
  ASSUME Memory, NEW j \in Jobs, NEW cur, cur # NULL, JobHolds(j, cur, mem),
         mem[Token(cur, j.delim)] # NUL
  PROVE  LET p == Token(cur, j.delim)
             q == TokenEnd(cur, j.delim)
         IN  /\ p \in Nat /\ q \in Addr /\ cur <= p /\ p < q /\ q <= j.at + Len(j.was)
             /\ <<p - j.at + 1, q - j.at>> \in Stretches(j.was, j.delim)
             /\ mem[q] = NUL <=> q = j.at + Len(j.was)
<1>4. /\ mem[j.at + Len(j.was)] = NUL
      /\ cur = j.at \/ cur = j.at + Len(j.was) \/ j.was[cur - j.at] \in j.delim
  BY DEF JobHolds, JobPlaced
<1> DEFINE A == j.at
           L == Len(j.was)
           D == j.delim
           p == Token(cur, D)
           q == TokenEnd(cur, D)
           f == p - A + 1
           l == q - A
<1>1. /\ L \in Nat /\ A \in Nat /\ A >= 1 /\ A + L <= SIZE /\ SIZE \in Nat
      /\ \A i \in 1 .. L : j.was[i] \in Chars \ {NUL}
  BY JobFacts DEF JobHolds
<1>2. /\ IsString(cur) /\ cur \in Nat /\ cur - A + 1 \in 1 .. (L + 1)
      /\ cur + strlen(cur) = A + L
      /\ \A i \in 1 .. L : i >= cur - A + 1 => mem[A + i - 1] = j.was[i]
  BY CursorText
<1>3. /\ p \in cur .. (A + L) /\ mem[p] \notin D /\ mem[p] # NUL
      /\ \A i \in 1 .. L : i >= cur - A + 1 /\ i < f => j.was[i] \in D
  BY DelimitersSkipped
<1> DEFINE u == strcspn(p, D)
<1>5. /\ IsString(p) /\ p + strlen(p) = A + L
      /\ u \in 0 .. strlen(p) /\ mem[p + u] \in D \cup {NUL} /\ q = p + u
      /\ \A i \in 0 .. (u - 1) : mem[p + i] \notin D \cup {NUL}
  <2> HIDE DEF p, A, L
  <2>1. IsString(p) /\ p + strlen(p) = A + L
    BY <1>2, <1>3, RestIsString
  <2>2. q = p + u
    BY DEF TokenEnd, p
  <2> HIDE DEF D, q
  <2> QED
    BY <2>1, <2>2, StrcspnStops
<1>6. strlen(p) \in Nat
  BY <1>5, StringEnds
<1> HIDE DEF A, L, D, p, q, u
<1>7. p \in Nat /\ q \in Nat /\ u \in Nat /\ u # 0 /\ p < q /\ q <= A + L
  BY <1>1, <1>2, <1>3, <1>5, <1>6
<1>8. p < A + L /\ f \in 1 .. L /\ l \in 1 .. L /\ f <= l
  BY <1>1, <1>2, <1>3, <1>7
<1>9. ASSUME NEW i \in f .. l PROVE j.was[i] \notin D
  <2>1. A + i - 1 - p \in 0 .. (u - 1) /\ p + (A + i - 1 - p) = A + i - 1
    BY <1>1, <1>5, <1>7, <1>8
  <2>2. mem[A + i - 1] \notin D
    BY <1>5, <2>1
  <2>3. i \in 1 .. L /\ i >= cur - A + 1
    BY <1>1, <1>2, <1>3, <1>8
  <2> QED
    BY <1>2, <2>2, <2>3
<1>10. f = 1 \/ j.was[f - 1] \in D
  <2>1. CASE f = cur - A + 1
    <3>1. f - 1 = cur - A /\ cur # A + L /\ (cur = A => f = 1)
      BY <1>1, <1>2, <1>8, <2>1
    <3> QED
      BY <1>4, <2>1, <3>1 DEF A, L, D
  <2>2. CASE f # cur - A + 1
    <3>1. f - 1 \in 1 .. L /\ f - 1 >= cur - A + 1 /\ f - 1 < f
      BY <1>1, <1>2, <1>3, <1>8, <2>2
    <3> HIDE DEF f
    <3> QED
      BY <1>3, <3>1
  <2> QED
    BY <2>1, <2>2
<1>11. ASSUME q # A + L PROVE mem[q] # NUL /\ j.was[l + 1] \in D
  <2>1. l + 1 \in 1 .. L /\ l + 1 >= cur - A + 1 /\ A + (l + 1) - 1 = q
    BY <1>1, <1>2, <1>3, <1>7, <1>8, <1>11
  <2>2. mem[q] = j.was[l + 1] /\ j.was[l + 1] # NUL
    BY <1>1, <1>2, <2>1
  <2> QED
    BY <1>5, <2>2
<1>12. l = L \/ j.was[l + 1] \in D
  BY <1>1, <1>7, <1>11
<1>13. <<f, l>> \in Stretches(j.was, D)
  <2>1. <<f, l>> \in (1 .. Len(j.was)) \X (1 .. Len(j.was))
    BY <1>8 DEF L
  <2> QED
    BY <1>8, <1>9, <1>10, <1>12, <2>1 DEF Stretches, L
<1>14. q \in Addr /\ cur <= p
  BY <1>1, <1>2, <1>3, <1>7 DEF Addr
<1> QED
  BY <1>4, <1>7, <1>11, <1>13, <1>14 DEF A, L, D, p, q

\* When only delimiters are left, every stretch has been returned.
LEMMA NoneLeft ==
  ASSUME Memory, NEW j \in Jobs, NEW cur, cur # NULL, JobHolds(j, cur, mem),
         mem[Token(cur, j.delim)] = NUL
  PROVE  JobHolds(j, NULL, mem)
<1>1. /\ JobPlaced(j, cur, mem) /\ JobText(j, cur, mem)
      /\ JobReturned(j, cur, mem) /\ JobLeft(j, cur)
  BY DEF JobHolds
<1>2. \A i : ~ Ahead(j, NULL, i)
  BY DEF Ahead
<1>3. JobPlaced(j, NULL, mem)
  BY <1>1 DEF JobPlaced
<1>4. JobText(j, NULL, mem)
  BY <1>1, <1>2 DEF JobText
<1>5. JobReturned(j, NULL, mem)
  BY <1>1, <1>2 DEF JobReturned
<1>6. ASSUME NEW e \in Stretches(j.was, j.delim), Ahead(j, cur, e[1]) PROVE FALSE
  <2>1. Len(j.was) \in Nat /\ j.at \in Nat /\ cur \in Nat
    BY <1>1, JobFacts, CursorText
  <2>2. e[1] \in 1 .. Len(j.was) /\ e[1] >= cur - j.at + 1 /\ j.was[e[1]] \notin j.delim
    BY <1>6, <2>1, StretchStarts DEF Ahead
  <2>3. Token(cur, j.delim) = j.at + Len(j.was)
    BY DelimitersSkipped
  <2>4. e[1] < Token(cur, j.delim) - j.at + 1
    BY <2>1, <2>2, <2>3
  <2> QED
    BY <2>2, <2>4, DelimitersSkipped
<1>7. JobLeft(j, NULL)
  BY <1>1, <1>6 DEF JobLeft
<1> QED
  BY <1>3, <1>4, <1>5, <1>7 DEF JobHolds

\* A token more, behind which strtok has written a 0 and goes on.
LEMMA OneMore ==
  ASSUME Memory, NEW j \in Jobs, NEW cur, cur # NULL, JobHolds(j, cur, mem),
         mem[Token(cur, j.delim)] # NUL,
         NEW g, g = [j EXCEPT !.given = Append(@, Token(cur, j.delim))],
         NEW w, w = [mem EXCEPT ![TokenEnd(cur, j.delim)] = NUL]
  PROVE  g \in Jobs /\ JobHolds(g, Resume(TokenEnd(cur, j.delim)), w)
<1> DEFINE A == j.at
           L == Len(j.was)
           D == j.delim
           p == Token(cur, D)
           q == TokenEnd(cur, D)
           f == p - A + 1
           l == q - A
           on == Resume(q)
<1>1. /\ L \in Nat /\ A \in Nat /\ A >= 1 /\ A + L <= SIZE /\ SIZE \in Nat
  BY JobFacts DEF JobHolds
<1>2. /\ cur \in Nat /\ cur - A + 1 \in 1 .. (L + 1)
  BY CursorText
<1>3. \A i \in 1 .. L : i >= cur - A + 1 /\ i < f => j.was[i] \in D
  BY DelimitersSkipped
<1>4. /\ p \in Nat /\ q \in Addr /\ cur <= p /\ p < q /\ q <= A + L
  BY NextStretch
<1>s. <<f, l>> \in Stretches(j.was, D)
  BY NextStretch
<1>z. mem[q] = NUL <=> q = A + L
  BY NextStretch
<1>5. /\ JobPlaced(j, cur, mem) /\ JobText(j, cur, mem)
      /\ JobReturned(j, cur, mem) /\ JobLeft(j, cur)
  BY DEF JobHolds
<1>g. j.given \in Seq(Addr)
  BY DEF Jobs
<1>6. p \in Addr /\ q \in Nat /\ l \in 1 .. L /\ f \in 1 .. L /\ f <= l
  <2> HIDE DEF p, q, A, L
  <2>1. SIZE \in Nat /\ q \in Nat /\ p >= 1 /\ p <= SIZE
    BY <1>1, <1>2, <1>4 DEF Addr
  <2>2. p \in Addr
    BY <1>4, <2>1 DEF Addr
  <2>3. q - A \in 1 .. L
    BY <1>1, <1>2, <1>4, <2>1
  <2>4. p - A + 1 \in 1 .. L /\ p - A + 1 <= q - A
    BY <1>1, <1>2, <1>4, <2>1
  <2> QED
    BY <2>1, <2>2, <2>3, <2>4
<1>7. /\ g \in Jobs /\ g.at = A /\ g.was = j.was /\ g.delim = D
      /\ g.given = Append(j.given, p)
  <2>1. Append(j.given, p) \in Seq(Addr)
    BY <1>6, <1>g
  <2>2. g = [j EXCEPT !.given = Append(j.given, p)]
    OBVIOUS
  <2> HIDE DEF p
  <2> QED
    BY <2>1, <2>2 DEF Jobs
<1>8. Len(j.given) \in Nat /\ Len(g.given) = Len(j.given) + 1 /\ g.given[Len(j.given) + 1] = p
      /\ \A k \in 1 .. Len(j.given) : g.given[k] = j.given[k]
  BY <1>6, <1>7, <1>g
<1>9. on = (IF q = A + L THEN q ELSE q + 1) /\ on # NULL
  <2> HIDE DEF q, A, L
  <2>1. q \in Nat /\ q >= 1
    BY <1>1, <1>4 DEF Addr
  <2>2. on = IF q = A + L THEN q ELSE q + 1
    BY <1>z DEF Resume
  <2> QED
    BY <2>1, <2>2 DEF NULL
<1>10. w[q] = NUL /\ \A a \in Addr : a # q => w[a] = mem[a]
  BY <1>4 DEF Memory
<1> HIDE DEF p, q, on
<1>11. on \in Nat /\ on - A + 1 >= l + 1 /\ on - A + 1 \in 1 .. (L + 1) /\ on \in Addr
  <2> HIDE DEF A, L
  <2>1. q \in Nat /\ q >= 1 /\ q <= SIZE /\ q <= A + L /\ q - A >= 1
    BY <1>1, <1>4, <1>6 DEF Addr
  <2>2. CASE q = A + L
    <3>1. on = q
      BY <1>9, <2>2
    <3> QED
      BY <1>1, <2>1, <2>2, <3>1 DEF Addr
  <2>3. CASE q # A + L
    <3>1. on = q + 1
      BY <1>9, <2>3
    <3> QED
      BY <1>1, <2>1, <2>3, <3>1 DEF Addr
  <2> QED
    BY <2>2, <2>3
<1> HIDE DEF A, L
<1>12. ASSUME NEW i \in Int, ~ Ahead(j, cur, i) PROVE ~ Ahead(g, on, i)
  <2>1. i < cur - A + 1
    BY <1>1, <1>2, <1>12 DEF Ahead, A
  <2>2. i < on - A + 1
    <3>1. cur - A + 1 <= l + 1
      <4>1. cur <= q /\ A \in Int /\ cur \in Int /\ q \in Int
        BY <1>1, <1>2, <1>4, <1>6
      <4> QED
        BY <4>1
    <3>2. on - A + 1 \in Int /\ cur - A + 1 \in Int /\ l + 1 \in Int /\ on - A + 1 >= l + 1
      BY <1>1, <1>2, <1>6, <1>11
    <3> QED
      BY <2>1, <3>1, <3>2
  <2> QED
    BY <1>1, <1>7, <1>11, <2>2 DEF Ahead
<1> USE DEF A, L
<1>13. JobPlaced(g, on, w)
  <2>1. A \in Addr /\ A + L \in Addr /\ mem[A + L] = NUL
    BY <1>5 DEF JobPlaced
  <2>2. w[A + L] = NUL
    BY <1>10, <2>1
  <2>3. on = A + L \/ j.was[on - A] \in D
    <3>1. CASE q = A + L
      BY <1>1, <1>9, <3>1
    <3>2. CASE q # A + L
      <4>1. l # L /\ on - A = l + 1
        BY <1>1, <1>6, <1>9, <3>2
      <4>2. j.was[l + 1] \in D
        <5> DEFINE e == <<f, l>>
        <5>1. e \in Stretches(j.was, D) /\ e[2] = l
          BY <1>s
        <5> HIDE DEF e
        <5>2. e[2] = Len(j.was) \/ j.was[e[2] + 1] \in D
          BY <1>1, <5>1, StretchFacts
        <5> QED
          BY <4>1, <5>1, <5>2
      <4> QED
        BY <4>1, <4>2
    <3> QED
      BY <3>1, <3>2
  <2> QED
    <3>1. on \in A .. (A + L)
      <4> HIDE DEF A, L
      <4> QED
        BY <1>1, <1>11
    <3> QED
      BY <1>7, <2>1, <2>2, <2>3, <3>1 DEF JobPlaced
<1>14. JobText(g, on, w)
  <2> SUFFICES ASSUME NEW i \in 1 .. L
               PROVE  \/ w[A + i - 1] = j.was[i]
                      \/ ~ Ahead(g, on, i) /\ w[A + i - 1] = NUL /\ j.was[i] \in D
    BY <1>7 DEF JobText
  <2>1. A + i - 1 \in Addr /\ i \in Int
    BY <1>1 DEF Addr
  <2>2. CASE A + i - 1 = q
    <3>1. i = l + 1 /\ q # A + L /\ on = q + 1
      BY <1>1, <1>6, <1>9, <2>2
    <3>2. j.was[i] \in D
      <4> DEFINE e == <<f, l>>
      <4>1. e \in Stretches(j.was, D) /\ e[2] = l
        BY <1>s
      <4> HIDE DEF e
      <4>2. e[2] = Len(j.was) \/ j.was[e[2] + 1] \in D
        BY <1>1, <4>1, StretchFacts
      <4>3. l # L
        BY <1>1, <1>6, <3>1
      <4> QED
        BY <3>1, <4>1, <4>2, <4>3
    <3>3. ~ Ahead(g, on, i)
      BY <1>1, <1>6, <1>7, <3>1 DEF Ahead
    <3> QED
      BY <1>10, <2>2, <3>2, <3>3
  <2>3. CASE A + i - 1 # q
    <3>1. w[A + i - 1] = mem[A + i - 1]
      BY <1>10, <2>1, <2>3
    <3>2. \/ mem[A + i - 1] = j.was[i]
          \/ ~ Ahead(j, cur, i) /\ mem[A + i - 1] = NUL /\ j.was[i] \in D
      BY <1>5 DEF JobText
    <3> QED
      BY <1>12, <2>1, <3>1, <3>2
  <2> QED
    BY <2>2, <2>3
<1>15. JobReturned(g, on, w)
  <2>1. ASSUME NEW k \in 1 .. Len(j.given)
        PROVE  \E e \in Stretches(j.was, D) :
                 /\ j.given[k] = Token1(g, e) /\ w[A + e[2]] = NUL /\ ~ Ahead(g, on, e[2])
                 /\ j.given[k] < p
    <3>1. PICK e \in Stretches(j.was, D) :
            j.given[k] = Token1(j, e) /\ mem[A + e[2]] = NUL /\ ~ Ahead(j, cur, e[2])
      BY <1>5 DEF JobReturned
    <3>2. e[1] \in 1 .. L /\ e[2] \in 1 .. L /\ e[1] <= e[2]
      BY <1>1, StretchFacts
    <3>3. A + e[2] \in Addr
      BY <1>1, <3>2 DEF Addr
    <3>4. w[A + e[2]] = NUL
      BY <1>10, <3>1, <3>3
    <3>5. ~ Ahead(g, on, e[2])
      <4>1. e[2] \in Int
        BY <3>2
      <4> QED
        BY <1>12, <3>1, <4>1
    <3>6. e[2] < cur - A + 1
      BY <1>1, <1>2, <3>1, <3>2 DEF Ahead
    <3>7. A + e[1] - 1 < p
      <4> HIDE DEF A, L
      <4> QED
        BY <1>1, <1>2, <1>4, <3>2, <3>6
    <3>8. Token1(g, e) = A + e[1] - 1 /\ Token1(j, e) = A + e[1] - 1
      BY <1>7 DEF Token1
    <3> QED
      BY <3>1, <3>4, <3>5, <3>7, <3>8
  <2>2. \E e \in Stretches(j.was, D) :
          p = Token1(g, e) /\ w[A + e[2]] = NUL /\ ~ Ahead(g, on, e[2])
    <3> DEFINE e == <<f, l>>
    <3>1. e \in Stretches(j.was, D) /\ e[1] = f /\ e[2] = l
      BY <1>s
    <3> HIDE DEF e
    <3>2. p = Token1(g, e) /\ A + e[2] = q
      <4>1. A + f - 1 = p /\ A + l = q
        <5> HIDE DEF A, L
        <5> QED
          BY <1>1, <1>4, <1>6
      <4> QED
        BY <1>7, <3>1, <4>1 DEF Token1
    <3>3. ~ Ahead(g, on, e[2])
      BY <1>1, <1>6, <1>7, <1>11, <3>1 DEF Ahead
    <3> QED
      BY <1>10, <3>1, <3>2, <3>3
  <2>3. ASSUME NEW k \in 1 .. Len(g.given)
        PROVE  \E e \in Stretches(j.was, D) :
                 g.given[k] = Token1(g, e) /\ w[A + e[2]] = NUL /\ ~ Ahead(g, on, e[2])
    <3>1. k \in 1 .. Len(j.given) \/ k = Len(j.given) + 1
      BY <1>8
    <3> QED
      BY <1>8, <2>1, <2>2, <3>1
  <2>4. ASSUME NEW k \in 1 .. (Len(g.given) - 1) PROVE g.given[k] < g.given[k + 1]
    <3>1. k \in 1 .. Len(j.given)
      BY <1>8
    <3>2. CASE k = Len(j.given)
      BY <1>8, <2>1, <3>1, <3>2
    <3>3. CASE k # Len(j.given)
      <4>1. k \in 1 .. (Len(j.given) - 1) /\ k + 1 \in 1 .. Len(j.given)
        BY <1>8, <3>1, <3>3
      <4> QED
        BY <1>5, <1>8, <3>1, <4>1 DEF JobReturned
    <3> QED
      BY <3>2, <3>3
  <2> QED
    BY <1>7, <2>3, <2>4 DEF JobReturned
<1>16. JobLeft(g, on)
  <2> SUFFICES ASSUME NEW e \in Stretches(j.was, D) PROVE Returned(g, e) \/ Ahead(g, on, e[1])
    BY <1>7 DEF JobLeft
  <2>1. /\ e[1] \in 1 .. L /\ j.was[e[1]] \notin D
        /\ e[1] = 1 \/ j.was[e[1] - 1] \in D
    BY <1>1, StretchFacts, StretchStarts
  <2>2. Token1(g, e) = A + e[1] - 1 /\ Token1(j, e) = A + e[1] - 1
    BY <1>7 DEF Token1
  <2>3. CASE Returned(j, e)
    <3>1. PICK k \in 1 .. Len(j.given) : j.given[k] = Token1(j, e)
      BY <2>3 DEF Returned
    <3>2. k \in 1 .. Len(g.given)
      BY <1>8
    <3> QED
      BY <1>8, <2>2, <3>1, <3>2 DEF Returned
  <2>4. CASE e[1] = f
    <3>1. Token1(g, e) = p
      BY <1>1, <1>4, <2>2, <2>4
    <3>2. Len(g.given) \in 1 .. Len(g.given) /\ g.given[Len(g.given)] = p
      BY <1>8
    <3> QED
      BY <3>1, <3>2 DEF Returned
  <2>5. CASE Ahead(j, cur, e[1]) /\ e[1] # f
    <3>1. e[1] >= cur - A + 1
      BY <2>5 DEF Ahead
    <3>2. f \in 1 .. L /\ f <= l /\ e[1] > f
      BY <1>3, <1>6, <2>1, <2>5, <3>1
    <3>3. \A k \in f .. l : j.was[k] \notin D
      <4> DEFINE s == <<f, l>>
      <4>1. s \in Stretches(j.was, D) /\ s[1] = f /\ s[2] = l
        BY <1>s
      <4> HIDE DEF s
      <4>2. \A k \in s[1] .. s[2] : j.was[k] \notin D
        BY <1>1, <4>1, StretchFacts
      <4> QED
        BY <4>1, <4>2
    <3>4. ASSUME e[1] <= l PROVE FALSE
      <4>1. e[1] - 1 \in f .. l /\ e[1] # 1
        BY <1>6, <2>1, <3>2, <3>4
      <4> QED
        BY <2>1, <3>3, <4>1
    <3>5. ASSUME l < L PROVE j.was[l + 1] \in D
      <4> DEFINE s == <<f, l>>
      <4>1. s \in Stretches(j.was, D) /\ s[2] = l
        BY <1>s
      <4> HIDE DEF s
      <4>2. s[2] = Len(j.was) \/ j.was[s[2] + 1] \in D
        BY <1>1, <4>1, StretchFacts
      <4> QED
        BY <1>6, <3>5, <4>1, <4>2
    <3>6. e[1] # l + 1
      BY <1>1, <1>6, <2>1, <3>5
    <3>7. e[1] >= l + 2 /\ q # A + L
      <4> HIDE DEF A, L
      <4>1. e[1] \in Nat /\ e[1] <= L /\ e[1] > l
        BY <1>1, <1>6, <2>1, <3>4
      <4> QED
        BY <1>1, <1>6, <3>6, <4>1
    <3>8. on - A + 1 = l + 2
      BY <1>1, <1>6, <1>9, <3>7
    <3> QED
      BY <1>7, <1>9, <3>7, <3>8 DEF Ahead
  <2> QED
    BY <1>5, <2>3, <2>4, <2>5 DEF JobLeft
<1> QED
  BY <1>7, <1>13, <1>14, <1>15, <1>16 DEF JobHolds, on, q

\* A job no token of which has been returned.
LEMMA NewJob ==
  ASSUME NEW at \in Addr, NEW was \in Seq(Chars \ {NUL}), NEW delim \in SUBSET (Chars \ {NUL})
  PROVE  [at |-> at, was |-> was, delim |-> delim, given |-> << >>] \in Jobs
<1>1. << >> \in Seq(Addr) /\ at \in Addr \cup {NULL}
  OBVIOUS
<1> QED
  BY <1>1 DEF Jobs

\* A string given to strtok begins a job at its first character.
LEMMA Begin ==
  ASSUME Memory, NEW str, IsString(str), NEW delim \in CharSets,
         NEW b, b = [at |-> str, was |-> SubSeq(mem, str, str + strlen(str) - 1),
                     delim |-> delim, given |-> << >>]
  PROVE  b \in Jobs /\ b # NoJob /\ str # NULL /\ JobHolds(b, str, mem)
<1> DEFINE L == strlen(str)
           was == SubSeq(mem, str, str + L - 1)
<1>1. /\ str \in Addr /\ str \in Nat /\ str >= 1 /\ L \in Nat /\ str + L \in Addr
      /\ str + L <= SIZE /\ SIZE \in Nat /\ mem[str + L] = NUL
      /\ \A i \in 0 .. (L - 1) : mem[str + i] # NUL /\ str + i \in Addr
  BY StringEnds, StringsAssumption DEF Addr
<1>2. b.at = str /\ b.was = was /\ b.delim = delim /\ b.given = << >>
  OBVIOUS
<1> HIDE DEF L
<1>3. ASSUME NEW i \in str .. (str + L - 1) PROVE mem[i] \in Chars \ {NUL}
  <2>1. i - str \in 0 .. (L - 1) /\ str + (i - str) = i
    BY <1>1
  <2>2. mem[i] # NUL /\ i \in Addr
    BY <1>1, <2>1
  <2> QED
    BY <2>2 DEF Memory
<1>4. /\ was \in Seq(Chars \ {NUL}) /\ Len(was) = L
      /\ \A i \in 1 .. L : was[i] = mem[str + i - 1]
  <2>1. str \in Int /\ str + L - 1 \in Int
    BY <1>1
  <2>2. /\ was \in Seq(Chars \ {NUL})
        /\ Len(was) = IF str <= str + L - 1 THEN (str + L - 1) - str + 1 ELSE 0
        /\ \A i \in 1 .. ((str + L - 1) - str + 1) : was[i] = mem[str + i - 1]
    BY <1>3, <2>1, SubSeqProperties
  <2>3. (str + L - 1) - str + 1 = L
    BY <1>1
  <2> HIDE DEF was
  <2> QED
    BY <1>1, <2>2, <2>3
<1> HIDE DEF was
<1>5. delim \in SUBSET (Chars \ {NUL})
  BY StringsAssumption DEF Chars, NUL
<1>6. str # NULL /\ b # NoJob
  BY <1>1, <1>2 DEF NULL, NoJob
<1>7. b \in Jobs
  <2>1. b = [at |-> str, was |-> was, delim |-> delim, given |-> << >>]
    BY DEF was, L
  <2> QED
    BY <1>1, <1>4, <1>5, <2>1, NewJob
<1>8. JobPlaced(b, str, mem)
  <2>1. Len(b.was) = L /\ str \in str .. (str + L)
    <3>1. Len(b.was) = L
      BY <1>2, <1>4
    <3>2. str \in str .. (str + L)
      BY <1>1
    <3> QED
      BY <3>1, <3>2
  <2> QED
    BY <1>1, <1>2, <2>1 DEF JobPlaced
<1>9. JobText(b, str, mem)
  BY <1>2, <1>4 DEF JobText
<1>10. JobReturned(b, str, mem)
  BY <1>2 DEF JobReturned
<1>11. JobLeft(b, str)
  <2>1. ASSUME NEW e \in Stretches(b.was, b.delim) PROVE Ahead(b, str, e[1])
    <3>1. e[1] \in 1 .. L
      BY <1>1, <1>2, <1>4, StretchFacts
    <3> QED
      BY <1>1, <1>2, <1>6, <3>1 DEF Ahead
  <2> QED
    BY <2>1 DEF JobLeft
<1> QED
  BY <1>6, <1>7, <1>8, <1>9, <1>10, <1>11 DEF JobHolds

LEMMA StrtokKeeps ==
  ASSUME IInv, NEW str \in Addr \cup {NULL}, NEW delim \in CharSets, strtok(str, delim)
  PROVE  IInv'
<1> DEFINE from == IF str # NULL THEN str ELSE next_token
           begun == IF str # NULL
                    THEN [at |-> str, was |-> SubSeq(mem, str, str + strlen(str) - 1),
                          delim |-> delim, given |-> << >>]
                    ELSE IF delim = job.delim THEN job ELSE NoJob
           more == IF begun = NoJob THEN NoJob
                   ELSE [begun EXCEPT !.given = Append(@, Token(from, delim))]
<1>1. Memory /\ NoJob \in Jobs
  BY DEF IInv, Jobs, NoJob
\* The job as it is begun or goes on, if any, holds at the place the search starts from.
<1>2. /\ begun \in Jobs
      /\ begun # NoJob => begun.delim = delim /\ JobHolds(begun, from, mem)
  <2>1. CASE str # NULL
    <3>1. IsString(str)
      BY <2>1 DEF strtok
    <3>2. begun \in Jobs /\ JobHolds(begun, str, mem)
      BY <1>1, <2>1, <3>1, Begin
    <3> QED
      BY <2>1, <3>2
  <2>2. CASE str = NULL /\ delim = job.delim
    <3>1. begun = job /\ from = next_token
      BY <2>2
    <3> HIDE DEF begun, from
    <3> QED
      BY <2>2, <3>1 DEF IInv
  <2>3. CASE str = NULL /\ delim # job.delim
    BY <1>1, <2>3
  <2> QED
    BY <2>1, <2>2, <2>3
<1>3. \/ from = NULL /\ mem' = mem /\ next_token' = next_token /\ job' = begun
      \/ /\ IsString(from) /\ mem[Token(from, delim)] = NUL
         /\ mem' = mem /\ next_token' = NULL /\ job' = begun
      \/ /\ IsString(from) /\ mem[Token(from, delim)] # NUL
         /\ next_token' = Resume(TokenEnd(from, delim))
         /\ mem' = [mem EXCEPT ![TokenEnd(from, delim)] = NUL]
         /\ job' = more
  BY DEF strtok
<1>4. from = NULL => next_token = from
  BY DEF NULL
<1>5. \A p : IsString(p) => p # NULL
  BY DEF IsString, Addr, NULL
<1> HIDE DEF from, begun
<1>6. Memory'
  <2>1. NUL \in Chars
    BY StringsAssumption DEF NUL, Chars
  <2>2. CASE mem' = mem
    BY <1>1, <2>2 DEF Memory
  <2>3. CASE mem' = [mem EXCEPT ![TokenEnd(from, delim)] = NUL]
    BY <1>1, <2>1, <2>3 DEF Memory
  <2> QED
    BY <1>3, <2>2, <2>3
<1>7. CASE begun = NoJob
  <2>1. job' = NoJob
    BY <1>3, <1>7
  <2> QED
    BY <1>1, <1>6, <2>1 DEF IInv
<1>8. CASE begun # NoJob
  <2>1. begun \in Jobs /\ begun.delim = delim /\ JobHolds(begun, from, mem)
    BY <1>2, <1>8
  <2>2. CASE from = NULL /\ mem' = mem /\ next_token' = next_token /\ job' = begun
    BY <1>4, <1>6, <2>1, <2>2 DEF IInv
  <2>3. CASE /\ IsString(from) /\ mem[Token(from, delim)] = NUL
             /\ mem' = mem /\ next_token' = NULL /\ job' = begun
    <3>1. JobHolds(begun, NULL, mem)
      BY <1>1, <1>5, <2>1, <2>3, NoneLeft
    <3> QED
      BY <1>6, <2>1, <2>3, <3>1 DEF IInv
  <2>4. CASE /\ IsString(from) /\ mem[Token(from, delim)] # NUL
             /\ next_token' = Resume(TokenEnd(from, delim))
             /\ mem' = [mem EXCEPT ![TokenEnd(from, delim)] = NUL]
             /\ job' = more
    <3>1. job' = [begun EXCEPT !.given = Append(@, Token(from, begun.delim))]
      BY <1>8, <2>1, <2>4
    <3>2. mem' = [mem EXCEPT ![TokenEnd(from, begun.delim)] = NUL]
      BY <2>1, <2>4
    <3>3. from # NULL /\ mem[Token(from, begun.delim)] # NUL
      BY <1>5, <2>1, <2>4
    <3> HIDE DEF more
    <3>4. job' \in Jobs /\ JobHolds(job', Resume(TokenEnd(from, begun.delim)), mem')
      BY <1>1, <2>1, <3>1, <3>2, <3>3, OneMore
    <3>5. JobHolds(job', next_token', mem')
      BY <2>1, <2>4, <3>4
    <3> QED
      BY <1>6, <3>4, <3>5 DEF IInv
  <2> QED
    BY <1>3, <2>2, <2>3, <2>4
<1> QED
  BY <1>7, <1>8

-----------------------------------------------------------------------------
(***************************************************************************)
(* The theorems                                                            *)
(***************************************************************************)

LEMMA InductiveCorrect == Spec => []IInv
<1>1. Init => IInv
  BY DEF Init, IInv, Memory, Jobs, NoJob
<1>2. IInv /\ [Next]_vars => IInv'
  <2> SUFFICES ASSUME IInv, [Next]_vars PROVE IInv'
    OBVIOUS
  <2>1. CASE UNCHANGED vars
    <3>1. mem' = mem /\ next_token' = next_token /\ job' = job
      BY <2>1 DEF vars
    <3> QED
      BY <3>1 DEF IInv, Memory
  <2>2. ASSUME NEW d \in Addr, NEW s \in Addr, strcpy(d, s) \/ strcat(d, s) PROVE IInv'
    BY <2>2, StrcpyKeeps, StrcatKeeps
  <2>3. ASSUME NEW d \in Addr, NEW s \in Addr, NEW n \in 0 .. SIZE,
               strncpy(d, s, n) \/ strncat(d, s, n) \/ memcpy(d, s, n) \/ memmove(d, s, n)
        PROVE  IInv'
    BY <2>3, StrncpyKeeps, StrncatKeeps, MemcpyKeeps, MemmoveKeeps
  <2>4. ASSUME NEW p \in Addr, NEW v \in 0 .. CHAR_MOD, NEW n \in 0 .. SIZE, memset(p, v, n)
        PROVE  IInv'
    <3>1. v \in Nat
      BY StringsAssumption
    <3> QED
      BY <2>4, <3>1, MemsetKeeps
  <2>5. ASSUME NEW p \in Addr \cup {NULL}, NEW D \in CharSets, strtok(p, D) PROVE IInv'
    BY <2>5, StrtokKeeps
  <2> QED
    BY <2>1, <2>2, <2>3, <2>4, <2>5 DEF Next
<1> QED
  BY <1>1, <1>2, PTL DEF Spec

(* strtok takes every string apart at its delimiters, whatever the strings,*)
(* the sets and the other functions called in between: string.c:170-220    *)
(* writes its 0s only over delimiters it has passed, and starts every call *)
(* at the string's beginning or just behind a delimiter.                   *)
THEOREM TokensInOrderCorrect == Spec => []TokensInOrder
BY InductiveCorrect, JobImplies, PTL

(* memmove of any length between any two places, overlapping or not, loses *)
(* no byte: string.c:265-280 copies upwards when dest is below src and     *)
(* downwards otherwise, so that it reads each byte before it overwrites it.*)
THEOREM MoveExactCorrect == Spec => []MoveExact
<1>1. IInv => MoveExact
  BY MemoryMoves DEF IInv
<1> QED
  BY <1>1, InductiveCorrect, PTL

(* The searching and comparing functions agree with each other on every    *)
(* string in a memory of any size.                                         *)
THEOREM SearchesAgreeCorrect == Spec => []SearchesAgree
<1>1. IInv => SearchesAgree
  BY MemorySearches DEF IInv
<1> QED
  BY <1>1, InductiveCorrect, PTL

=============================================================================
