------------------------------- MODULE Strings ------------------------------
(***************************************************************************)
(* The string functions, src/libs/string.c, over a small arena of memory.  *)
(*                                                                         *)
(* Characters are numbers, 0 ends a string, pointers are addresses.  The   *)
(* functions that only read are operators on the memory as it is, those    *)
(* that write are actions.  A read outside the arena is no value at all,   *)
(* so that TLC stops at it; what a caller has to see to (a terminating 0,  *)
(* room, operands that do not overlap where the code says `restrict`) is   *)
(* in the guards.  The characters of strtok's, strspn's, strcspn's and     *)
(* strpbrk's second argument matter only as a set.                         *)
(***************************************************************************)
EXTENDS Integers, Sequences

CONSTANTS
  SIZE,       \* addresses 1 .. SIZE
  CHAR_MOD,   \* characters are 0 .. CHAR_MOD - 1
  CharSets,   \* sets of characters to look for or to split at
  MaxTokens   \* bound: tokens taken from one string

ASSUME StringsAssumption ==
  /\ SIZE \in Nat \ {0} /\ CHAR_MOD \in Nat \ {0} /\ MaxTokens \in Nat
  /\ \A D \in CharSets : D \subseteq 1 .. (CHAR_MOD - 1)

NULL == 0
NUL == 0
Addr == 1 .. SIZE
Chars == 0 .. (CHAR_MOD - 1)

VARIABLES
  mem,         \* the arena
  next_token,  \* strtok's static variable
  job          \* the string being split: where it is, what it was, at which
               \* characters, and the tokens returned so far

vars == <<mem, next_token, job>>

NoJob == [at |-> NULL, was |-> << >>, delim |-> {}, given |-> << >>]

Init ==
  /\ mem \in [Addr -> Chars]
  /\ next_token = NULL
  /\ job = NoJob

-----------------------------------------------------------------------------
(***************************************************************************)
(* Reading                                                                 *)
(***************************************************************************)

\* The turns of a loop that ends at the first i for which Test(i) holds.
Turns(Test(_)) ==
  CHOOSE i \in 0 .. SIZE : Test(i) /\ \A j \in 0 .. (i - 1) : ~ Test(j)

IsString(s) == s \in Addr /\ \E q \in s .. SIZE : mem[q] = NUL

\* The result of a search that stopped at p: nothing if that is the end.
Found(p) == IF mem[p] = NUL THEN NULL ELSE p

strlen(s) == Turns(LAMBDA i : mem[s + i] = NUL)

strcmp(s1, s2) ==
  LET k == Turns(LAMBDA i : mem[s1 + i] = NUL \/ mem[s1 + i] # mem[s2 + i])
  IN  mem[s1 + k] - mem[s2 + k]

strncmp(s1, s2, n) ==
  LET k == Turns(LAMBDA i : i = n \/ mem[s1 + i] = NUL \/ mem[s1 + i] # mem[s2 + i])
  IN  IF k = n THEN 0 ELSE mem[s1 + k] - mem[s2 + k]

strchr(s, c) == Found(s + Turns(LAMBDA i : mem[s + i] \in {c, NUL}))

strrchr(s, c) ==
  LET hits == {p \in s .. (s + strlen(s) - 1) : mem[p] = c}
  IN  IF hits = {} THEN NULL ELSE CHOOSE p \in hits : \A q \in hits : q <= p

strcspn(s, reject) == Turns(LAMBDA i : mem[s + i] \in reject \cup {NUL})

strspn(s, accept) == Turns(LAMBDA i : mem[s + i] \notin accept)

strpbrk(s, accept) == Found(s + Turns(LAMBDA i : mem[s + i] \in accept \cup {NUL}))

\* The end of the haystack passes for that of the needle.
MatchesAt_PastEnd(h, n) ==
  NUL \in {mem[p + Turns(LAMBDA i : NUL \in {mem[h + i], mem[n + i]} \/ mem[h + i] # mem[n + i])]
             : p \in {h, n}}

\* strstr's inner loop stops at the end of the needle.
MatchesAt(h, n) ==
  mem[n + Turns(LAMBDA i : NUL \in {mem[h + i], mem[n + i]} \/ mem[h + i] # mem[n + i])] = NUL

strstr(haystack, needle) ==
  IF mem[needle] = NUL
  THEN haystack
  ELSE Found(haystack + Turns(LAMBDA i : mem[haystack + i] = NUL \/ MatchesAt(haystack + i, needle)))

memchr(p, ch, n) ==
  LET k == Turns(LAMBDA i : i = n \/ mem[p + i] = ch % CHAR_MOD)
  IN  IF k = n THEN NULL ELSE p + k

memcmp(p1, p2, n) ==
  LET k == Turns(LAMBDA i : i = n \/ mem[p1 + i] # mem[p2 + i])
  IN  IF k = n THEN 0 ELSE mem[p1 + k] - mem[p2 + k]

-----------------------------------------------------------------------------
(***************************************************************************)
(* Writing                                                                 *)
(***************************************************************************)

Span(p, n) == p .. (p + n - 1)
Fits(p, n) == Span(p, n) \subseteq Addr
Apart(p, n, q, k) == Span(p, n) \cap Span(q, k) = {}

\* A writer other than strtok leaves a job alone whose string it stays out of.
WriteTo(p, n) ==
  /\ job' = IF Apart(p, n, job.at, Len(job.was) + 1) THEN job ELSE NoJob
  /\ UNCHANGED next_token

\* k characters of s to d, and what the loop leaves behind them.
Text(d, s, k, terminated) ==
  [a \in Addr |-> IF a \in Span(d, k) THEN mem[s + a - d]
                  ELSE IF terminated /\ a = d + k THEN NUL ELSE mem[a]]

Least(i, j) == IF i < j THEN i ELSE j

strcpy(dest, src) ==
  /\ IsString(src)
  /\ LET k == strlen(src)
     IN  /\ Fits(dest, k + 1) /\ Apart(dest, k + 1, src, k + 1)
         /\ mem' = Text(dest, src, k, TRUE)
         /\ WriteTo(dest, k + 1)

\* No 0 is written when n characters have been.
strncpy(dest, src, n) ==
  /\ IsString(src)
  /\ LET k == Least(n, strlen(src))
     IN  /\ Fits(dest, n) /\ Apart(dest, n, src, k + 1)
         /\ mem' = Text(dest, src, k, k < n)
         /\ WriteTo(dest, n)

strcat(dest, src) ==
  /\ IsString(dest) /\ IsString(src)
  /\ LET end == dest + strlen(dest)
         k == strlen(src)
     IN  /\ Fits(end, k + 1) /\ Apart(dest, end + k + 1 - dest, src, k + 1)
         /\ mem' = Text(end, src, k, TRUE)
         /\ WriteTo(end, k + 1)

\* The 0 that ended dest is overwritten, and none is written after n characters.
strncat(dest, src, n) ==
  /\ IsString(dest) /\ IsString(src)
  /\ LET end == dest + strlen(dest)
         k == Least(n, strlen(src))
     IN  /\ Fits(end, n) /\ Apart(dest, end + n - dest, src, k + 1)
         /\ mem' = Text(end, src, k, k < n)
         /\ WriteTo(end, n)

memset(p, value, n) ==
  /\ Fits(p, n)
  /\ mem' = [a \in Addr |-> IF a \in Span(p, n) THEN value % CHAR_MOD ELSE mem[a]]
  /\ WriteTo(p, n)

\* The memory after the bytes at the given offsets are copied in that order.
Moved(d, s, order) ==
  LET after[k \in 0 .. Len(order)] ==
        IF k = 0 THEN mem
        ELSE LET m == after[k - 1] IN [m EXCEPT ![d + order[k]] = m[s + order[k]]]
  IN  after[Len(order)]
Upwards(n) == [k \in 1 .. n |-> k - 1]
Downwards(n) == [k \in 1 .. n |-> n - k]

memcpy(dest, src, n) ==
  /\ Fits(dest, n) /\ Fits(src, n) /\ Apart(dest, n, src, n)
  /\ mem' = Moved(dest, src, Upwards(n))
  /\ WriteTo(dest, n)

\* It starts at the end that is overwritten first.
Order_Swapped(d, s, n) == IF d < s THEN Downwards(n) ELSE Upwards(n)

\* Where memmove starts.
Order(d, s, n) == IF d < s THEN Upwards(n) ELSE Downwards(n)

memmove(dest, src, n) ==
  /\ Fits(dest, n) /\ Fits(src, n)
  /\ mem' = Moved(dest, src, Order(dest, src, n))
  /\ WriteTo(dest, n)

\* The token strtok finds from p on, and what becomes of memory and position.
Token(p, delim) == p + strspn(p, delim)
TokenEnd(p, delim) == Token(p, delim) + strcspn(Token(p, delim), delim)

\* The character after the token is skipped even if it ends the string.
Resume_OnePast(stop) == IF stop < SIZE THEN stop + 1 ELSE stop

\* Where the next call goes on.
Resume(stop) == IF mem[stop] = NUL THEN stop ELSE stop + 1

strtok(str, delim) ==
  LET from == IF str # NULL THEN str ELSE next_token
      begun == IF str # NULL
               THEN [at |-> str, was |-> SubSeq(mem, str, str + strlen(str) - 1),
                     delim |-> delim, given |-> << >>]
               ELSE IF delim = job.delim THEN job ELSE NoJob
  IN  /\ str = NULL \/ IsString(str)
      /\ \/ /\ from = NULL
            /\ UNCHANGED <<mem, next_token>>
            /\ job' = begun
         \/ /\ IsString(from) /\ mem[Token(from, delim)] = NUL
            /\ next_token' = NULL
            /\ job' = begun
            /\ UNCHANGED mem
         \/ /\ IsString(from) /\ mem[Token(from, delim)] # NUL
            /\ Len(begun.given) < MaxTokens
            /\ next_token' = Resume(TokenEnd(from, delim))
            /\ mem' = [mem EXCEPT ![TokenEnd(from, delim)] = NUL]
            /\ job' = IF begun = NoJob THEN NoJob
                      ELSE [begun EXCEPT !.given = Append(@, Token(from, delim))]

Next ==
  \/ \E d, s \in Addr : strcpy(d, s) \/ strcat(d, s)
  \/ \E d, s \in Addr, n \in 0 .. SIZE :
       strncpy(d, s, n) \/ strncat(d, s, n) \/ memcpy(d, s, n) \/ memmove(d, s, n)
  \/ \E p \in Addr, v \in 0 .. CHAR_MOD, n \in 0 .. SIZE : memset(p, v, n)
  \/ \E p \in Addr \cup {NULL}, D \in CharSets : strtok(p, D)

Spec == Init /\ [][Next]_vars

-----------------------------------------------------------------------------
(***************************************************************************)
(* Properties                                                              *)
(***************************************************************************)

\* The longest stretches of a text without the characters of D, each as the
\* pair of its first and its last position.
Stretches(text, D) ==
  {e \in (1 .. Len(text)) \X (1 .. Len(text)) :
     /\ e[1] <= e[2] /\ \A k \in e[1] .. e[2] : text[k] \notin D
     /\ e[1] = 1 \/ text[e[1] - 1] \in D
     /\ e[2] = Len(text) \/ text[e[2] + 1] \in D}

(* Call after call, strtok returns the longest stretches free of           *)
(* delimiters, each once, in order and ended by a 0, skips none, and       *)
(* returns NULL only when there is none left; whatever other functions are *)
(* called in between, as long as they do not write into the string, and    *)
(* whatever was split before (string.c:171 keeps the position across       *)
(* calls).                                                                 *)
TokensInOrder ==
  job # NoJob =>
    LET given == job.given
        token(e) == job.at + e[1] - 1
        all == Stretches(job.was, job.delim)
    IN  /\ \A k \in 1 .. Len(given) : \E e \in all :
             /\ given[k] = token(e)
             /\ IsString(given[k])
             /\ SubSeq(mem, given[k], given[k] + strlen(given[k]) - 1)
                  = SubSeq(job.was, e[1], e[2])
        /\ \A k \in 1 .. (Len(given) - 1) : given[k] < given[k + 1]
        /\ \A e \in all :
             \/ \E k \in 1 .. Len(given) : given[k] = token(e)
             \/ next_token # NULL /\ \A k \in 1 .. Len(given) : given[k] < token(e)

(* memmove leaves in dest what was in src before the call, and the rest of *)
(* memory as it was, however the two overlap.                              *)
MoveExact ==
  \A d, s \in Addr, n \in 0 .. SIZE :
    Fits(d, n) /\ Fits(s, n) =>
      Moved(d, s, Order(d, s, n))
        = [a \in Addr |-> IF a \in Span(d, n) THEN mem[s + a - d] ELSE mem[a]]

(* The ten searching and comparing functions, each a loop of its own, agree*)
(* with each other on every memory: strpbrk and strchr with strcspn,       *)
(* strrchr and memchr with strchr, strncmp and memcmp with strcmp, strstr  *)
(* with strncmp.                                                           *)
SearchesAgree ==
  LET S == {s \in Addr : IsString(s)}
  IN  \A s, t \in S :
        /\ \A D \in CharSets :
             strpbrk(s, D) = Found(s + strcspn(s, D)) /\ strspn(s, D) <= strlen(s)
        /\ \A c \in Chars \ {NUL} :
             /\ strchr(s, c) = Found(s + strcspn(s, {c}))
             /\ strchr(s, c) = memchr(s, c, strlen(s))
             /\ strrchr(s, c) = NULL <=> strchr(s, c) = NULL
             /\ strrchr(s, c) # NULL => strchr(strrchr(s, c) + 1, c) = NULL
        /\ strcmp(s, t) = - strcmp(t, s)
        /\ strcmp(s, t) = strncmp(s, t, SIZE)
        /\ strcmp(s, t) = 0 <=> strlen(s) = strlen(t) /\ memcmp(s, t, strlen(s)) = 0
        /\ LET hits == {p \in s .. (s + strlen(s)) : strncmp(p, t, strlen(t)) = 0}
           IN  IF hits = {} THEN strstr(s, t) = NULL
               ELSE strstr(s, t) \in hits /\ \A p \in hits : strstr(s, t) <= p
=============================================================================
