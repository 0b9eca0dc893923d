---------------------------- MODULE KHeapProofs -----------------------------
(***************************************************************************)
(* Proofs about KHeap, for every set of handles, of requests and of        *)
(* frames, every page size, header size and size_t that meet the           *)
(* assumptions of that module, and every placement of frames the allocator *)
(* may choose.                                                             *)
(*                                                                         *)
(* IInv is the inductive invariant. The properties of the free list need   *)
(* that of the tiling, and the other way round: a block is merged into the *)
(* right neighbour because the list is in address order, and two blocks of *)
(* the list do not overlap because none do. That the blocks tile the       *)
(* frames needs FramesInv, that no frame is given to the heap twice.       *)
(* EachBlockOwned says the same in both directions, and DataInv needs all  *)
(* of it: a byte a caller wrote is safe since its block is in use, and no  *)
(* header and no other block in use reaches into it.                       *)
(*                                                                         *)
(* RoomInv, DataInv and GrowthInv are inductive on top of IInv, under a    *)
(* condition on the sizes asked for. The lemmas about the heap's operators *)
(* come first.                                                             *)
(***************************************************************************)
EXTENDS KHeap, SequenceTheorems, WellFoundedInduction, TLAPS

-----------------------------------------------------------------------------
(***************************************************************************)
(* The operators KHeap is built from: what linking a block into the free   *)
(* list, merging it with its neighbours and splitting one for an           *)
(* allocation do to the blocks of a heap, for every heap that is well      *)
(* formed (Shape).                                                         *)
(*                                                                         *)
(* The statements speak of four things only: which blocks are in use       *)
(* (Used), what sizes those have, which bytes some block covers (Covers),  *)
(* and whether two neighbours in the free list touch (ApartExcept). The    *)
(* proofs about the actions need nothing else, so that they never look     *)
(* into a sequence.                                                        *)
(***************************************************************************)

(* The widths are positive numbers.                                        *)
LEMMA Widths ==
  /\ HEAP_ALIGN \in Nat /\ HEAP_ALIGN > 0
  /\ PAGE_SIZE \in Nat /\ PAGE_SIZE > 0
  /\ MIN_GROW \in Nat /\ MIN_GROW > 0
  /\ SIZE_MOD \in Nat /\ SIZE_MOD > 0
BY SizesAssumption

-----------------------------------------------------------------------------
(***************************************************************************)
(* Multiples of HEAP_ALIGN.                                                *)
(***************************************************************************)

(* A multiple of HEAP_ALIGN.                                               *)
Aligned(v) == \E q \in Int : v = q * HEAP_ALIGN

(* Sums and differences of multiples are multiples.                        *)
LEMMA AlignedSum ==
  ASSUME NEW v \in Int, NEW w \in Int, Aligned(v), Aligned(w)
  PROVE  Aligned(v + w) /\ Aligned(v - w)
<1>1. PICK q \in Int : v = q * HEAP_ALIGN
  BY DEF Aligned
<1>2. PICK r \in Int : w = r * HEAP_ALIGN
  BY DEF Aligned
<1>3. v + w = (q + r) * HEAP_ALIGN /\ v - w = (q - r) * HEAP_ALIGN
  BY <1>1, <1>2, Widths
<1>4. q + r \in Int /\ q - r \in Int
  OBVIOUS
<1> QED
  BY <1>3, <1>4 DEF Aligned

(* A header's size is one.                                                 *)
LEMMA AlignedUnit == Aligned(HEAP_ALIGN) /\ Aligned(0)
<1>1. HEAP_ALIGN = 1 * HEAP_ALIGN /\ 0 = 0 * HEAP_ALIGN
  BY Widths
<1> QED
  BY <1>1 DEF Aligned

(* Aligned is what the code's masks test.                                  *)
LEMMA AlignedRemainder ==
  ASSUME NEW v \in Int
  PROVE  Aligned(v) <=> v % HEAP_ALIGN = 0
<1>1. ASSUME Aligned(v) PROVE v % HEAP_ALIGN = 0
  <2>1. PICK q \in Int : v = q * HEAP_ALIGN
    BY <1>1 DEF Aligned
  <2> QED
    BY <2>1, Widths
<1>2. ASSUME v % HEAP_ALIGN = 0 PROVE Aligned(v)
  <2>1. v = (v \div HEAP_ALIGN) * HEAP_ALIGN
    BY <1>2, Widths
  <2>2. v \div HEAP_ALIGN \in Int
    BY Widths
  <2> QED
    BY <2>1, <2>2 DEF Aligned
<1> QED
  BY <1>1, <1>2

(* Every page boundary is aligned.                                         *)
LEMMA AlignedPages ==
  ASSUME NEW k \in Int
  PROVE  k * PAGE_SIZE \in Int /\ Aligned(k * PAGE_SIZE)
<1>1. Aligned(PAGE_SIZE)
  BY SizesAssumption, AlignedRemainder, Widths
<1>2. PICK q \in Int : PAGE_SIZE = q * HEAP_ALIGN
  BY <1>1 DEF Aligned
<1>3. \E r \in Int : k * PAGE_SIZE = r * HEAP_ALIGN
  <2>1. k * PAGE_SIZE = (k * q) * HEAP_ALIGN /\ k * q \in Int
    BY <1>2, Widths
  <2> QED
    BY <2>1
<1>4. k * PAGE_SIZE \in Int
  BY Widths
<1> QED
  BY <1>3, <1>4, Zenon DEF Aligned
-----------------------------------------------------------------------------
(***************************************************************************)
(* Least numbers, and sequences.                                           *)
(***************************************************************************)

(* Strictly less, as a relation.                                           *)
Below == {p \in Nat \X Nat : p[1] < p[2]}

(* A nonempty set of numbers has a least one.                              *)
LEMMA LeastNumber ==
  ASSUME NEW S \in SUBSET Nat, S # {}
  PROVE  \E n \in S : \A m \in S : n <= m
<1>1. IsWellFoundedOn(OpToRel(<, Nat), Nat)
  BY NatLessThanWellFounded
<1>2. OpToRel(<, Nat) = Below
  BY DEF OpToRel, Below
<1>3. IsWellFoundedOn(Below, Nat)
  BY <1>1, <1>2
<1>4. \E n \in S : \A m \in S : ~ (<<m, n>> \in Below)
  BY <1>3, WFMin
<1>5. \A m, n \in Nat : <<m, n>> \in Below <=> m < n
  BY DEF Below
<1>6. PICK n \in S : \A m \in S : ~ (<<m, n>> \in Below)
  BY <1>4
<1>7. \A m \in S : ~ (m < n)
  BY <1>5, <1>6
<1> QED
  BY <1>6, <1>7

(* Where the elements of a sequence are after an insertion.                *)
LEMMA InsertAtElements ==
  ASSUME NEW S, NEW s \in Seq(S), NEW k \in 1 .. (Len(s) + 1), NEW e \in S
  PROVE  /\ InsertAt(s, k, e) \in Seq(S)
         /\ Len(InsertAt(s, k, e)) = Len(s) + 1
         /\ InsertAt(s, k, e)[k] = e
         /\ \A i \in 1 .. (Len(s) + 1) :
              /\ i < k => InsertAt(s, k, e)[i] = s[i]
              /\ i > k => InsertAt(s, k, e)[i] = s[i - 1]
<1> DEFINE front == SubSeq(s, 1, k - 1)
           back  == SubSeq(s, k, Len(s))
<1>1. k \in Int /\ Len(s) \in Nat
  BY LenProperties
<1>2. /\ front \in Seq(S) /\ Len(front) = k - 1
      /\ \A i \in 1 .. (k - 1) : front[i] = s[i]
  BY SubSeqProperties
<1>3. /\ back \in Seq(S) /\ Len(back) = Len(s) - k + 1
      /\ \A i \in 1 .. (Len(s) - k + 1) : back[i] = s[k + i - 1]
  BY SubSeqProperties
<1> HIDE DEF front, back
<1> DEFINE upto == front \o <<e>>
<1>4. <<e>> \in Seq(S) /\ Len(<<e>>) = 1 /\ <<e>>[1] = e
  OBVIOUS
<1>5. /\ upto \in Seq(S) /\ Len(upto) = k /\ upto[k] = e
      /\ \A i \in 1 .. k : i < k => upto[i] = s[i]
  BY <1>2, <1>4, ConcatProperties
<1> HIDE DEF upto
<1>6. InsertAt(s, k, e) = upto \o back
  BY DEF InsertAt, upto, front, back
<1>7. /\ upto \o back \in Seq(S)
      /\ Len(upto \o back) = Len(upto) + Len(back)
      /\ \A i \in 1 .. (Len(upto) + Len(back)) :
           (upto \o back)[i] = IF i <= Len(upto) THEN upto[i]
                                                 ELSE back[i - Len(upto)]
  BY <1>3, <1>5, ConcatProperties
<1>8. Len(upto) + Len(back) = Len(s) + 1
  BY <1>1, <1>3, <1>5
<1>9. (upto \o back)[k] = e
  BY <1>1, <1>5, <1>7, <1>8
<1>10. ASSUME NEW i \in 1 .. (Len(s) + 1), i < k
       PROVE  (upto \o back)[i] = s[i]
  BY <1>1, <1>5, <1>7, <1>8, <1>10
<1>11. ASSUME NEW i \in 1 .. (Len(s) + 1), i > k
       PROVE  (upto \o back)[i] = s[i - 1]
  <2>1. back[i - k] = s[k + (i - k) - 1] /\ k + (i - k) - 1 = i - 1
    BY <1>1, <1>3, <1>11
  <2> QED
    BY <2>1, <1>1, <1>5, <1>7, <1>8, <1>11
<1> QED
  BY <1>6, <1>7, <1>8, <1>9, <1>10, <1>11

(* And after a removal.                                                    *)
LEMMA RemoveAtElements ==
  ASSUME NEW S, NEW s \in Seq(S), NEW k \in 1 .. Len(s)
  PROVE  /\ RemoveAt(s, k) \in Seq(S)
         /\ Len(RemoveAt(s, k)) = Len(s) - 1
         /\ \A i \in 1 .. (Len(s) - 1) :
              RemoveAt(s, k)[i] = IF i < k THEN s[i] ELSE s[i + 1]
<1> DEFINE front == SubSeq(s, 1, k - 1)
           back  == SubSeq(s, k + 1, Len(s))
<1>1. /\ front \in Seq(S) /\ Len(front) = k - 1
      /\ \A i \in 1 .. (k - 1) : front[i] = s[i]
  BY SubSeqProperties
<1>2. /\ back \in Seq(S) /\ Len(back) = Len(s) - k
      /\ \A i \in 1 .. (Len(s) - k) : back[i] = s[k + i]
  BY SubSeqProperties
<1> HIDE DEF front, back
<1>3. RemoveAt(s, k) = front \o back
  BY DEF RemoveAt, front, back
<1>4. k \in Int /\ Len(s) \in Nat
  BY LenProperties
<1>5. /\ front \o back \in Seq(S)
      /\ Len(front \o back) = Len(front) + Len(back)
      /\ \A i \in 1 .. (Len(front) + Len(back)) :
           (front \o back)[i] = IF i <= Len(front) THEN front[i]
                                                  ELSE back[i - Len(front)]
  BY <1>1, <1>2, ConcatProperties
<1>6. Len(front) + Len(back) = Len(s) - 1
  BY <1>1, <1>2, <1>4
<1>7. ASSUME NEW i \in 1 .. (Len(s) - 1)
      PROVE  (front \o back)[i] = IF i < k THEN s[i] ELSE s[i + 1]
  <2>1. CASE i < k
    BY <2>1, <1>1, <1>4, <1>5, <1>6
  <2>2. CASE i >= k
    <3>1. back[i - (k - 1)] = s[k + (i - (k - 1))]
      BY <1>2, <1>4, <2>2
    <3> QED
      BY <3>1, <2>2, <1>1, <1>4, <1>5, <1>6
  <2>3. i < k \/ i >= k
    BY <1>4
  <2> QED
    BY <2>1, <2>2, <2>3
<1> QED
  BY <1>3, <1>5, <1>6, <1>7

-----------------------------------------------------------------------------
(***************************************************************************)
(* Heaps, merging and inserting (free_insert).                             *)
(***************************************************************************)

(* In address order, no address twice.                                     *)
Increasing(s) == \A i, j \in DOMAIN s : i < j => s[i] < s[j]

(* The blocks of the free list, and all others.                            *)
Free(H) == {H.free[i] : i \in DOMAIN H.free}
Used(H) == DOMAIN H.size \ Free(H)

(* Byte x belongs to some block, header or payload.                        *)
Covers(H, x) == \E b \in DOMAIN H.size : b <= x /\ x < block_end(H, b)

(* What every heap the code builds looks like: blocks and sizes are        *)
(* aligned, no two blocks overlap, and the free list is in address order.  *)
Shape(H) ==
  /\ H = [free |-> H.free, size |-> H.size]
  /\ DOMAIN H.size \subseteq Nat
  /\ H.size \in [DOMAIN H.size -> Nat]
  /\ \A b \in DOMAIN H.size : Aligned(b) /\ Aligned(H.size[b])
  /\ \A b, c \in DOMAIN H.size : b < c => block_end(H, b) <= c
  /\ H.free \in Seq(DOMAIN H.size)
  /\ Increasing(H.free)

(* No block of the free list ends where the next one starts, except        *)
(* perhaps at the positions in E.                                          *)
ApartExcept(H, E) ==
  \A i \in 1 .. (Len(H.free) - 1) :
    i \notin E => block_end(H, H.free[i]) # H.free[i + 1]

(* Types that follow.                                                      *)
LEMMA ShapeTypes ==
  ASSUME NEW H, Shape(H)
  PROVE  /\ Len(H.free) \in Nat /\ DOMAIN H.free = 1 .. Len(H.free)
         /\ \A i \in 1 .. Len(H.free) : H.free[i] \in DOMAIN H.size
         /\ \A b \in DOMAIN H.size :
              /\ b \in Nat /\ H.size[b] \in Nat /\ block_end(H, b) \in Nat
              /\ block_end(H, b) = b + HEAP_ALIGN + H.size[b]
<1>1. /\ Len(H.free) \in Nat /\ DOMAIN H.free = 1 .. Len(H.free)
      /\ \A i \in 1 .. Len(H.free) : H.free[i] \in DOMAIN H.size
  BY LenProperties, ElementOfSeq DEF Shape
<1>2. \A b \in DOMAIN H.size :
        /\ b \in Nat /\ H.size[b] \in Nat
        /\ block_end(H, b) = b + HEAP_ALIGN + H.size[b]
  BY DEF Shape, block_end, Payload
<1>3. \A b \in DOMAIN H.size : block_end(H, b) \in Nat
  BY <1>2, Widths
<1> QED
  BY <1>1, <1>2, <1>3

(* Coalesce does something: the two blocks are adjacent.                   *)
Merges(H, k) == /\ k \in 1 .. (Len(H.free) - 1)
                /\ block_end(H, H.free[k]) = H.free[k + 1]

(* A merge, in terms of the elements of the free list and the sizes.       *)
LEMMA CoalesceElements ==
  ASSUME NEW H, Shape(H), NEW k \in Int, Merges(H, k),
         NEW G, G = Coalesce(H, k)
  PROVE  LET b == H.free[k]
             c == H.free[k + 1]
         IN  /\ b \in DOMAIN H.size /\ c \in DOMAIN H.size /\ b < c
             /\ G = [free |-> G.free, size |-> G.size]
             /\ DOMAIN G.size = DOMAIN H.size \ {c}
             /\ G.size[b] = H.size[b] + HEAP_ALIGN + H.size[c]
             /\ block_end(G, b) = block_end(H, c)
             /\ \A a \in DOMAIN H.size \ {b, c} :
                  G.size[a] = H.size[a] /\ block_end(G, a) = block_end(H, a)
             /\ Len(G.free) = Len(H.free) - 1
             /\ DOMAIN G.free = 1 .. Len(G.free)
             /\ \A i \in 1 .. Len(G.free) :
                  /\ i <= k => G.free[i] = H.free[i]
                  /\ i > k => G.free[i] = H.free[i + 1]
             /\ \A i \in DOMAIN H.free : H.free[i] = c => i = k + 1
<1> DEFINE b == H.free[k]
           c == H.free[k + 1]
           n == Len(H.free)
<1>1. /\ n \in Nat /\ k \in 1 .. n /\ k + 1 \in 1 .. n /\ k < k + 1
      /\ DOMAIN H.free = 1 .. n
  BY ShapeTypes DEF Merges
<1>2. b \in DOMAIN H.size /\ c \in DOMAIN H.size /\ b < c
  BY <1>1, ShapeTypes DEF Shape, Increasing
<1>3. G = [free |-> RemoveAt(H.free, k + 1),
           size |-> [a \in DOMAIN H.size \ {c} |->
                        IF a = b THEN H.size[b] + HEAP_ALIGN + H.size[c]
                                 ELSE H.size[a]]]
  BY DEF Coalesce, Merges
<1>4. G.free = RemoveAt(H.free, k + 1)
  BY <1>3
<1>5. /\ RemoveAt(H.free, k + 1) \in Seq(DOMAIN H.size)
      /\ Len(RemoveAt(H.free, k + 1)) = n - 1
      /\ \A i \in 1 .. (n - 1) :
           RemoveAt(H.free, k + 1)[i] = IF i < k + 1 THEN H.free[i] ELSE H.free[i + 1]
  BY <1>1, RemoveAtElements DEF Shape
<1>6. /\ Len(G.free) = n - 1 /\ DOMAIN G.free = 1 .. (n - 1)
      /\ \A i \in 1 .. (n - 1) :
           /\ i <= k => G.free[i] = H.free[i]
           /\ i > k => G.free[i] = H.free[i + 1]
  <2>1. /\ Len(G.free) = n - 1 /\ DOMAIN G.free = 1 .. (n - 1)
    BY <1>4, <1>5, LenProperties
  <2>2. \A i \in 1 .. (n - 1) : (i <= k => i < k + 1) /\ (i > k => ~(i < k + 1))
    BY <1>1
  <2> QED
    BY <1>4, <1>5, <2>1, <2>2
<1>7. /\ DOMAIN G.size = DOMAIN H.size \ {c}
      /\ G.size[b] = H.size[b] + HEAP_ALIGN + H.size[c]
      /\ \A a \in DOMAIN H.size \ {b, c} : G.size[a] = H.size[a]
  BY <1>2, <1>3, ShapeTypes
<1>8. block_end(G, b) = block_end(H, c)
  <2>1. c = b + HEAP_ALIGN + H.size[b]
    BY <1>2, ShapeTypes DEF Merges
  <2>2. block_end(G, b) = b + HEAP_ALIGN + G.size[b]
    BY DEF block_end, Payload
  <2>3. /\ b \in Nat /\ H.size[b] \in Nat /\ H.size[c] \in Nat
        /\ block_end(H, c) = c + HEAP_ALIGN + H.size[c]
    BY <1>2, ShapeTypes
  <2> QED
    BY <1>7, <2>1, <2>2, <2>3, Widths
<1>9. \A a \in DOMAIN H.size \ {b, c} : block_end(G, a) = block_end(H, a)
  BY <1>7 DEF block_end
<1>10. \A i \in DOMAIN H.free : H.free[i] = c => i = k + 1
  <2> SUFFICES ASSUME NEW i \in DOMAIN H.free, i # k + 1 PROVE H.free[i] # c
    OBVIOUS
  <2>1. i < k + 1 \/ k + 1 < i
    BY <1>1
  <2>2. H.free[i] \in Nat /\ c \in Nat
    BY <1>1, ShapeTypes
  <2> QED
    BY <1>1, <2>1, <2>2, SMTT(30) DEF Shape, Increasing
<1>11. G = [free |-> G.free, size |-> G.size]
  BY <1>3
<1> QED
  BY <1>2, <1>6, <1>7, <1>8, <1>9, <1>10, <1>11

(* Without adjacency nothing happens.                                      *)
LEMMA CoalesceIdle ==
  ASSUME NEW H, NEW k, ~Merges(H, k)
  PROVE  Coalesce(H, k) = H
BY DEF Coalesce, Merges

(* A heap stays well formed.                                               *)
LEMMA CoalesceShape ==
  ASSUME NEW H, Shape(H), NEW k \in Int
  PROVE  Shape(Coalesce(H, k))
<1>1. CASE ~Merges(H, k)
  BY <1>1, CoalesceIdle
<1>2. CASE Merges(H, k)
  <2> DEFINE b == H.free[k]
             c == H.free[k + 1]
  <2>1. PICK G : G = Coalesce(H, k)
    OBVIOUS
  <2>2. /\ b \in DOMAIN H.size /\ c \in DOMAIN H.size /\ b < c
        /\ G = [free |-> G.free, size |-> G.size]
        /\ DOMAIN G.size = DOMAIN H.size \ {c}
        /\ G.size[b] = H.size[b] + HEAP_ALIGN + H.size[c]
        /\ block_end(G, b) = block_end(H, c)
        /\ \A a \in DOMAIN H.size \ {b, c} :
             G.size[a] = H.size[a] /\ block_end(G, a) = block_end(H, a)
    BY <1>2, <2>1, CoalesceElements
  <2>3. /\ Len(G.free) = Len(H.free) - 1
        /\ DOMAIN G.free = 1 .. Len(G.free)
        /\ \A i \in 1 .. Len(G.free) :
             /\ i <= k => G.free[i] = H.free[i]
             /\ i > k => G.free[i] = H.free[i + 1]
        /\ \A i \in DOMAIN H.free : H.free[i] = c => i = k + 1
    BY <1>2, <2>1, CoalesceElements
  <2>4. G.size = [a \in DOMAIN H.size \ {c} |->
                    IF a = b THEN H.size[b] + HEAP_ALIGN + H.size[c] ELSE H.size[a]]
    BY <1>2, <2>1 DEF Coalesce, Merges
  <2>5. /\ H.size[b] \in Nat /\ H.size[c] \in Nat
        /\ H.size[b] + HEAP_ALIGN \in Nat
        /\ H.size[b] + HEAP_ALIGN + H.size[c] \in Nat
    <3>1. H.size[b] \in Nat /\ H.size[c] \in Nat
      BY <2>2, ShapeTypes
    <3> QED
      BY <3>1, Widths
  <2>6. G.size \in [DOMAIN G.size -> Nat]
    <3>1. \A a \in DOMAIN H.size : H.size[a] \in Nat
      BY ShapeTypes
    <3> QED
      BY <3>1, <2>2, <2>4, <2>5
  <2>7. \A a \in DOMAIN G.size : Aligned(a) /\ Aligned(G.size[a])
    <3>2. Aligned(H.size[b]) /\ Aligned(H.size[c])
      BY <2>2 DEF Shape
    <3>4. /\ H.size[b] \in Int /\ H.size[c] \in Int /\ HEAP_ALIGN \in Int
          /\ H.size[b] + HEAP_ALIGN \in Int
      BY <2>5, Widths
    <3>3. Aligned(H.size[b] + HEAP_ALIGN)
      BY <3>2, <3>4, AlignedSum, AlignedUnit, Zenon
    <3>1. Aligned(H.size[b] + HEAP_ALIGN + H.size[c])
      BY <3>2, <3>3, <3>4, AlignedSum, Zenon
    <3> QED
      BY <3>1, <2>2 DEF Shape
  <2>8. ASSUME NEW x \in DOMAIN G.size, NEW y \in DOMAIN G.size, x < y
        PROVE  block_end(G, x) <= y
    <3>1. x \in DOMAIN H.size /\ y \in DOMAIN H.size /\ y # c /\ x # c
      BY <2>2, <2>8
    <3>2. block_end(H, x) <= y
      BY <3>1, <2>8 DEF Shape
    <3>3. CASE x # b
      BY <3>1, <3>2, <3>3, <2>2
    <3>4. CASE x = b
      <4>1. block_end(H, b) = c
        BY <1>2 DEF Merges
      <4>2. c <= y /\ c \in Nat /\ y \in Nat
        BY <3>1, <3>2, <3>4, <4>1, ShapeTypes
      <4>3. block_end(H, c) <= y
        BY <4>2, <3>1, <2>2 DEF Shape
      <4> QED
        BY <4>3, <3>4, <2>2
    <3> QED
      BY <3>3, <3>4
  <2>9. \A i \in 1 .. Len(G.free) : G.free[i] \in DOMAIN G.size
    <3> TAKE i \in 1 .. Len(G.free)
    <3>1. i \in DOMAIN H.free /\ i + 1 \in DOMAIN H.free /\ i \in Int
      BY <2>3, ShapeTypes
    <3>2. H.free[i] \in DOMAIN H.size /\ H.free[i + 1] \in DOMAIN H.size
      BY <3>1, ShapeTypes
    <3>3. CASE i <= k
      BY <3>1, <3>2, <3>3, <2>2, <2>3
    <3>4. CASE i > k
      <4>1. i + 1 # k + 1
        BY <3>1, <3>4
      <4>2. H.free[i + 1] # c
        BY <4>1, <3>1, <2>3
      <4>3. G.free[i] = H.free[i + 1]
        BY <3>1, <3>4, <2>3
      <4> QED
        BY <4>2, <4>3, <3>2, <2>2
    <3>5. i <= k \/ i > k
      BY <3>1
    <3> QED
      BY <3>3, <3>4, <3>5
  <2>10. G.free \in Seq(DOMAIN G.size)
    <3>1. G.free = RemoveAt(H.free, k + 1)
      BY <1>2, <2>1 DEF Coalesce, Merges
    <3>2. k + 1 \in 1 .. Len(H.free)
      BY <1>2, ShapeTypes DEF Merges
    <3>3. G.free \in Seq(DOMAIN H.size)
      BY <3>1, <3>2, RemoveAtElements DEF Shape
    <3> QED
      BY <3>3, <2>9
  <2>11. Increasing(G.free)
    <3> SUFFICES ASSUME NEW i \in 1 .. Len(G.free), NEW j \in 1 .. Len(G.free), i < j
                 PROVE  G.free[i] < G.free[j]
      BY <2>3 DEF Increasing
    <3>1. /\ i \in DOMAIN H.free /\ i + 1 \in DOMAIN H.free /\ i \in Int
          /\ j \in DOMAIN H.free /\ j + 1 \in DOMAIN H.free /\ j \in Int
      BY <2>3, ShapeTypes
    <3>2. i < j /\ i < j + 1 /\ i + 1 < j + 1
      BY <3>1
    <3>6. Increasing(H.free)
      BY DEF Shape
    <3>7. /\ H.free[i] < H.free[j] /\ H.free[i] < H.free[j + 1]
          /\ H.free[i + 1] < H.free[j + 1]
      BY <3>1, <3>2, <3>6 DEF Increasing
    <3>3. CASE j <= k
      <4>1. i <= k
        BY <3>1, <3>3
      <4> QED
        BY <4>1, <3>3, <3>7, <2>3
    <3>4. CASE j > k
      <4>1. G.free[j] = H.free[j + 1]
        BY <3>1, <3>4, <2>3
      <4>2. G.free[i] = H.free[i] \/ G.free[i] = H.free[i + 1]
        BY <2>3
      <4>3. CASE G.free[i] = H.free[i]
        BY <4>1, <4>3, <3>7
      <4>4. CASE G.free[i] = H.free[i + 1]
        BY <4>1, <4>4, <3>7
      <4> QED
        BY <4>2, <4>3, <4>4
    <3>5. j <= k \/ j > k
      BY <3>1
    <3> QED
      BY <3>3, <3>4, <3>5
  <2>12. DOMAIN G.size \subseteq Nat
    BY <2>2 DEF Shape
  <2> QED
    BY <2>1, <2>2, <2>6, <2>7, <2>8, <2>10, <2>11, <2>12 DEF Shape
<1> QED
  BY <1>1, <1>2

(* A merge takes one block from the free list.                             *)
LEMMA CoalesceFree ==
  ASSUME NEW H, Shape(H), NEW k \in Int, Merges(H, k)
  PROVE  Free(Coalesce(H, k)) = Free(H) \ {H.free[k + 1]}
<1>2. Merges(H, k)
  OBVIOUS
<1> QED
  <2> DEFINE b == H.free[k]
             c == H.free[k + 1]
  <2>1. PICK G : G = Coalesce(H, k)
    OBVIOUS
  <2>2. /\ b \in DOMAIN H.size /\ c \in DOMAIN H.size /\ b < c
        /\ DOMAIN G.size = DOMAIN H.size \ {c}
        /\ G.size[b] = H.size[b] + HEAP_ALIGN + H.size[c]
        /\ block_end(G, b) = block_end(H, c)
        /\ \A a \in DOMAIN H.size \ {b, c} :
             G.size[a] = H.size[a] /\ block_end(G, a) = block_end(H, a)
    BY <1>2, <2>1, CoalesceElements
  <2>3. /\ Len(G.free) = Len(H.free) - 1
        /\ DOMAIN G.free = 1 .. Len(G.free)
        /\ \A i \in 1 .. Len(G.free) :
             /\ i <= k => G.free[i] = H.free[i]
             /\ i > k => G.free[i] = H.free[i + 1]
        /\ \A i \in DOMAIN H.free : H.free[i] = c => i = k + 1
    BY <1>2, <2>1, CoalesceElements
  <2>4. /\ Len(H.free) \in Nat /\ DOMAIN H.free = 1 .. Len(H.free)
        /\ k \in 1 .. (Len(H.free) - 1) /\ block_end(H, b) = c
    BY <1>2, ShapeTypes DEF Merges
  <2>5. ASSUME NEW i \in DOMAIN G.free PROVE G.free[i] \in Free(H) \ {c}
    <3>1. /\ i \in Int /\ k \in Int
          /\ i \in DOMAIN H.free /\ i + 1 \in DOMAIN H.free
      BY <2>3, <2>4
    <3>2. CASE i <= k
      <4>1. i # k + 1 /\ G.free[i] = H.free[i]
        BY <3>1, <3>2, <2>3
      <4> QED
        BY <4>1, <3>1, <2>3 DEF Free
    <3>3. CASE i > k
      <4>1. i + 1 # k + 1 /\ G.free[i] = H.free[i + 1]
        BY <3>1, <3>3, <2>3
      <4> QED
        BY <4>1, <3>1, <2>3 DEF Free
    <3>4. i <= k \/ i > k
      BY <3>1
    <3> QED
      BY <3>2, <3>3, <3>4
  <2>6. ASSUME NEW i \in DOMAIN H.free, H.free[i] # c
        PROVE  H.free[i] \in Free(G)
    <3>1. i \in Int /\ k \in Int /\ i # k + 1
      BY <2>4, <2>6
    <3>2. CASE i <= k
      <4>1. i \in DOMAIN G.free /\ G.free[i] = H.free[i]
        BY <3>1, <3>2, <2>3, <2>4
      <4> QED
        BY <4>1 DEF Free
    <3>3. CASE i > k + 1
      <4>1. i - 1 \in 1 .. Len(G.free) /\ i - 1 > k /\ (i - 1) + 1 = i
        BY <3>1, <3>3, <2>3, <2>4
      <4>2. G.free[i - 1] = H.free[i]
        BY <4>1, <2>3
      <4> QED
        BY <4>1, <4>2, <2>3 DEF Free
    <3>4. i <= k \/ i > k + 1
      BY <3>1
    <3> QED
      BY <3>2, <3>3, <3>4
  <2>7. Free(G) \subseteq Free(H) \ {c}
    BY <2>5 DEF Free
  <2>8. Free(H) \ {c} \subseteq Free(G)
    BY <2>6 DEF Free
  <2> QED
    BY <2>1, <2>7, <2>8

(* A merge touches no block in use.                                        *)
LEMMA CoalesceUsed ==
  ASSUME NEW H, Shape(H), NEW k \in Int
  PROVE  /\ DOMAIN Coalesce(H, k).size \subseteq DOMAIN H.size
         /\ Used(Coalesce(H, k)) = Used(H)
         /\ \A a \in Used(H) : Coalesce(H, k).size[a] = H.size[a]
<1>1. CASE ~Merges(H, k)
  BY <1>1, CoalesceIdle
<1>2. CASE Merges(H, k)
  <2> DEFINE b == H.free[k]
             c == H.free[k + 1]
  <2>1. PICK G : G = Coalesce(H, k)
    OBVIOUS
  <2>2. /\ b \in DOMAIN H.size /\ c \in DOMAIN H.size /\ b < c
        /\ DOMAIN G.size = DOMAIN H.size \ {c}
        /\ G.size[b] = H.size[b] + HEAP_ALIGN + H.size[c]
        /\ block_end(G, b) = block_end(H, c)
        /\ \A a \in DOMAIN H.size \ {b, c} :
             G.size[a] = H.size[a] /\ block_end(G, a) = block_end(H, a)
    BY <1>2, <2>1, CoalesceElements
  <2>3. /\ Len(G.free) = Len(H.free) - 1
        /\ DOMAIN G.free = 1 .. Len(G.free)
        /\ \A i \in 1 .. Len(G.free) :
             /\ i <= k => G.free[i] = H.free[i]
             /\ i > k => G.free[i] = H.free[i + 1]
        /\ \A i \in DOMAIN H.free : H.free[i] = c => i = k + 1
    BY <1>2, <2>1, CoalesceElements
  <2>4. /\ Len(H.free) \in Nat /\ DOMAIN H.free = 1 .. Len(H.free)
        /\ k \in 1 .. (Len(H.free) - 1) /\ block_end(H, b) = c
    BY <1>2, ShapeTypes DEF Merges
  <2>5. Free(G) = Free(H) \ {c}
    BY <1>2, <2>1, CoalesceFree
  <2>6. b \in Free(H) /\ c \in Free(H)
    <3>1. k \in DOMAIN H.free /\ k + 1 \in DOMAIN H.free
      BY <2>4
    <3> QED
      BY <3>1 DEF Free
  <2> QED
    BY <2>1, <2>2, <2>5, <2>6 DEF Used
<1> QED
  BY <1>1, <1>2

(* A merge neither loses a byte nor gains one.                             *)
LEMMA CoalesceCovers ==
  ASSUME NEW H, Shape(H), NEW k \in Int, NEW x \in Int
  PROVE  Covers(Coalesce(H, k), x) <=> Covers(H, x)
<1>1. CASE ~Merges(H, k)
  BY <1>1, CoalesceIdle
<1>2. CASE Merges(H, k)
  <2> DEFINE b == H.free[k]
             c == H.free[k + 1]
  <2>1. PICK G : G = Coalesce(H, k)
    OBVIOUS
  <2>2. /\ b \in DOMAIN H.size /\ c \in DOMAIN H.size /\ b < c
        /\ DOMAIN G.size = DOMAIN H.size \ {c}
        /\ G.size[b] = H.size[b] + HEAP_ALIGN + H.size[c]
        /\ block_end(G, b) = block_end(H, c)
        /\ \A a \in DOMAIN H.size \ {b, c} :
             G.size[a] = H.size[a] /\ block_end(G, a) = block_end(H, a)
    BY <1>2, <2>1, CoalesceElements
  <2>3. /\ Len(G.free) = Len(H.free) - 1
        /\ DOMAIN G.free = 1 .. Len(G.free)
        /\ \A i \in 1 .. Len(G.free) :
             /\ i <= k => G.free[i] = H.free[i]
             /\ i > k => G.free[i] = H.free[i + 1]
        /\ \A i \in DOMAIN H.free : H.free[i] = c => i = k + 1
    BY <1>2, <2>1, CoalesceElements
  <2>4. /\ Len(H.free) \in Nat /\ DOMAIN H.free = 1 .. Len(H.free)
        /\ k \in 1 .. (Len(H.free) - 1) /\ block_end(H, b) = c
    BY <1>2, ShapeTypes DEF Merges
  <2>5. /\ b \in Nat /\ c \in Nat /\ c <= block_end(H, c)
        /\ block_end(H, c) \in Nat
    <3>1. /\ b \in Nat /\ c \in Nat /\ H.size[c] \in Nat
          /\ block_end(H, c) = c + HEAP_ALIGN + H.size[c]
      BY <2>2, ShapeTypes
    <3> QED
      BY <3>1, Widths
  <2>6. ASSUME Covers(H, x) PROVE Covers(G, x)
    <3>1. PICK a \in DOMAIN H.size : a <= x /\ x < block_end(H, a)
      BY <2>6 DEF Covers
    <3>2. CASE a \notin {b, c}
      <4>1. a \in DOMAIN G.size /\ block_end(G, a) = block_end(H, a)
        BY <2>2, <3>2
      <4> QED
        BY <4>1, <3>1 DEF Covers
    <3>3. CASE a \in {b, c}
      <4>0. b < c /\ block_end(G, b) = block_end(H, c) /\ block_end(H, b) = c
        BY <2>2, <2>4
      <4>3. a = b => b <= x /\ x < c
        BY <3>1, <4>0
      <4>4. a = c => c <= x /\ x < block_end(H, c)
        BY <3>1
      <4>5. b <= x /\ x < block_end(H, c)
        <5>1. a = b => b <= x /\ x < block_end(H, c)
          BY <4>3, <2>5
        <5>2. a = c => b <= x /\ x < block_end(H, c)
          BY <4>0, <4>4, <2>5
        <5> QED
          BY <3>3, <5>1, <5>2
      <4>1. b <= x /\ x < block_end(G, b)
        BY <4>0, <4>5, Zenon
      <4>2. b \in DOMAIN G.size
        BY <2>2, <2>5
      <4> QED
        BY <4>1, <4>2 DEF Covers
    <3> QED
      BY <3>2, <3>3
  <2>7. ASSUME Covers(G, x) PROVE Covers(H, x)
    <3>1. PICK a \in DOMAIN G.size : a <= x /\ x < block_end(G, a)
      BY <2>7 DEF Covers
    <3>2. CASE a # b
      <4>1. a \in DOMAIN H.size /\ block_end(G, a) = block_end(H, a)
        BY <2>2, <3>2
      <4> QED
        BY <4>1, <3>1 DEF Covers
    <3>3. CASE a = b
      <4>1. x < c => b <= x /\ x < block_end(H, b)
        BY <3>1, <3>3, <2>4
      <4>2. ~(x < c) => c <= x /\ x < block_end(H, c)
        BY <3>1, <3>3, <2>2, <2>5
      <4> QED
        BY <4>1, <4>2, <2>2 DEF Covers
    <3> QED
      BY <3>2, <3>3
  <2> QED
    BY <2>1, <2>6, <2>7
<1> QED
  BY <1>1, <1>2

(* Coalesce settles the pair at k: only exceptions before it remain.       *)
LEMMA CoalesceApart ==
  ASSUME NEW H, Shape(H), NEW k \in Int, NEW E,
         \A e \in E : e \in Int /\ e < k,
         ApartExcept(H, E \cup {k})
  PROVE  ApartExcept(Coalesce(H, k), E)
<1>1. CASE ~Merges(H, k)
  BY <1>1, CoalesceIdle DEF Merges, ApartExcept
<1>2. CASE Merges(H, k)
  <2> DEFINE b == H.free[k]
             c == H.free[k + 1]
  <2>1. PICK G : G = Coalesce(H, k)
    OBVIOUS
  <2>2. /\ b \in DOMAIN H.size /\ c \in DOMAIN H.size /\ b < c
        /\ DOMAIN G.size = DOMAIN H.size \ {c}
        /\ G.size[b] = H.size[b] + HEAP_ALIGN + H.size[c]
        /\ block_end(G, b) = block_end(H, c)
        /\ \A a \in DOMAIN H.size \ {b, c} :
             G.size[a] = H.size[a] /\ block_end(G, a) = block_end(H, a)
    BY <1>2, <2>1, CoalesceElements
  <2>3. /\ Len(G.free) = Len(H.free) - 1
        /\ DOMAIN G.free = 1 .. Len(G.free)
        /\ \A i \in 1 .. Len(G.free) :
             /\ i <= k => G.free[i] = H.free[i]
             /\ i > k => G.free[i] = H.free[i + 1]
        /\ \A i \in DOMAIN H.free : H.free[i] = c => i = k + 1
    BY <1>2, <2>1, CoalesceElements
  <2>4. /\ Len(H.free) \in Nat /\ DOMAIN H.free = 1 .. Len(H.free)
        /\ k \in 1 .. (Len(H.free) - 1) /\ block_end(H, b) = c
    BY <1>2, ShapeTypes DEF Merges
  <2>5. SUFFICES ASSUME NEW i \in 1 .. (Len(G.free) - 1), i \notin E
               PROVE  block_end(G, G.free[i]) # G.free[i + 1]
    BY <2>1 DEF ApartExcept
  <2>6. /\ i \in Int /\ k \in Int
        /\ i \in 1 .. Len(G.free) /\ i + 1 \in 1 .. Len(G.free)
        /\ i \in 1 .. (Len(H.free) - 1) /\ i + 1 \in 1 .. (Len(H.free) - 1)
        /\ i + 1 \in DOMAIN H.free /\ i \in DOMAIN H.free
        /\ i < k \/ i = k \/ i > k
    BY <2>3, <2>4
  <2>7. CASE i < k
    <3>1. i <= k /\ i + 1 <= k /\ i # k /\ i # k + 1 /\ k \in DOMAIN H.free
      BY <2>4, <2>6, <2>7
    <3>2. G.free[i] = H.free[i] /\ G.free[i + 1] = H.free[i + 1]
      BY <3>1, <2>3, <2>6
    <3>3. block_end(H, H.free[i]) # H.free[i + 1]
      BY <3>1, <2>5, <2>6 DEF ApartExcept
    <3>4. H.free[i] # c /\ H.free[i] \in DOMAIN H.size
      BY <3>1, <2>3, <2>6, ShapeTypes
    <3>5. H.free[i] # b
      <4>1. H.free[i] < H.free[k]
        BY <3>1, <2>6, <2>7 DEF Shape, Increasing
      <4> QED
        BY <4>1, <2>2, ShapeTypes
    <3>6. block_end(G, H.free[i]) = block_end(H, H.free[i])
      BY <3>4, <3>5, <2>2
    <3> QED
      BY <3>2, <3>3, <3>6
  <2>8. CASE i = k
    <3>1. i <= k /\ i + 1 > k /\ k + 1 \notin E \cup {k}
      BY <2>6, <2>8
    <3>2. G.free[i] = b /\ G.free[i + 1] = H.free[(k + 1) + 1]
      BY <3>1, <2>3, <2>6, <2>8
    <3>3. block_end(H, c) # H.free[(k + 1) + 1]
      BY <3>1, <2>6, <2>8 DEF ApartExcept
    <3> QED
      BY <3>2, <3>3, <2>2
  <2>9. CASE i > k
    <3>1. i > k /\ i + 1 > k /\ i + 1 \notin E \cup {k} /\ i + 1 # k + 1
      BY <2>6, <2>9
    <3>2. G.free[i] = H.free[i + 1] /\ G.free[i + 1] = H.free[(i + 1) + 1]
      BY <3>1, <2>3, <2>6
    <3>3. block_end(H, H.free[i + 1]) # H.free[(i + 1) + 1]
      BY <3>1, <2>6 DEF ApartExcept
    <3>4. H.free[i + 1] # c /\ H.free[i + 1] \in DOMAIN H.size
      BY <3>1, <2>3, <2>6, ShapeTypes
    <3>5. H.free[i + 1] # b
      <4>1. k \in DOMAIN H.free /\ k < i + 1
        BY <2>4, <2>6, <2>9
      <4>2. H.free[k] < H.free[i + 1]
        BY <4>1, <2>6 DEF Shape, Increasing
      <4> QED
        BY <4>2, <2>2, ShapeTypes
    <3>6. block_end(G, H.free[i + 1]) = block_end(H, H.free[i + 1])
      BY <3>4, <3>5, <2>2
    <3> QED
      BY <3>2, <3>3, <3>6
  <2> QED
    BY <2>6, <2>7, <2>8, <2>9
<1> QED
  BY <1>1, <1>2

(* A free block never gets smaller by a merge, though it may get another   *)
(* name.                                                                   *)
LEMMA CoalesceRoom ==
  ASSUME NEW H, Shape(H), NEW k \in Int, NEW need \in Nat,
         \E b \in Free(H) : H.size[b] >= need
  PROVE  \E b \in Free(Coalesce(H, k)) : Coalesce(H, k).size[b] >= need
<1>1. CASE ~Merges(H, k)
  BY <1>1, CoalesceIdle
<1>2. CASE Merges(H, k)
  <2> DEFINE b == H.free[k]
             c == H.free[k + 1]
  <2>1. PICK G : G = Coalesce(H, k)
    OBVIOUS
  <2>2. /\ b \in DOMAIN H.size /\ c \in DOMAIN H.size /\ b < c
        /\ DOMAIN G.size = DOMAIN H.size \ {c}
        /\ G.size[b] = H.size[b] + HEAP_ALIGN + H.size[c]
        /\ block_end(G, b) = block_end(H, c)
        /\ \A a \in DOMAIN H.size \ {b, c} :
             G.size[a] = H.size[a] /\ block_end(G, a) = block_end(H, a)
    BY <1>2, <2>1, CoalesceElements
  <2>3. /\ Len(G.free) = Len(H.free) - 1
        /\ DOMAIN G.free = 1 .. Len(G.free)
        /\ \A i \in 1 .. Len(G.free) :
             /\ i <= k => G.free[i] = H.free[i]
             /\ i > k => G.free[i] = H.free[i + 1]
        /\ \A i \in DOMAIN H.free : H.free[i] = c => i = k + 1
    BY <1>2, <2>1, CoalesceElements
  <2>4. /\ Len(H.free) \in Nat /\ DOMAIN H.free = 1 .. Len(H.free)
        /\ k \in 1 .. (Len(H.free) - 1) /\ block_end(H, b) = c
    BY <1>2, ShapeTypes DEF Merges
  <2>5. Free(G) = Free(H) \ {c}
    BY <1>2, <2>1, CoalesceFree
  <2>6. PICK a \in Free(H) : H.size[a] >= need
    OBVIOUS
  <2>7. a \in DOMAIN H.size
    BY <2>6, ShapeTypes DEF Free
  <2>8. CASE a \notin {b, c}
    BY <2>1, <2>2, <2>5, <2>6, <2>7, <2>8
  <2>9. CASE a \in {b, c}
    <3>1. b \in Free(G)
      <4>1. k \in DOMAIN H.free
        BY <2>4
      <4>2. b \in Free(H) /\ b # c
        BY <4>1, <2>2, ShapeTypes DEF Free
      <4> QED
        BY <4>2, <2>5
    <3>2. H.size[b] \in Nat /\ H.size[c] \in Nat
      BY <2>2, ShapeTypes
    <3>3. G.size[b] >= need
      BY <3>2, <2>2, <2>6, <2>9, Widths
    <3> QED
      BY <3>1, <3>3, <2>1
  <2> QED
    BY <2>8, <2>9
<1> QED
  BY <1>1, <1>2

(* The search of free_insert ends between the addresses below b and those  *)
(* above it.                                                               *)
LEMMA PassedPosition ==
  ASSUME NEW H, Shape(H), NEW b \in Used(H)
  PROVE  LET k == Passed(H.free, b)
         IN  /\ k \in 0 .. Len(H.free)
             /\ \A i \in 1 .. Len(H.free) : /\ i <= k => H.free[i] < b
                                            /\ i > k => b < H.free[i]
<1> DEFINE n == Len(H.free)
           Stops(k) == /\ \A i \in 1 .. k : H.free[i] < b
                       /\ k = n \/ H.free[k + 1] >= b
           S == {m \in 1 .. (n + 1) : m = n + 1 \/ H.free[m] >= b}
<1>1. /\ n \in Nat /\ DOMAIN H.free = 1 .. n /\ b \in Nat
      /\ \A i \in 1 .. n : H.free[i] \in Nat /\ H.free[i] # b
  <2>1. b \in DOMAIN H.size /\ \A i \in DOMAIN H.free : H.free[i] # b
    BY DEF Used, Free
  <2> QED
    BY <2>1, ShapeTypes
<1>2. n + 1 \in S /\ S \in SUBSET Nat
  BY <1>1
<1>3. PICK m \in S : \A l \in S : m <= l
  BY <1>2, LeastNumber
<1>4. m - 1 \in 0 .. n /\ Stops(m - 1)
  <2>1. m \in 1 .. (n + 1) /\ (m = n + 1 \/ H.free[m] >= b) /\ (m - 1) + 1 = m
    BY <1>3
  <2>2. ASSUME NEW i \in 1 .. (m - 1) PROVE H.free[i] < b
    <3>1. i \in 1 .. n /\ i < m
      BY <1>1, <2>1
    <3>2. i \notin S
      BY <3>1, <1>3, <2>1
    <3>3. ~(H.free[i] >= b)
      BY <3>1, <3>2, <1>1
    <3> QED
      BY <3>1, <3>3, <1>1
  <2>3. m - 1 \in 0 .. n /\ (m - 1 = n \/ H.free[(m - 1) + 1] >= b)
    BY <1>1, <2>1
  <2> QED
    BY <2>2, <2>3
<1>5. \E k \in 0 .. n : Stops(k)
  BY <1>4
<1>6. PICK k : k = Passed(H.free, b)
  OBVIOUS
<1>7. k = CHOOSE j \in 0 .. n : Stops(j)
  BY <1>6 DEF Passed
<1>8. k \in 0 .. n /\ Stops(k)
  <2> HIDE DEF Stops
  <2> QED
    BY <1>5, <1>7
<1>9. ASSUME NEW i \in 1 .. n, i > k
      PROVE  b < H.free[i]
  <2>1. k + 1 \in 1 .. n /\ k # n /\ (i = k + 1 \/ k + 1 < i)
    BY <1>1, <1>8, <1>9
  <2>2. H.free[k + 1] >= b /\ H.free[k + 1] # b
    BY <1>1, <1>8, <2>1
  <2>3. k + 1 < i => H.free[k + 1] < H.free[i]
    BY <1>1, <2>1 DEF Shape, Increasing
  <2> QED
    BY <1>1, <2>1, <2>2, <2>3
<1>10. ASSUME NEW i \in 1 .. n, i <= k
       PROVE  H.free[i] < b
  BY <1>1, <1>8, <1>10
<1> QED
  BY <1>6, <1>8, <1>9, <1>10

(* Block b is in the free list and nothing is merged yet.                  *)
Linked(H, b) ==
  [H EXCEPT !.free = InsertAt(@, Passed(H.free, b) + 1, b)]

(* The free list with b in it, position by position.                       *)
LEMMA LinkedElements ==
  ASSUME NEW H, Shape(H), NEW b \in Used(H), NEW L, L = Linked(H, b),
         NEW k, k = Passed(H.free, b)
  PROVE  /\ L = [free |-> L.free, size |-> H.size]
         /\ L.free \in Seq(DOMAIN H.size)
         /\ Len(L.free) = Len(H.free) + 1
         /\ DOMAIN L.free = 1 .. (Len(H.free) + 1)
         /\ L.free[k + 1] = b
         /\ \A i \in 1 .. (Len(H.free) + 1) :
              /\ i <= k => L.free[i] = H.free[i]
              /\ i > k + 1 => L.free[i] = H.free[i - 1]
<1>1. k \in 0 .. Len(H.free) /\ Len(H.free) \in Nat /\ b \in DOMAIN H.size
  BY PassedPosition, ShapeTypes DEF Used
<1>2. H = [free |-> H.free, size |-> H.size]
  BY DEF Shape
<1>3. L = [free |-> InsertAt(H.free, k + 1, b), size |-> H.size]
  BY <1>2 DEF Linked
<1>4. PICK s \in Seq(DOMAIN H.size) : s = H.free
  BY DEF Shape
<1>5. PICK j \in 1 .. (Len(s) + 1) : j = k + 1
  BY <1>1, <1>4
<1>6. L.free = InsertAt(s, j, b) /\ L = [free |-> L.free, size |-> H.size]
  BY <1>3, <1>4, <1>5
<1>7. /\ InsertAt(s, j, b) \in Seq(DOMAIN H.size)
      /\ Len(InsertAt(s, j, b)) = Len(s) + 1
      /\ InsertAt(s, j, b)[j] = b
  BY <1>1, InsertAtElements
<1>8. \A i \in 1 .. (Len(s) + 1) : i < j => InsertAt(s, j, b)[i] = s[i]
  BY <1>1, InsertAtElements
<1>9. \A i \in 1 .. (Len(s) + 1) : i > j => InsertAt(s, j, b)[i] = s[i - 1]
  BY <1>1, InsertAtElements
<1>10. DOMAIN InsertAt(s, j, b) = 1 .. (Len(s) + 1)
  BY <1>7, LenProperties
<1>11. \A i \in 1 .. (Len(s) + 1) : /\ i <= k => i < j
                                    /\ i > k + 1 => i > j
  BY <1>1, <1>4, <1>5
<1> QED
  BY <1>4, <1>5, <1>6, <1>7, <1>8, <1>9, <1>10, <1>11

(* It is in address order, and only the pairs b is in may touch.           *)
LEMMA LinkedShape ==
  ASSUME NEW H, Shape(H), NEW b \in Used(H)
  PROVE  /\ Shape(Linked(H, b))
         /\ Linked(H, b).size = H.size
         /\ Free(Linked(H, b)) = Free(H) \cup {b}
         /\ ApartExcept(H, {}) =>
              ApartExcept(Linked(H, b), {Passed(H.free, b), Passed(H.free, b) + 1})
<1> DEFINE n == Len(H.free)
<1>1. PICK L, k : L = Linked(H, b) /\ k = Passed(H.free, b)
  OBVIOUS
<1>2. /\ k \in 0 .. n /\ n \in Nat /\ b \in DOMAIN H.size /\ b \in Nat
      /\ DOMAIN H.free = 1 .. n
      /\ \A i \in 1 .. n : H.free[i] \in DOMAIN H.size /\ H.free[i] \in Nat
  BY <1>1, PassedPosition, ShapeTypes DEF Used
<1>3. \A i \in 1 .. n : /\ i <= k => H.free[i] < b
                        /\ i > k => b < H.free[i]
  BY <1>1, PassedPosition
<1>4. /\ L = [free |-> L.free, size |-> H.size]
      /\ L.free \in Seq(DOMAIN H.size)
      /\ Len(L.free) = n + 1
      /\ DOMAIN L.free = 1 .. (n + 1)
      /\ L.free[k + 1] = b
      /\ \A i \in 1 .. (n + 1) : /\ i <= k => L.free[i] = H.free[i]
                                 /\ i > k + 1 => L.free[i] = H.free[i - 1]
  BY <1>1, LinkedElements
<1>5. L.size = H.size /\ \A a : block_end(L, a) = block_end(H, a)
  BY <1>4 DEF block_end
<1>6. Increasing(L.free)
  <2> SUFFICES ASSUME NEW i \in 1 .. (n + 1), NEW j \in 1 .. (n + 1), i < j
               PROVE  L.free[i] < L.free[j]
    BY <1>4 DEF Increasing
  <2>0. i \in Int /\ j \in Int /\ k \in Int /\ n \in Int
    BY <1>2
  <2>1. CASE j <= k
    <3>1. i <= k /\ i \in DOMAIN H.free /\ j \in DOMAIN H.free
      BY <1>2, <2>0, <2>1
    <3>2. H.free[i] < H.free[j]
      BY <3>1 DEF Shape, Increasing
    <3> QED
      BY <3>1, <3>2, <2>1, <1>4
  <2>2. CASE j = k + 1
    <3>1. i <= k /\ i \in 1 .. n
      BY <1>2, <2>0, <2>2
    <3> QED
      BY <3>1, <2>2, <1>3, <1>4
  <2>3. CASE j > k + 1
    <3>1. j - 1 > k /\ j - 1 \in 1 .. n /\ L.free[j] = H.free[j - 1]
      BY <1>2, <2>0, <2>3, <1>4
    <3>2. CASE i = k + 1
      BY <3>1, <3>2, <1>3, <1>4
    <3>3. CASE i <= k
      <4>1. i \in 1 .. n /\ i < j - 1 /\ L.free[i] = H.free[i]
        BY <3>3, <1>2, <2>0, <2>3, <1>4
      <4>2. H.free[i] < H.free[j - 1]
        BY <3>1, <4>1, <1>2 DEF Shape, Increasing
      <4> QED
        BY <3>1, <4>1, <4>2
    <3>4. CASE i > k + 1
      <4>1. i - 1 \in 1 .. n /\ i - 1 < j - 1 /\ L.free[i] = H.free[i - 1]
        BY <3>4, <1>2, <2>0, <2>3, <1>4
      <4>2. H.free[i - 1] < H.free[j - 1]
        BY <3>1, <4>1, <1>2 DEF Shape, Increasing
      <4> QED
        BY <3>1, <4>1, <4>2
    <3>5. i = k + 1 \/ i <= k \/ i > k + 1
      BY <2>0
    <3> QED
      BY <3>2, <3>3, <3>4, <3>5
  <2>4. j <= k \/ j = k + 1 \/ j > k + 1
    BY <2>0
  <2> QED
    BY <2>1, <2>2, <2>3, <2>4
<1>7. Shape(L)
  <2>1. L = [free |-> L.free, size |-> L.size]
    BY <1>4, <1>5
  <2> QED
    BY <2>1, <1>4, <1>5, <1>6 DEF Shape
<1>8. Free(L) = Free(H) \cup {b}
  <2>1. ASSUME NEW i \in 1 .. (n + 1) PROVE L.free[i] \in Free(H) \cup {b}
    <3>1. i <= k => L.free[i] = H.free[i] /\ i \in DOMAIN H.free
      BY <1>2, <1>4
    <3>2. i > k + 1 => L.free[i] = H.free[i - 1] /\ i - 1 \in DOMAIN H.free
      BY <1>2, <1>4
    <3>3. i = k + 1 => L.free[i] = b
      BY <1>4
    <3>4. i <= k \/ i > k + 1 \/ i = k + 1
      BY <1>2
    <3> QED
      BY <3>1, <3>2, <3>3, <3>4 DEF Free
  <2>2. ASSUME NEW i \in 1 .. n PROVE H.free[i] \in Free(L)
    <3>1. CASE i <= k
      <4>1. i \in DOMAIN L.free /\ L.free[i] = H.free[i]
        BY <1>2, <1>4, <3>1
      <4> QED
        BY <4>1 DEF Free
    <3>2. CASE i > k
      <4>1. i + 1 \in DOMAIN L.free /\ i + 1 > k + 1 /\ (i + 1) - 1 = i
        BY <1>2, <1>4, <3>2
      <4>2. L.free[i + 1] = H.free[i]
        BY <4>1, <1>4
      <4> QED
        BY <4>1, <4>2 DEF Free
    <3>3. i <= k \/ i > k
      BY <1>2
    <3> QED
      BY <3>1, <3>2, <3>3
  <2>3. b \in Free(L)
    <3>1. k + 1 \in DOMAIN L.free
      BY <1>2, <1>4
    <3> QED
      BY <3>1, <1>4 DEF Free
  <2>4. Free(L) \subseteq Free(H) \cup {b}
    BY <2>1, <1>4 DEF Free
  <2>5. Free(H) \subseteq Free(L)
    BY <2>2, <1>2 DEF Free
  <2> QED
    BY <2>3, <2>4, <2>5
<1>9. ASSUME ApartExcept(H, {})
      PROVE  ApartExcept(L, {k, k + 1})
  <2> SUFFICES ASSUME NEW i \in 1 .. (Len(L.free) - 1), i \notin {k, k + 1}
               PROVE  block_end(L, L.free[i]) # L.free[i + 1]
    BY DEF ApartExcept
  <2>0. /\ i \in Int /\ k \in Int /\ n \in Nat
        /\ i \in 1 .. n /\ i \in 1 .. (n + 1) /\ i + 1 \in 1 .. (n + 1)
    BY <1>2, <1>4
  <2>1. CASE i < k
    <3>1. i <= k /\ i + 1 <= k /\ i \in 1 .. (n - 1)
      BY <2>0, <2>1, <1>2
    <3>2. L.free[i] = H.free[i] /\ L.free[i + 1] = H.free[i + 1]
      BY <3>1, <2>0, <1>4
    <3> QED
      BY <3>1, <3>2, <1>5, <1>9 DEF ApartExcept
  <2>2. CASE i > k + 1
    <3>1. i + 1 > k + 1 /\ i - 1 \in 1 .. (n - 1) /\ (i + 1) - 1 = i /\ (i - 1) + 1 = i
      BY <2>0, <2>2, <1>2
    <3>2. L.free[i] = H.free[i - 1] /\ L.free[i + 1] = H.free[i]
      BY <3>1, <2>0, <2>2, <1>4
    <3>3. block_end(H, H.free[i - 1]) # H.free[i]
      BY <3>1, <1>9 DEF ApartExcept
    <3> QED
      BY <3>2, <3>3, <1>5
  <2>3. i < k \/ i > k + 1
    BY <2>0
  <2> QED
    BY <2>1, <2>2, <2>3
<1> QED
  BY <1>1, <1>5, <1>7, <1>8, <1>9

(* free_insert, whole: the block is no longer in use, no other block in    *)
(* use is touched, every byte stays covered, the free list is coalesced    *)
(* again, and it has a block with at least the room of b.                  *)
LEMMA FreeInsert ==
  ASSUME NEW H, Shape(H), ApartExcept(H, {}), NEW b \in Used(H),
         NEW R, R = free_insert(H, b)
  PROVE  /\ Shape(R)
         /\ ApartExcept(R, {})
         /\ DOMAIN R.size \subseteq DOMAIN H.size
         /\ Used(R) = Used(H) \ {b}
         /\ \A a \in Used(R) : R.size[a] = H.size[a]
         /\ \A x \in Int : Covers(R, x) <=> Covers(H, x)
         /\ \E c \in Free(R) : R.size[c] >= H.size[b]
<1>1. PICK k : k = Passed(H.free, b)
  OBVIOUS
<1>2. k \in Int /\ k + 1 \in Int /\ k < k + 1 /\ b \in DOMAIN H.size /\ H.size[b] \in Nat
  BY <1>1, PassedPosition, ShapeTypes DEF Used
<1>3. PICK L : L = Linked(H, b)
  OBVIOUS
<1>4. /\ Shape(L) /\ L.size = H.size /\ Free(L) = Free(H) \cup {b}
      /\ ApartExcept(L, {k, k + 1})
  BY <1>1, <1>3, LinkedShape
<1>5. PICK M : M = Coalesce(L, k + 1)
  OBVIOUS
<1>6. R = Coalesce(M, k)
  BY <1>1, <1>3, <1>5 DEF free_insert, Linked
<1>7. Shape(M) /\ Shape(R)
  BY <1>2, <1>4, <1>5, <1>6, CoalesceShape
<1>8. ApartExcept(R, {})
  <2>1. {k} \cup {k + 1} = {k, k + 1} /\ {} \cup {k} = {k}
    OBVIOUS
  <2>2. \A e \in {k} : e \in Int /\ e < k + 1
    BY <1>2
  <2>3. ApartExcept(M, {k})
    BY <2>1, <2>2, <1>2, <1>4, <1>5, CoalesceApart
  <2> QED
    BY <2>1, <2>3, <1>2, <1>6, <1>7, CoalesceApart
<1>9. /\ DOMAIN R.size \subseteq DOMAIN L.size
      /\ Used(R) = Used(L)
      /\ \A a \in Used(R) : R.size[a] = L.size[a]
  <2>1. /\ DOMAIN M.size \subseteq DOMAIN L.size
        /\ Used(M) = Used(L)
        /\ \A a \in Used(L) : M.size[a] = L.size[a]
    BY <1>2, <1>4, <1>5, CoalesceUsed
  <2>2. /\ DOMAIN R.size \subseteq DOMAIN M.size
        /\ Used(R) = Used(M)
        /\ \A a \in Used(M) : R.size[a] = M.size[a]
    BY <1>2, <1>6, <1>7, CoalesceUsed
  <2> QED
    BY <2>1, <2>2
<1>10. Used(L) = Used(H) \ {b}
  BY <1>4 DEF Used
<1>11. ASSUME NEW x \in Int PROVE Covers(R, x) <=> Covers(H, x)
  <2>1. Covers(L, x) <=> Covers(H, x)
    BY <1>4 DEF Covers, block_end
  <2>2. Covers(M, x) <=> Covers(L, x)
    BY <1>2, <1>4, <1>5, CoalesceCovers
  <2>3. Covers(R, x) <=> Covers(M, x)
    BY <1>2, <1>6, <1>7, CoalesceCovers
  <2> QED
    BY <2>1, <2>2, <2>3
<1>12. \E c \in Free(R) : R.size[c] >= H.size[b]
  <2>1. \E c \in Free(L) : L.size[c] >= H.size[b]
    BY <1>2, <1>4
  <2>2. \E c \in Free(M) : M.size[c] >= H.size[b]
    BY <2>1, <1>2, <1>4, <1>5, CoalesceRoom
  <2> QED
    BY <2>2, <1>2, <1>6, <1>7, CoalesceRoom
<1> QED
  BY <1>4, <1>7, <1>8, <1>9, <1>10, <1>11, <1>12

-----------------------------------------------------------------------------
(***************************************************************************)
(* Taking a block (kmalloc), and the header of new memory (heap_grow).     *)
(***************************************************************************)

(* A free block taken whole is no longer in the free list, and all else is *)
(* as before.                                                              *)
LEMMA TakeWhole ==
  ASSUME NEW H, Shape(H), ApartExcept(H, {}), NEW k \in DOMAIN H.free,
         NEW R, R = [H EXCEPT !.free = RemoveAt(@, k)]
  PROVE  /\ Shape(R)
         /\ ApartExcept(R, {})
         /\ R.size = H.size
         /\ Free(R) = Free(H) \ {H.free[k]}
<1> DEFINE n == Len(H.free)
<1>1. /\ n \in Nat /\ DOMAIN H.free = 1 .. n /\ k \in 1 .. n
      /\ \A i \in 1 .. n : H.free[i] \in DOMAIN H.size /\ H.free[i] \in Nat
      /\ \A i, j \in 1 .. n : i < j => H.free[i] < H.free[j]
  BY ShapeTypes DEF Shape, Increasing
<1>2. H = [free |-> H.free, size |-> H.size]
  BY DEF Shape
<1>3. R = [free |-> RemoveAt(H.free, k), size |-> H.size]
  BY <1>2
<1>4. PICK s \in Seq(DOMAIN H.size) : s = H.free
  BY DEF Shape
<1>5. R.free = RemoveAt(s, k) /\ R.size = H.size
  BY <1>3, <1>4
<1>6. RemoveAt(s, k) \in Seq(DOMAIN H.size) /\ Len(RemoveAt(s, k)) = n - 1
  BY <1>1, <1>4, RemoveAtElements
<1>7. \A i \in 1 .. (n - 1) :
        RemoveAt(s, k)[i] = IF i < k THEN s[i] ELSE s[i + 1]
  BY <1>1, <1>4, RemoveAtElements
<1>8. /\ R.free \in Seq(DOMAIN H.size) /\ Len(R.free) = n - 1
      /\ DOMAIN R.free = 1 .. (n - 1)
      /\ \A i \in 1 .. (n - 1) : /\ i < k => R.free[i] = H.free[i]
                                 /\ ~(i < k) => R.free[i] = H.free[i + 1]
  BY <1>4, <1>5, <1>6, <1>7, LenProperties
<1>9. \A a : block_end(R, a) = block_end(H, a)
  BY <1>5 DEF block_end
<1>10. Increasing(R.free)
  <2> SUFFICES ASSUME NEW i \in 1 .. (n - 1), NEW j \in 1 .. (n - 1), i < j
               PROVE  R.free[i] < R.free[j]
    BY <1>8 DEF Increasing
  <2>1. /\ i \in 1 .. n /\ i + 1 \in 1 .. n /\ j \in 1 .. n /\ j + 1 \in 1 .. n
        /\ i < j + 1 /\ i + 1 < j + 1 /\ (~(i < k) => ~(j < k))
    BY <1>1
  <2>2. /\ H.free[i] < H.free[j] /\ H.free[i] < H.free[j + 1]
        /\ H.free[i + 1] < H.free[j + 1]
    BY <1>1, <2>1
  <2> QED
    BY <1>8, <2>1, <2>2
<1>11. Shape(R)
  BY <1>3, <1>5, <1>8, <1>9, <1>10 DEF Shape
<1>12. ApartExcept(R, {})
  <2> SUFFICES ASSUME NEW i \in 1 .. ((n - 1) - 1)
               PROVE  block_end(H, R.free[i]) # R.free[i + 1]
    BY <1>8, <1>9 DEF ApartExcept
  <2>1. /\ i \in 1 .. (n - 1) /\ i + 1 \in 1 .. (n - 1) /\ i \in Int /\ k \in Int
        /\ i \in 1 .. n /\ i + 1 \in 1 .. n /\ (i + 1) + 1 \in 1 .. n
        /\ i < i + 1 /\ i + 1 < (i + 1) + 1
    BY <1>1
  <2>2. CASE i + 1 < k
    <3>1. i < k
      BY <2>1, <2>2
    <3> QED
      BY <3>1, <2>1, <2>2, <1>8 DEF ApartExcept
  <2>3. CASE i + 1 = k
    <3>1. R.free[i] = H.free[i] /\ R.free[i + 1] = H.free[(i + 1) + 1]
      BY <2>1, <2>3, <1>8
    <3>2. /\ block_end(H, H.free[i]) <= H.free[i + 1]
          /\ H.free[i + 1] < H.free[(i + 1) + 1]
          /\ block_end(H, H.free[i]) \in Nat
      BY <2>1, <1>1, ShapeTypes DEF Shape
    <3>3. H.free[i + 1] \in Nat /\ H.free[(i + 1) + 1] \in Nat
      BY <2>1, <1>1
    <3> QED
      BY <3>1, <3>2, <3>3
  <2>4. CASE i + 1 > k
    <3>1. ~(i < k) /\ ~(i + 1 < k)
      BY <2>1, <2>4
    <3>2. R.free[i] = H.free[i + 1] /\ R.free[i + 1] = H.free[(i + 1) + 1]
      BY <3>1, <2>1, <1>8
    <3> QED
      BY <3>2, <2>1 DEF ApartExcept
  <2>5. i + 1 < k \/ i + 1 = k \/ i + 1 > k
    BY <2>1
  <2> QED
    BY <2>2, <2>3, <2>4, <2>5
<1>13. Free(R) = Free(H) \ {H.free[k]}
  <2>1. ASSUME NEW i \in 1 .. (n - 1)
        PROVE  R.free[i] \in Free(H) \ {H.free[k]}
    <3>1. i \in 1 .. n /\ i + 1 \in 1 .. n /\ i \in Int /\ k \in Int
      BY <1>1
    <3>2. CASE i < k
      <4>1. R.free[i] = H.free[i] /\ H.free[i] < H.free[k]
        BY <3>1, <3>2, <1>1, <1>8
      <4> QED
        BY <4>1, <3>1, <1>1 DEF Free
    <3>3. CASE ~(i < k)
      <4>1. R.free[i] = H.free[i + 1] /\ k < i + 1
        BY <3>1, <3>3, <1>8
      <4>2. H.free[k] < H.free[i + 1]
        BY <4>1, <3>1, <1>1
      <4> QED
        BY <4>1, <4>2, <3>1, <1>1 DEF Free
    <3> QED
      BY <3>2, <3>3
  <2>2. ASSUME NEW i \in 1 .. n, H.free[i] # H.free[k]
        PROVE  H.free[i] \in Free(R)
    <3>1. i \in Int /\ k \in Int /\ (i < k \/ i > k)
      BY <2>2, <1>1
    <3>2. CASE i < k
      <4>1. i \in 1 .. (n - 1) /\ R.free[i] = H.free[i]
        BY <3>2, <1>1, <1>8
      <4> QED
        BY <4>1, <1>8 DEF Free
    <3>3. CASE i > k
      <4>1. i - 1 \in 1 .. (n - 1) /\ ~(i - 1 < k) /\ (i - 1) + 1 = i
        BY <3>3, <1>1
      <4>2. R.free[i - 1] = H.free[i]
        BY <4>1, <1>8
      <4> QED
        BY <4>1, <4>2, <1>8 DEF Free
    <3> QED
      BY <3>1, <3>2, <3>3
  <2>3. Free(R) \subseteq Free(H) \ {H.free[k]}
    BY <2>1, <1>8 DEF Free
  <2>4. Free(H) \ {H.free[k]} \subseteq Free(R)
    BY <2>2, <1>1 DEF Free
  <2> QED
    BY <2>3, <2>4
<1> QED
  BY <1>5, <1>11, <1>12, <1>13

(* A free block that is split: its front is in use with exactly the size   *)
(* needed, its rest takes its place in the free list.                      *)
LEMMA TakeSplit ==
  ASSUME NEW H, Shape(H), ApartExcept(H, {}), NEW k \in DOMAIN H.free,
         NEW need \in Nat, Aligned(need),
         NEW b, b = H.free[k],
         H.size[b] >= need + HEAP_ALIGN + HEAP_ALIGN,
         NEW R, R = Take(H, k, need)
  PROVE  /\ Shape(R)
         /\ ApartExcept(R, {})
         /\ Used(R) = Used(H) \cup {b}
         /\ \A a \in Used(H) : R.size[a] = H.size[a]
         /\ R.size[b] = need
         /\ \A x \in Int : Covers(R, x) <=> Covers(H, x)
<1> DEFINE n == Len(H.free)
           rest == b + HEAP_ALIGN + need
           over == H.size[b] - need - HEAP_ALIGN
<1>1. /\ n \in Nat /\ DOMAIN H.free = 1 .. n /\ k \in 1 .. n
      /\ \A i \in 1 .. n : H.free[i] \in DOMAIN H.size /\ H.free[i] \in Nat
      /\ \A i, j \in 1 .. n : i < j => H.free[i] < H.free[j]
  BY ShapeTypes DEF Shape, Increasing
<1>2. /\ b \in DOMAIN H.size /\ b \in Nat /\ H.size[b] \in Nat
      /\ block_end(H, b) = b + HEAP_ALIGN + H.size[b]
      /\ block_end(H, b) \in Nat
  BY <1>1, ShapeTypes
<1>3. /\ rest \in Nat /\ over \in Nat
      /\ b < rest /\ rest < block_end(H, b)
      /\ rest + HEAP_ALIGN + over = block_end(H, b)
      /\ b + HEAP_ALIGN + need = rest
  BY <1>2, Widths
<1>4. /\ Aligned(rest) /\ Aligned(over)
  <2>1. Aligned(b) /\ Aligned(H.size[b]) /\ Aligned(HEAP_ALIGN)
    BY <1>2, AlignedUnit DEF Shape
  <2>2. /\ b \in Int /\ H.size[b] \in Int /\ HEAP_ALIGN \in Int /\ need \in Int
        /\ b + HEAP_ALIGN \in Int /\ H.size[b] - need \in Int
    BY <1>2, Widths
  <2>3. Aligned(b + HEAP_ALIGN) /\ Aligned(H.size[b] - need)
    BY <2>1, <2>2, AlignedSum, Zenon
  <2> QED
    BY <2>1, <2>2, <2>3, AlignedSum, Zenon
<1>5. R = [free |-> [H.free EXCEPT ![k] = rest],
           size |-> [a \in DOMAIN H.size \cup {rest} |->
                        CASE a = b    -> need
                          [] a = rest -> over
                          [] OTHER    -> H.size[a]]]
  BY DEF Take, Payload
<1> HIDE DEF rest, over
<1>6. \A c \in DOMAIN H.size : c # b => c < b \/ block_end(H, b) <= c
  BY <1>2, ShapeTypes DEF Shape
<1>7. rest \notin DOMAIN H.size
  BY <1>2, <1>3, <1>6, ShapeTypes
<1>8. /\ DOMAIN R.size = DOMAIN H.size \cup {rest}
      /\ R.size[b] = need /\ R.size[rest] = over
      /\ \A a \in DOMAIN H.size \ {b} : R.size[a] = H.size[a]
  <2>0. R.size = [a \in DOMAIN H.size \cup {rest} |->
                    CASE a = b    -> need
                      [] a = rest -> over
                      [] OTHER    -> H.size[a]]
    BY <1>5
  <2>5. DOMAIN R.size = DOMAIN H.size \cup {rest}
    BY <2>0
  <2>2. rest # b
    BY <1>2, <1>3
  <2>6. b \in DOMAIN H.size \cup {rest}
    BY <1>2
  <2>1. R.size[b] = need
    BY <2>0, <2>2, <2>6
  <2>3. R.size[rest] = over
    BY <1>5, <2>2
  <2>4. \A a \in DOMAIN H.size \ {b} : R.size[a] = H.size[a]
    BY <1>5, <1>7
  <2> QED
    BY <2>1, <2>3, <2>4, <2>5
<1>9. /\ block_end(R, b) = rest
      /\ block_end(R, rest) = block_end(H, b)
      /\ \A a \in DOMAIN H.size \ {b} : block_end(R, a) = block_end(H, a)
  BY <1>3, <1>8 DEF block_end, Payload
<1>10. /\ R.free = [H.free EXCEPT ![k] = rest]
       /\ Len(R.free) = n /\ DOMAIN R.free = 1 .. n
       /\ R.free[k] = rest
       /\ \A i \in 1 .. n : i # k => R.free[i] = H.free[i]
  <2>1. R.free = [H.free EXCEPT ![k] = rest]
    BY <1>5
  <2>2. H.free \in Seq(DOMAIN H.size \cup {rest})
    BY SeqMonotonic DEF Shape
  <2>3. Len(R.free) = n
    BY <1>1, <2>1, <2>2, ExceptSeq
  <2>4. DOMAIN R.free = 1 .. n
    BY <1>1, <2>1
  <2> QED
    BY <1>1, <2>1, <2>3, <2>4
<1>11. R.free \in Seq(DOMAIN R.size)
  <2>1. H.free \in Seq(DOMAIN R.size)
    BY <1>8, SeqMonotonic DEF Shape
  <2>2. rest \in DOMAIN R.size /\ k \in 1 .. Len(H.free)
    BY <1>1, <1>8
  <2> QED
    BY <2>1, <2>2, <1>10, ExceptSeq
<1>12. Increasing(R.free)
  <2> SUFFICES ASSUME NEW i \in 1 .. n, NEW j \in 1 .. n, i < j
               PROVE  R.free[i] < R.free[j]
    BY <1>10 DEF Increasing
  <2>1. H.free[i] < H.free[j]
    BY <1>1
  <2>2. CASE i # k /\ j # k
    BY <2>1, <2>2, <1>10
  <2>3. CASE j = k
    <3>1. i # k /\ H.free[i] \in Nat
      BY <2>3, <1>1
    <3>2. H.free[i] < rest
      BY <3>1, <2>1, <2>3, <1>2, <1>3
    <3> QED
      BY <3>1, <3>2, <2>3, <1>10
  <2>4. CASE i = k
    <3>1. j # k /\ H.free[j] \in DOMAIN H.size /\ H.free[j] \in Nat
      BY <2>4, <1>1
    <3>2. block_end(H, b) <= H.free[j]
      BY <3>1, <2>1, <2>4, <1>2 DEF Shape
    <3>3. rest < H.free[j]
      BY <3>1, <3>2, <1>2, <1>3
    <3> QED
      BY <3>1, <3>3, <2>4, <1>10
  <2> QED
    BY <2>2, <2>3, <2>4
<1>13. ASSUME NEW x \in DOMAIN R.size, NEW y \in DOMAIN R.size, x < y
       PROVE  block_end(R, x) <= y
  <2>1. x \in Nat /\ y \in Nat
    BY <1>3, <1>8, ShapeTypes
  <2>2. CASE x = rest
    <3>1. y # rest /\ y # b /\ y \in DOMAIN H.size
      BY <2>1, <2>2, <1>2, <1>3, <1>8, <1>13
    <3>2. block_end(H, b) <= y
      BY <3>1, <2>1, <2>2, <1>2, <1>3, <1>6, <1>13
    <3> QED
      BY <3>2, <2>2, <1>9
  <2>3. CASE y = rest /\ x # rest
    <3>1. x \in DOMAIN H.size
      BY <2>3, <1>8
    <3>2. CASE x = b
      BY <3>2, <2>3, <1>3, <1>9
    <3>3. CASE x # b
      <4>1. x < b
        BY <3>1, <3>3, <2>1, <2>3, <1>2, <1>3, <1>6, <1>13
      <4>2. block_end(H, x) <= b /\ block_end(H, x) \in Nat
        BY <4>1, <3>1, <1>2, ShapeTypes DEF Shape
      <4>3. block_end(H, x) <= rest
        BY <4>2, <1>2, <1>3
      <4> QED
        BY <4>3, <3>1, <3>3, <2>3, <1>9
    <3> QED
      BY <3>2, <3>3
  <2>4. CASE x # rest /\ y # rest
    <3>1. x \in DOMAIN H.size /\ y \in DOMAIN H.size
      BY <2>4, <1>8
    <3>2. block_end(H, x) <= y
      BY <3>1, <1>13 DEF Shape
    <3>3. CASE x = b
      <4>1. block_end(R, x) = rest
        BY <3>3, <1>9
      <4>2. rest < block_end(H, b) /\ block_end(H, b) <= y
        BY <3>2, <3>3, <1>3
      <4>3. rest <= y
        BY <4>2, <2>1, <1>2, <1>3
      <4> QED
        BY <4>1, <4>3
    <3>4. CASE x # b
      BY <3>1, <3>2, <3>4, <1>9
    <3> QED
      BY <3>3, <3>4
  <2> QED
    BY <2>2, <2>3, <2>4
<1>14. R.size \in [DOMAIN R.size -> Nat]
  <2>1. R.size = [a \in DOMAIN R.size |-> R.size[a]]
    BY <1>5
  <2>2. ASSUME NEW a \in DOMAIN R.size PROVE R.size[a] \in Nat
    <3>1. a = b \/ a = rest \/ a \in DOMAIN H.size \ {b}
      BY <1>8
    <3>2. \A c \in DOMAIN H.size : H.size[c] \in Nat
      BY ShapeTypes
    <3> QED
      BY <3>1, <3>2, <1>3, <1>8
  <2> QED
    BY <2>1, <2>2
<1>15. \A a \in DOMAIN R.size : Aligned(a) /\ Aligned(R.size[a])
  <2> TAKE a \in DOMAIN R.size
  <2>1. CASE a = rest
    BY <2>1, <1>4, <1>8
  <2>2. CASE a = b
    BY <2>2, <1>2, <1>8 DEF Shape
  <2>3. CASE a # b /\ a # rest
    BY <2>3, <1>8 DEF Shape
  <2> QED
    BY <2>1, <2>2, <2>3
<1>16. Shape(R)
  <2>1. R = [free |-> R.free, size |-> R.size]
    BY <1>5
  <2>2. DOMAIN R.size \subseteq Nat
    BY <1>3, <1>8 DEF Shape
  <2> QED
    BY <2>1, <2>2, <1>11, <1>12, <1>13, <1>14, <1>15 DEF Shape
<1>17. ApartExcept(R, {})
  <2> SUFFICES ASSUME NEW i \in 1 .. (n - 1)
               PROVE  block_end(R, R.free[i]) # R.free[i + 1]
    BY <1>10 DEF ApartExcept
  <2>1. i \in 1 .. n /\ i + 1 \in 1 .. n /\ i \in Int /\ k \in Int /\ i < i + 1
    BY <1>1
  <2>2. /\ block_end(H, H.free[i]) # H.free[i + 1]
        /\ H.free[i] < H.free[i + 1]
    BY <2>1, <1>1 DEF ApartExcept
  <2>3. CASE i = k
    <3>1. i + 1 # k
      BY <2>1, <2>3
    <3> QED
      BY <3>1, <2>1, <2>2, <2>3, <1>9, <1>10
  <2>4. CASE i + 1 = k
    <3>1. i # k /\ H.free[i] # b /\ H.free[i] \in DOMAIN H.size
      BY <2>1, <2>2, <2>4, <1>1
    <3>2. block_end(H, H.free[i]) <= b /\ block_end(H, H.free[i]) \in Nat
      BY <3>1, <2>1, <2>2, <2>4, <1>2, ShapeTypes DEF Shape
    <3>3. block_end(H, H.free[i]) # rest
      BY <3>2, <1>2, <1>3
    <3> QED
      BY <3>1, <3>3, <2>1, <2>4, <1>9, <1>10
  <2>5. CASE i # k /\ i + 1 # k
    <3>1. H.free[i] # b
      <4>1. i < k \/ k < i
        BY <2>1, <2>5
      <4>2. H.free[i] < H.free[k] \/ H.free[k] < H.free[i]
        BY <4>1, <2>1, <1>1
      <4> QED
        BY <4>2, <2>1, <1>1
    <3>2. H.free[i] \in DOMAIN H.size
      BY <2>1, <1>1
    <3> QED
      BY <3>1, <3>2, <2>1, <2>2, <2>5, <1>9, <1>10
  <2> QED
    BY <2>3, <2>4, <2>5
<1>18. Free(R) = (Free(H) \ {b}) \cup {rest}
  <2>1. ASSUME NEW i \in 1 .. n PROVE R.free[i] \in (Free(H) \ {b}) \cup {rest}
    <3>1. CASE i = k
      BY <3>1, <1>10
    <3>2. CASE i # k
      <4>1. i < k \/ k < i
        BY <3>2, <1>1
      <4>2. H.free[i] # b
        BY <4>1, <1>1
      <4> QED
        BY <4>2, <3>2, <1>1, <1>10 DEF Free
    <3> QED
      BY <3>1, <3>2
  <2>2. ASSUME NEW i \in 1 .. n, H.free[i] # b PROVE H.free[i] \in Free(R)
    <3>1. i # k
      BY <2>2
    <3>2. R.free[i] = H.free[i] /\ i \in DOMAIN R.free
      BY <3>1, <1>10
    <3> QED
      BY <3>2 DEF Free
  <2>3. rest \in Free(R)
    BY <1>1, <1>10 DEF Free
  <2>4. Free(R) \subseteq (Free(H) \ {b}) \cup {rest}
    BY <2>1, <1>10 DEF Free
  <2>5. Free(H) \ {b} \subseteq Free(R)
    BY <2>2, <1>1 DEF Free
  <2> QED
    BY <2>3, <2>4, <2>5
<1>19. Used(R) = Used(H) \cup {b}
  <2>1. rest # b
    BY <1>2, <1>3
  <2> QED
    BY <2>1, <1>2, <1>7, <1>8, <1>18 DEF Used
<1>20. \A a \in Used(H) : R.size[a] = H.size[a]
  <2>1. b \in Free(H)
    BY <1>1 DEF Free
  <2> QED
    BY <2>1, <1>8 DEF Used
<1>21. ASSUME NEW x \in Int, Covers(H, x) PROVE Covers(R, x)
  <2>1. PICK a \in DOMAIN H.size : a <= x /\ x < block_end(H, a)
    BY <1>21 DEF Covers
  <2>2. CASE a # b
    <3>1. a \in DOMAIN R.size /\ block_end(R, a) = block_end(H, a)
      BY <2>2, <1>8, <1>9
    <3> QED
      BY <3>1, <2>1 DEF Covers
  <2>3. CASE a = b
    <3>1. b \in DOMAIN R.size /\ rest \in DOMAIN R.size
      BY <1>2, <1>8
    <3>2. CASE x < rest
      <4>1. b <= x /\ x < block_end(R, b)
        BY <3>2, <2>1, <2>3, <1>9
      <4> QED
        BY <4>1, <3>1 DEF Covers
    <3>3. CASE ~(x < rest)
      <4>1. rest <= x /\ x < block_end(R, rest)
        BY <3>3, <2>1, <2>3, <1>3, <1>9
      <4> QED
        BY <4>1, <3>1 DEF Covers
    <3> QED
      BY <3>2, <3>3
  <2> QED
    BY <2>2, <2>3
<1>22. ASSUME NEW x \in Int, Covers(R, x) PROVE Covers(H, x)
  <2>1. PICK a \in DOMAIN R.size : a <= x /\ x < block_end(R, a)
    BY <1>22 DEF Covers
  <2>2. CASE a # b /\ a # rest
    <3>1. a \in DOMAIN H.size /\ block_end(R, a) = block_end(H, a)
      BY <2>2, <1>8, <1>9
    <3> QED
      BY <3>1, <2>1 DEF Covers
  <2>3. CASE a = b
    <3>1. b <= x /\ x < rest
      BY <2>1, <2>3, <1>9
    <3>2. x < block_end(H, b)
      BY <3>1, <1>2, <1>3
    <3> QED
      BY <3>1, <3>2, <1>2 DEF Covers
  <2>4. CASE a = rest
    <3>1. rest <= x /\ x < block_end(H, b)
      BY <2>1, <2>4, <1>9
    <3>2. b <= x
      BY <3>1, <1>2, <1>3
    <3> QED
      BY <3>1, <3>2, <1>2 DEF Covers
  <2> QED
    BY <2>2, <2>3, <2>4
<1> QED
  BY <1>8, <1>16, <1>17, <1>19, <1>20, <1>21, <1>22

(* Take, whole: a free block becomes a block in use with room for what is  *)
(* needed, and no other block in use is touched.                           *)
LEMMA TakeFit ==
  ASSUME NEW H, Shape(H), ApartExcept(H, {}), NEW k \in DOMAIN H.free,
         NEW need \in Nat, Aligned(need),
         NEW b, b = H.free[k], H.size[b] >= need,
         NEW R, R = Take(H, k, need)
  PROVE  /\ Shape(R)
         /\ ApartExcept(R, {})
         /\ b \in Nat /\ b \notin Used(H)
         /\ Used(R) = Used(H) \cup {b}
         /\ \A a \in Used(H) : R.size[a] = H.size[a]
         /\ R.size[b] >= need
         /\ \A x \in Int : Covers(R, x) <=> Covers(H, x)
<1>1. b \in Nat /\ b \in DOMAIN H.size /\ b \notin Used(H)
  <2>1. b \in Free(H)
    BY DEF Free
  <2>2. b \in DOMAIN H.size
    BY ShapeTypes
  <2> QED
    BY <2>1, <2>2, ShapeTypes DEF Used
<1>2. CASE H.size[b] >= need + HEAP_ALIGN + HEAP_ALIGN
  <2>1. /\ Shape(R)
        /\ ApartExcept(R, {})
        /\ Used(R) = Used(H) \cup {b}
        /\ \A a \in Used(H) : R.size[a] = H.size[a]
        /\ R.size[b] = need
        /\ \A x \in Int : Covers(R, x) <=> Covers(H, x)
    BY <1>2, TakeSplit
  <2> QED
    BY <1>1, <2>1
<1>3. CASE ~(H.size[b] >= need + HEAP_ALIGN + HEAP_ALIGN)
  <2>1. R = [H EXCEPT !.free = RemoveAt(@, k)]
    BY <1>3 DEF Take
  <2>2. /\ Shape(R)
        /\ ApartExcept(R, {})
        /\ R.size = H.size
        /\ Free(R) = Free(H) \ {b}
    BY <2>1, TakeWhole
  <2>3. Used(R) = Used(H) \cup {b}
    BY <1>1, <2>2 DEF Used
  <2>4. \A x \in Int : Covers(R, x) <=> Covers(H, x)
    BY <2>2 DEF Covers, block_end
  <2> QED
    BY <1>1, <2>2, <2>3, <2>4
<1> QED
  BY <1>2, <1>3

(* The header of fresh memory adds one block in use and covers exactly     *)
(* that memory.                                                            *)
LEMMA NewBlock ==
  ASSUME NEW H, Shape(H), ApartExcept(H, {}),
         NEW b \in Nat, Aligned(b), NEW size \in Nat, Aligned(size),
         \A x \in Int : b <= x /\ x < b + HEAP_ALIGN + size => ~Covers(H, x),
         NEW R, R = WithBlock(H, b, size)
  PROVE  /\ Shape(R)
         /\ ApartExcept(R, {})
         /\ b \in Used(R) /\ Used(R) = Used(H) \cup {b}
         /\ R.size[b] = size
         /\ \A a \in Used(H) : a # b /\ R.size[a] = H.size[a]
         /\ \A x \in Int : \/ Covers(R, x) /\ Covers(H, x)
                           \/ /\ ~Covers(H, x)
                              /\ Covers(R, x) <=> /\ b <= x
                                                  /\ x < b + HEAP_ALIGN + size
<1> DEFINE end == b + HEAP_ALIGN + size
<1>1. \A a \in DOMAIN H.size :
        /\ a \in Nat /\ H.size[a] \in Nat /\ block_end(H, a) \in Nat
        /\ a < block_end(H, a)
  BY ShapeTypes, Widths
<1>2. end \in Nat /\ b < end
  BY Widths
<1>3. ASSUME NEW a \in DOMAIN H.size, NEW x \in Int, a <= x, x < block_end(H, a)
      PROVE  Covers(H, x)
  BY <1>3 DEF Covers
<1>4. \A a \in DOMAIN H.size : a # b /\ (a < b => block_end(H, a) <= b)
                                     /\ (b < a => end <= a)
  <2> TAKE a \in DOMAIN H.size
  <2>1. a # b
    <3> SUFFICES ASSUME a = b PROVE FALSE
      OBVIOUS
    <3>1. Covers(H, b)
      BY <1>1, <1>3
    <3> QED
      BY <3>1, <1>2
  <2>2. ASSUME a < b PROVE block_end(H, a) <= b
    <3> SUFFICES ASSUME b < block_end(H, a) PROVE FALSE
      BY <1>1
    <3>1. Covers(H, b)
      BY <2>2, <1>1, <1>3
    <3> QED
      BY <3>1, <1>2
  <2>3. ASSUME b < a PROVE end <= a
    <3> SUFFICES ASSUME a < end PROVE FALSE
      BY <1>1, <1>2
    <3>1. Covers(H, a)
      BY <1>1, <1>3
    <3> QED
      BY <3>1, <2>3, <1>1
  <2> QED
    BY <2>1, <2>2, <2>3
<1>5. /\ R = [free |-> H.free, size |-> R.size]
      /\ R.free = H.free
      /\ R.size = [a \in DOMAIN H.size \cup {b} |->
                     IF a = b THEN size ELSE H.size[a]]
  BY DEF WithBlock, Shape
<1>6. /\ DOMAIN R.size = DOMAIN H.size \cup {b}
      /\ R.size[b] = size
      /\ \A a \in DOMAIN H.size : R.size[a] = H.size[a]
  BY <1>4, <1>5
<1>7. /\ block_end(R, b) = end
      /\ \A a \in DOMAIN H.size : block_end(R, a) = block_end(H, a)
  BY <1>6 DEF block_end, Payload
<1> HIDE DEF end
<1>8. Shape(R)
  <2>1. R = [free |-> R.free, size |-> R.size]
    BY <1>5
  <2>2. DOMAIN R.size \subseteq Nat
    BY <1>1, <1>6
  <2>3. R.size \in [DOMAIN R.size -> Nat]
    <3>1. \A a \in DOMAIN R.size : R.size[a] \in Nat
      BY <1>1, <1>6
    <3>2. R.size = [a \in DOMAIN R.size |-> R.size[a]]
      BY <1>5
    <3> QED
      BY <3>1, <3>2
  <2>4. \A a \in DOMAIN R.size : Aligned(a) /\ Aligned(R.size[a])
    BY <1>6 DEF Shape
  <2>5. ASSUME NEW a \in DOMAIN R.size, NEW c \in DOMAIN R.size, a < c
        PROVE  block_end(R, a) <= c
    <3>1. CASE a = b
      <4>1. c \in DOMAIN H.size
        BY <2>5, <3>1, <1>6
      <4> QED
        BY <4>1, <2>5, <3>1, <1>4, <1>7
    <3>2. CASE c = b /\ a # b
      BY <2>5, <3>2, <1>4, <1>6, <1>7
    <3>3. CASE c # b /\ a # b
      BY <2>5, <3>3, <1>6, <1>7 DEF Shape
    <3> QED
      BY <3>1, <3>2, <3>3
  <2>6. R.free \in Seq(DOMAIN R.size)
    BY <1>5, <1>6, SeqMonotonic DEF Shape
  <2>7. Increasing(R.free)
    BY <1>5 DEF Shape
  <2> QED
    BY <2>1, <2>2, <2>3, <2>4, <2>5, <2>6, <2>7 DEF Shape
<1>9. ApartExcept(R, {})
  <2>1. \A i \in 1 .. (Len(H.free) - 1) : H.free[i] \in DOMAIN H.size
    BY ShapeTypes
  <2> QED
    BY <2>1, <1>5, <1>7 DEF ApartExcept
<1>10. Free(R) = Free(H) /\ Free(H) \subseteq DOMAIN H.size
  BY <1>5, ShapeTypes DEF Free
<1>11. /\ b \in Used(R) /\ Used(R) = Used(H) \cup {b}
       /\ \A a \in Used(H) : a # b /\ R.size[a] = H.size[a]
  BY <1>4, <1>6, <1>10 DEF Used
<1>12. ASSUME NEW x \in Int
       PROVE  Covers(R, x) <=> Covers(H, x) \/ (b <= x /\ x < end)
  BY <1>6, <1>7 DEF Covers
<1>13. \A x \in Int : b <= x /\ x < end => ~Covers(H, x)
  BY DEF end
<1>14. \A x \in Int : \/ Covers(R, x) /\ Covers(H, x)
                      \/ /\ ~Covers(H, x)
                         /\ Covers(R, x) <=> b <= x /\ x < end
  BY <1>12, <1>13
<1> QED
  BY <1>6, <1>8, <1>9, <1>11, <1>14 DEF end

-----------------------------------------------------------------------------
(***************************************************************************)
(* The inductive invariant.                                                *)
(***************************************************************************)

(* Byte x is in the page of frame f.                                       *)
PageHolds(f, x) == f * PAGE_SIZE <= x /\ x < f * PAGE_SIZE + PAGE_SIZE

(* The pool's frames are available or held, never both; the heap's are     *)
(* among those held.                                                       *)
FramesInv ==
  /\ available \cup held = Pool
  /\ available \cap held = {}
  /\ grown \subseteq held

(* The heap is well formed and coalesced, and its blocks cover the frames  *)
(* it was given and no byte more.                                          *)
HeapInv ==
  /\ Shape(heap)
  /\ ApartExcept(heap, {})
  /\ \A x \in Int : Covers(heap, x) <=> \E f \in grown : PageHolds(f, x)

(* The blocks in use are those that live handles point to, one each.       *)
OwnerInv ==
  /\ ptr \in [Handles -> Nat]
  /\ \A h \in Live : BlockOf(ptr[h]) \in Used(heap)
  /\ \A g, h \in Live : ptr[g] = ptr[h] => g = h
  /\ \A b \in Used(heap) : \E h \in Live : BlockOf(ptr[h]) = b

(* Types of what the handles' owners asked for and wrote.                  *)
UserInv ==
  /\ asked \in [Handles -> 0 .. (SIZE_MOD - 1)]
  /\ intact \in [Handles -> SUBSET Int]
  /\ \A h \in Handles : intact[h] \subseteq 0 .. (asked[h] - 1)
  /\ \A h \in Handles : ptr[h] = NULL => asked[h] = 0

(* The calls of kmalloc that may be in progress.                           *)
Calls == [op : {"kmalloc"}, h : Handles, asked : 1 .. (SIZE_MOD - 1),
          need : {v \in Nat : Aligned(v)}, grows : Nat]

IInv == /\ FramesInv /\ HeapInv /\ OwnerInv /\ UserInv
        /\ call \in {Idle, Starting} \cup Calls

-----------------------------------------------------------------------------
(***************************************************************************)
(* Pages.                                                                  *)
(***************************************************************************)

(* The bytes of a run of frames.                                           *)
LEMMA PagesInRun ==
  ASSUME NEW f \in Nat, NEW n \in Nat, NEW x \in Int
  PROVE  /\ f * PAGE_SIZE <= x /\ x < f * PAGE_SIZE + n * PAGE_SIZE
       <=> \E g \in Frames!Run(f, n) : PageHolds(g, x)
<1>1. Frames!Run(f, n) = f .. (f + n - 1)
  BY DEF Frames!Run
<1>2. ASSUME f * PAGE_SIZE <= x, x < f * PAGE_SIZE + n * PAGE_SIZE
      PROVE  \E g \in Frames!Run(f, n) : PageHolds(g, x)
  <2>1. PICK g \in Int : g * PAGE_SIZE <= x /\ x < g * PAGE_SIZE + PAGE_SIZE
    <3>1. x \div PAGE_SIZE \in Int
      BY Widths
    <3>2. /\ (x \div PAGE_SIZE) * PAGE_SIZE <= x
          /\ x < (x \div PAGE_SIZE) * PAGE_SIZE + PAGE_SIZE
      BY Widths
    <3> QED
      BY <3>1, <3>2
  <2>2. f <= g
    <3> SUFFICES ASSUME g + 1 <= f PROVE FALSE
      OBVIOUS
    <3>1. (g + 1) * PAGE_SIZE <= f * PAGE_SIZE
      BY Widths
    <3>2. (g + 1) * PAGE_SIZE = g * PAGE_SIZE + PAGE_SIZE
      BY Widths
    <3>3. g * PAGE_SIZE \in Int /\ f * PAGE_SIZE \in Int
      BY Widths
    <3> QED
      BY <1>2, <2>1, <3>1, <3>2, <3>3, Widths
  <2>3. g <= f + n - 1
    <3> SUFFICES ASSUME f + n <= g PROVE FALSE
      OBVIOUS
    <3>1. (f + n) * PAGE_SIZE <= g * PAGE_SIZE
      BY Widths
    <3>2. (f + n) * PAGE_SIZE = f * PAGE_SIZE + n * PAGE_SIZE
      BY Widths
    <3>3. g * PAGE_SIZE \in Int /\ f * PAGE_SIZE \in Int /\ n * PAGE_SIZE \in Int
      BY Widths
    <3> QED
      BY <1>2, <2>1, <3>1, <3>2, <3>3
  <2> QED
    BY <1>1, <2>1, <2>2, <2>3 DEF PageHolds
<1>3. ASSUME NEW g \in Frames!Run(f, n), PageHolds(g, x)
      PROVE  f * PAGE_SIZE <= x /\ x < f * PAGE_SIZE + n * PAGE_SIZE
  <2>1. g \in Int /\ f <= g /\ g + 1 <= f + n
    BY <1>1
  <2>2. f * PAGE_SIZE <= g * PAGE_SIZE
    BY <2>1, Widths
  <2>3. (g + 1) * PAGE_SIZE <= (f + n) * PAGE_SIZE
    BY <2>1, Widths
  <2>4. /\ (g + 1) * PAGE_SIZE = g * PAGE_SIZE + PAGE_SIZE
        /\ (f + n) * PAGE_SIZE = f * PAGE_SIZE + n * PAGE_SIZE
    BY <2>1, Widths
  <2>5. /\ g * PAGE_SIZE \in Int /\ f * PAGE_SIZE \in Int /\ n * PAGE_SIZE \in Int
        /\ PAGE_SIZE \in Int
    BY <2>1, Widths
  <2> QED
    BY <1>3, <2>2, <2>3, <2>4, <2>5 DEF PageHolds
<1> QED
  BY <1>2, <1>3

(* No byte is in two pages.                                                *)
LEMMA PagesApart ==
  ASSUME NEW f \in Int, NEW g \in Int, NEW x \in Int,
         PageHolds(f, x), PageHolds(g, x)
  PROVE  f = g
<1>1. ASSUME NEW i \in Int, NEW j \in Int, PageHolds(i, x), PageHolds(j, x), i < j
      PROVE  FALSE
  <2>1. (i + 1) * PAGE_SIZE <= j * PAGE_SIZE
    BY <1>1, Widths
  <2>2. (i + 1) * PAGE_SIZE = i * PAGE_SIZE + PAGE_SIZE
    BY Widths
  <2>3. i * PAGE_SIZE \in Int /\ j * PAGE_SIZE \in Int /\ PAGE_SIZE \in Int
    BY Widths
  <2> QED
    BY <1>1, <2>1, <2>2, <2>3 DEF PageHolds
<1>2. f < g \/ g < f \/ f = g
  OBVIOUS
<1> QED
  BY <1>1, <1>2

-----------------------------------------------------------------------------
(***************************************************************************)
(* Growing.                                                                *)
(***************************************************************************)

(* heap_grow asks for a number of frames.                                  *)
LEMMA GrowFramesType ==
  ASSUME NEW need \in Nat
  PROVE  GrowFrames(need) \in Nat
<1>1. (need + HEAP_ALIGN) % SIZE_MOD \in Nat
  BY Widths
<1> DEFINE sum == (need + HEAP_ALIGN) % SIZE_MOD
           bytes == IF sum < MIN_GROW THEN MIN_GROW ELSE sum
<1>2. bytes \in Nat
  BY <1>1, Widths
<1> HIDE DEF bytes
<1>3. (bytes + PAGE_SIZE - 1) % SIZE_MOD \in Nat
  BY <1>2, Widths
<1>4. ((bytes + PAGE_SIZE - 1) % SIZE_MOD) \div PAGE_SIZE \in Nat
  BY <1>3, Widths
<1> QED
  BY <1>4 DEF GrowFrames, bytes

(* What is left of them beside the header is a size.                       *)
LEMMA GrowthSize ==
  ASSUME NEW n \in Nat \ {0}
  PROVE  n * PAGE_SIZE - HEAP_ALIGN \in Nat /\ Aligned(n * PAGE_SIZE - HEAP_ALIGN)
<1>1. PAGE_SIZE >= HEAP_ALIGN
  <2>1. PICK q \in Int : PAGE_SIZE = q * HEAP_ALIGN
    <3>1. Aligned(PAGE_SIZE)
      BY SizesAssumption, AlignedRemainder, Widths
    <3> QED
      BY <3>1 DEF Aligned
  <2>2. q >= 1
    BY <2>1, Widths
  <2>3. q * HEAP_ALIGN >= 1 * HEAP_ALIGN
    BY <2>2, Widths
  <2> QED
    BY <2>1, <2>3, Widths
<1>2. n * PAGE_SIZE >= 1 * PAGE_SIZE
  BY Widths
<1>3. n * PAGE_SIZE \in Int /\ Aligned(n * PAGE_SIZE)
  BY AlignedPages
<1>4. Aligned(n * PAGE_SIZE - HEAP_ALIGN)
  BY <1>3, AlignedUnit, AlignedSum, Widths
<1> QED
  BY <1>1, <1>2, <1>3, <1>4, Widths

(* heap_grow, when it is met: the heap gets its run of frames and nothing  *)
(* else about it changes but the free list.                                *)
LEMMA Growth ==
  ASSUME FramesInv, HeapInv, NEW need \in Nat,
         NEW f \in available, GrowWith(need, f)
  PROVE  /\ FramesInv' /\ HeapInv'
         /\ Used(heap') = Used(heap)
         /\ \A b \in Used(heap) : heap'.size[b] = heap.size[b]
         /\ GrowFrames(need) # 0
         /\ \E c \in Free(heap') :
              heap'.size[c] >= GrowFrames(need) * PAGE_SIZE - HEAP_ALIGN
<1>1. PICK n : n = GrowFrames(need)
  OBVIOUS
<1>2. PICK run : run = Frames!Run(f, n)
  OBVIOUS
<1>3. /\ n > 0 /\ run \subseteq available
      /\ available' = available \ run /\ held' = held \cup run
      /\ grown' = grown \cup run
  BY <1>1, <1>2 DEF GrowWith, Frames!Allocate
<1>4. n \in Nat \ {0}
  BY <1>1, <1>3, GrowFramesType
<1>5. f \in Nat /\ run \subseteq Nat
  BY <1>3, PoolAssumption DEF FramesInv
<1>6. grown \subseteq Nat /\ grown \cap run = {}
  BY <1>3, PoolAssumption DEF FramesInv
<1>7. FramesInv'
  BY <1>3 DEF FramesInv
<1>8. PICK b : b = f * PAGE_SIZE
  OBVIOUS
<1>9. PICK size : size = n * PAGE_SIZE - HEAP_ALIGN
  OBVIOUS
<1>10. b \in Nat /\ Aligned(b)
  <2>1. b \in Nat
    BY <1>5, <1>8, Widths
  <2>2. Aligned(f * PAGE_SIZE)
    BY <1>5, AlignedPages
  <2> QED
    BY <2>1, <2>2, <1>8
<1>11. size \in Nat /\ Aligned(size)
  BY <1>4, <1>9, GrowthSize
<1>12. b + HEAP_ALIGN + size = f * PAGE_SIZE + n * PAGE_SIZE
  <2>1. n * PAGE_SIZE \in Int /\ f * PAGE_SIZE \in Int
    BY <1>4, <1>5, Widths
  <2> QED
    BY <2>1, <1>8, <1>9, Widths
<1>13. ASSUME NEW x \in Int
       PROVE  /\ b <= x /\ x < b + HEAP_ALIGN + size
            <=> \E g \in run : PageHolds(g, x)
  <2>1. /\ f * PAGE_SIZE <= x /\ x < f * PAGE_SIZE + n * PAGE_SIZE
       <=> \E g \in Frames!Run(f, n) : PageHolds(g, x)
    BY <1>4, <1>5, PagesInRun
  <2> QED
    BY <2>1, <1>2, <1>8, <1>12
<1>14. ASSUME NEW x \in Int, b <= x, x < b + HEAP_ALIGN + size
       PROVE  ~Covers(heap, x)
  <2>1. PICK g \in run : PageHolds(g, x)
    BY <1>13, <1>14
  <2>2. \A e \in grown : ~PageHolds(e, x)
    <3> SUFFICES ASSUME NEW e \in grown, PageHolds(e, x) PROVE FALSE
      OBVIOUS
    <3>1. e = g
      BY <2>1, <1>5, <1>6, PagesApart
    <3> QED
      BY <3>1, <1>6
  <2> QED
    BY <2>2 DEF HeapInv
<1>15. PICK fresh : fresh = WithBlock(heap, b, size)
  OBVIOUS
<1>16. /\ Shape(fresh) /\ ApartExcept(fresh, {})
       /\ b \in Used(fresh) /\ Used(fresh) = Used(heap) \cup {b}
       /\ fresh.size[b] = size
       /\ \A a \in Used(heap) : a # b /\ fresh.size[a] = heap.size[a]
       /\ \A x \in Int : \/ Covers(fresh, x) /\ Covers(heap, x)
                         \/ /\ ~Covers(heap, x)
                            /\ Covers(fresh, x) <=> /\ b <= x
                                                    /\ x < b + HEAP_ALIGN + size
  <2>1. Shape(heap) /\ ApartExcept(heap, {})
    BY DEF HeapInv
  <2> QED
    BY <2>1, <1>10, <1>11, <1>14, <1>15, NewBlock
<1>17. heap' = free_insert(fresh, b)
  BY <1>1, <1>8, <1>9, <1>15 DEF GrowWith
<1>18. /\ Shape(heap') /\ ApartExcept(heap', {})
       /\ Used(heap') = Used(fresh) \ {b}
       /\ \A a \in Used(heap') : heap'.size[a] = fresh.size[a]
       /\ \A x \in Int : Covers(heap', x) <=> Covers(fresh, x)
       /\ \E c \in Free(heap') : heap'.size[c] >= fresh.size[b]
  BY <1>16, <1>17, FreeInsert
<1>19. Used(heap') = Used(heap) /\ \A a \in Used(heap) : heap'.size[a] = heap.size[a]
  BY <1>16, <1>18
<1>20. ASSUME NEW x \in Int
       PROVE  Covers(heap', x) <=> \E g \in grown' : PageHolds(g, x)
  <2>1. Covers(heap, x) <=> \E g \in grown : PageHolds(g, x)
    BY DEF HeapInv
  <2>2. Covers(heap', x) <=> Covers(heap, x) \/ \E g \in run : PageHolds(g, x)
    BY <1>13, <1>14, <1>16, <1>18
  <2> QED
    BY <2>1, <2>2, <1>3
<1>21. HeapInv'
  BY <1>18, <1>20 DEF HeapInv
<1>22. \E c \in Free(heap') :
         heap'.size[c] >= GrowFrames(need) * PAGE_SIZE - HEAP_ALIGN
  BY <1>1, <1>9, <1>16, <1>18
<1> QED
  BY <1>1, <1>4, <1>7, <1>19, <1>21, <1>22

-----------------------------------------------------------------------------
(***************************************************************************)
(* Sizes, and the call in progress.                                        *)
(***************************************************************************)

(* align_up gives a multiple of HEAP_ALIGN.                                *)
LEMMA AlignUpType ==
  ASSUME NEW v \in Nat
  PROVE  align_up(v) \in Nat /\ Aligned(align_up(v))
<1>1. v + HEAP_ALIGN - 1 \in Nat
  BY Widths
<1>2. PICK w : w = (v + HEAP_ALIGN - 1) % SIZE_MOD
  OBVIOUS
<1>3. w \in Nat
  BY <1>1, <1>2, Widths
<1>4. w \div HEAP_ALIGN \in Nat
  BY <1>3, Widths
<1>5. align_up(v) = (w \div HEAP_ALIGN) * HEAP_ALIGN
  BY <1>2 DEF align_up
<1>6. align_up(v) \in Nat
  BY <1>4, <1>5, Widths
<1>7. w \div HEAP_ALIGN \in Int
  BY <1>4
<1> QED
  BY <1>5, <1>6, <1>7 DEF Aligned

(* A product that kcalloc lets through did not wrap around.                *)
LEMMA ProductType ==
  ASSUME NEW n \in 0 .. (SIZE_MOD - 1), NEW size \in 0 .. (SIZE_MOD - 1),
         Product(n, size) # 0
  PROVE  Product(n, size) = n * size /\ n * size \in 1 .. (SIZE_MOD - 1)
<1>1. n # 0 /\ ~(size > (SIZE_MOD - 1) \div n)
  <2>1. CASE n = 0
    <3>1. n * size = 0
      BY <2>1, Widths
    <3>2. (n * size) % SIZE_MOD = 0
      BY <3>1, Widths
    <3> QED
      BY <2>1, <3>2 DEF Product
  <2> QED
    BY <2>1 DEF Product
<1>2. n \in Nat \ {0} /\ size \in Nat /\ SIZE_MOD - 1 \in Nat
  BY <1>1, Widths
<1>3. (SIZE_MOD - 1) \div n \in Nat /\ n * ((SIZE_MOD - 1) \div n) <= SIZE_MOD - 1
  BY <1>2, Z3
<1>4. n * size <= n * ((SIZE_MOD - 1) \div n)
  BY <1>1, <1>2, <1>3
<1>5. n * size \in Nat
  BY <1>2
<1>6. n * size <= SIZE_MOD - 1
  <2>1. n * ((SIZE_MOD - 1) \div n) \in Nat
    BY <1>2, <1>3
  <2> QED
    BY <2>1, <1>2, <1>3, <1>4, <1>5
<1>7. (n * size) % SIZE_MOD = n * size
  BY <1>5, <1>6, Widths
<1> QED
  BY <1>1, <1>2, <1>5, <1>6, <1>7 DEF Product

(* Types of the call in progress.                                          *)
LEMMA CallTypes ==
  ASSUME call \in {Idle, Starting} \cup Calls, call.op = "kmalloc"
  PROVE  /\ call \in Calls
         /\ call.h \in Handles /\ call.asked \in 1 .. (SIZE_MOD - 1)
         /\ call.need \in Nat /\ Aligned(call.need) /\ call.grows \in Nat
<1>1. Idle.op = "idle" /\ Starting.op = "kheap_init"
  BY DEF Idle, Starting
<1>2. call \in Calls
  BY <1>1
<1> QED
  BY <1>2 DEF Calls

(* Entering the loop of kmalloc.                                           *)
LEMMA EnterCall ==
  ASSUME IInv, NEW h \in Handles, NEW wanted \in 1 .. (SIZE_MOD - 1),
         NEW size \in Nat, Enter(h, wanted, size)
  PROVE  IInv'
<1>1. align_up(size) \in Nat /\ Aligned(align_up(size))
  BY AlignUpType
<1>2. call' \in Calls
  BY <1>1 DEF Enter, Calls
<1>3. FramesInv' /\ HeapInv' /\ OwnerInv' /\ UserInv'
  BY DEF IInv, Enter, userVars, frameVars, FramesInv, HeapInv, OwnerInv, UserInv, Live
<1> QED
  BY <1>2, <1>3 DEF IInv

-----------------------------------------------------------------------------
(***************************************************************************)
(* Owners. Whatever an operation does to the heap, it is one of three      *)
(* things to the blocks in use: nothing, one of them leaves, or a new one  *)
(* comes (in krealloc, for an old one).                                    *)
(***************************************************************************)

(* The blocks in use are the same.                                         *)
LEMMA OwnersKept ==
  ASSUME OwnerInv, Used(heap') = Used(heap), ptr' = ptr
  PROVE  OwnerInv'
BY DEF OwnerInv, Live

(* A block determines the pointer to its payload.                          *)
LEMMA BlockNames ==
  ASSUME NEW p \in Nat, NEW q \in Nat, BlockOf(p) = BlockOf(q)
  PROVE  p = q
BY Widths DEF BlockOf

(* A block in use is freed and its handle forgets it.                      *)
LEMMA OwnerLeaves ==
  ASSUME OwnerInv, NEW h \in Live,
         Used(heap') = Used(heap) \ {BlockOf(ptr[h])},
         ptr' = [ptr EXCEPT ![h] = NULL]
  PROVE  OwnerInv'
<1>1. /\ ptr \in [Handles -> Nat] /\ h \in Handles
      /\ \A g \in Live : BlockOf(ptr[g]) \in Used(heap)
      /\ \A f, g \in Live : ptr[f] = ptr[g] => f = g
      /\ \A b \in Used(heap) : \E g \in Live : BlockOf(ptr[g]) = b
  BY DEF OwnerInv, Live
<1>2. ptr' \in [Handles -> Nat]
  BY <1>1 DEF NULL
<1>3. Live' = Live \ {h} /\ \A g \in Live' : ptr'[g] = ptr[g]
  BY <1>1 DEF Live, NULL
<1>4. ASSUME NEW g \in Live' PROVE BlockOf(ptr'[g]) \in Used(heap')
  <2>1. g \in Live /\ ptr[g] \in Nat /\ ptr[h] \in Nat /\ ptr[g] # ptr[h]
    BY <1>1, <1>3 DEF Live
  <2> QED
    BY <2>1, <1>1, <1>3, BlockNames
<1>5. ASSUME NEW b \in Used(heap') PROVE \E g \in Live' : BlockOf(ptr'[g]) = b
  <2>1. PICK g \in Live : BlockOf(ptr[g]) = b
    BY <1>1
  <2>2. g # h
    BY <2>1
  <2> QED
    BY <2>1, <2>2, <1>3
<1> QED
  BY <1>1, <1>2, <1>3, <1>4, <1>5 DEF OwnerInv

(* Handle h gets block b for the one it may have had.                      *)
LEMMA OwnerMoves ==
  ASSUME OwnerInv, NEW h \in Handles, NEW b \in Nat, b \notin Used(heap),
         \A a : a \in Used(heap') <=>
                  \/ a = b
                  \/ a \in Used(heap) /\ (ptr[h] # NULL => a # BlockOf(ptr[h])),
         ptr' = [ptr EXCEPT ![h] = Payload(b)]
  PROVE  OwnerInv'
<1>1. /\ ptr \in [Handles -> Nat]
      /\ \A g \in Live : BlockOf(ptr[g]) \in Used(heap)
      /\ \A f, g \in Live : ptr[f] = ptr[g] => f = g
      /\ \A a \in Used(heap) : \E g \in Live : BlockOf(ptr[g]) = a
  BY DEF OwnerInv
<1>2. Payload(b) \in Nat /\ Payload(b) # NULL /\ BlockOf(Payload(b)) = b
  BY Widths DEF Payload, NULL, BlockOf
<1>3. ptr' \in [Handles -> Nat]
  BY <1>1, <1>2
<1>4. /\ ptr'[h] = Payload(b) /\ h \in Live'
      /\ \A g \in Handles : g # h => ptr'[g] = ptr[g] /\ (g \in Live' <=> g \in Live)
  BY <1>1, <1>2 DEF Live
<1>5. Live' \subseteq Handles /\ Live \subseteq Handles
  BY DEF Live
<1>6. ASSUME NEW g \in Live', g # h
      PROVE  /\ g \in Live /\ ptr[g] \in Nat /\ ptr'[g] = ptr[g]
             /\ BlockOf(ptr[g]) \in Used(heap) /\ BlockOf(ptr[g]) \in Used(heap')
             /\ ptr'[g] # ptr'[h]
  <2>1. g \in Live /\ ptr[g] \in Nat /\ ptr'[g] = ptr[g]
    BY <1>1, <1>4, <1>5, <1>6
  <2>2. BlockOf(ptr[g]) \in Used(heap)
    BY <1>1, <2>1
  <2>3. ASSUME ptr[h] # NULL PROVE BlockOf(ptr[g]) # BlockOf(ptr[h])
    <3>1. h \in Live /\ ptr[h] \in Nat
      BY <1>1, <2>3 DEF Live
    <3>2. ptr[g] # ptr[h]
      BY <3>1, <2>1, <1>1, <1>6
    <3> QED
      BY <3>1, <3>2, <2>1, BlockNames
  <2>4. ptr'[g] # ptr'[h]
    BY <2>1, <2>2, <1>2, <1>4
  <2> QED
    BY <2>1, <2>2, <2>3, <2>4
<1>7. \A g \in Live' : BlockOf(ptr'[g]) \in Used(heap')
  <2> TAKE g \in Live'
  <2>1. CASE g = h
    BY <2>1, <1>2, <1>4
  <2>2. CASE g # h
    BY <2>2, <1>6
  <2> QED
    BY <2>1, <2>2
<1>8. \A f, g \in Live' : ptr'[f] = ptr'[g] => f = g
  <2> SUFFICES ASSUME NEW f \in Live', NEW g \in Live', ptr'[f] = ptr'[g]
               PROVE  f = g
    OBVIOUS
  <2>1. CASE f = h \/ g = h
    BY <2>1, <1>6
  <2>2. CASE f # h /\ g # h
    BY <2>2, <1>1, <1>6
  <2> QED
    BY <2>1, <2>2
<1>9. ASSUME NEW a \in Used(heap') PROVE \E g \in Live' : BlockOf(ptr'[g]) = a
  <2>1. CASE a = b
    BY <2>1, <1>2, <1>4
  <2>2. CASE a # b
    <3>1. a \in Used(heap) /\ (ptr[h] # NULL => a # BlockOf(ptr[h]))
      BY <2>2
    <3>2. PICK g \in Live : BlockOf(ptr[g]) = a
      BY <3>1, <1>1
    <3>3. g # h
      BY <3>1, <3>2 DEF Live
    <3>4. g \in Live' /\ ptr'[g] = ptr[g]
      BY <3>3, <1>4, <1>5
    <3> QED
      BY <3>2, <3>4
  <2> QED
    BY <2>1, <2>2
<1> QED
  BY <1>3, <1>7, <1>8, <1>9 DEF OwnerInv

-----------------------------------------------------------------------------
(***************************************************************************)
(* What the callers wrote: types only.                                     *)
(***************************************************************************)

(* Spared takes bytes away and adds none.                                  *)
LEMMA SparedTypes ==
  ASSUME UserInv, NEW written
  PROVE  /\ Spared(written) \in [Handles -> SUBSET Int]
         /\ \A g \in Handles : Spared(written)[g] \subseteq intact[g]
BY DEF UserInv, Spared

(* No handle asks for anything new.                                        *)
LEMMA UserKept ==
  ASSUME UserInv, NEW written, ptr' = ptr, asked' = asked, intact' = Spared(written)
  PROVE  UserInv'
BY SparedTypes DEF UserInv

(* Handle h asks for something else.                                       *)
LEMMA UserChanged ==
  ASSUME UserInv, NEW h \in Handles, NEW written, NEW p,
         NEW size \in 0 .. (SIZE_MOD - 1), NEW kept \in SUBSET Int,
         kept \subseteq 0 .. (size - 1), p = NULL => size = 0,
         ptr \in [Handles -> Nat],
         ptr' = [ptr EXCEPT ![h] = p],
         asked' = [asked EXCEPT ![h] = size],
         intact' = [Spared(written) EXCEPT ![h] = kept]
  PROVE  UserInv'
<1>1. /\ asked \in [Handles -> 0 .. (SIZE_MOD - 1)]
      /\ \A g \in Handles : intact[g] \subseteq 0 .. (asked[g] - 1)
      /\ \A g \in Handles : ptr[g] = NULL => asked[g] = 0
  BY DEF UserInv
<1>2. asked' \in [Handles -> 0 .. (SIZE_MOD - 1)]
  BY <1>1
<1>3. intact' \in [Handles -> SUBSET Int]
  BY SparedTypes
<1>4. ASSUME NEW g \in Handles
      PROVE  /\ intact'[g] \subseteq 0 .. (asked'[g] - 1)
             /\ ptr'[g] = NULL => asked'[g] = 0
  <2>1. CASE g = h
    BY <2>1, <1>1, SparedTypes
  <2>2. CASE g # h
    <3>1. /\ intact'[g] = Spared(written)[g] /\ asked'[g] = asked[g]
          /\ ptr'[g] = ptr[g]
      BY <2>2, <1>1, SparedTypes
    <3> QED
      BY <3>1, <1>1, SparedTypes
  <2> QED
    BY <2>1, <2>2
<1> QED
  BY <1>2, <1>3, <1>4 DEF UserInv

-----------------------------------------------------------------------------
(***************************************************************************)
(* The invariant, action by action.                                        *)
(***************************************************************************)

(* heap_grow, when it fails.                                               *)
LEMMA GrowRefusedStep ==
  ASSUME FramesInv, HeapInv, NEW need, GrowRefused(need)
  PROVE  FramesInv' /\ HeapInv' /\ heap' = heap
BY DEF GrowRefused, Frames!Refuse, FramesInv, HeapInv

(* kheap_init.                                                             *)
LEMMA InitStep ==
  ASSUME IInv, kheap_init
  PROVE  IInv'
<1>1. MIN_GROW \in Nat
  BY Widths
<1>2. FramesInv' /\ HeapInv' /\ Used(heap') = Used(heap)
  <2>1. CASE \E f \in available : GrowWith(MIN_GROW, f)
    BY <2>1, <1>1, Growth DEF IInv
  <2>2. CASE GrowRefused(MIN_GROW)
    BY <2>2, GrowRefusedStep DEF IInv
  <2> QED
    BY <2>1, <2>2 DEF kheap_init
<1>3. OwnerInv'
  BY <1>2, OwnersKept DEF IInv, kheap_init, userVars
<1>4. UserInv'
  BY DEF IInv, kheap_init, userVars, UserInv
<1> QED
  BY <1>2, <1>3, <1>4 DEF IInv, kheap_init

(* kmalloc, up to its loop.                                                *)
LEMMA KmallocStep ==
  ASSUME IInv, NEW h \in Handles, NEW size \in Sizes, kmalloc(h, size)
  PROVE  IInv' \/ UNCHANGED vars
<1>1. size \in 0 .. (SIZE_MOD - 1)
  BY SizesAssumption
<1>2. CASE size = 0
  BY <1>2 DEF kmalloc
<1>3. CASE size # 0
  <2>1. Enter(h, size, size) /\ size \in 1 .. (SIZE_MOD - 1) /\ size \in Nat
    BY <1>1, <1>3 DEF kmalloc
  <2> QED
    BY <2>1, EnterCall
<1> QED
  BY <1>2, <1>3

(* kcalloc, up to its call of kmalloc.                                     *)
LEMMA KcallocStep ==
  ASSUME IInv, NEW h \in Handles, NEW a \in Arrays, kcalloc(h, a[1], a[2])
  PROVE  IInv' \/ UNCHANGED vars
<1>1. a[1] \in 0 .. (SIZE_MOD - 1) /\ a[2] \in 0 .. (SIZE_MOD - 1)
  BY SizesAssumption
<1>2. CASE Product(a[1], a[2]) = 0
  BY <1>2 DEF kcalloc
<1>3. CASE Product(a[1], a[2]) # 0
  <2>1. /\ Product(a[1], a[2]) = a[1] * a[2]
        /\ a[1] * a[2] \in 1 .. (SIZE_MOD - 1)
    BY <1>1, <1>3, ProductType
  <2>2. Enter(h, a[1] * a[2], Product(a[1], a[2]))
    BY <1>3 DEF kcalloc
  <2>3. Product(a[1], a[2]) \in Nat
    BY <2>1
  <2> QED
    BY <2>1, <2>2, <2>3, EnterCall
<1> QED
  BY <1>2, <1>3

(* What freeing a handle's block does to the heap.                         *)
LEMMA DropBlock ==
  ASSUME IInv, NEW h \in Live, Drop(h)
  PROVE  /\ Shape(heap') /\ ApartExcept(heap', {})
         /\ Used(heap') = Used(heap) \ {BlockOf(ptr[h])}
         /\ \A a \in Used(heap') : heap'.size[a] = heap.size[a]
         /\ \A x \in Int : Covers(heap', x) <=> Covers(heap, x)
<1>1. BlockOf(ptr[h]) \in Used(heap) /\ Shape(heap) /\ ApartExcept(heap, {})
  BY DEF IInv, OwnerInv, HeapInv
<1>2. heap' = free_insert(heap, BlockOf(ptr[h]))
  BY DEF Drop
<1> QED
  BY <1>1, <1>2, FreeInsert

(* A block is freed.                                                       *)
LEMMA DropStep ==
  ASSUME IInv, NEW h \in Live, Drop(h)
  PROVE  IInv'
<1>1. /\ call' = call /\ grown' = grown /\ available' = available /\ held' = held
      /\ ptr' = [ptr EXCEPT ![h] = NULL]
      /\ asked' = [asked EXCEPT ![h] = 0]
      /\ intact' = [Spared(Headers(heap')) EXCEPT ![h] = {}]
  BY DEF Drop, frameVars
<1>2. FramesInv'
  BY <1>1 DEF IInv, FramesInv
<1>3. HeapInv'
  BY <1>1, DropBlock DEF IInv, HeapInv
<1>4. OwnerInv'
  BY <1>1, DropBlock, OwnerLeaves DEF IInv
<1>5. UserInv'
  <2>1. 0 \in 0 .. (SIZE_MOD - 1) /\ h \in Handles
    BY Widths DEF Live
  <2>2. {} \in SUBSET Int /\ {} \subseteq 0 .. (0 - 1)
    OBVIOUS
  <2>3. UserInv /\ ptr \in [Handles -> Nat]
    BY DEF IInv, OwnerInv
  <2>4. PICK written : written = Headers(heap')
    OBVIOUS
  <2> QED
    BY <1>1, <2>1, <2>2, <2>3, <2>4, UserChanged
<1> QED
  BY <1>1, <1>2, <1>3, <1>4, <1>5 DEF IInv

(* kfree.                                                                  *)
LEMMA KfreeStep ==
  ASSUME IInv, NEW h \in Handles, kfree(h)
  PROVE  IInv' \/ UNCHANGED vars
BY DropStep DEF kfree, Live

(* krealloc, when the block has room.                                      *)
LEMMA InPlaceStep ==
  ASSUME IInv, NEW h \in Live, NEW size \in 1 .. (SIZE_MOD - 1),
         asked' = [asked EXCEPT ![h] = size],
         intact' = [Spared(ptr[h] .. (ptr[h] + size - 1)) EXCEPT
                      ![h] = {i \in intact[h] : i < size} \cup asked[h] .. (size - 1)],
         UNCHANGED <<heap, ptr, call, grown, frameVars>>
  PROVE  IInv'
<1>1. FramesInv' /\ HeapInv' /\ OwnerInv' /\ call' = call
  BY DEF IInv, FramesInv, HeapInv, OwnerInv, Live, frameVars
<1>2. UserInv'
  <2>1. h \in Handles /\ UserInv /\ ptr \in [Handles -> Nat] /\ ptr[h] # NULL
    BY DEF IInv, OwnerInv, Live
  <2>2. ptr' = [ptr EXCEPT ![h] = ptr[h]]
    BY <2>1
  <2>3. PICK kept : kept = {i \in intact[h] : i < size} \cup asked[h] .. (size - 1)
    OBVIOUS
  <2>4. kept \in SUBSET Int /\ kept \subseteq 0 .. (size - 1)
    <3>1. /\ asked[h] \in Nat /\ intact[h] \subseteq Int
          /\ intact[h] \subseteq 0 .. (asked[h] - 1)
      BY <2>1 DEF UserInv
    <3>2. \A i \in kept : i \in Int /\ 0 <= i /\ i <= size - 1
      BY <3>1, <2>3
    <3> QED
      BY <3>2
  <2>5. size \in 0 .. (SIZE_MOD - 1)
    OBVIOUS
  <2>6. PICK written : written = ptr[h] .. (ptr[h] + size - 1)
    OBVIOUS
  <2>7. intact' = [Spared(written) EXCEPT ![h] = kept]
    BY <2>3, <2>6
  <2> QED
    BY <2>1, <2>2, <2>4, <2>5, <2>7, UserChanged
<1> QED
  BY <1>1, <1>2 DEF IInv

(* krealloc.                                                               *)
LEMMA KreallocStep ==
  ASSUME IInv, NEW h \in Handles, NEW size \in Sizes, krealloc(h, size)
  PROVE  IInv'
<1>1. size \in 0 .. (SIZE_MOD - 1) /\ h \in Live
  BY SizesAssumption DEF krealloc, Live
<1>2. CASE size = 0 /\ Drop(h)
  BY <1>1, <1>2, DropStep
<1>3. CASE /\ size # 0
           /\ asked' = [asked EXCEPT ![h] = size]
           /\ intact' = [Spared(ptr[h] .. (ptr[h] + size - 1)) EXCEPT
                           ![h] = {i \in intact[h] : i < size} \cup asked[h] .. (size - 1)]
           /\ UNCHANGED <<heap, ptr, call, grown, frameVars>>
  <2>1. size \in 1 .. (SIZE_MOD - 1)
    BY <1>1, <1>3
  <2> QED
    BY <1>1, <1>3, <2>1, InPlaceStep, Zenon
<1>4. CASE size # 0 /\ Enter(h, size, size)
  BY <1>1, <1>4, EnterCall
<1> QED
  BY <1>2, <1>3, <1>4 DEF krealloc

(* What a successful search does to the heap: call.h has its new block b,  *)
(* and has given up its old one.                                           *)
LEMMA FitHeap ==
  ASSUME IInv, call.op = "kmalloc", NEW k \in Fits(call.need),
         NEW b, b = heap.free[k],
         NEW taken, taken = Take(heap, k, call.need),
         heap' = IF ptr[call.h] = NULL THEN taken
                 ELSE free_insert(taken, BlockOf(ptr[call.h]))
  PROVE  /\ Shape(heap') /\ ApartExcept(heap', {})
         /\ b \in Nat /\ b \in Used(heap') /\ b \notin Used(heap)
         /\ \A a : a \in Used(heap') <=>
              \/ a = b
              \/ a \in Used(heap) /\ (ptr[call.h] # NULL => a # BlockOf(ptr[call.h]))
         /\ \A a \in Used(heap') \ {b} : heap'.size[a] = heap.size[a]
         /\ heap'.size[b] >= call.need
         /\ \A x \in Int : Covers(heap', x) <=> Covers(heap, x)
<1>1. /\ call.h \in Handles /\ call.need \in Nat /\ Aligned(call.need)
      /\ Shape(heap) /\ ApartExcept(heap, {})
  BY CallTypes DEF IInv, HeapInv
<1>2. k \in DOMAIN heap.free /\ heap.size[b] >= call.need
  BY DEF Fits
<1>3. /\ Shape(taken) /\ ApartExcept(taken, {})
      /\ b \in Nat /\ b \notin Used(heap)
      /\ Used(taken) = Used(heap) \cup {b}
      /\ \A a \in Used(heap) : taken.size[a] = heap.size[a]
      /\ taken.size[b] >= call.need
      /\ \A x \in Int : Covers(taken, x) <=> Covers(heap, x)
  BY <1>1, <1>2, TakeFit
<1>4. CASE ptr[call.h] = NULL
  <2>1. heap' = taken
    BY <1>4
  <2> QED
    BY <1>3, <1>4, <2>1
<1>5. CASE ptr[call.h] # NULL
  <2>1. PICK old : old = BlockOf(ptr[call.h])
    OBVIOUS
  <2>2. old \in Used(heap)
    BY <1>1, <1>5, <2>1 DEF IInv, OwnerInv, Live
  <2>3. heap' = free_insert(taken, old) /\ old \in Used(taken) /\ old # b
    BY <1>3, <1>5, <2>1, <2>2
  <2>4. /\ Shape(heap') /\ ApartExcept(heap', {})
        /\ Used(heap') = Used(taken) \ {old}
        /\ \A a \in Used(heap') : heap'.size[a] = taken.size[a]
        /\ \A x \in Int : Covers(heap', x) <=> Covers(taken, x)
    BY <1>3, <2>3, FreeInsert
  <2>5. b \in Used(heap') /\ heap'.size[b] >= call.need
    BY <1>3, <2>3, <2>4
  <2>6. \A a : a \in Used(heap') <=> a = b \/ (a \in Used(heap) /\ a # old)
    BY <1>3, <2>3, <2>4
  <2>7. \A a \in Used(heap') \ {b} : heap'.size[a] = heap.size[a]
    BY <1>3, <2>4, <2>6
  <2>8. \A x \in Int : Covers(heap', x) <=> Covers(heap, x)
    BY <1>3, <2>4
  <2> QED
    BY <1>3, <1>5, <2>1, <2>4, <2>5, <2>6, <2>7, <2>8
<1> QED
  BY <1>4, <1>5

(* A successful search of kmalloc.                                         *)
LEMMA FitStep ==
  ASSUME IInv, Fit
  PROVE  IInv'
<1>1. /\ call.h \in Handles /\ call.asked \in 1 .. (SIZE_MOD - 1)
      /\ UserInv /\ ptr \in [Handles -> Nat]
  BY CallTypes DEF IInv, Fit, OwnerInv
<1>2. PICK k \in Fits(call.need) :
        LET h     == call.h
            p     == Payload(heap.free[k])
            taken == Take(heap, k, call.need)
            kept  == IF ptr[h] = NULL THEN {}
                     ELSE {i \in intact[h] :
                             i < Copied(heap.size[BlockOf(ptr[h])], call.asked)}
        IN  /\ \A j \in Fits(call.need) : k <= j
            /\ heap' = IF ptr[h] = NULL THEN taken
                       ELSE free_insert(taken, BlockOf(ptr[h]))
            /\ ptr' = [ptr EXCEPT ![h] = p]
            /\ asked' = [asked EXCEPT ![h] = call.asked]
            /\ intact' =
                 [Spared(Headers(heap') \cup p .. (p + call.asked - 1)) EXCEPT
                    ![h] = kept \cup asked[h] .. (call.asked - 1)]
  BY Zenon DEF Fit
<1>3. PICK b : b = heap.free[k]
  OBVIOUS
<1>4. PICK taken : taken = Take(heap, k, call.need)
  OBVIOUS
<1>5. /\ heap' = IF ptr[call.h] = NULL THEN taken
                 ELSE free_insert(taken, BlockOf(ptr[call.h]))
      /\ ptr' = [ptr EXCEPT ![call.h] = Payload(b)]
      /\ asked' = [asked EXCEPT ![call.h] = call.asked]
  BY <1>2, <1>3, <1>4
<1>6. /\ call.op = "kmalloc" /\ call' = Idle /\ grown' = grown
      /\ available' = available /\ held' = held
  BY DEF Fit, frameVars
<1>7. /\ Shape(heap') /\ ApartExcept(heap', {})
      /\ b \in Nat /\ b \notin Used(heap)
      /\ \A a : a \in Used(heap') <=>
           \/ a = b
           \/ a \in Used(heap) /\ (ptr[call.h] # NULL => a # BlockOf(ptr[call.h]))
      /\ \A x \in Int : Covers(heap', x) <=> Covers(heap, x)
  BY <1>3, <1>4, <1>5, <1>6, FitHeap
<1>8. FramesInv'
  BY <1>6 DEF IInv, FramesInv
<1>9. HeapInv'
  BY <1>6, <1>7 DEF IInv, HeapInv
<1>10. OwnerInv'
  BY <1>1, <1>5, <1>7, OwnerMoves DEF IInv
<1>11. UserInv'
  <2>1. PICK copied : copied = IF ptr[call.h] = NULL THEN {}
                       ELSE {i \in intact[call.h] :
                               i < Copied(heap.size[BlockOf(ptr[call.h])], call.asked)}
    OBVIOUS
  <2>2. PICK written : written = Headers(heap') \cup
                                   Payload(b) .. (Payload(b) + call.asked - 1)
    OBVIOUS
  <2>3. PICK kept : kept = copied \cup asked[call.h] .. (call.asked - 1)
    OBVIOUS
  <2>4. intact' = [Spared(written) EXCEPT ![call.h] = kept]
    BY <1>2, <1>3, <2>1, <2>2, <2>3
  <2>5. kept \in SUBSET Int /\ kept \subseteq 0 .. (call.asked - 1)
    <3>1. /\ asked[call.h] \in Nat
          /\ intact[call.h] \subseteq 0 .. (asked[call.h] - 1)
      BY <1>1 DEF UserInv
    <3>2. \A i \in copied : i \in 0 .. (call.asked - 1)
      <4>1. CASE ptr[call.h] = NULL
        BY <4>1, <2>1
      <4>2. CASE ptr[call.h] # NULL
        <5>1. heap.size[BlockOf(ptr[call.h])] \in Nat
          <6>1. BlockOf(ptr[call.h]) \in DOMAIN heap.size
            BY <1>1, <4>2 DEF IInv, OwnerInv, Live, Used
          <6> QED
            BY <6>1, ShapeTypes DEF IInv, HeapInv
        <5>2. /\ Copied(heap.size[BlockOf(ptr[call.h])], call.asked) \in Int
              /\ Copied(heap.size[BlockOf(ptr[call.h])], call.asked) <= call.asked
          BY <5>1, <1>1 DEF Copied
        <5>3. \A i \in copied : /\ i \in intact[call.h]
                                /\ i < Copied(heap.size[BlockOf(ptr[call.h])], call.asked)
          BY <4>2, <2>1
        <5> QED
          BY <5>2, <5>3, <3>1, <1>1
      <4> QED
        BY <4>1, <4>2
    <3>3. asked[call.h] .. (call.asked - 1) \subseteq 0 .. (call.asked - 1)
      BY <3>1, <1>1
    <3> QED
      BY <2>3, <3>2, <3>3
  <2>6. Payload(b) = NULL => call.asked = 0
    BY <1>7, Widths DEF Payload, NULL
  <2>7. call.asked \in 0 .. (SIZE_MOD - 1)
    BY <1>1
  <2> QED
    BY <1>1, <1>5, <2>4, <2>5, <2>6, <2>7, UserChanged
<1> QED
  BY <1>6, <1>8, <1>9, <1>10, <1>11 DEF IInv

(* A growth of kmalloc's loop.                                             *)
LEMMA GrowStep ==
  ASSUME IInv, Grow
  PROVE  IInv'
<1>1. call \in Calls /\ call.need \in Nat
  BY CallTypes DEF IInv, Grow
<1>2. FramesInv' /\ HeapInv' /\ Used(heap') = Used(heap)
  BY <1>1, Growth DEF IInv, Grow
<1>3. OwnerInv'
  BY <1>2, OwnersKept DEF IInv, Grow
<1>4. UserInv'
  <2>1. PICK written : written = Headers(heap')
    OBVIOUS
  <2> QED
    BY <2>1, UserKept DEF IInv, Grow
<1>5. call' \in Calls
  <2>1. call' = [call EXCEPT !.grows = @ + 1]
    BY DEF Grow
  <2> QED
    BY <1>1, <2>1 DEF Calls
<1> QED
  BY <1>2, <1>3, <1>4, <1>5 DEF IInv

(* kmalloc returns NULL.                                                   *)
LEMMA GiveUpStep ==
  ASSUME IInv, GiveUp
  PROVE  IInv'
<1>1. FramesInv' /\ HeapInv' /\ heap' = heap
  BY GrowRefusedStep DEF IInv, GiveUp
<1>2. OwnerInv' /\ UserInv'
  BY <1>1 DEF IInv, GiveUp, userVars, OwnerInv, UserInv, Live
<1> QED
  BY <1>1, <1>2 DEF IInv, GiveUp

(* The other callers of the frame allocator.                               *)
LEMMA OtherStep ==
  ASSUME IInv, OtherTakes \/ OtherReturns
  PROVE  IInv'
<1>1. heap' = heap /\ grown' = grown /\ call' = call /\ UNCHANGED userVars
  BY DEF OtherTakes, OtherReturns
<1>2. FramesInv'
  <2>1. CASE OtherTakes
    <3>1. PICK f \in available : Frames!Allocate(1, f)
      BY <2>1 DEF OtherTakes
    <3> QED
      BY <3>1, <1>1 DEF IInv, FramesInv, Frames!Allocate
  <2>2. CASE OtherReturns
    <3>1. PICK f \in held \ grown : held' = held \ {f}
      BY <2>2 DEF OtherReturns
    <3>2. available' = available \cup (held \ held')
      BY <2>2 DEF OtherReturns, Frames!Release
    <3> QED
      BY <3>1, <3>2, <1>1 DEF IInv, FramesInv
  <2> QED
    BY <2>1, <2>2
<1>3. HeapInv' /\ OwnerInv' /\ UserInv'
  BY <1>1 DEF IInv, userVars, HeapInv, OwnerInv, UserInv, Live
<1> QED
  BY <1>1, <1>2, <1>3 DEF IInv

(* Stuttering.                                                             *)
LEMMA Unchanged ==
  ASSUME IInv, UNCHANGED vars
  PROVE  IInv'
BY DEF IInv, vars, userVars, frameVars, FramesInv, HeapInv, OwnerInv, UserInv, Live

(* The invariant holds at first.                                           *)
LEMMA InitInv ==
  ASSUME Init
  PROVE  IInv
<1>1. /\ heap = [free |-> << >>, size |-> << >>]
      /\ ptr = [h \in Handles |-> NULL] /\ grown = {}
  BY DEF Init
<1>2. DOMAIN heap.size = {} /\ heap.free = << >> /\ Len(heap.free) = 0
  BY <1>1
<1>3. FramesInv
  BY DEF Init, FramesInv
<1>4. HeapInv
  <2>1. heap = [free |-> heap.free, size |-> heap.size]
    BY <1>1
  <2>2. heap.size \in [DOMAIN heap.size -> Nat]
    BY <1>1, <1>2
  <2>3. heap.free \in Seq(DOMAIN heap.size) /\ DOMAIN heap.free = {}
    BY <1>2
  <2>4. Shape(heap)
    BY <1>2, <2>1, <2>2, <2>3 DEF Shape, Increasing
  <2>5. ApartExcept(heap, {})
    BY <1>2 DEF ApartExcept
  <2>6. \A x \in Int : ~Covers(heap, x)
    BY <1>2 DEF Covers
  <2> QED
    BY <1>1, <2>4, <2>5, <2>6 DEF HeapInv
<1>5. OwnerInv
  BY <1>1, <1>2 DEF OwnerInv, Live, Used, NULL
<1>6. UserInv
  <2>1. 0 \in 0 .. (SIZE_MOD - 1)
    BY Widths
  <2> QED
    BY <2>1 DEF Init, UserInv
<1> QED
  BY <1>3, <1>4, <1>5, <1>6 DEF IInv, Init

(* Every step keeps it.                                                    *)
LEMMA NextInv ==
  ASSUME IInv, [Next]_vars
  PROVE  IInv'
<1>1. CASE Step
  BY <1>1, InitStep, FitStep, GrowStep, GiveUpStep DEF Step
<1>2. ASSUME NEW h \in Handles, NEW size \in Sizes,
             kmalloc(h, size) \/ krealloc(h, size)
      PROVE  IInv'
  BY <1>2, KmallocStep, KreallocStep, Unchanged
<1>3. ASSUME NEW h \in Handles, NEW a \in Arrays, kcalloc(h, a[1], a[2])
      PROVE  IInv'
  BY <1>3, KcallocStep, Unchanged
<1>4. ASSUME NEW h \in Handles, kfree(h) PROVE IInv'
  BY <1>4, KfreeStep, Unchanged
<1>5. CASE OtherTakes \/ OtherReturns
  BY <1>5, OtherStep
<1>6. CASE UNCHANGED vars
  BY <1>6, Unchanged
<1> QED
  BY <1>1, <1>2, <1>3, <1>4, <1>5, <1>6 DEF Next

(* IInv holds always: the tiling, the free list and the owners of blocks   *)
(* stay right together, through kmalloc, kcalloc, kfree, krealloc and      *)
(* heap_grow in any order.                                                 *)
THEOREM InductiveCorrect == Spec => []IInv
<1>1. Init => IInv
  BY InitInv
<1>2. IInv /\ [Next]_vars => IInv'
  BY NextInv
<1> QED
  BY <1>1, <1>2, PTL DEF Spec

-----------------------------------------------------------------------------
(***************************************************************************)
(* What the invariant implies.                                             *)
(***************************************************************************)

(* No block reaches the end of the address space.                          *)
LEMMA BlockBounds ==
  ASSUME IInv, NEW b \in DOMAIN heap.size
  PROVE  block_end(heap, b) < SIZE_MOD
<1>1. /\ b \in Nat /\ heap.size[b] \in Nat /\ block_end(heap, b) \in Nat
      /\ block_end(heap, b) = b + HEAP_ALIGN + heap.size[b]
  BY ShapeTypes DEF IInv, HeapInv
<1>2. PICK x \in Int : x = block_end(heap, b) - 1
  BY <1>1
<1>3. Covers(heap, x)
  BY <1>1, <1>2, Widths DEF Covers
<1>4. PICK f \in grown : PageHolds(f, x)
  BY <1>3 DEF IInv, HeapInv
<1>5. f \in Nat /\ (f + 1) * PAGE_SIZE < SIZE_MOD
  BY PoolAssumption DEF IInv, FramesInv
<1>6. (f + 1) * PAGE_SIZE = f * PAGE_SIZE + PAGE_SIZE /\ f * PAGE_SIZE \in Nat
  BY <1>5, Widths
<1> QED
  BY <1>1, <1>2, <1>4, <1>5, <1>6, Widths DEF PageHolds

(* The type invariant: all addresses and sizes are a size_t's, and every   *)
(* live handle points to a block (what kfree and krealloc rely on when     *)
(* they step back from a pointer to its header).                           *)
THEOREM TypeCorrect == Spec => []TypeOK
<1>1. IInv => TypeOK
  <2> SUFFICES ASSUME IInv PROVE TypeOK
    OBVIOUS
  <2>1. heap.free \in Seq(DOMAIN heap.size)
    BY DEF IInv, HeapInv, Shape
  <2>2. \A b \in DOMAIN heap.size :
          b \in 0 .. (SIZE_MOD - 1) /\ heap.size[b] \in 0 .. (SIZE_MOD - 1)
    <3> TAKE b \in DOMAIN heap.size
    <3>1. /\ b \in Nat /\ heap.size[b] \in Nat
          /\ block_end(heap, b) = b + HEAP_ALIGN + heap.size[b]
      BY ShapeTypes DEF IInv, HeapInv
    <3> QED
      BY <3>1, BlockBounds, Widths
  <2>3. heap.size = [b \in DOMAIN heap.size |-> heap.size[b]]
    BY DEF IInv, HeapInv, Shape
  <2>4. heap.size \in [DOMAIN heap.size -> 0 .. (SIZE_MOD - 1)]
    BY <2>2, <2>3
  <2>5. \A h \in Live : BlockOf(ptr[h]) \in DOMAIN heap.size
    BY DEF IInv, OwnerInv, Used
  <2>6. \/ call \in {Idle, Starting}
        \/ /\ call.op = "kmalloc" /\ call.h \in Handles
           /\ call.asked \in Nat /\ call.need \in Nat /\ call.grows \in Nat
    <3>1. CASE call \in {Idle, Starting}
      BY <3>1
    <3>2. CASE call \in Calls
      BY <3>2, Widths DEF Calls
    <3> QED
      BY <3>1, <3>2 DEF IInv
  <2> QED
    BY <2>1, <2>2, <2>4, <2>5, <2>6 DEF TypeOK, IInv, UserInv, FramesInv
<1> QED
  BY <1>1, InductiveCorrect, PTL

(* BlocksTile: through every split in kmalloc and every merge in           *)
(* free_insert, the blocks stay disjoint, inside the frames the heap was   *)
(* given, and lose no byte of them.                                        *)
THEOREM TileCorrect == Spec => []BlocksTile
<1>1. IInv => BlocksTile
  <2> SUFFICES ASSUME IInv PROVE BlocksTile
    OBVIOUS
  <2>1. \A b \in DOMAIN heap.size, c \in DOMAIN heap.size :
          b < c => block_end(heap, b) <= c
    BY DEF IInv, HeapInv, Shape
  <2>2. \A b \in DOMAIN heap.size : b \in Int /\ block_end(heap, b) \in Int
    BY ShapeTypes DEF IInv, HeapInv
  <2>3. ASSUME NEW x
        PROVE  x \in UNION {Extent(heap, b) : b \in DOMAIN heap.size}
                 <=> x \in Int /\ Covers(heap, x)
    <3>1. ASSUME NEW b \in DOMAIN heap.size
          PROVE  x \in Extent(heap, b)
                   <=> x \in Int /\ b <= x /\ x < block_end(heap, b)
      BY <2>2 DEF Extent
    <3> QED
      BY <3>1 DEF Covers
  <2>4. ASSUME NEW f \in grown PROVE f \in Nat /\ f * PAGE_SIZE \in Int
    <3>1. f \in Nat
      BY PoolAssumption DEF IInv, FramesInv
    <3> QED
      BY <3>1, Widths
  <2>5. ASSUME NEW x
        PROVE  x \in UNION {(f * PAGE_SIZE) .. ((f + 1) * PAGE_SIZE - 1) : f \in grown}
                 <=> x \in Int /\ \E f \in grown : PageHolds(f, x)
    <3>1. ASSUME NEW f \in grown
          PROVE  x \in (f * PAGE_SIZE) .. ((f + 1) * PAGE_SIZE - 1)
                   <=> x \in Int /\ PageHolds(f, x)
      <4>1. (f + 1) * PAGE_SIZE = f * PAGE_SIZE + PAGE_SIZE
        BY <2>4, Widths
      <4> QED
        BY <4>1, <2>4, Widths DEF PageHolds
    <3> QED
      BY <3>1
  <2>6. UNION {Extent(heap, b) : b \in DOMAIN heap.size} =
          UNION {(f * PAGE_SIZE) .. ((f + 1) * PAGE_SIZE - 1) : f \in grown}
    <3>1. \A x \in Int : Covers(heap, x) <=> \E f \in grown : PageHolds(f, x)
      BY DEF IInv, HeapInv
    <3>2. ASSUME NEW x
          PROVE  x \in UNION {Extent(heap, b) : b \in DOMAIN heap.size} <=>
                 x \in UNION {(f * PAGE_SIZE) .. ((f + 1) * PAGE_SIZE - 1) : f \in grown}
      BY <2>3, <2>5, <3>1
    <3> QED
      BY <3>2
  <2> QED
    BY <2>1, <2>6 DEF BlocksTile
<1> QED
  BY <1>1, InductiveCorrect, PTL

(* EachBlockOwned: every block is in the free list or belongs to exactly   *)
(* one pointer, so kmalloc gives none away twice and none is leaked, by a  *)
(* krealloc that fails or one that succeeds.                               *)
THEOREM OwnedCorrect == Spec => []EachBlockOwned
<1>1. IInv => EachBlockOwned
  <2> SUFFICES ASSUME IInv PROVE EachBlockOwned
    OBVIOUS
  <2>1. /\ \A h \in Live : BlockOf(ptr[h]) \in Used(heap)
        /\ \A g, h \in Live : ptr[g] = ptr[h] => g = h
        /\ \A b \in Used(heap) : \E h \in Live : BlockOf(ptr[h]) = b
    BY DEF IInv, OwnerInv
  <2>2. \A b : b \in Free(heap) <=> \E i \in DOMAIN heap.free : heap.free[i] = b
    BY DEF Free
  <2>3. \A b \in DOMAIN heap.size : b \in Used(heap) <=> b \notin Free(heap)
    BY DEF Used
  <2> QED
    BY <2>1, <2>2, <2>3 DEF EachBlockOwned
<1> QED
  BY <1>1, InductiveCorrect, PTL

(* FreeListCoalesced: free_insert leaves the list in address order with no *)
(* two adjacent blocks.                                                    *)
THEOREM CoalescedCorrect == Spec => []FreeListCoalesced
<1>1. IInv => FreeListCoalesced
  <2> SUFFICES ASSUME IInv, NEW i \in 1 .. (Len(heap.free) - 1)
               PROVE  block_end(heap, heap.free[i]) < heap.free[i + 1]
    BY DEF FreeListCoalesced
  <2>1. Shape(heap) /\ ApartExcept(heap, {})
    BY DEF IInv, HeapInv
  <2>2. /\ i \in DOMAIN heap.free /\ i + 1 \in DOMAIN heap.free /\ i < i + 1
        /\ heap.free[i] \in DOMAIN heap.size /\ heap.free[i + 1] \in DOMAIN heap.size
    BY <2>1, ShapeTypes
  <2>3. heap.free[i] < heap.free[i + 1]
    BY <2>1, <2>2 DEF Shape, Increasing
  <2>4. block_end(heap, heap.free[i]) <= heap.free[i + 1]
    BY <2>1, <2>2, <2>3 DEF Shape
  <2>5. block_end(heap, heap.free[i]) # heap.free[i + 1]
    BY <2>1 DEF ApartExcept
  <2>6. block_end(heap, heap.free[i]) \in Nat /\ heap.free[i + 1] \in Nat
    BY <2>1, <2>2, ShapeTypes
  <2> QED
    BY <2>4, <2>5, <2>6
<1> QED
  BY <1>1, InductiveCorrect, PTL

-----------------------------------------------------------------------------
(***************************************************************************)
(* Room. All of this needs that the sum in align_up does not wrap around:  *)
(* a request within HEAP_ALIGN of the largest size_t is rounded to 0 and   *)
(* is given a block too small for it.                                      *)
(***************************************************************************)

(* Every block in use has room, and the call in progress asks for enough.  *)
RoomInv ==
  /\ \A h \in Live : heap.size[BlockOf(ptr[h])] >= asked[h]
  /\ call.op = "kmalloc" => call.need >= call.asked

(* align_up rounds up, unless it wraps around.                             *)
LEMMA AlignUpBound ==
  ASSUME NEW v \in Nat, v + HEAP_ALIGN - 1 < SIZE_MOD
  PROVE  align_up(v) >= v
<1>1. PICK w \in Nat : w = v + HEAP_ALIGN - 1
  BY Widths
<1>2. w % SIZE_MOD = w
  BY <1>1, Widths
<1>3. align_up(v) = (w \div HEAP_ALIGN) * HEAP_ALIGN
  BY <1>1, <1>2 DEF align_up
<1>4. w < (w \div HEAP_ALIGN) * HEAP_ALIGN + HEAP_ALIGN
  BY Widths
<1>5. (w \div HEAP_ALIGN) * HEAP_ALIGN \in Int
  BY Widths
<1> QED
  BY <1>1, <1>3, <1>4, <1>5, Widths

(* Types of a live handle.                                                 *)
LEMMA LiveTypes ==
  ASSUME IInv, NEW h \in Live
  PROVE  /\ h \in Handles /\ ptr[h] \in Nat
         /\ BlockOf(ptr[h]) \in Used(heap) /\ BlockOf(ptr[h]) \in DOMAIN heap.size
         /\ BlockOf(ptr[h]) \in Nat /\ heap.size[BlockOf(ptr[h])] \in Nat
         /\ ptr[h] = BlockOf(ptr[h]) + HEAP_ALIGN
         /\ asked[h] \in 0 .. (SIZE_MOD - 1)
<1>1. /\ h \in Handles /\ ptr[h] \in Nat /\ BlockOf(ptr[h]) \in Used(heap)
      /\ asked[h] \in 0 .. (SIZE_MOD - 1)
  BY DEF IInv, OwnerInv, UserInv, Live
<1>2. BlockOf(ptr[h]) \in DOMAIN heap.size
  BY <1>1 DEF Used
<1>3. BlockOf(ptr[h]) \in Nat /\ heap.size[BlockOf(ptr[h])] \in Nat
  BY <1>2, ShapeTypes DEF IInv, HeapInv
<1>4. ptr[h] = BlockOf(ptr[h]) + HEAP_ALIGN
  BY <1>1, Widths DEF BlockOf
<1> QED
  BY <1>1, <1>2, <1>3, <1>4

(* Nothing that RoomInv is about gets smaller.                             *)
LEMMA RoomKept ==
  ASSUME RoomInv, OwnerInv, ptr' = ptr, asked' = asked,
         \A b \in Used(heap) : heap'.size[b] = heap.size[b],
         call'.op = "kmalloc" =>
           call.op = "kmalloc" /\ call'.need = call.need /\ call'.asked = call.asked
  PROVE  RoomInv'
BY DEF RoomInv, OwnerInv, Live

(* kmalloc is entered.                                                     *)
LEMMA RoomEnter ==
  ASSUME IInv, RoomInv, NoRoundingWraps, NEW h, NEW size \in Requests, size \in Nat,
         Enter(h, size, size)
  PROVE  RoomInv'
<1>1. align_up(size) >= size
  BY AlignUpBound DEF NoRoundingWraps
<1>2. call'.need >= call'.asked
  BY <1>1 DEF Enter
<1> QED
  BY <1>2 DEF Enter, RoomInv, userVars, Live

(* A block is freed.                                                       *)
LEMMA RoomDrop ==
  ASSUME IInv, RoomInv, NEW h \in Live, Drop(h)
  PROVE  RoomInv'
<1>1. /\ call' = call
      /\ ptr' = [ptr EXCEPT ![h] = NULL]
      /\ asked' = [asked EXCEPT ![h] = 0]
  BY DEF Drop
<1>2. ASSUME NEW g \in Live' PROVE heap'.size[BlockOf(ptr'[g])] >= asked'[g]
  <2>1. g \in Live /\ g # h /\ ptr'[g] = ptr[g] /\ asked'[g] = asked[g]
    BY <1>1 DEF Live, IInv, OwnerInv, UserInv
  <2>2. BlockOf(ptr[g]) \in Used(heap) \ {BlockOf(ptr[h])}
    <3>1. ptr[g] # ptr[h]
      BY <2>1 DEF IInv, OwnerInv
    <3>2. BlockOf(ptr[g]) # BlockOf(ptr[h])
      BY <2>1, <3>1, LiveTypes, BlockNames
    <3> QED
      BY <2>1, <3>2, LiveTypes
  <2>3. heap'.size[BlockOf(ptr[g])] = heap.size[BlockOf(ptr[g])]
    BY <2>2, DropBlock
  <2> QED
    BY <2>1, <2>3 DEF RoomInv
<1> QED
  BY <1>1, <1>2 DEF RoomInv

(* A search succeeds.                                                      *)
LEMMA RoomFit ==
  ASSUME IInv, RoomInv, Fit
  PROVE  RoomInv'
<1>1. call.op = "kmalloc" /\ call' = Idle
  BY DEF Fit
<1>2. PICK k \in Fits(call.need) :
        /\ heap' = IF ptr[call.h] = NULL THEN Take(heap, k, call.need)
                   ELSE free_insert(Take(heap, k, call.need), BlockOf(ptr[call.h]))
        /\ ptr' = [ptr EXCEPT ![call.h] = Payload(heap.free[k])]
        /\ asked' = [asked EXCEPT ![call.h] = call.asked]
  BY Zenon DEF Fit
<1>3. PICK b : b = heap.free[k]
  OBVIOUS
<1>4. PICK taken : taken = Take(heap, k, call.need)
  OBVIOUS
<1>5. /\ b \in Nat /\ b \notin Used(heap)
      /\ \A a : a \in Used(heap') <=>
           \/ a = b
           \/ a \in Used(heap) /\ (ptr[call.h] # NULL => a # BlockOf(ptr[call.h]))
      /\ \A a \in Used(heap') \ {b} : heap'.size[a] = heap.size[a]
      /\ heap'.size[b] >= call.need
  BY <1>1, <1>2, <1>3, <1>4, FitHeap
<1>6. /\ BlockOf(Payload(b)) = b /\ heap'.size[b] \in Nat
      /\ call.need \in Nat /\ call.asked \in Nat /\ call.h \in Handles
  <2>1. call.need \in Nat /\ call.asked \in Nat /\ call.h \in Handles
    BY <1>1, CallTypes DEF IInv
  <2>2. b \in DOMAIN heap'.size /\ Shape(heap')
    BY <1>5, FitStep DEF Used, IInv, HeapInv
  <2> QED
    BY <2>1, <2>2, <1>5, ShapeTypes, Widths DEF BlockOf, Payload
<1>7. ASSUME NEW g \in Live' PROVE heap'.size[BlockOf(ptr'[g])] >= asked'[g]
  <2>1. CASE g = call.h
    <3>1. ptr'[g] = Payload(b) /\ asked'[g] = call.asked
      BY <2>1, <1>2, <1>3, <1>6 DEF IInv, OwnerInv, UserInv
    <3>2. call.need >= call.asked
      BY <1>1 DEF RoomInv
    <3> QED
      BY <3>1, <3>2, <1>5, <1>6
  <2>2. CASE g # call.h
    <3>1. g \in Live /\ ptr'[g] = ptr[g] /\ asked'[g] = asked[g]
      BY <2>2, <1>2 DEF Live, IInv, OwnerInv, UserInv
    <3>2. BlockOf(ptr[g]) \in Used(heap') /\ BlockOf(ptr[g]) # b
      <4>1. BlockOf(ptr[g]) \in Used(heap)
        BY <3>1, LiveTypes
      <4>2. BlockOf(ptr'[g]) \in Used(heap')
        BY FitStep DEF IInv, OwnerInv
      <4> QED
        BY <4>1, <4>2, <3>1, <1>5
    <3> QED
      BY <3>1, <3>2, <1>5 DEF RoomInv
  <2> QED
    BY <2>1, <2>2
<1> QED
  BY <1>1, <1>7 DEF RoomInv, Idle

(* krealloc.                                                               *)
LEMMA RoomRealloc ==
  ASSUME IInv, RoomInv, NoRoundingWraps,
         NEW h \in Handles, NEW size \in Sizes, krealloc(h, size)
  PROVE  RoomInv'
<1>1. size \in 0 .. (SIZE_MOD - 1) /\ size \in Requests /\ size \in Nat /\ h \in Live
  BY SizesAssumption DEF krealloc, Live, Requests
<1>2. CASE Drop(h)
  BY <1>1, <1>2, RoomDrop
<1>3. CASE /\ heap.size[BlockOf(ptr[h])] >= align_up(size)
           /\ asked' = [asked EXCEPT ![h] = size]
           /\ UNCHANGED <<heap, ptr, call, grown, frameVars>>
  <2>1. align_up(size) >= size /\ align_up(size) \in Nat
    BY <1>1, AlignUpBound, AlignUpType DEF NoRoundingWraps
  <2>2. heap.size[BlockOf(ptr[h])] >= size
    BY <2>1, <1>1, <1>3, LiveTypes
  <2>3. \A g \in Handles : g # h => asked'[g] = asked[g]
    BY <1>3 DEF IInv, UserInv
  <2>4. asked'[h] = size
    BY <1>3 DEF IInv, UserInv
  <2> QED
    BY <2>2, <2>3, <2>4, <1>3 DEF RoomInv, Live
<1>4. CASE Enter(h, size, size)
  BY <1>1, <1>4, RoomEnter
<1> QED
  BY <1>2, <1>3, <1>4 DEF krealloc

(* Every step keeps RoomInv.                                               *)
LEMMA RoomNext ==
  ASSUME IInv, RoomInv, NoRoundingWraps, [Next]_vars
  PROVE  RoomInv'
<1>1. CASE kheap_init
  <2>1. \A b \in Used(heap) : heap'.size[b] = heap.size[b]
    <3>1. CASE \E f \in available : GrowWith(MIN_GROW, f)
      BY <3>1, Growth, Widths DEF IInv
    <3>2. CASE GrowRefused(MIN_GROW)
      BY <3>2 DEF GrowRefused
    <3> QED
      BY <1>1, <3>1, <3>2 DEF kheap_init
  <2>2. ptr' = ptr /\ asked' = asked /\ call' = Idle
    BY <1>1 DEF kheap_init, userVars
  <2>3. call'.op # "kmalloc"
    BY <2>2 DEF Idle
  <2> QED
    BY <2>1, <2>2, <2>3, RoomKept DEF IInv
<1>2. CASE Fit
  BY <1>2, RoomFit
<1>3. CASE Grow
  <2>1. \A b \in Used(heap) : heap'.size[b] = heap.size[b]
    BY <1>3, Growth, CallTypes DEF IInv, Grow
  <2>2. /\ ptr' = ptr /\ asked' = asked /\ call.op = "kmalloc"
        /\ call' = [call EXCEPT !.grows = @ + 1]
    BY <1>3 DEF Grow
  <2>3. call'.need = call.need /\ call'.asked = call.asked
    <3>1. call \in Calls
      BY <2>2, CallTypes DEF IInv
    <3> QED
      BY <2>2, <3>1 DEF Calls
  <2> QED
    BY <2>1, <2>2, <2>3, RoomKept DEF IInv
<1>4. CASE GiveUp
  <2>1. heap' = heap /\ ptr' = ptr /\ asked' = asked /\ call' = Idle
    BY <1>4 DEF GiveUp, GrowRefused, userVars
  <2>2. call'.op # "kmalloc"
    BY <2>1 DEF Idle
  <2> QED
    BY <2>1, <2>2, RoomKept DEF IInv
<1>5. ASSUME NEW h \in Handles, NEW size \in Sizes, kmalloc(h, size)
      PROVE  RoomInv'
  <2>1. size \in Requests /\ size \in Nat
    BY SizesAssumption DEF Requests
  <2>2. CASE UNCHANGED vars
    BY <2>2 DEF RoomInv, vars, userVars, Live
  <2>3. CASE Enter(h, size, size)
    BY <2>1, <2>3, RoomEnter
  <2> QED
    BY <1>5, <2>2, <2>3 DEF kmalloc
<1>6. ASSUME NEW h \in Handles, NEW a \in Arrays, kcalloc(h, a[1], a[2])
      PROVE  RoomInv'
  <2>1. CASE Product(a[1], a[2]) = 0
    BY <1>6, <2>1 DEF kcalloc, RoomInv, vars, userVars, Live
  <2>2. CASE Product(a[1], a[2]) # 0
    <3>1. a[1] \in 0 .. (SIZE_MOD - 1) /\ a[2] \in 0 .. (SIZE_MOD - 1)
      BY SizesAssumption
    <3>2. a[1] * a[2] = Product(a[1], a[2]) /\ Product(a[1], a[2]) \in Nat
      BY <3>1, <2>2, ProductType
    <3>3. Product(a[1], a[2]) \in Requests
      BY DEF Requests
    <3>4. Enter(h, Product(a[1], a[2]), Product(a[1], a[2]))
      BY <1>6, <2>2, <3>2 DEF kcalloc
    <3> QED
      BY <3>2, <3>3, <3>4, RoomEnter
  <2> QED
    BY <2>1, <2>2
<1>7. ASSUME NEW h \in Handles, kfree(h) PROVE RoomInv'
  <2>1. CASE UNCHANGED vars
    BY <2>1 DEF RoomInv, vars, userVars, Live
  <2>2. CASE h \in Live /\ Drop(h)
    BY <2>2, RoomDrop
  <2> QED
    BY <1>7, <2>1, <2>2 DEF kfree, Live
<1>8. CASE OtherTakes \/ OtherReturns \/ UNCHANGED vars
  BY <1>8 DEF OtherTakes, OtherReturns, vars, userVars, RoomInv, Live
<1> QED
  BY <1>1, <1>2, <1>3, <1>4, <1>5, <1>6, <1>7, <1>8, RoomRealloc DEF Next, Step

(* AllocationLargeEnough: a pointer kmalloc, kcalloc or krealloc returned  *)
(* is aligned and has the room asked for, where no request is within       *)
(* HEAP_ALIGN of the largest size_t.                                       *)
THEOREM RoomCorrect ==
  ASSUME NoRoundingWraps
  PROVE  Spec => []AllocationLargeEnough
<1>1. Init => RoomInv
  <2> SUFFICES ASSUME Init PROVE RoomInv
    OBVIOUS
  <2>1. Live = {} /\ call.op # "kmalloc"
    BY DEF Init, Live, Starting
  <2> QED
    BY <2>1 DEF RoomInv
<1>2. IInv /\ RoomInv /\ [Next]_vars => RoomInv'
  BY RoomNext
<1>3. IInv /\ RoomInv => AllocationLargeEnough
  <2> SUFFICES ASSUME IInv, RoomInv, NEW h \in Live
               PROVE  /\ ptr[h] % HEAP_ALIGN = 0
                      /\ heap.size[BlockOf(ptr[h])] >= asked[h]
    BY DEF AllocationLargeEnough
  <2>1. heap.size[BlockOf(ptr[h])] >= asked[h]
    BY DEF RoomInv
  <2>2. Aligned(BlockOf(ptr[h])) /\ BlockOf(ptr[h]) \in Int
    BY LiveTypes DEF IInv, HeapInv, Shape
  <2>3. Aligned(ptr[h]) /\ ptr[h] \in Int
    BY <2>2, LiveTypes, AlignedUnit, AlignedSum, Widths
  <2>4. ptr[h] % HEAP_ALIGN = 0
    BY <2>3, AlignedRemainder
  <2> QED
    BY <2>1, <2>4
<1> QED
  BY <1>1, <1>2, <1>3, InductiveCorrect, PTL DEF Spec

-----------------------------------------------------------------------------
(***************************************************************************)
(* Data.                                                                   *)
(***************************************************************************)

(* What every handle's owner wrote is there.                               *)
DataInv == \A h \in Handles : intact[h] = 0 .. (asked[h] - 1)

(* A byte of a payload is in no header and no other payload.               *)
LEMMA PayloadApart ==
  ASSUME NEW H, Shape(H), NEW b \in DOMAIN H.size, NEW x \in Int,
         Payload(b) <= x, x < block_end(H, b)
  PROVE  /\ x \notin Headers(H)
         /\ \A c \in DOMAIN H.size : c # b => ~(Payload(c) <= x /\ x < block_end(H, c))
<1>1. ASSUME NEW c \in DOMAIN H.size, c # b PROVE x < c \/ block_end(H, c) <= x
  <2>1. c \in Nat /\ b \in Nat /\ block_end(H, c) \in Nat /\ block_end(H, b) \in Nat
    BY ShapeTypes
  <2>2. CASE c < b
    <3>1. block_end(H, c) <= b
      BY <2>2 DEF Shape
    <3> QED
      BY <3>1, <2>1, Widths DEF Payload
  <2>3. CASE b < c
    <3>1. block_end(H, b) <= c
      BY <2>3 DEF Shape
    <3> QED
      BY <3>1, <2>1
  <2> QED
    BY <2>1, <2>2, <2>3, <1>1
<1>2. \A c \in DOMAIN H.size :
        /\ c \in Nat /\ block_end(H, c) \in Nat /\ c + HEAP_ALIGN <= block_end(H, c)
  BY ShapeTypes, Widths
<1>3. ASSUME NEW c \in DOMAIN H.size PROVE x \notin c .. (c + HEAP_ALIGN - 1)
  <2>1. CASE c = b
    BY <2>1, <1>2, Widths DEF Payload
  <2>2. CASE c # b
    BY <2>2, <1>1, <1>2, Widths
  <2> QED
    BY <2>1, <2>2
<1>4. x \notin Headers(H)
  BY <1>3 DEF Headers
<1>5. ASSUME NEW c \in DOMAIN H.size, c # b
      PROVE  ~(Payload(c) <= x /\ x < block_end(H, c))
  BY <1>1, <1>2, <1>5, Widths DEF Payload
<1> QED
  BY <1>4, <1>5

(* A handle none of whose bytes is written loses none.                     *)
LEMMA SparedWhole ==
  ASSUME UserInv, NEW g \in Handles, NEW written,
         \A i \in intact[g] : ptr[g] + i \notin written
  PROVE  Spared(written)[g] = intact[g]
BY DEF Spared, UserInv

(* A handle's bytes are in its block.                                      *)
LEMMA OwnBytes ==
  ASSUME IInv, RoomInv, NEW g \in Live, NEW i \in intact[g]
  PROVE  /\ ptr[g] + i \in Int
         /\ Payload(BlockOf(ptr[g])) <= ptr[g] + i
         /\ ptr[g] + i < block_end(heap, BlockOf(ptr[g]))
<1>1. i \in 0 .. (asked[g] - 1) /\ heap.size[BlockOf(ptr[g])] >= asked[g]
  BY LiveTypes DEF IInv, UserInv, RoomInv
<1> QED
  BY <1>1, LiveTypes, Widths DEF Payload, block_end

(* No header is ever written where a block that stays in use has its       *)
(* payload.                                                                *)
LEMMA HeadersSpare ==
  ASSUME IInv, RoomInv, NEW g \in Live, Shape(heap'),
         BlockOf(ptr[g]) \in Used(heap'),
         heap'.size[BlockOf(ptr[g])] = heap.size[BlockOf(ptr[g])],
         NEW i \in intact[g]
  PROVE  ptr[g] + i \notin Headers(heap')
<1>1. PICK b : b = BlockOf(ptr[g])
  OBVIOUS
<1>2. PICK x : x = ptr[g] + i
  OBVIOUS
<1>3. x \in Int /\ Payload(b) <= x /\ x < block_end(heap, b)
  BY <1>1, <1>2, OwnBytes
<1>4. b \in DOMAIN heap'.size
  BY <1>1 DEF Used
<1>5. x < block_end(heap', b)
  BY <1>1, <1>3 DEF block_end
<1>6. PICK R : R = heap'
  OBVIOUS
<1>7. x \notin Headers(R)
  BY <1>3, <1>4, <1>5, <1>6, PayloadApart
<1> QED
  BY <1>2, <1>6, <1>7

(* A handle without a block has no bytes.                                  *)
LEMMA IdleBlank ==
  ASSUME IInv, NEW g \in Handles, g \notin Live
  PROVE  intact[g] = {} /\ asked[g] = 0
BY DEF IInv, UserInv, Live

(* A block is freed.                                                       *)
LEMMA DataDrop ==
  ASSUME IInv, RoomInv, DataInv, NEW h \in Live, Drop(h)
  PROVE  DataInv'
<1>1. /\ asked' = [asked EXCEPT ![h] = 0]
      /\ intact' = [Spared(Headers(heap')) EXCEPT ![h] = {}]
      /\ h \in Handles
  BY DEF Drop, Live
<1>2. UserInv /\ asked \in [Handles -> 0 .. (SIZE_MOD - 1)]
  BY DEF IInv, UserInv
<1>3. ASSUME NEW g \in Handles PROVE intact'[g] = 0 .. (asked'[g] - 1)
  <2>1. CASE g = h
    <3>1. intact'[g] = {} /\ asked'[g] = 0
      BY <2>1, <1>1, <1>2, SparedTypes
    <3> QED
      BY <3>1
  <2>2. CASE g # h
    <3>1. intact'[g] = Spared(Headers(heap'))[g] /\ asked'[g] = asked[g]
      BY <2>2, <1>1, <1>2, SparedTypes
    <3>2. ASSUME NEW i \in intact[g] PROVE ptr[g] + i \notin Headers(heap')
      <4>1. g \in Live
        BY <3>2, IdleBlank
      <4>2. BlockOf(ptr[g]) # BlockOf(ptr[h])
        BY <4>1, <2>2, LiveTypes, BlockNames DEF IInv, OwnerInv
      <4>3. BlockOf(ptr[g]) \in Used(heap')
        BY <4>1, <4>2, LiveTypes, DropBlock
      <4> QED
        BY <4>1, <4>3, <3>2, DropBlock, HeadersSpare
    <3>3. PICK written : written = Headers(heap')
      OBVIOUS
    <3>4. Spared(written)[g] = intact[g]
      BY <1>2, <3>2, <3>3, SparedWhole
    <3> QED
      BY <3>1, <3>3, <3>4 DEF DataInv
  <2> QED
    BY <2>1, <2>2
<1> QED
  BY <1>3 DEF DataInv

(* krealloc keeps a block, and its owner fills it.                         *)
LEMMA DataInPlace ==
  ASSUME IInv, RoomInv, DataInv, NEW h \in Live, NEW size \in Nat,
         heap.size[BlockOf(ptr[h])] >= size,
         asked' = [asked EXCEPT ![h] = size],
         intact' = [Spared(ptr[h] .. (ptr[h] + size - 1)) EXCEPT
                      ![h] = {i \in intact[h] : i < size} \cup asked[h] .. (size - 1)]
  PROVE  DataInv'
<1>1. UserInv /\ asked \in [Handles -> 0 .. (SIZE_MOD - 1)] /\ h \in Handles
  BY DEF IInv, UserInv, Live
<1>2. PICK written : written = ptr[h] .. (ptr[h] + size - 1)
  OBVIOUS
<1>3. PICK kept : kept = {i \in intact[h] : i < size} \cup asked[h] .. (size - 1)
  OBVIOUS
<1>4. intact' = [Spared(written) EXCEPT ![h] = kept]
  BY <1>2, <1>3
<1>5. ASSUME NEW g \in Handles PROVE intact'[g] = 0 .. (asked'[g] - 1)
  <2>1. CASE g = h
    <3>1. intact'[g] = kept /\ asked'[g] = size
      BY <2>1, <1>1, <1>4, SparedTypes
    <3>2. intact[h] = 0 .. (asked[h] - 1) /\ asked[h] \in Nat
      BY <1>1 DEF DataInv
    <3>3. kept = 0 .. (size - 1)
      BY <3>2, <1>3
    <3> QED
      BY <3>1, <3>3
  <2>2. CASE g # h
    <3>1. intact'[g] = Spared(written)[g] /\ asked'[g] = asked[g]
      BY <2>2, <1>1, <1>4, SparedTypes
    <3>2. ASSUME NEW i \in intact[g] PROVE ptr[g] + i \notin written
      <4>1. g \in Live
        BY <3>2, IdleBlank
      <4>2. PICK b : b = BlockOf(ptr[g])
        OBVIOUS
      <4>3. PICK c : c = BlockOf(ptr[h])
        OBVIOUS
      <4>4. b # c /\ b \in DOMAIN heap.size /\ c \in DOMAIN heap.size
        BY <4>1, <4>2, <4>3, <2>2, LiveTypes, BlockNames DEF IInv, OwnerInv
      <4>5. PICK x : x = ptr[g] + i
        OBVIOUS
      <4>6. x \in Int /\ Payload(b) <= x /\ x < block_end(heap, b)
        BY <4>1, <4>2, <4>5, <3>2, OwnBytes
      <4>7. ~(Payload(c) <= x /\ x < block_end(heap, c))
        BY <4>4, <4>6, PayloadApart DEF IInv, HeapInv
      <4>8. /\ Payload(c) = ptr[h] /\ block_end(heap, c) = ptr[h] + heap.size[c]
            /\ heap.size[c] >= size /\ heap.size[c] \in Nat /\ ptr[h] \in Nat
        BY <4>3, LiveTypes DEF Payload, block_end
      <4>9. ~(ptr[h] <= x /\ x <= ptr[h] + size - 1)
        BY <4>6, <4>7, <4>8
      <4> QED
        BY <4>5, <4>6, <4>8, <4>9, <1>2
    <3>3. Spared(written)[g] = intact[g]
      BY <1>1, <3>2, SparedWhole
    <3> QED
      BY <3>1, <3>3 DEF DataInv
  <2> QED
    BY <2>1, <2>2
<1> QED
  BY <1>5 DEF DataInv

(* A search succeeds; krealloc copies, and the owner fills what is new.    *)
LEMMA DataFit ==
  ASSUME IInv, RoomInv, DataInv, Fit
  PROVE  DataInv'
<1>1. /\ call.op = "kmalloc" /\ call.h \in Handles /\ call.asked \in 1 .. (SIZE_MOD - 1)
      /\ call.need \in Nat /\ call.need >= call.asked
      /\ UserInv /\ asked \in [Handles -> 0 .. (SIZE_MOD - 1)]
  BY CallTypes DEF IInv, UserInv, RoomInv, Fit
<1>2. PICK k \in Fits(call.need) :
        LET h     == call.h
            p     == Payload(heap.free[k])
            taken == Take(heap, k, call.need)
            kept  == IF ptr[h] = NULL THEN {}
                     ELSE {i \in intact[h] :
                             i < Copied(heap.size[BlockOf(ptr[h])], call.asked)}
        IN  /\ \A j \in Fits(call.need) : k <= j
            /\ heap' = IF ptr[h] = NULL THEN taken
                       ELSE free_insert(taken, BlockOf(ptr[h]))
            /\ ptr' = [ptr EXCEPT ![h] = p]
            /\ asked' = [asked EXCEPT ![h] = call.asked]
            /\ intact' =
                 [Spared(Headers(heap') \cup p .. (p + call.asked - 1)) EXCEPT
                    ![h] = kept \cup asked[h] .. (call.asked - 1)]
  BY Zenon DEF Fit
<1>3. PICK b : b = heap.free[k]
  OBVIOUS
<1>4. PICK taken : taken = Take(heap, k, call.need)
  OBVIOUS
<1>5. /\ heap' = IF ptr[call.h] = NULL THEN taken
                 ELSE free_insert(taken, BlockOf(ptr[call.h]))
      /\ asked' = [asked EXCEPT ![call.h] = call.asked]
  BY <1>2, <1>3, <1>4
<1>6. /\ Shape(heap') /\ b \in Nat /\ b \in Used(heap') /\ b \notin Used(heap)
      /\ \A a : a \in Used(heap') <=>
           \/ a = b
           \/ a \in Used(heap) /\ (ptr[call.h] # NULL => a # BlockOf(ptr[call.h]))
      /\ \A a \in Used(heap') \ {b} : heap'.size[a] = heap.size[a]
      /\ heap'.size[b] >= call.need
  BY <1>1, <1>3, <1>4, <1>5, FitHeap
<1>7. PICK copied : copied = IF ptr[call.h] = NULL THEN {}
                     ELSE {i \in intact[call.h] :
                             i < Copied(heap.size[BlockOf(ptr[call.h])], call.asked)}
  OBVIOUS
<1>8. PICK filled : filled = Payload(b) .. (Payload(b) + call.asked - 1)
  OBVIOUS
<1>9. PICK written : written = Headers(heap') \cup filled
  OBVIOUS
<1>10. PICK kept : kept = copied \cup asked[call.h] .. (call.asked - 1)
  OBVIOUS
<1>11. intact' = [Spared(written) EXCEPT ![call.h] = kept]
  BY <1>2, <1>3, <1>7, <1>8, <1>9, <1>10
<1>12. kept = 0 .. (call.asked - 1)
  <2>1. intact[call.h] = 0 .. (asked[call.h] - 1) /\ asked[call.h] \in Nat
    BY <1>1 DEF DataInv
  <2>2. CASE ptr[call.h] = NULL
    <3>1. copied = {} /\ asked[call.h] = 0
      BY <2>2, <1>1, <1>7 DEF UserInv
    <3> QED
      BY <3>1, <1>10
  <2>3. CASE ptr[call.h] # NULL
    <3>1. call.h \in Live
      BY <2>3, <1>1 DEF Live
    <3>2. PICK old : old = heap.size[BlockOf(ptr[call.h])]
      OBVIOUS
    <3>3. old \in Nat /\ old >= asked[call.h]
      BY <3>1, <3>2, LiveTypes DEF RoomInv
    <3>4. copied = {i \in 0 .. (asked[call.h] - 1) : i < Copied(old, call.asked)}
      BY <2>1, <2>3, <3>2, <1>7
    <3>5. \A i \in 0 .. (asked[call.h] - 1) :
            i < Copied(old, call.asked) <=> i < call.asked
      BY <2>1, <3>3, <1>1 DEF Copied
    <3>6. copied = {i \in 0 .. (asked[call.h] - 1) : i < call.asked}
      BY <3>4, <3>5
    <3> QED
      BY <2>1, <3>6, <1>1, <1>10
  <2> QED
    BY <2>2, <2>3
<1>13. ASSUME NEW g \in Handles PROVE intact'[g] = 0 .. (asked'[g] - 1)
  <2>1. CASE g = call.h
    <3>1. intact'[g] = kept /\ asked'[g] = call.asked
      BY <2>1, <1>1, <1>5, <1>11, SparedTypes
    <3> QED
      BY <3>1, <1>12
  <2>2. CASE g # call.h
    <3>1. intact'[g] = Spared(written)[g] /\ asked'[g] = asked[g]
      BY <2>2, <1>1, <1>5, <1>11, SparedTypes
    <3>2. ASSUME NEW i \in intact[g] PROVE ptr[g] + i \notin written
      <4>1. g \in Live
        BY <3>2, IdleBlank
      <4>2. PICK a : a = BlockOf(ptr[g])
        OBVIOUS
      <4>3. a \in Used(heap) /\ a # b
        BY <4>1, <4>2, <1>6, LiveTypes
      <4>4. ptr[call.h] # NULL => a # BlockOf(ptr[call.h])
        <5> SUFFICES ASSUME ptr[call.h] # NULL PROVE a # BlockOf(ptr[call.h])
          OBVIOUS
        <5>1. call.h \in Live
          BY <1>1 DEF Live
        <5> QED
          BY <5>1, <4>1, <4>2, <2>2, LiveTypes, BlockNames DEF IInv, OwnerInv
      <4>5. a \in Used(heap') /\ heap'.size[a] = heap.size[a]
        BY <4>3, <4>4, <1>6
      <4>6. ptr[g] + i \notin Headers(heap')
        BY <4>1, <4>2, <4>5, <3>2, <1>6, HeadersSpare
      <4>7. PICK x : x = ptr[g] + i
        OBVIOUS
      <4>8. x \in Int /\ Payload(a) <= x /\ x < block_end(heap, a)
        BY <4>1, <4>2, <4>7, <3>2, OwnBytes
      <4>9. x < block_end(heap', a)
        BY <4>5, <4>8 DEF block_end
      <4>10. PICK R : R = heap'
        OBVIOUS
      <4>11. /\ Shape(R) /\ a \in DOMAIN R.size /\ b \in DOMAIN R.size
             /\ R.size[b] >= call.need
        BY <4>5, <4>10, <1>6 DEF Used
      <4>12. ~(Payload(b) <= x /\ x < block_end(R, b))
        BY <4>3, <4>8, <4>9, <4>10, <4>11, PayloadApart
      <4>13. R.size[b] \in Nat /\ block_end(R, b) = b + HEAP_ALIGN + R.size[b]
        BY <4>11, ShapeTypes
      <4>14. x \notin filled
        BY <4>8, <4>11, <4>12, <4>13, <1>1, <1>6, <1>8, Widths, SMTT(30) DEF Payload
      <4> QED
        BY <4>6, <4>7, <4>14, <1>9
    <3>3. Spared(written)[g] = intact[g]
      BY <1>1, <3>2, SparedWhole
    <3> QED
      BY <3>1, <3>3 DEF DataInv
  <2> QED
    BY <2>1, <2>2
<1> QED
  BY <1>13 DEF DataInv

(* A growth writes one header.                                             *)
LEMMA DataGrow ==
  ASSUME IInv, RoomInv, DataInv, Grow
  PROVE  DataInv'
<1>1. /\ HeapInv' /\ Used(heap') = Used(heap)
      /\ \A b \in Used(heap) : heap'.size[b] = heap.size[b]
  BY Growth, CallTypes DEF IInv, Grow
<1>2. PICK written : written = Headers(heap')
  OBVIOUS
<1>3. intact' = Spared(written) /\ asked' = asked
  BY <1>2 DEF Grow
<1>4. ASSUME NEW g \in Handles PROVE intact'[g] = 0 .. (asked'[g] - 1)
  <2>1. ASSUME NEW i \in intact[g] PROVE ptr[g] + i \notin written
    <3>1. g \in Live
      BY <2>1, IdleBlank
    <3>2. Shape(heap')
      BY <1>1 DEF HeapInv
    <3>3. BlockOf(ptr[g]) \in Used(heap')
      BY <3>1, <1>1, LiveTypes
    <3> QED
      BY <3>1, <3>2, <3>3, <2>1, <1>1, <1>2, HeadersSpare
  <2>2. Spared(written)[g] = intact[g]
    BY <2>1, SparedWhole DEF IInv
  <2> QED
    BY <2>2, <1>3 DEF DataInv
<1> QED
  BY <1>4 DEF DataInv

(* Every step keeps DataInv.                                               *)
LEMMA DataNext ==
  ASSUME IInv, RoomInv, DataInv, NoRoundingWraps, [Next]_vars
  PROVE  DataInv'
<1>1. CASE UNCHANGED userVars
  BY <1>1 DEF userVars, DataInv
<1>2. ASSUME NEW h \in Handles, NEW size \in Sizes, krealloc(h, size)
      PROVE  DataInv'
  <2>1. size \in Requests /\ size \in Nat /\ h \in Live
    BY <1>2, SizesAssumption DEF krealloc, Live, Requests
  <2>2. CASE Drop(h)
    BY <2>1, <2>2, DataDrop
  <2>3. CASE /\ heap.size[BlockOf(ptr[h])] >= align_up(size)
             /\ asked' = [asked EXCEPT ![h] = size]
             /\ intact' = [Spared(ptr[h] .. (ptr[h] + size - 1)) EXCEPT
                             ![h] = {i \in intact[h] : i < size} \cup asked[h] .. (size - 1)]
    <3>1. align_up(size) >= size /\ align_up(size) \in Nat
      BY <2>1, AlignUpBound, AlignUpType DEF NoRoundingWraps
    <3>2. heap.size[BlockOf(ptr[h])] >= size
      BY <3>1, <2>1, <2>3, LiveTypes
    <3> QED
      BY <3>2, <2>1, <2>3, DataInPlace, Zenon
  <2>4. CASE Enter(h, size, size)
    BY <1>1, <2>4 DEF Enter
  <2> QED
    BY <1>2, <2>2, <2>3, <2>4 DEF krealloc
<1>3. ASSUME NEW h \in Handles, kfree(h) PROVE DataInv'
  <2>1. CASE UNCHANGED vars
    BY <1>1, <2>1 DEF vars
  <2>2. CASE h \in Live /\ Drop(h)
    BY <2>2, DataDrop
  <2> QED
    BY <1>3, <2>1, <2>2 DEF kfree, Live
<1>4. CASE UNCHANGED vars
  BY <1>1, <1>4 DEF vars
<1>5. CASE kheap_init \/ GiveUp \/ OtherTakes \/ OtherReturns
  BY <1>1, <1>5 DEF kheap_init, GiveUp, OtherTakes, OtherReturns
<1>6. ASSUME NEW h \in Handles, NEW size \in Sizes, kmalloc(h, size) PROVE DataInv'
  BY <1>1, <1>4, <1>6 DEF kmalloc, Enter
<1>7. ASSUME NEW h \in Handles, NEW a \in Arrays, kcalloc(h, a[1], a[2])
      PROVE  DataInv'
  BY <1>1, <1>4, <1>7 DEF kcalloc, Enter
<1> QED
  BY <1>2, <1>3, <1>4, <1>5, <1>6, <1>7, DataFit, DataGrow DEF Next, Step

(* DataIntact: no other caller's use of its block, no header, no growth    *)
(* and no move by krealloc changes a byte a caller wrote, under the same   *)
(* condition on the sizes.                                                 *)
THEOREM DataCorrect ==
  ASSUME NoRoundingWraps
  PROVE  Spec => []DataIntact
<1>1. Init => RoomInv /\ DataInv
  <2> SUFFICES ASSUME Init PROVE RoomInv /\ DataInv
    OBVIOUS
  <2>1. Live = {} /\ call.op # "kmalloc"
    BY DEF Init, Live, Starting
  <2>2. DataInv
    BY DEF Init, DataInv
  <2> QED
    BY <2>1, <2>2 DEF RoomInv
<1>2. IInv /\ RoomInv /\ DataInv /\ [Next]_vars => RoomInv' /\ DataInv'
  BY RoomNext, DataNext
<1>3. DataInv => DataIntact
  BY DEF DataInv, DataIntact, Live
<1> QED
  BY <1>1, <1>2, <1>3, InductiveCorrect, PTL DEF Spec

-----------------------------------------------------------------------------
(***************************************************************************)
(* One growth.                                                             *)
(***************************************************************************)

(* The loop of kmalloc has grown the heap at most once, and if it has, the *)
(* search that follows succeeds.                                           *)
GrowthInv ==
  call.op = "kmalloc" =>
    /\ call.need + HEAP_ALIGN < SIZE_MOD
    /\ \/ call.grows = 0
       \/ call.grows = 1 /\ Fits(call.need) # {}

(* A growth has room for what is needed beside its header, unless a sum of *)
(* heap_grow wraps around.                                                 *)
LEMMA GrowthRoom ==
  ASSUME NEW need \in Nat, need + HEAP_ALIGN < SIZE_MOD, GrowFrames(need) # 0
  PROVE  GrowFrames(need) * PAGE_SIZE - HEAP_ALIGN >= need
<1>1. PICK sum \in Nat : sum = need + HEAP_ALIGN
  BY Widths
<1>2. PICK bytes : bytes = IF sum < MIN_GROW THEN MIN_GROW ELSE sum
  OBVIOUS
<1>3. bytes \in Nat /\ bytes >= sum /\ bytes < SIZE_MOD
  BY <1>1, <1>2, SizesAssumption
<1>4. sum % SIZE_MOD = sum
  BY <1>1, Widths
<1>5. PICK top \in Nat : top = bytes + PAGE_SIZE - 1
  BY <1>3, Widths
<1>6. GrowFrames(need) = (top % SIZE_MOD) \div PAGE_SIZE
  BY <1>1, <1>2, <1>4, <1>5 DEF GrowFrames
<1>7. CASE top < SIZE_MOD
  <2>1. top % SIZE_MOD = top
    BY <1>7, Widths
  <2>2. top < (top \div PAGE_SIZE) * PAGE_SIZE + PAGE_SIZE
    BY Widths
  <2>3. (top \div PAGE_SIZE) * PAGE_SIZE \in Int
    BY Widths
  <2> QED
    BY <2>1, <2>2, <2>3, <1>1, <1>3, <1>5, <1>6, Widths
<1>8. CASE top >= SIZE_MOD
  <2>1. PAGE_SIZE <= SIZE_MOD
    <3> SUFFICES ASSUME SIZE_MOD < PAGE_SIZE PROVE FALSE
      BY Widths
    <3>1. SIZE_MOD % PAGE_SIZE = SIZE_MOD
      BY Widths
    <3> QED
      BY <3>1, SizesAssumption, Widths
  <2>2. PICK over \in Int : over = top - SIZE_MOD
    BY Widths
  <2>3. 0 <= over /\ over < PAGE_SIZE - 1 /\ over < SIZE_MOD
    BY <2>1, <2>2, <1>3, <1>5, <1>8, Widths
  <2>4. top % SIZE_MOD = over
    BY <2>2, <2>3, Widths
  <2>5. over \div PAGE_SIZE = 0
    BY <2>3, Widths
  <2> QED
    BY <2>4, <2>5, <1>6
<1> QED
  BY <1>5, <1>7, <1>8, Widths

(* kmalloc is entered.                                                     *)
LEMMA GrowthEnter ==
  ASSUME NoGrowthWraps, NEW h, NEW wanted, NEW size \in Requests, Enter(h, wanted, size)
  PROVE  GrowthInv'
BY DEF NoGrowthWraps, Enter, GrowthInv

(* A growth: what free_insert made of the new block fits.                  *)
LEMMA GrowthGrow ==
  ASSUME IInv, GrowthInv, Grow
  PROVE  GrowthInv'
<1>1. /\ call.op = "kmalloc" /\ Fits(call.need) = {}
      /\ call' = [call EXCEPT !.grows = @ + 1]
  BY DEF Grow
<1>2. call \in Calls /\ call.need \in Nat
  BY <1>1, CallTypes DEF IInv
<1>3. /\ call'.need = call.need /\ call'.grows = call.grows + 1
      /\ call.grows = 0 /\ call.need + HEAP_ALIGN < SIZE_MOD
  BY <1>1, <1>2 DEF GrowthInv, Calls
<1>4. /\ HeapInv' /\ GrowFrames(call.need) # 0
      /\ \E c \in Free(heap') :
           heap'.size[c] >= GrowFrames(call.need) * PAGE_SIZE - HEAP_ALIGN
  BY <1>2, Growth DEF IInv, Grow
<1>5. PICK c \in Free(heap') :
        heap'.size[c] >= GrowFrames(call.need) * PAGE_SIZE - HEAP_ALIGN
  BY <1>4
<1>6. PICK i \in DOMAIN heap'.free : heap'.free[i] = c
  BY DEF Free
<1>7. heap'.size[c] \in Nat
  BY <1>4, <1>6, ShapeTypes DEF HeapInv
<1>8. GrowFrames(call.need) * PAGE_SIZE \in Nat
  <2>1. GrowFrames(call.need) \in Nat
    BY <1>2, GrowFramesType
  <2> QED
    BY <2>1, Widths
<1>9. heap'.size[heap'.free[i]] >= call'.need
  BY <1>2, <1>3, <1>4, <1>5, <1>6, <1>7, <1>8, GrowthRoom, Widths
<1>10. Fits(call.need)' # {}
  BY <1>6, <1>9 DEF Fits
<1> QED
  BY <1>3, <1>10 DEF GrowthInv

(* Every step keeps GrowthInv.                                             *)
LEMMA GrowthNext ==
  ASSUME IInv, GrowthInv, NoGrowthWraps, [Next]_vars
  PROVE  GrowthInv'
<1>1. CASE call' = Idle
  BY <1>1 DEF GrowthInv, Idle
<1>2. CASE UNCHANGED vars
  BY <1>2 DEF GrowthInv, vars, Fits
<1>3. CASE call = Idle /\ UNCHANGED call
  BY <1>3 DEF GrowthInv, Idle
<1>4. CASE Step
  BY <1>1, <1>4, GrowthGrow DEF Step, kheap_init, Fit, GiveUp
<1>5. ASSUME NEW h \in Handles, NEW size \in Sizes,
             kmalloc(h, size) \/ krealloc(h, size)
      PROVE  GrowthInv'
  <2>1. size \in Requests
    BY DEF Requests
  <2>2. Enter(h, size, size) \/ (call = Idle /\ UNCHANGED call)
    BY <1>5 DEF kmalloc, krealloc, Drop, vars
  <2> QED
    BY <2>1, <2>2, <1>3, GrowthEnter
<1>6. ASSUME NEW h \in Handles, NEW a \in Arrays, kcalloc(h, a[1], a[2])
      PROVE  GrowthInv'
  <2>1. Product(a[1], a[2]) \in Requests
    BY DEF Requests
  <2>2. \/ Enter(h, a[1] * a[2], Product(a[1], a[2]))
        \/ call = Idle /\ UNCHANGED call
    BY <1>6 DEF kcalloc, vars
  <2> QED
    BY <2>1, <2>2, <1>3, GrowthEnter
<1>7. ASSUME NEW h \in Handles, kfree(h) PROVE GrowthInv'
  BY <1>3, <1>7 DEF kfree, Drop, vars
<1>8. CASE OtherTakes \/ OtherReturns
  BY <1>3, <1>8 DEF OtherTakes, OtherReturns
<1> QED
  BY <1>2, <1>4, <1>5, <1>6, <1>7, <1>8 DEF Next

(* OneGrowthSuffices: the loop of kmalloc never grows the heap twice,      *)
(* where no request is within two headers of the largest size_t.           *)
THEOREM OneGrowthCorrect ==
  ASSUME NoGrowthWraps
  PROVE  Spec => []OneGrowthSuffices
<1>1. Init => GrowthInv
  BY DEF Init, GrowthInv, Starting
<1>2. IInv /\ GrowthInv /\ [Next]_vars => GrowthInv'
  BY GrowthNext
<1>3. IInv /\ GrowthInv => OneGrowthSuffices
  BY CallTypes DEF IInv, GrowthInv, OneGrowthSuffices
<1> QED
  BY <1>1, <1>2, <1>3, InductiveCorrect, PTL DEF Spec

-----------------------------------------------------------------------------
(***************************************************************************)
(* Refinement of Heap.                                                     *)
(***************************************************************************)

(* The payloads of two blocks have no byte in common.                      *)
LEMMA PayloadsApart ==
  ASSUME NEW H, Shape(H), NEW b \in DOMAIN H.size, NEW c \in DOMAIN H.size, b # c
  PROVE  Promised!Region(Payload(b), H.size[b])
           \cap Promised!Region(Payload(c), H.size[c]) = {}
<1>1. /\ b \in Nat /\ H.size[b] \in Nat /\ block_end(H, b) = Payload(b) + H.size[b]
      /\ c \in Nat /\ H.size[c] \in Nat /\ block_end(H, c) = Payload(c) + H.size[c]
  BY ShapeTypes DEF block_end
<1>2. Payload(b) \in Nat /\ Payload(c) \in Nat
  BY <1>1, Widths DEF Payload
<1>3. ASSUME NEW x \in Promised!Region(Payload(b), H.size[b])
      PROVE  x \notin Promised!Region(Payload(c), H.size[c])
  <2>1. x \in Int /\ Payload(b) <= x /\ x < block_end(H, b)
    BY <1>1, <1>2 DEF Promised!Region
  <2>2. ~(Payload(c) <= x /\ x < block_end(H, c))
    BY <2>1, PayloadApart
  <2> QED
    BY <2>2, <1>1, <1>2 DEF Promised!Region
<1> QED
  BY <1>3

(* The heap's memory is what its blocks cover.                             *)
LEMMA MemoryCovered ==
  ASSUME IInv, NEW x \in Int
  PROVE  x \in Memory <=> Covers(heap, x)
<1>1. ASSUME NEW f \in grown
      PROVE  x \in (f * PAGE_SIZE) .. ((f + 1) * PAGE_SIZE - 1) <=> PageHolds(f, x)
  <2>1. f \in Nat
    BY PoolAssumption DEF IInv, FramesInv
  <2>2. f * PAGE_SIZE \in Int /\ (f + 1) * PAGE_SIZE = f * PAGE_SIZE + PAGE_SIZE
    BY <2>1, Widths
  <2> QED
    BY <2>2, Widths DEF PageHolds
<1>2. Covers(heap, x) <=> \E f \in grown : PageHolds(f, x)
  BY DEF IInv, HeapInv
<1> QED
  BY <1>1, <1>2 DEF Memory

(* No frame but the null page's holds address 0.                           *)
LEMMA NullOutside ==
  ASSUME NEW S \in SUBSET (Nat \ {0})
  PROVE  0 \notin UNION {(f * PAGE_SIZE) .. ((f + 1) * PAGE_SIZE - 1) : f \in S}
<1>1. ASSUME NEW f \in S
      PROVE  0 \notin (f * PAGE_SIZE) .. ((f + 1) * PAGE_SIZE - 1)
  <2>1. f \in Nat \ {0}
    OBVIOUS
  <2>2. (f - 1) * PAGE_SIZE \in Nat /\ f * PAGE_SIZE = (f - 1) * PAGE_SIZE + PAGE_SIZE
    BY <2>1, Widths
  <2> QED
    BY <2>2, Widths
<1> QED
  BY <1>1

(* Where blocks in use keep their sizes and pointers stay, rooms do.       *)
LEMMA RoomsKept ==
  ASSUME IInv, ptr' = ptr, \A b \in Used(heap) : heap'.size[b] = heap.size[b]
  PROVE  Room' = Room
<1>1. ASSUME NEW h \in Handles, ptr[h] # NULL
      PROVE  heap'.size[BlockOf(ptr[h])] = heap.size[BlockOf(ptr[h])]
  BY <1>1 DEF IInv, OwnerInv, Live
<1>2. Room = [h \in Handles |-> IF ptr[h] = NULL THEN 0 ELSE heap.size[BlockOf(ptr[h])]]
  BY DEF Room
<1>3. Room' = [h \in Handles |-> IF ptr[h] = NULL THEN 0 ELSE heap'.size[BlockOf(ptr[h])]]
  BY DEF Room
<1> QED
  BY <1>1, <1>2, <1>3, Zenon

(* What is pending, by the state of the call.                              *)
LEMMA PendingCalls ==
  /\ call.op # "kmalloc" => Pending = Promised!None
  /\ call.op = "kmalloc" => Pending = <<call.h, call.asked>>
  /\ call = Idle => Pending = Promised!None
  /\ call = Starting => Pending = Promised!None
BY DEF Pending, Promised!None, Idle, Starting

(* A growth, of kheap_init or of kmalloc, extends the memory.              *)
LEMMA GrowthRefines ==
  ASSUME IInv, IInv', NEW need \in Nat, NEW f \in available, GrowWith(need, f),
         ptr' = ptr, asked' = asked, Pending' = Pending
  PROVE  Promised!Extend
<1>1. \A b \in Used(heap) : heap'.size[b] = heap.size[b]
  BY Growth DEF IInv
<1>2. Room' = Room
  BY <1>1, RoomsKept
<1>3. Memory \subseteq Memory'
  <2>1. grown \subseteq grown'
    BY DEF GrowWith
  <2> QED
    BY <2>1 DEF Memory
<1>4. Promised!NULL \notin Memory'
  <2>1. grown' \in SUBSET (Nat \ {0})
    BY PoolAssumption DEF IInv, FramesInv
  <2> QED
    BY <2>1, NullOutside DEF Memory, Promised!NULL
<1> QED
  BY <1>2, <1>3, <1>4 DEF Promised!Extend

(* A call enters kmalloc.                                                  *)
LEMMA EnterRefines ==
  ASSUME IInv, call = Idle, NEW h \in Handles, NEW wanted \in Nat \ {0}, NEW size,
         Enter(h, wanted, size)
  PROVE  Promised!Next
<1>1. Pending = Promised!None
  BY PendingCalls
<1>2. Pending' = <<h, wanted>>
  BY DEF Enter, Pending
<1>3. Memory' = Memory /\ Room' = Room
  BY DEF Enter, userVars, Memory, Room
<1>4. Promised!Request(h, wanted)
  BY <1>1, <1>2, <1>3 DEF Promised!Request, Enter, userVars
<1>5. <<h, wanted>> # Promised!None /\ <<h, wanted>>[2] = wanted
  BY DEF Promised!None
<1>6. Pending' # Promised!None /\ Promised!Request(h, Pending'[2])
  BY <1>2, <1>4, <1>5
<1> QED
  BY <1>6 DEF Promised!Next

(* A block is freed.                                                       *)
LEMMA DropRefines ==
  ASSUME IInv, IInv', call = Idle, NEW h \in Live, Drop(h)
  PROVE  Promised!Release(h)
<1>1. /\ call' = call /\ grown' = grown
      /\ ptr' = [ptr EXCEPT ![h] = NULL]
      /\ asked' = [asked EXCEPT ![h] = 0]
  BY DEF Drop
<1>2. Pending = Promised!None /\ Pending' = Pending /\ Memory' = Memory
  BY <1>1, PendingCalls DEF Pending, Memory
<1>3. ASSUME NEW g \in Live, g # h
      PROVE  heap'.size[BlockOf(ptr[g])] = heap.size[BlockOf(ptr[g])]
  <2>1. ptr[g] # ptr[h]
    BY <1>3 DEF IInv, OwnerInv
  <2>2. BlockOf(ptr[g]) # BlockOf(ptr[h])
    BY <2>1, LiveTypes, BlockNames
  <2>3. BlockOf(ptr[g]) \in Used(heap')
    BY <2>2, LiveTypes, DropBlock
  <2> QED
    BY <2>3, DropBlock
<1>4. h \in Handles /\ ptr[h] # NULL /\ ptr \in [Handles -> Nat]
  BY DEF Live, IInv, OwnerInv
<1>5. \A g \in Handles : ptr'[g] = IF g = h THEN NULL ELSE ptr[g]
  BY <1>1, <1>4
<1>6. Room' = [g \in Handles |-> IF ptr'[g] = NULL THEN 0 ELSE heap'.size[BlockOf(ptr'[g])]]
  BY DEF Room
<1>7. Room = [g \in Handles |-> IF ptr[g] = NULL THEN 0 ELSE heap.size[BlockOf(ptr[g])]]
  BY DEF Room
<1>8. \A g \in Handles : Room'[g] = IF g = h THEN 0 ELSE Room[g]
  BY <1>3, <1>5, <1>6, <1>7 DEF Live
<1>9. Room' = [Room EXCEPT ![h] = 0]
  BY <1>6, <1>7, <1>8, Zenon
<1> QED
  BY <1>1, <1>2, <1>4, <1>9 DEF Promised!Release, Promised!NULL, NULL

(* krealloc answers with the block it was called with.                     *)
LEMMA InPlaceRefines ==
  ASSUME IInv, call = Idle, NEW h \in Live, NEW size \in Nat \ {0},
         heap.size[BlockOf(ptr[h])] >= size,
         asked' = [asked EXCEPT ![h] = size],
         UNCHANGED <<heap, ptr, call, grown>>
  PROVE  Promised!Resize(h, size)
<1>1. Pending = Promised!None /\ Pending' = Pending /\ Memory' = Memory /\ Room' = Room
  BY PendingCalls DEF Pending, Memory, Room
<1>2. h \in Handles /\ ptr[h] # NULL
  BY DEF Live
<1>3. Room[h] = heap.size[BlockOf(ptr[h])] /\ Room[h] \in Nat
  BY <1>2, LiveTypes DEF Room
<1>4. size \in 1 .. Room[h]
  BY <1>3
<1> QED
  BY <1>1, <1>2, <1>4 DEF Promised!Resize, Promised!NULL, NULL

(* A search of kmalloc succeeds: what it returns is nobody's, not even the *)
(* block that krealloc is about to copy and free.                          *)
LEMMA FitRefines ==
  ASSUME IInv, IInv', RoomInv, Fit
  PROVE  \E h \in Handles : Promised!Grant(h, ptr'[h], Room'[h])
<1>1. call.op = "kmalloc" /\ call' = Idle /\ grown' = grown
  BY DEF Fit
<1>2. PICK k \in Fits(call.need) :
        /\ heap' = IF ptr[call.h] = NULL THEN Take(heap, k, call.need)
                   ELSE free_insert(Take(heap, k, call.need), BlockOf(ptr[call.h]))
        /\ ptr' = [ptr EXCEPT ![call.h] = Payload(heap.free[k])]
        /\ asked' = [asked EXCEPT ![call.h] = call.asked]
  BY Zenon DEF Fit
<1>3. PICK b : b = heap.free[k]
  OBVIOUS
<1>4. PICK taken : taken = Take(heap, k, call.need)
  OBVIOUS
<1>5. PICK h : h = call.h
  OBVIOUS
<1>6. /\ h \in Handles /\ call.need \in Nat /\ Aligned(call.need)
      /\ call.asked \in Nat \ {0} /\ call.need >= call.asked
      /\ Shape(heap) /\ ApartExcept(heap, {})
      /\ ptr \in [Handles -> Nat] /\ asked \in [Handles -> 0 .. (SIZE_MOD - 1)]
  BY <1>1, <1>5, CallTypes DEF IInv, RoomInv, HeapInv, OwnerInv, UserInv
<1>7. /\ heap' = IF ptr[h] = NULL THEN taken ELSE free_insert(taken, BlockOf(ptr[h]))
      /\ ptr' = [ptr EXCEPT ![h] = Payload(b)]
      /\ asked' = [asked EXCEPT ![h] = call.asked]
  BY <1>2, <1>3, <1>4, <1>5
<1>8. k \in DOMAIN heap.free /\ heap.size[b] >= call.need
  BY <1>3 DEF Fits
<1>9. /\ Shape(taken) /\ ApartExcept(taken, {})
      /\ b \in Nat /\ b \notin Used(heap)
      /\ Used(taken) = Used(heap) \cup {b}
      /\ \A a \in Used(heap) : taken.size[a] = heap.size[a]
      /\ taken.size[b] >= call.need
      /\ \A x \in Int : Covers(taken, x) <=> Covers(heap, x)
  BY <1>3, <1>4, <1>6, <1>8, TakeFit
<1>10. \A g \in Live : /\ BlockOf(ptr[g]) \in Used(heap) /\ BlockOf(ptr[g]) # b
                       /\ taken.size[BlockOf(ptr[g])] = heap.size[BlockOf(ptr[g])]
  BY <1>9, LiveTypes
<1>11. /\ heap'.size[b] = taken.size[b]
       /\ \A g \in Live : g # h =>
            heap'.size[BlockOf(ptr[g])] = heap.size[BlockOf(ptr[g])]
  <2>1. CASE ptr[h] = NULL
    BY <2>1, <1>7, <1>10
  <2>2. CASE ptr[h] # NULL
    <3>1. h \in Live
      BY <2>2, <1>6 DEF Live
    <3>2. BlockOf(ptr[h]) \in Used(taken) /\ BlockOf(ptr[h]) # b
      BY <3>1, <1>9, <1>10
    <3>3. /\ Used(heap') = Used(taken) \ {BlockOf(ptr[h])}
          /\ \A a \in Used(heap') : heap'.size[a] = taken.size[a]
      BY <3>2, <2>2, <1>7, <1>9, FreeInsert
    <3>4. heap'.size[b] = taken.size[b]
      BY <3>2, <3>3, <1>9
    <3>5. ASSUME NEW g \in Live, g # h
          PROVE  heap'.size[BlockOf(ptr[g])] = heap.size[BlockOf(ptr[g])]
      <4>1. ptr[g] # ptr[h]
        BY <3>1, <3>5 DEF IInv, OwnerInv
      <4>2. BlockOf(ptr[g]) # BlockOf(ptr[h])
        BY <4>1, <3>1, LiveTypes, BlockNames
      <4>3. BlockOf(ptr[g]) \in Used(heap')
        BY <4>2, <3>3, <1>9, <1>10
      <4> QED
        BY <4>3, <3>3, <1>10
    <3> QED
      BY <3>4, <3>5
  <2> QED
    BY <2>1, <2>2
<1>12. PICK p : p = Payload(b)
  OBVIOUS
<1>13. PICK r : r = taken.size[b]
  OBVIOUS
<1>14. /\ b \in DOMAIN taken.size /\ r \in Nat /\ p \in Nat /\ p # NULL
       /\ BlockOf(p) = b /\ block_end(taken, b) = p + r /\ b <= p
  <2>1. b \in DOMAIN taken.size
    BY <1>9 DEF Used
  <2> QED
    BY <2>1, <1>9, <1>12, <1>13, ShapeTypes, Widths DEF Payload, BlockOf, NULL, block_end
<1>15. ptr'[h] = p /\ \A g \in Handles : g # h => ptr'[g] = ptr[g]
  BY <1>6, <1>7, <1>12
<1>16. Room' = [Room EXCEPT ![h] = r] /\ Room'[h] = r
  <2>1. Room = [g \in Handles |-> IF ptr[g] = NULL THEN 0 ELSE heap.size[BlockOf(ptr[g])]]
    BY DEF Room
  <2>2. Room' = [g \in Handles |->
                   IF ptr'[g] = NULL THEN 0 ELSE heap'.size[BlockOf(ptr'[g])]]
    BY DEF Room
  <2>3. Room'[h] = r
    BY <2>2, <1>6, <1>11, <1>13, <1>14, <1>15
  <2>4. \A g \in Handles : g # h => Room'[g] = Room[g]
    BY <2>1, <2>2, <1>11, <1>15 DEF Live
  <2> QED
    BY <2>1, <2>2, <2>3, <2>4, <1>6, Zenon
<1>17. Promised!Placed(p, r)
  <2>1. p % HEAP_ALIGN = 0
    <3>1. Aligned(b) /\ b \in Int
      BY <1>14, <1>9 DEF Shape
    <3>2. Aligned(p) /\ p \in Int
      BY <3>1, <1>12, <1>14, AlignedUnit, AlignedSum, Widths DEF Payload
    <3> QED
      BY <3>2, AlignedRemainder
  <2>2. ASSUME NEW x \in Promised!Region(p, r) PROVE x \in Memory
    <3>1. x \in Int /\ p <= x /\ x < p + r
      BY <1>14 DEF Promised!Region
    <3>2. b <= x /\ x < block_end(taken, b)
      BY <3>1, <1>9, <1>14
    <3>3. Covers(taken, x)
      BY <3>2, <1>14 DEF Covers
    <3> QED
      BY <3>1, <3>3, <1>9, MemoryCovered
  <2>3. ASSUME NEW g \in Promised!Live
        PROVE  Promised!Region(p, r) \cap Promised!Region(ptr[g], Room[g]) = {}
    <3>1. g \in Live
      BY DEF Promised!Live, Live, Promised!NULL, NULL
    <3>2. PICK c : c = BlockOf(ptr[g])
      OBVIOUS
    <3>3. /\ c \in DOMAIN taken.size /\ c # b /\ ptr[g] = Payload(c)
          /\ Room[g] = taken.size[c]
      <4>1. c \in DOMAIN taken.size /\ c # b
        BY <3>1, <3>2, <1>9, <1>10 DEF Used
      <4>2. ptr[g] = Payload(c)
        BY <3>1, <3>2, LiveTypes DEF Payload
      <4>3. Room[g] = heap.size[c]
        BY <3>1, <3>2 DEF Room, Live
      <4> QED
        BY <4>1, <4>2, <4>3, <3>1, <3>2, <1>10
    <3> QED
      BY <3>3, <1>9, <1>12, <1>13, <1>14, PayloadsApart
  <2> QED
    BY <2>1, <2>2, <2>3, <1>14 DEF Promised!Placed, Promised!NULL, NULL
<1>18. /\ Pending = <<h, call.asked>> /\ Pending' = Promised!None /\ Memory' = Memory
  BY <1>1, <1>5, PendingCalls DEF Pending, Idle, Promised!None, Memory
<1>19. call.asked \in 1 .. r
  BY <1>6, <1>9, <1>13, <1>14
<1>20. Promised!Grant(h, p, r)
  BY <1>7, <1>12, <1>16, <1>17, <1>18, <1>19 DEF Promised!Grant
<1> QED
  BY <1>20, <1>6, <1>15, <1>16

(* krealloc.                                                               *)
LEMMA KreallocRefines ==
  ASSUME IInv, IInv', NoRoundingWraps,
         NEW h \in Handles, NEW size \in Sizes, krealloc(h, size)
  PROVE  Promised!Next
<1>1. /\ size \in Nat /\ size \in Requests /\ h \in Live /\ call = Idle
  BY SizesAssumption DEF krealloc, Live, Requests
<1>2. CASE Drop(h)
  BY <1>1, <1>2, DropRefines DEF Promised!Next
<1>3. CASE /\ size # 0
           /\ heap.size[BlockOf(ptr[h])] >= align_up(size)
           /\ asked' = [asked EXCEPT ![h] = size]
           /\ UNCHANGED <<heap, ptr, call, grown, frameVars>>
  <2>1. align_up(size) >= size /\ align_up(size) \in Nat
    BY <1>1, AlignUpBound, AlignUpType DEF NoRoundingWraps
  <2>2. heap.size[BlockOf(ptr[h])] >= size
    BY <2>1, <1>1, <1>3, LiveTypes
  <2>3. Promised!Resize(h, size)
    BY <2>2, <1>1, <1>3, InPlaceRefines
  <2>4. asked'[h] = size
    BY <1>3 DEF IInv, UserInv
  <2> QED
    BY <2>3, <2>4 DEF Promised!Next
<1>4. CASE size # 0 /\ Enter(h, size, size)
  <2>1. size \in Nat \ {0}
    BY <1>1, <1>4
  <2> QED
    BY <2>1, <1>1, <1>4, EnterRefines
<1> QED
  BY <1>2, <1>3, <1>4 DEF krealloc

(* Every step of the heap is a step of Heap, or none.                      *)
LEMMA NextRefines ==
  ASSUME IInv, IInv', RoomInv, NoRoundingWraps, [Next]_vars
  PROVE  Promised!Next \/ UNCHANGED Promised!heapVars
<1>1. CASE kheap_init
  <2>1. /\ call = Starting /\ call' = Idle /\ ptr' = ptr /\ asked' = asked
    BY <1>1 DEF kheap_init, userVars
  <2>2. Pending' = Pending
    BY <2>1 DEF Pending, Idle, Starting
  <2>3. CASE \E f \in available : GrowWith(MIN_GROW, f)
    BY <2>1, <2>2, <2>3, GrowthRefines, Widths DEF Promised!Next
  <2>4. CASE GrowRefused(MIN_GROW)
    BY <2>1, <2>2, <2>4 DEF GrowRefused, Promised!heapVars, Memory, Room
  <2> QED
    BY <1>1, <2>3, <2>4 DEF kheap_init
<1>2. CASE Fit
  BY <1>2, FitRefines DEF Promised!Next
<1>3. CASE Grow
  <2>1. /\ call \in Calls /\ call.need \in Nat /\ call.op = "kmalloc"
        /\ call' = [call EXCEPT !.grows = @ + 1] /\ ptr' = ptr /\ asked' = asked
    BY <1>3, CallTypes DEF IInv, Grow
  <2>2. call'.op = call.op /\ call'.h = call.h /\ call'.asked = call.asked
    BY <2>1 DEF Calls
  <2>3. Pending' = Pending
    BY <2>2 DEF Pending
  <2>4. PICK f \in available : GrowWith(call.need, f)
    BY <1>3 DEF Grow
  <2> QED
    BY <2>1, <2>3, <2>4, GrowthRefines DEF Promised!Next
<1>4. CASE GiveUp
  <2>1. /\ call.op = "kmalloc" /\ call' = Idle /\ UNCHANGED <<heap, grown, ptr, asked>>
    BY <1>4 DEF GiveUp, GrowRefused, userVars
  <2>2. Pending # Promised!None /\ Pending' = Promised!None
    BY <2>1 DEF Pending, Promised!None, Idle
  <2>3. Promised!Refuse
    BY <2>1, <2>2 DEF Promised!Refuse, Memory, Room
  <2> QED
    BY <2>3 DEF Promised!Next
<1>5. CASE OtherTakes \/ OtherReturns \/ UNCHANGED vars
  <2>1. UNCHANGED <<heap, userVars, call, grown>>
    BY <1>5 DEF OtherTakes, OtherReturns, vars
  <2> QED
    BY <2>1 DEF userVars, Promised!heapVars, Memory, Room, Pending
<1>6. ASSUME NEW h \in Handles, NEW size \in Sizes, kmalloc(h, size)
      PROVE  Promised!Next \/ UNCHANGED vars
  <2>1. size \in Nat /\ call = Idle
    BY <1>6, SizesAssumption DEF kmalloc
  <2>2. CASE size # 0
    <3>1. size \in Nat \ {0} /\ Enter(h, size, size)
      BY <1>6, <2>1, <2>2 DEF kmalloc
    <3> QED
      BY <3>1, <2>1, EnterRefines
  <2> QED
    BY <1>6, <2>2 DEF kmalloc
<1>7. ASSUME NEW h \in Handles, NEW a \in Arrays, kcalloc(h, a[1], a[2])
      PROVE  Promised!Next \/ UNCHANGED vars
  <2>1. call = Idle
    BY <1>7 DEF kcalloc
  <2>2. CASE Product(a[1], a[2]) # 0
    <3>1. a[1] \in 0 .. (SIZE_MOD - 1) /\ a[2] \in 0 .. (SIZE_MOD - 1)
      BY SizesAssumption
    <3>2. a[1] * a[2] \in Nat \ {0}
      BY <3>1, <2>2, ProductType
    <3>3. Enter(h, a[1] * a[2], Product(a[1], a[2]))
      BY <1>7, <2>2 DEF kcalloc
    <3> QED
      BY <3>2, <3>3, <2>1, EnterRefines
  <2> QED
    BY <1>7, <2>2 DEF kcalloc
<1>8. ASSUME NEW h \in Handles, kfree(h)
      PROVE  Promised!Next \/ UNCHANGED vars
  <2>1. CASE ptr[h] # NULL
    <3>1. h \in Live /\ Drop(h) /\ call = Idle
      BY <1>8, <2>1 DEF kfree, Live
    <3> QED
      BY <3>1, DropRefines DEF Promised!Next
  <2> QED
    BY <1>8, <2>1 DEF kfree
<1> QED
  BY <1>1, <1>2, <1>3, <1>4, <1>5, <1>6, <1>7, <1>8, KreallocRefines DEF Next, Step

(* kalloc.c implements Heap: no history of splits, merges and growths ever *)
(* lets a caller see more than kalloc.h promises, under the same condition *)
(* on the sizes.                                                           *)
THEOREM Refinement ==
  ASSUME NoRoundingWraps
  PROVE  Spec => Implements
<1>1. Init => RoomInv /\ Promised!Init
  <2> SUFFICES ASSUME Init PROVE RoomInv /\ Promised!Init
    OBVIOUS
  <2>1. Live = {} /\ call.op # "kmalloc"
    BY DEF Init, Live, Starting
  <2>2. RoomInv
    BY <2>1 DEF RoomInv
  <2>3. Memory = {} /\ Room = [h \in Handles |-> 0] /\ Pending = Promised!None
    BY <2>1 DEF Init, Memory, Room, Pending, Promised!None, NULL
  <2> QED
    BY <2>2, <2>3 DEF Init, Promised!Init, Promised!NULL, NULL
<1>2. IInv /\ RoomInv /\ [Next]_vars => RoomInv'
  BY RoomNext
<1>3. IInv /\ IInv' /\ RoomInv /\ [Next]_vars
        => [Promised!Next]_(Promised!heapVars)
  BY NextRefines
<1> QED
  BY <1>1, <1>2, <1>3, InductiveCorrect, PTL DEF Spec, Implements, Promised!Spec
=============================================================================
