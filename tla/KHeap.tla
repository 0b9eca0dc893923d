------------------------------- MODULE KHeap --------------------------------
(***************************************************************************)
(* The kernel heap, src/kernel/memory/kalloc.c: a first-fit list of free   *)
(* blocks in address order, each block a header and its payload, grown by  *)
(* runs of frames from the physical allocator.                             *)
(*                                                                         *)
(* The physical allocator is FrameAllocator, so the heap is checked with   *)
(* every placement of frames that allocator may choose, and beside other   *)
(* callers of it.  Nothing preempts a heap call; the loop of kmalloc is    *)
(* still several steps, one for each growth and one for the block taken,   *)
(* and `call` holds the call in progress meanwhile.                        *)
(*                                                                         *)
(* Addresses are physical byte addresses: hhdm_off, which the code adds to *)
(* every one of them, shifts them all alike.                               *)
(***************************************************************************)
EXTENDS Integers, Sequences, FiniteSets, SequencesExt

CONSTANTS
  Handles,      \* the kernel's variables that hold pointers to blocks
  Sizes,        \* sizes asked of kmalloc and krealloc
  Arrays,       \* pairs <<n, size>> asked of kcalloc
  Pool,         \* the frames that are free when the heap starts
  PAGE_SIZE,
  HEAP_ALIGN,   \* alignment of blocks, and the size of a header
  MIN_GROW,     \* the least the heap grows by, in bytes
  SIZE_MOD      \* one more than the largest size_t

ASSUME SizesAssumption ==
  /\ PAGE_SIZE \in Nat \ {0} /\ HEAP_ALIGN \in Nat \ {0}
  /\ SIZE_MOD \in Nat /\ MIN_GROW \in 1 .. (SIZE_MOD - 1)
  /\ PAGE_SIZE % HEAP_ALIGN = 0 /\ SIZE_MOD % PAGE_SIZE = 0
  /\ Sizes \subseteq 0 .. (SIZE_MOD - 1)
  /\ Arrays \subseteq (0 .. (SIZE_MOD - 1)) \X (0 .. (SIZE_MOD - 1))

ASSUME PoolAssumption ==
  Pool \subseteq Nat \ {0} /\ \A f \in Pool : (f + 1) * PAGE_SIZE < SIZE_MOD

VARIABLES
  heap,       \* the free list, and the size field of every header
  ptr,        \* what each handle holds: a payload's address, or 0 for NULL
  asked,      \* how many bytes it asked for
  intact,     \* which of them still hold what was written there
  call,       \* the call in progress
  grown,      \* the frames the heap has been given
  available,  \* the state of the frame allocator
  held,
  result

frameVars == <<available, held, result>>
userVars  == <<ptr, asked, intact>>
vars == <<heap, userVars, call, grown, frameVars>>

Frames == INSTANCE FrameAllocator

NULL == 0
Idle == [op |-> "idle"]
Starting == [op |-> "kheap_init"]

\* No pointer is held: the handle's record of a block is blank.
Init ==
  /\ heap = [free |-> << >>, size |-> << >>]
  /\ ptr = [h \in Handles |-> NULL]
  /\ asked = [h \in Handles |-> 0]
  /\ intact = [h \in Handles |-> {}]
  /\ call = Starting
  /\ grown = {}
  /\ available = Pool /\ held = {} /\ result = Frames!NoResult

-----------------------------------------------------------------------------
(***************************************************************************)
(* Sizes.  size_t arithmetic wraps around at SIZE_MOD.                     *)
(***************************************************************************)

\* Rounding down, as without the HEAP_ALIGN - 1.
align_up_Down(v) == (v \div HEAP_ALIGN) * HEAP_ALIGN

align_up(v) == (((v + HEAP_ALIGN - 1) % SIZE_MOD) \div HEAP_ALIGN) * HEAP_ALIGN

\* How many frames a growth for `need` bytes asks for, when the header is
\* not added to what is needed.
GrowFrames_NoHeader(need) ==
  LET bytes == IF need < MIN_GROW THEN MIN_GROW ELSE need
  IN  ((bytes + PAGE_SIZE - 1) % SIZE_MOD) \div PAGE_SIZE

\* How many frames heap_grow(need) asks for.
GrowFrames(need) ==
  LET sum   == (need + HEAP_ALIGN) % SIZE_MOD
      bytes == IF sum < MIN_GROW THEN MIN_GROW ELSE sum
  IN  ((bytes + PAGE_SIZE - 1) % SIZE_MOD) \div PAGE_SIZE

-----------------------------------------------------------------------------
(***************************************************************************)
(* Blocks.  A block is named by the address of its header.                 *)
(***************************************************************************)

Payload(b) == b + HEAP_ALIGN
BlockOf(p) == p - HEAP_ALIGN
block_end(H, b) == Payload(b) + H.size[b]
Extent(H, b) == b .. (block_end(H, b) - 1)

\* How many blocks of a free list the search of free_insert passes.
Passed(free, b) ==
  CHOOSE k \in 0 .. Len(free) :
    /\ \A i \in 1 .. k : free[i] < b
    /\ k = Len(free) \/ free[k + 1] >= b

\* Neighbours in the list are merged without a look at their addresses.
Coalesce_AcrossGap(H, k) ==
  IF k \in 1 .. (Len(H.free) - 1)
  THEN LET b == H.free[k]
           c == H.free[k + 1]
       IN  [free |-> RemoveAt(H.free, k + 1),
            size |-> [a \in DOMAIN H.size \ {c} |->
                        IF a = b THEN H.size[b] + HEAP_ALIGN + H.size[c]
                                 ELSE H.size[a]]]
  ELSE H

\* The kth block of the free list takes in the next one if that is adjacent.
Coalesce(H, k) ==
  IF /\ k \in 1 .. (Len(H.free) - 1)
     /\ block_end(H, H.free[k]) = H.free[k + 1]
  THEN LET b == H.free[k]
           c == H.free[k + 1]
       IN  [free |-> RemoveAt(H.free, k + 1),
            size |-> [a \in DOMAIN H.size \ {c} |->
                        IF a = b THEN H.size[b] + HEAP_ALIGN + H.size[c]
                                 ELSE H.size[a]]]
  ELSE H

\* Coalescing with the next block only.
free_insert_ForwardOnly(H, b) ==
  LET k == Passed(H.free, b)
  IN  Coalesce([H EXCEPT !.free = InsertAt(@, k + 1, b)], k + 1)

\* Block b joins the free list and merges with the block after it and then
\* with the block before it.
free_insert(H, b) ==
  LET k      == Passed(H.free, b)
      linked == [H EXCEPT !.free = InsertAt(@, k + 1, b)]
  IN  Coalesce(Coalesce(linked, k + 1), k)

\* A block taken whole is left in the free list.
Take_LeftInList(H, k, need) ==
  LET b    == H.free[k]
      rest == Payload(b) + need
  IN  IF H.size[b] >= need + HEAP_ALIGN + HEAP_ALIGN
      THEN [free |-> [H.free EXCEPT ![k] = rest],
            size |-> [a \in DOMAIN H.size \cup {rest} |->
                        CASE a = b    -> need
                          [] a = rest -> H.size[b] - need - HEAP_ALIGN
                          [] OTHER    -> H.size[a]]]
      ELSE H

\* The kth free block is taken for `need` bytes; what it has over is split
\* off when that can hold a header and the least payload.
Take(H, k, need) ==
  LET b    == H.free[k]
      rest == Payload(b) + need
  IN  IF H.size[b] >= need + HEAP_ALIGN + HEAP_ALIGN
      THEN [free |-> [H.free EXCEPT ![k] = rest],
            size |-> [a \in DOMAIN H.size \cup {rest} |->
                        CASE a = b    -> need
                          [] a = rest -> H.size[b] - need - HEAP_ALIGN
                          [] OTHER    -> H.size[a]]]
      ELSE [H EXCEPT !.free = RemoveAt(@, k)]

\* Where in the free list there is a block large enough.
Fits(need) == {k \in DOMAIN heap.free : heap.size[heap.free[k]] >= need}

\* The bytes of all headers.
Headers(H) == UNION {b .. (b + HEAP_ALIGN - 1) : b \in DOMAIN H.size}

\* What stays intact of every handle's bytes when those at `written` change.
Spared(written) ==
  [g \in Handles |-> {i \in intact[g] : (ptr[g] + i) \notin written}]

-----------------------------------------------------------------------------
(***************************************************************************)
(* Growing                                                                 *)
(***************************************************************************)

\* The header of a block of new memory is written; no list holds it yet.
WithBlock(H, b, size) ==
  [H EXCEPT !.size = [a \in DOMAIN H.size \cup {b} |->
                        IF a = b THEN size ELSE H.size[a]]]

\* heap_grow(need), met with the run of frames from f on.
GrowWith(need, f) ==
  LET n == GrowFrames(need)
      b == f * PAGE_SIZE
      fresh == WithBlock(heap, b, n * PAGE_SIZE - HEAP_ALIGN)
  IN  /\ Frames!Allocate(n, f)
      /\ grown' = grown \cup Frames!Run(f, n)
      /\ heap' = free_insert(fresh, b)

\* heap_grow(need), returning 0.
GrowRefused(need) ==
  /\ Frames!Refuse(GrowFrames(need))
  /\ UNCHANGED <<heap, grown>>

(* kheap_init: a first growth, whose failure is ignored.                   *)
kheap_init ==
  /\ call = Starting
  /\ call' = Idle
  /\ (\E f \in available : GrowWith(MIN_GROW, f)) \/ GrowRefused(MIN_GROW)
  /\ UNCHANGED userVars

-----------------------------------------------------------------------------
(***************************************************************************)
(* Allocating.  A call enters the loop of kmalloc with the aligned size it *)
(* needs; `asked` is the number of bytes its caller means to use.          *)
(***************************************************************************)

Enter(h, wanted, size) ==
  /\ call' = [op |-> "kmalloc", h |-> h, asked |-> wanted,
              need |-> align_up(size), grows |-> 0]
  /\ UNCHANGED <<heap, userVars, grown, frameVars>>

(* kmalloc(size), up to its loop.                                          *)
kmalloc(h, size) ==
  /\ call = Idle /\ ptr[h] = NULL
  /\ IF size = 0 THEN UNCHANGED vars ELSE Enter(h, size, size)

\* kcalloc's product without its test for overflow.
Product_Unchecked(n, size) == (n * size) % SIZE_MOD

\* The bytes kcalloc(n, size) asks of kmalloc; 0 where it returns NULL.
Product(n, size) ==
  IF n # 0 /\ size > (SIZE_MOD - 1) \div n THEN 0 ELSE (n * size) % SIZE_MOD

(* kcalloc(n, size), up to the loop of the kmalloc it calls.               *)
kcalloc(h, n, size) ==
  /\ call = Idle /\ ptr[h] = NULL
  /\ IF Product(n, size) = 0 THEN UNCHANGED vars
     ELSE Enter(h, n * size, Product(n, size))

\* free_insert(BlockOf(ptr[h])) and the handle forgets the block.
Drop(h) ==
  /\ heap' = free_insert(heap, BlockOf(ptr[h]))
  /\ ptr' = [ptr EXCEPT ![h] = NULL]
  /\ asked' = [asked EXCEPT ![h] = 0]
  /\ intact' = [Spared(Headers(heap')) EXCEPT ![h] = {}]
  /\ UNCHANGED <<call, grown, frameVars>>

(* kfree(ptr[h]).                                                          *)
kfree(h) ==
  /\ call = Idle
  /\ IF ptr[h] = NULL THEN UNCHANGED vars ELSE Drop(h)

(* krealloc(ptr[h], size): the answers that need no new block, or entry    *)
(* into kmalloc.                                                           *)
krealloc(h, size) ==
  /\ call = Idle /\ ptr[h] # NULL
  /\ \/ size = 0 /\ Drop(h)
     \/ /\ size # 0
        /\ heap.size[BlockOf(ptr[h])] >= align_up(size)
        /\ asked' = [asked EXCEPT ![h] = size]
        /\ intact' = [Spared(ptr[h] .. (ptr[h] + size - 1)) EXCEPT
                        ![h] = {i \in intact[h] : i < size} \cup asked[h] .. (size - 1)]
        /\ UNCHANGED <<heap, ptr, call, grown, frameVars>>
     \/ /\ size # 0
        /\ heap.size[BlockOf(ptr[h])] < align_up(size)
        /\ Enter(h, size, size)

\* krealloc copies what the new block has over the old one.
Copied_Excess(old, size) == IF old < size THEN size - old ELSE size

\* How many bytes krealloc copies into the new block.
Copied(old, size) == IF old < size THEN old ELSE size

(* kmalloc's search succeeds.  It returns; krealloc, if that called it,    *)
(* copies and frees the old block, and kcalloc clears the new one.  Then   *)
(* the caller fills what it asked for.                                     *)
Fit ==
  /\ call.op = "kmalloc"
  /\ \E k \in Fits(call.need) :
       LET h     == call.h
           p     == Payload(heap.free[k])
           taken == Take(heap, k, call.need)
           kept  == IF ptr[h] = NULL THEN {}
                    ELSE {i \in intact[h] :
                            i < Copied(heap.size[BlockOf(ptr[h])], call.asked)}
       IN  /\ \A j \in Fits(call.need) : k <= j
           /\ heap' = IF ptr[h] = NULL THEN taken
                      ELSE free_insert(taken, BlockOf(ptr[h]))
           /\ ptr' = [ptr EXCEPT ![h] = p]
           /\ asked' = [asked EXCEPT ![h] = call.asked]
           /\ intact' =
                [Spared(Headers(heap') \cup p .. (p + call.asked - 1)) EXCEPT
                   ![h] = kept \cup asked[h] .. (call.asked - 1)]
  /\ call' = Idle
  /\ UNCHANGED <<grown, frameVars>>

(* Nothing fits: the heap grows and the search starts again.               *)
Grow ==
  /\ call.op = "kmalloc" /\ Fits(call.need) = {}
  /\ \E f \in available : GrowWith(call.need, f)
  /\ call' = [call EXCEPT !.grows = @ + 1]
  /\ intact' = Spared(Headers(heap'))
  /\ UNCHANGED <<ptr, asked>>

\* The failure of heap_grow goes unnoticed and the search starts again.
GiveUp_NotNoticed ==
  /\ call.op = "kmalloc" /\ Fits(call.need) = {}
  /\ GrowRefused(call.need)
  /\ UNCHANGED <<call, userVars>>

(* Nothing fits and the heap cannot grow: the call returns NULL.           *)
GiveUp ==
  /\ call.op = "kmalloc" /\ Fits(call.need) = {}
  /\ GrowRefused(call.need)
  /\ call' = Idle
  /\ UNCHANGED userVars

-----------------------------------------------------------------------------

(* The allocator's other callers take a frame, and give one back.          *)
OtherTakes ==
  /\ call = Idle
  /\ \E f \in available : Frames!Allocate(1, f)
  /\ UNCHANGED <<heap, userVars, call, grown>>

OtherReturns ==
  /\ call = Idle
  /\ \E f \in held \ grown : held' = held \ {f}
  /\ Frames!Release
  /\ UNCHANGED <<heap, userVars, call, grown>>

Step == kheap_init \/ Fit \/ Grow \/ GiveUp

Next ==
  \/ Step
  \/ \E h \in Handles, size \in Sizes : kmalloc(h, size) \/ krealloc(h, size)
  \/ \E h \in Handles, a \in Arrays : kcalloc(h, a[1], a[2])
  \/ \E h \in Handles : kfree(h)
  \/ OtherTakes
  \/ OtherReturns

(* A call in progress is carried on with: nothing can preempt it.          *)
Spec == Init /\ [][Next]_vars /\ WF_vars(Step)

-----------------------------------------------------------------------------
(***************************************************************************)
(* Properties                                                              *)
(***************************************************************************)

Live == {h \in Handles : ptr[h] # NULL}

(* The type invariant: every address in use is that of a header.           *)
TypeOK ==
  /\ heap.free \in Seq(DOMAIN heap.size)
  /\ heap.size \in [DOMAIN heap.size -> 0 .. (SIZE_MOD - 1)]
  /\ DOMAIN heap.size \subseteq 0 .. (SIZE_MOD - 1)
  /\ \A h \in Live : BlockOf(ptr[h]) \in DOMAIN heap.size
  /\ asked \in [Handles -> 0 .. (SIZE_MOD - 1)]
  /\ \A h \in Handles : intact[h] \subseteq 0 .. (asked[h] - 1)
  /\ \/ call \in {Idle, Starting}
     \/ /\ call.op = "kmalloc" /\ call.h \in Handles
        /\ call.asked \in Nat /\ call.need \in Nat /\ call.grows \in Nat
  /\ grown \subseteq held

(* The blocks tile the frames the heap was given: no two overlap, none     *)
(* reaches beyond them, and no byte is lost between blocks, through every  *)
(* split in kmalloc and every merge in free_insert.                        *)
BlocksTile ==
  /\ \A b \in DOMAIN heap.size, c \in DOMAIN heap.size :
       b < c => block_end(heap, b) <= c
  /\ UNION {Extent(heap, b) : b \in DOMAIN heap.size} =
       UNION {(f * PAGE_SIZE) .. ((f + 1) * PAGE_SIZE - 1) : f \in grown}

(* Every block is free or belongs to exactly one pointer, never both and   *)
(* never neither: none is given to two callers and none is leaked.         *)
EachBlockOwned ==
  /\ \A b \in DOMAIN heap.size :
       \/ /\ \E i \in DOMAIN heap.free : heap.free[i] = b
          /\ \A h \in Live : BlockOf(ptr[h]) # b
       \/ /\ \A i \in DOMAIN heap.free : heap.free[i] # b
          /\ \E h \in Live : BlockOf(ptr[h]) = b
  /\ \A g, h \in Live : ptr[g] = ptr[h] => g = h

(* The free list is in address order, and no two of its blocks touch: all  *)
(* that could be merged has been ("Insert `b` into the address-ordered     *)
(* free list, coalescing with either physically-adjacent neighbour").      *)
FreeListCoalesced ==
  \A i \in 1 .. (Len(heap.free) - 1) :
    block_end(heap, heap.free[i]) < heap.free[i + 1]

\* The sizes that calls hand to kmalloc.
Requests == Sizes \cup {Product(a[1], a[2]) : a \in Arrays}

\* No request is so large that the sum in align_up wraps around.
NoRoundingWraps == \A size \in Requests : size + HEAP_ALIGN - 1 < SIZE_MOD

\* No request is so large that the sum in heap_grow does.
NoGrowthWraps == \A size \in Requests : align_up(size) + HEAP_ALIGN < SIZE_MOD

(* A pointer that was returned is aligned and has all the room that was    *)
(* asked for (kalloc.h: "Allocate `size` bytes (16-byte aligned). Returns  *)
(* NULL on failure").                                                      *)
AllocationLargeEnough ==
  \A h \in Live : /\ ptr[h] % HEAP_ALIGN = 0
                 /\ heap.size[BlockOf(ptr[h])] >= asked[h]

(* What a caller wrote into its block is still there: no other caller's    *)
(* use of its own block, no header and no growth overwrites it, and        *)
(* krealloc carries it into the new block (tests/kernel/test_kalloc.c).    *)
DataIntact == \A h \in Live : intact[h] = 0 .. (asked[h] - 1)

\* What a caller sees of the heap: every byte of its frames is memory to hand
\* out, and a pointer's own room is the payload of its block.
Memory == UNION {(f * PAGE_SIZE) .. ((f + 1) * PAGE_SIZE - 1) : f \in grown}
Room == [h \in Handles |->
           IF ptr[h] = NULL THEN 0 ELSE heap.size[BlockOf(ptr[h])]]
Pending == IF call.op = "kmalloc" THEN <<call.h, call.asked>> ELSE << >>

Promised == INSTANCE Heap WITH memory <- Memory, room <- Room, pending <- Pending

(* The heap keeps the promise of kalloc.h: through every split, merge and  *)
(* growth, a request is met with aligned bytes that nobody holds (a moving *)
(* krealloc's old ones included, which are still to be copied), as many as *)
(* were asked for or more, or with NULL and nothing lost; and whatever is  *)
(* held stays where it is, and as large, until it is freed or moved.       *)
Implements == Promised!Spec

(* One growth is enough for any request: what heap_grow adds has room for  *)
(* the header as well as for the bytes needed.                             *)
OneGrowthSuffices == call.op = "kmalloc" => call.grows <= 1

(* Every call returns.                                                     *)
CallsReturn == call # Idle ~> call = Idle
=============================================================================
