-------------------------------- MODULE Heap --------------------------------
(***************************************************************************)
(* What src/include/memory/kalloc.h promises its callers: memory for as    *)
(* many bytes as they ask, aligned, theirs alone until they free it, or    *)
(* NULL.                                                                   *)
(*                                                                         *)
(* There are no blocks, headers or free lists here, and no frames: memory  *)
(* is a set of bytes that only grows, and a request is met anywhere in it  *)
(* that nobody holds.  KHeap, the heap of kalloc.c, is shown to implement  *)
(* this.                                                                   *)
(***************************************************************************)
EXTENDS Integers

CONSTANTS
  Handles,      \* the variables callers keep their pointers in
  HEAP_ALIGN    \* what every pointer is a multiple of

VARIABLES
  memory,   \* the bytes that may be handed out
  ptr,      \* what each handle holds: an address, or NULL
  room,     \* how many bytes from there on are its own
  asked,    \* and how many of those were asked for
  pending   \* the request that waits for an answer, <<handle, bytes>>

heapVars == <<memory, ptr, room, asked, pending>>

NULL == 0
None == << >>

\* The r bytes from p on.
Region(p, r) == p .. (p + r - 1)

\* The handles that hold memory.
Live == {h \in Handles : ptr[h] # NULL}

\* The r bytes from p on can be handed out: nobody holds any of them.
Placed(p, r) ==
  /\ p # NULL /\ p % HEAP_ALIGN = 0
  /\ Region(p, r) \subseteq memory
  /\ \A g \in Live : Region(p, r) \cap Region(ptr[g], room[g]) = {}

-----------------------------------------------------------------------------

Init ==
  /\ memory = {}
  /\ ptr = [h \in Handles |-> NULL]
  /\ room = [h \in Handles |-> 0]
  /\ asked = [h \in Handles |-> 0]
  /\ pending = None

(* The heap gets more memory, at any time, and never gives any back.       *)
Extend ==
  /\ memory \subseteq memory' /\ NULL \notin memory'
  /\ UNCHANGED <<ptr, room, asked, pending>>

(* A caller asks for n bytes: new ones, or to replace those h holds.       *)
Request(h, n) ==
  /\ pending = None
  /\ n > 0
  /\ pending' = <<h, n>>
  /\ UNCHANGED <<memory, ptr, room, asked>>

(* It is given room for them at p.  What h may have held is its own up to  *)
(* here, so that it can be copied, and nobody's from here on.              *)
Grant(h, p, r) ==
  /\ \E n \in 1 .. r :
       /\ pending = <<h, n>>
       /\ asked' = [asked EXCEPT ![h] = n]
  /\ Placed(p, r)
  /\ ptr' = [ptr EXCEPT ![h] = p]
  /\ room' = [room EXCEPT ![h] = r]
  /\ pending' = None
  /\ UNCHANGED memory

(* It is told NULL, and keeps what it held.                                *)
Refuse ==
  /\ pending # None
  /\ pending' = None
  /\ UNCHANGED <<memory, ptr, room, asked>>

(* A request that the room h has is enough for is met where it is.         *)
Resize(h, n) ==
  /\ pending = None /\ ptr[h] # NULL
  /\ n \in 1 .. room[h]
  /\ asked' = [asked EXCEPT ![h] = n]
  /\ UNCHANGED <<memory, ptr, room, pending>>

(* h frees what it holds.                                                  *)
Release(h) ==
  /\ pending = None /\ ptr[h] # NULL
  /\ ptr' = [ptr EXCEPT ![h] = NULL]
  /\ room' = [room EXCEPT ![h] = 0]
  /\ asked' = [asked EXCEPT ![h] = 0]
  /\ UNCHANGED <<memory, pending>>

Next ==
  \/ Extend
  \/ Refuse
  \/ \E h \in Handles : \/ pending' # None /\ Request(h, pending'[2])
                        \/ Grant(h, ptr'[h], room'[h])
                        \/ Resize(h, asked'[h])
                        \/ Release(h)

Spec == Init /\ [][Next]_heapVars
=============================================================================
