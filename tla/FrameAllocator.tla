--------------------------- MODULE FrameAllocator ---------------------------
(***************************************************************************)
(* What a physical frame allocator promises its callers, with no word of   *)
(* bitmaps, scan hints or counters.  A frame is named by its number, the   *)
(* physical address divided by the page size.  Number 0 is no frame: the   *)
(* kernel's allocators return address 0 to say that they failed.           *)
(*                                                                         *)
(* PMM implements this specification (PMM!Frames!Spec); KHeap is built on  *)
(* it, so that the heap is checked against every placement of frames the   *)
(* promise allows and not only against the one pmm.c makes.                *)
(***************************************************************************)
EXTENDS Naturals

VARIABLES
  available,  \* the frames an allocation may return
  held,       \* the frames callers have been given and have not returned
  result      \* the last allocation: how many frames were asked, what came

frameVars == <<available, held, result>>

\* No allocation is the last thing that happened.
NoResult == [count |-> 0, frame |-> 0]

\* The n frames from f on.
Run(f, n) == f .. (f + n - 1)

-----------------------------------------------------------------------------

Init ==
  /\ available = {}
  /\ held = {}
  /\ result = NoResult

(* Memory nobody holds, the null frame excepted, joins the pool.           *)
Donate ==
  /\ available \subseteq available'
  /\ (available' \ available) \cap held = {}
  /\ 0 \notin available'
  /\ held' = held
  /\ result' = NoResult

(* A request for n frames is met with some run of n available frames.      *)
Allocate(n, f) ==
  /\ n > 0
  /\ Run(f, n) \subseteq available
  /\ available' = available \ Run(f, n)
  /\ held' = held \cup Run(f, n)
  /\ result' = [count |-> n, frame |-> f]

(* It may be refused only when no such run is left.                        *)
Refuse(n) ==
  /\ n > 0 => \A f \in available : ~(Run(f, n) \subseteq available)
  /\ result' = [count |-> n, frame |-> 0]
  /\ UNCHANGED <<available, held>>

(* Callers give back frames they hold, and only those become available.    *)
Release ==
  /\ held' \subseteq held
  /\ available' = available \cup (held \ held')
  /\ result' = NoResult

Next ==
  \/ Donate
  \/ Allocate(result'.count, result'.frame)
  \/ Refuse(result'.count)
  \/ Release

Spec == Init /\ [][Next]_frameVars
=============================================================================
