------------------------------ MODULE MCKHeap -------------------------------
(***************************************************************************)
(* KHeap with pages of eight bytes and headers of two.                     *)
(***************************************************************************)
EXTENDS KHeap, TLC

CONSTANTS h1, h2, h3

Symmetric == Permutations(Handles)

\* Frames 1 to 3 are adjacent, so that growths may merge; 5 stands alone.
MCPool == {1, 2, 3, 5}

\* Within a header's reach of nothing, of a split and of a whole page.
MCSizes == {1, 4, 8}

\* 62 is the largest multiple of HEAP_ALIGN: heap_grow's sum wraps around.
LargestAligned == {3, 62}

NoArrays == {}

\* A product that fits, one that wraps around to 4, and an empty one.
MCArrays == {<<2, 3>>, <<17, 4>>, <<0, 5>>}

\* Those requests meet the conditions under which what they are given is
\* proved to be large enough, and one growth to be enough for them.
ASSUME RequestsMeetConditions ==
  Sizes = MCSizes => NoRoundingWraps /\ NoGrowthWraps
=============================================================================
