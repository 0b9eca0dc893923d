-------------------------------- MODULE PMM ---------------------------------
(***************************************************************************)
(* The physical memory manager, src/kernel/memory/pmm.c: a bitmap with one *)
(* bit for each frame of memory, a count of the free frames and the index  *)
(* where the next search starts.                                           *)
(*                                                                         *)
(* Every function of pmm.c runs to completion before another starts: one   *)
(* processor, no threads, and no interrupt handler that allocates.  So     *)
(* each call is one action.  Physical addresses appear as frame numbers    *)
(* (address / PAGE_SIZE), which is how the code itself indexes them; the   *)
(* memory map keeps byte addresses, because pmm_init rounds them.          *)
(***************************************************************************)
EXTENDS Integers, Sequences, FiniteSets

CONSTANTS
  PAGE_SIZE,    \* bytes in a frame
  MemoryMaps,   \* the memory maps bootinfo may have captured
  Counts        \* the run lengths callers ask for and give back

RegionTypes == {"USABLE", "BOOTLOADER_RECLAIMABLE", "RESERVED"}

\* align_up and align_down.  The code masks with ~(a - 1), which is this
\* rounding when PAGE_SIZE is a power of two, as it is.
AlignUp(v)   == ((v + PAGE_SIZE - 1) \div PAGE_SIZE) * PAGE_SIZE
AlignDown(v) == (v \div PAGE_SIZE) * PAGE_SIZE

RegionEnd(r) == r.base + r.length

\* The loop bounds of free_region: the frames wholly inside the region, cut
\* off at the n frames the bitmap spans.
FirstFrame(r) == AlignUp(r.base) \div PAGE_SIZE
EndFrame(r)   == AlignDown(RegionEnd(r)) \div PAGE_SIZE
RegionFrames(r, n) == {i \in FirstFrame(r) .. (EndFrame(r) - 1) : i < n}

Kind(map, types) == {k \in DOMAIN map : map[k].type \in types}
FramesOfKind(map, type, n) ==
  UNION {RegionFrames(map[k], n) : k \in Kind(map, {type})}

IsLeast(x, S) == x \in S /\ \A y \in S : x <= y

-----------------------------------------------------------------------------

ASSUME PageSizeAssumption == PAGE_SIZE \in Nat \ {0}

ASSUME CountsAssumption == Counts \subseteq Nat

(* What the boot protocol says of the memory map and the code relies on: a *)
(* usable region is not smaller than the rounding of its base, and memory  *)
(* to be reclaimed from the bootloader is nowhere usable as well.          *)
ASSUME MapAssumption ==
  \A map \in MemoryMaps :
    /\ map \in Seq([base : Nat, length : Nat, type : RegionTypes])
    /\ \A k \in Kind(map, {"USABLE"}) :
         /\ AlignUp(map[k].base) <= RegionEnd(map[k])
         /\ \A j \in Kind(map, {"BOOTLOADER_RECLAIMABLE"}) :
              \/ EndFrame(map[k]) <= FirstFrame(map[j])
              \/ EndFrame(map[j]) <= FirstFrame(map[k])

-----------------------------------------------------------------------------

VARIABLES
  regions,        \* bootinfo's table
  phase,          \* "boot" before pmm_init, then "up", then "reclaimed"
  bitmap_found,   \* TRUE iff the pointer to the bitmap has been set
  bitmap_frames,  \* the frames that store the bitmap
  clear,          \* the frames whose bit in the bitmap is 0
  frame_count,    \* frames the bitmap spans
  free_frames_n,  \* the code's count of free frames
  total_frames,   \* frames under management
  scan_hint,      \* where the next alloc_frame starts looking
  fault,          \* TRUE once the bitmap was read through a null pointer
  held,           \* the frames callers have and may give back
  result          \* the last allocation call: frames asked, frame returned

bitmapVars == <<bitmap_found, bitmap_frames, frame_count>>
poolVars   == <<clear, free_frames_n, scan_hint>>
callVars   == <<held, result>>
vars == <<regions, phase, fault, total_frames, bitmapVars, poolVars, callVars>>

Frames == INSTANCE FrameAllocator WITH available <- clear

Init ==
  /\ regions \in MemoryMaps
  /\ phase = "boot"
  /\ bitmap_found = FALSE /\ bitmap_frames = {}
  /\ clear = {}
  /\ frame_count = 0 /\ free_frames_n = 0 /\ total_frames = 0
  /\ scan_hint = 0
  /\ fault = FALSE
  /\ held = {} /\ result = Frames!NoResult

-----------------------------------------------------------------------------
(***************************************************************************)
(* pmm_init                                                                *)
(***************************************************************************)

ManagedTypes == {"USABLE", "BOOTLOADER_RECLAIMABLE"}

\* The value the first loop leaves in `highest`.
IsHighest(highest) ==
  LET ends == {RegionEnd(regions[k]) : k \in Kind(regions, ManagedTypes)}
  IN  highest \in ends \cup {0} /\ \A e \in ends : e <= highest

\* A bitmap that leaves out the byte of the last few bits.
BitmapBytes_RoundedDown(n) == AlignUp(n \div 8)

BitmapBytes(n) == AlignUp((n + 7) \div 8)

\* A slip in the comparison: a region that the bitmap fills exactly is no use.
FittingRegions_StrictlyLarger(n) ==
  {k \in Kind(regions, {"USABLE"}) :
     RegionEnd(regions[k]) - AlignUp(regions[k].base) > BitmapBytes(n)}

\* The regions whose rounded-up base leaves room for a bitmap of n frames.
FittingRegions(n) ==
  {k \in Kind(regions, {"USABLE"}) :
     RegionEnd(regions[k]) - AlignUp(regions[k].base) >= BitmapBytes(n)}

\* The frames of a bitmap of n frames stored at the start of region r.
BitmapStorage(r, n) ==
  FirstFrame(r) .. (FirstFrame(r) + BitmapBytes(n) \div PAGE_SIZE - 1)

\* 1 if the null frame is in the pool and has to be taken out of it.
NullFrameIn(pool, n) == IF n > 0 /\ 0 \in pool THEN 1 ELSE 0

(* All bits set, the usable regions cleared, then the bitmap's own storage *)
(* and the null frame set again.                                           *)
BuildBitmap(r, n) ==
  LET usable  == FramesOfKind(regions, "USABLE", n)
      storage == BitmapStorage(r, n)
      carved  == usable \ storage
  IN  /\ bitmap_found' = TRUE
      /\ bitmap_frames' = storage
      /\ total_frames' = Cardinality(usable)
      /\ clear' = carved \ {0}
      /\ free_frames_n' = Cardinality(usable) - Cardinality(usable \cap storage)
                            - NullFrameIn(carved, n)
      /\ scan_hint' = 0

PmmInit ==
  /\ phase = "boot"
  /\ phase' = "up"
  /\ \E highest \in {0} \cup {RegionEnd(regions[k]) : k \in DOMAIN regions} :
       /\ IsHighest(highest)
       /\ frame_count' = AlignUp(highest) \div PAGE_SIZE
  /\ \/ /\ FittingRegions(frame_count') = {}
        /\ UNCHANGED <<bitmap_found, bitmap_frames, total_frames, poolVars>>
     \/ \E k \in FittingRegions(frame_count') :
          /\ IsLeast(k, FittingRegions(frame_count'))
          /\ BuildBitmap(regions[k], frame_count')
  /\ UNCHANGED <<regions, fault, held, result>>

-----------------------------------------------------------------------------
(***************************************************************************)
(* Allocation                                                              *)
(***************************************************************************)

Running == phase # "boot" /\ ~fault

\* A call that looks at a bit needs a bitmap, or no bit to look at.
CanReadBitmap == Running /\ (bitmap_found \/ frame_count = 0)

\* What a pass of alloc_frame over start .. stop - 1 may take.
Pass(start, stop) == {i \in clear : start <= i /\ i < stop}

\* A scan that stops before the last frame.
Candidates_LastFrameMissed ==
  LET fromHint == Pass(scan_hint, frame_count - 1)
  IN  IF fromHint # {} THEN fromHint ELSE Pass(0, scan_hint)

Candidates ==
  LET fromHint == Pass(scan_hint, frame_count)
  IN  IF fromHint # {} THEN fromHint ELSE Pass(0, scan_hint)

\* alloc_frame, returning frame f or, when there is none, the address 0.
AllocFrame(f) ==
  /\ CanReadBitmap
  /\ \/ /\ IsLeast(f, Candidates)
        /\ clear' = clear \ {f}
        /\ free_frames_n' = free_frames_n - 1
        /\ scan_hint' = f + 1
        /\ held' = held \cup {f}
     \/ /\ Candidates = {} /\ f = 0
        /\ UNCHANGED <<poolVars, held>>
  /\ result' = [count |-> 1, frame |-> f]
  /\ UNCHANGED <<regions, phase, fault, total_frames, bitmapVars>>

\* A run counted with the first used frame after it.
RunStarts_OneShort(n) == {s \in clear : Frames!Run(s, n - 1) \subseteq clear}

\* The starts of the runs of n free frames.
RunStarts(n) == {s \in clear : Frames!Run(s, n) \subseteq clear}

\* alloc_frames(n), returning the run that starts at f, or 0.
AllocFrames(n, f) ==
  \/ /\ n = 0 /\ f = 0
     /\ Running
     /\ result' = [count |-> n, frame |-> f]
     /\ UNCHANGED <<regions, phase, fault, total_frames, bitmapVars, poolVars, held>>
  \/ n = 1 /\ AllocFrame(f)
  \/ /\ n > 1
     /\ CanReadBitmap
     /\ \/ /\ IsLeast(f, RunStarts(n))
           /\ clear' = clear \ Frames!Run(f, n)
           /\ free_frames_n' = free_frames_n - n
           /\ held' = held \cup Frames!Run(f, n)
        \/ /\ RunStarts(n) = {} /\ f = 0
           /\ UNCHANGED <<clear, free_frames_n, held>>
     /\ result' = [count |-> n, frame |-> f]
     /\ UNCHANGED <<regions, phase, fault, total_frames, bitmapVars, scan_hint>>

-----------------------------------------------------------------------------
(***************************************************************************)
(* Freeing and reclaiming                                                  *)
(***************************************************************************)

\* free_frame without its test of the bit: a frame already free counts again.
Freed_TwiceCounted(run) == {i \in run : i # 0 /\ i < frame_count}

\* The frames of a run whose bit free_frame clears: in range and in use.
Freed(run) == {i \in run : i # 0 /\ i < frame_count /\ i \notin clear}

\* The hint is left where the last allocation put it.
IsHintAfterFree_NotRewound(hint, freed) == hint = scan_hint

\* free_frame lowers the hint to each frame it frees below it.
IsHintAfterFree(hint, freed) ==
  IF \E i \in freed : i < scan_hint THEN IsLeast(hint, freed)
                                    ELSE hint = scan_hint

(* What a caller may pass to free_frame: a frame it holds, and the calls   *)
(* the code guards against, the failure value 0, a frame that is already   *)
(* free and a frame beyond the bitmap.                                     *)
MayFree(i) == i \in held \/ i \in clear \/ i = 0 \/ i >= frame_count

\* free_frames(f, n): free_frame on each frame of the run.
FreeFrames(f, n) ==
  LET freed == Freed(Frames!Run(f, n))
  IN  /\ Running
      /\ \A i \in Frames!Run(f, n) : MayFree(i)
      /\ clear' = clear \cup freed
      /\ free_frames_n' = free_frames_n + Cardinality(freed)
      /\ \E hint \in freed \cup {scan_hint} :
           IsHintAfterFree(hint, freed) /\ scan_hint' = hint
      /\ held' = held \ Frames!Run(f, n)
      /\ result' = Frames!NoResult
      /\ UNCHANGED <<regions, phase, fault, total_frames, bitmapVars>>

(* free_frame(f).                                                          *)
FreeFrame(f) == FreeFrames(f, 1)

\* Every region is put back, as if nothing had been handed out since boot.
Regained_AllKinds ==
  (FramesOfKind(regions, "BOOTLOADER_RECLAIMABLE", frame_count)
     \cup FramesOfKind(regions, "USABLE", frame_count)) \ clear

\* The frames pmm_reclaim_bootloader clears and counts.
Regained ==
  FramesOfKind(regions, "BOOTLOADER_RECLAIMABLE", frame_count) \ clear

\* pmm_reclaim_bootloader, which memory_init calls at most once.
ReclaimBootloader ==
  LET pool  == clear \cup Regained
      count == free_frames_n + Cardinality(Regained)
                 - NullFrameIn(pool, frame_count)
  IN  /\ CanReadBitmap
      /\ phase = "up"
      /\ phase' = "reclaimed"
      /\ clear' = pool \ {0}
      /\ free_frames_n' = count
      /\ total_frames' = total_frames + (count - free_frames_n)
      /\ scan_hint' = 0
      /\ result' = Frames!NoResult
      /\ UNCHANGED <<regions, fault, bitmapVars, held>>

(* With no bitmap every call that looks at a bit reads it through the null *)
(* pointer pmm_init left, and the processor stops.                         *)
BitmapFault ==
  /\ Running /\ ~CanReadBitmap
  /\ fault' = TRUE
  /\ UNCHANGED <<regions, phase, total_frames, bitmapVars, poolVars, callVars>>

Halted == fault /\ UNCHANGED vars

Next ==
  \/ PmmInit
  \/ \E f \in 0 .. frame_count : AllocFrame(f)
  \/ \E n \in Counts, f \in 0 .. frame_count : AllocFrames(n, f)
  \/ \E f \in 0 .. frame_count : FreeFrame(f)
  \/ \E n \in Counts, f \in 0 .. frame_count : FreeFrames(f, n)
  \/ ReclaimBootloader
  \/ BitmapFault
  \/ Halted

Spec == Init /\ [][Next]_vars

(* pmm.c keeps the promise of FrameAllocator.                              *)
Implements == Frames!Spec

-----------------------------------------------------------------------------
(***************************************************************************)
(* Properties                                                              *)
(***************************************************************************)

\* Memory the allocator has been told it owns: all usable memory, and the
\* bootloader's once reclaimed.
Managed ==
  IF ~bitmap_found THEN {}
  ELSE FramesOfKind(regions, "USABLE", frame_count) \cup
         (IF phase = "reclaimed"
            THEN FramesOfKind(regions, "BOOTLOADER_RECLAIMABLE", frame_count)
            ELSE {})

(* The type invariant: the scan hint and every frame number stay within    *)
(* what the bitmap spans, so that no bit outside it is ever addressed.     *)
TypeOK ==
  /\ regions \in MemoryMaps
  /\ phase \in {"boot", "up", "reclaimed"}
  /\ bitmap_found \in BOOLEAN /\ fault \in BOOLEAN
  /\ bitmap_frames \subseteq Nat
  /\ frame_count \in Nat /\ free_frames_n \in Nat /\ total_frames \in Nat
  /\ clear \subseteq 0 .. (frame_count - 1)
  /\ held \subseteq 0 .. (frame_count - 1)
  /\ scan_hint \in 0 .. frame_count
  /\ result \in [count : Nat, frame : 0 .. frame_count]

(* The counter that pmm_free_bytes reports is the number of clear bits,    *)
(* however allocation, freeing twice, carving out the bitmap and the null  *)
(* frame, and reclaiming have followed one another (the `if (bm_test(i))`  *)
(* tests around every increment and decrement).                            *)
FreeCountExact == free_frames_n = Cardinality(clear)

(* Every managed frame but the null frame is free, or held by a caller, or *)
(* stores the bitmap: never two of these (no frame is handed out twice,    *)
(* nobody is given the bitmap or a frame that is in use), never none (no   *)
(* frame is lost), and no other frame is ever handed out.                  *)
FramesConserved ==
  /\ clear \cap held = {}
  /\ (clear \cup held) \cap (bitmap_frames \cup {0}) = {}
  /\ Managed \ {0} = (clear \cup held \cup bitmap_frames) \ {0}

(* The storage set aside for the bitmap has a bit for every frame, so that *)
(* the bits of the last frames are not in memory handed to callers.        *)
BitmapHoldsEveryFrame ==
  bitmap_found => frame_count <= 8 * PAGE_SIZE * Cardinality(bitmap_frames)

(* No free frame lies below the scan hint, so that the first pass of       *)
(* alloc_frame alone already finds a frame whenever there is one.          *)
HintSound == \A i \in clear : scan_hint <= i

(* alloc_frame returns the lowest free frame ("scan hint rewinds to the    *)
(* just-freed frame", tests/kernel/test_pmm.c:27).                         *)
LowestFirst ==
  [][\A f \in held' \ held :
       result'.count = 1 => \A g \in clear : f <= g]_vars

(* The total that pmm_total_bytes reports accounts for every frame: the    *)
(* free ones, the ones callers hold, the bitmap, and the null frame where  *)
(* pmm_init counted it, as it does not if it is reclaimed later.           *)
TotalAccounted ==
  total_frames =
    free_frames_n
      + Cardinality(held \cup bitmap_frames \cup
                      (FramesOfKind(regions, "USABLE", frame_count) \cap {0}
                         \cap Managed))

(* The bitmap is read through a null pointer only on a machine where no    *)
(* usable region could hold it.                                            *)
FaultOnlyWithoutRoom ==
  fault => \A k \in Kind(regions, {"USABLE"}) :
             RegionEnd(regions[k]) - AlignUp(regions[k].base)
               < BitmapBytes(frame_count)
=============================================================================
