----------------------------- MODULE PMMProofs ------------------------------
(***************************************************************************)
(* Proofs about PMM, for every page size and every set of memory maps and  *)
(* run lengths that meet the assumptions of that module.                   *)
(*                                                                         *)
(* IInv is the inductive invariant.  FreeCountExact needs FramesConserved  *)
(* (a frame that is freed was not free, and one reclaimed was not held),   *)
(* FramesConserved needs the memory map's assumption and, for the bitmap's *)
(* own frames, that a region found large enough holds all of them.         *)
(* StorageInv and TotalInv are inductive on top of it: they tell of the    *)
(* bitmap's size and of the total, which no operation reads.               *)
(***************************************************************************)
EXTENDS PMM, FiniteSetTheorems, TLAPS

USE PageSizeAssumption, CountsAssumption

\* Before pmm_init, and for good if it finds no room for the bitmap, nothing
\* is free, held or set aside.
Dormant ==
  /\ ~bitmap_found => clear = {} /\ held = {} /\ bitmap_frames = {}
  /\ phase = "boot" => /\ ~bitmap_found /\ frame_count = 0 /\ scan_hint = 0
                       /\ result = Frames!NoResult

IInv ==
  /\ TypeOK
  /\ Dormant
  /\ FreeCountExact
  /\ FramesConserved
  /\ HintSound

-----------------------------------------------------------------------------
(* Finite sets *)

LEMMA CardinalityLess ==
  ASSUME NEW S, IsFiniteSet(S), NEW T, T \subseteq S
  PROVE  /\ IsFiniteSet(T) /\ IsFiniteSet(S \ T)
         /\ Cardinality(T) \in Nat /\ Cardinality(S) \in Nat
         /\ Cardinality(S \ T) = Cardinality(S) - Cardinality(T)
<1>1. IsFiniteSet(T) /\ IsFiniteSet(S \ T)
  BY FS_Subset
<1>2. Cardinality(S \ T) = Cardinality(S) - Cardinality(S \cap T)
  BY FS_Difference
<1>3. S \cap T = T
  OBVIOUS
<1> QED
  BY <1>1, <1>2, <1>3, FS_CardinalityType

LEMMA CardinalityMore ==
  ASSUME NEW S, IsFiniteSet(S), NEW T, IsFiniteSet(T), S \cap T = {}
  PROVE  /\ IsFiniteSet(S \cup T)
         /\ Cardinality(S) \in Nat /\ Cardinality(T) \in Nat
         /\ Cardinality(S \cup T) = Cardinality(S) + Cardinality(T)
<1>1. /\ IsFiniteSet(S \cup T)
      /\ Cardinality(S \cup T) =
           Cardinality(S) + Cardinality(T) - Cardinality(S \cap T)
  BY FS_Union
<1>2. Cardinality(S \cap T) = 0
  BY FS_EmptySet
<1> QED
  BY <1>1, <1>2, FS_CardinalityType

LEMMA BoundedFinite ==
  ASSUME NEW n \in Nat, NEW S, S \subseteq 0 .. (n - 1)
  PROVE  IsFiniteSet(S) /\ Cardinality(S) \in Nat
<1>1. n - 1 \in Int
  OBVIOUS
<1>2. IsFiniteSet(0 .. (n - 1))
  BY <1>1, FS_Interval
<1> QED
  BY <1>2, FS_Subset, FS_CardinalityType

LEMMA RunCardinality ==
  ASSUME NEW f \in Nat, NEW n \in Nat
  PROVE  IsFiniteSet(Frames!Run(f, n)) /\ Cardinality(Frames!Run(f, n)) = n
<1>1. f + n - 1 \in Int
  OBVIOUS
<1> QED
  BY <1>1, FS_Interval DEF Frames!Run

-----------------------------------------------------------------------------
(* Rounding, and where regions and the bitmap lie *)

LEMMA Quotient ==
  ASSUME NEW v \in Nat
  PROVE  /\ v \div PAGE_SIZE \in Nat
         /\ (v \div PAGE_SIZE) * PAGE_SIZE <= v
         /\ v < (v \div PAGE_SIZE) * PAGE_SIZE + PAGE_SIZE
OBVIOUS

LEMMA Multiple ==
  ASSUME NEW k \in Int
  PROVE  (k * PAGE_SIZE) \div PAGE_SIZE = k
OBVIOUS

LEMMA FewerPages ==
  ASSUME NEW k \in Int, NEW m \in Int, k * PAGE_SIZE < m * PAGE_SIZE + PAGE_SIZE
  PROVE  k <= m
OBVIOUS

LEMMA AlignUpBounds ==
  ASSUME NEW v \in Nat
  PROVE  /\ AlignUp(v) \in Nat
         /\ v <= AlignUp(v)
         /\ AlignUp(v) \div PAGE_SIZE \in Nat
         /\ AlignUp(v) = (AlignUp(v) \div PAGE_SIZE) * PAGE_SIZE
<1> DEFINE w == v + PAGE_SIZE - 1
           q == w \div PAGE_SIZE
<1>1. w \in Nat
  OBVIOUS
<1>2. q \in Nat /\ q * PAGE_SIZE <= w /\ w < q * PAGE_SIZE + PAGE_SIZE
  BY <1>1, Quotient
<1>3. AlignUp(v) = q * PAGE_SIZE
  BY DEF AlignUp
<1>4. AlignUp(v) \div PAGE_SIZE = q
  BY <1>2, <1>3, Multiple
<1> HIDE DEF q
<1>5. q * PAGE_SIZE \in Nat
  BY <1>2
<1> QED
  BY <1>2, <1>3, <1>4, <1>5

MapRegion == [base : Nat, length : Nat, type : RegionTypes]

LEMMA RegionBounds ==
  ASSUME NEW r \in MapRegion
  PROVE  /\ FirstFrame(r) \in Nat
         /\ EndFrame(r) = RegionEnd(r) \div PAGE_SIZE
         /\ EndFrame(r) \in Nat
<1>1. r.base \in Nat /\ RegionEnd(r) \in Nat
  BY DEF MapRegion, RegionEnd
<1>2. FirstFrame(r) \in Nat
  BY <1>1, AlignUpBounds DEF FirstFrame
<1>3. EndFrame(r) = RegionEnd(r) \div PAGE_SIZE
  BY <1>1, Quotient, Multiple DEF EndFrame, AlignDown
<1> QED
  BY <1>1, <1>2, <1>3, Quotient

(* A region with room for the bitmap holds every frame of it.              *)
LEMMA StorageInRegion ==
  ASSUME NEW r \in MapRegion, NEW n \in Nat,
         RegionEnd(r) - AlignUp(r.base) >= BitmapBytes(n),
         EndFrame(r) <= n
  PROVE  BitmapStorage(r, n) \subseteq RegionFrames(r, n)
<1> DEFINE a == FirstFrame(r)
           b == BitmapBytes(n) \div PAGE_SIZE
           e == EndFrame(r)
<1>1. r.base \in Nat /\ RegionEnd(r) \in Nat /\ (n + 7) \div 8 \in Nat
  BY DEF MapRegion, RegionEnd
<1>2. a \in Nat /\ AlignUp(r.base) = a * PAGE_SIZE
  BY <1>1, AlignUpBounds DEF FirstFrame
<1>3. b \in Nat /\ BitmapBytes(n) = b * PAGE_SIZE
  BY <1>1, AlignUpBounds DEF BitmapBytes
<1>4. e \in Nat /\ RegionEnd(r) < e * PAGE_SIZE + PAGE_SIZE
  BY <1>1, RegionBounds, Quotient
<1> HIDE DEF a, b, e
<1>5. (a + b) * PAGE_SIZE < e * PAGE_SIZE + PAGE_SIZE
  <2>1. a * PAGE_SIZE \in Nat /\ b * PAGE_SIZE \in Nat
    BY <1>2, <1>3
  <2>2. (a + b) * PAGE_SIZE = a * PAGE_SIZE + b * PAGE_SIZE
    BY <1>2, <1>3
  <2>3. a * PAGE_SIZE + b * PAGE_SIZE <= RegionEnd(r)
    BY <1>1, <1>2, <1>3, <2>1
  <2> QED
    BY <1>1, <1>4, <2>1, <2>2, <2>3
<1>6. a + b <= e
  BY <1>2, <1>3, <1>4, <1>5, FewerPages
<1> QED
  BY <1>2, <1>3, <1>4, <1>6 DEF BitmapStorage, RegionFrames, a, b, e

LEMMA MapFacts ==
  ASSUME NEW map \in MemoryMaps
  PROVE  /\ \A k \in DOMAIN map : map[k] \in MapRegion
         /\ \A n \in Nat :
              FramesOfKind(map, "USABLE", n)
                \cap FramesOfKind(map, "BOOTLOADER_RECLAIMABLE", n) = {}
<1>1. \A k \in DOMAIN map : map[k] \in MapRegion
  <2>1. map \in Seq(MapRegion)
    BY MapAssumption DEF MapRegion
  <2> QED
    BY <2>1
<1>2. ASSUME NEW n \in Nat, NEW k \in Kind(map, {"USABLE"}),
             NEW j \in Kind(map, {"BOOTLOADER_RECLAIMABLE"})
      PROVE  RegionFrames(map[k], n) \cap RegionFrames(map[j], n) = {}
  <2>1. \/ EndFrame(map[k]) <= FirstFrame(map[j])
        \/ EndFrame(map[j]) <= FirstFrame(map[k])
    BY MapAssumption
  <2>2. /\ FirstFrame(map[k]) \in Nat /\ EndFrame(map[k]) \in Nat
        /\ FirstFrame(map[j]) \in Nat /\ EndFrame(map[j]) \in Nat
    BY <1>1, RegionBounds DEF Kind
  <2> QED
    BY <2>1, <2>2 DEF RegionFrames
<1> QED
  BY <1>1, <1>2 DEF FramesOfKind

LEMMA KindFrames ==
  ASSUME NEW map \in MemoryMaps, NEW type, NEW n \in Nat
  PROVE  FramesOfKind(map, type, n) \subseteq 0 .. (n - 1)
<1>1. ASSUME NEW k \in Kind(map, {type})
      PROVE  RegionFrames(map[k], n) \subseteq 0 .. (n - 1)
  BY MapFacts, RegionBounds DEF Kind, RegionFrames
<1> QED
  BY <1>1 DEF FramesOfKind

(* The bitmap spans every frame of a managed region.                       *)
LEMMA HighestCovers ==
  ASSUME regions \in MemoryMaps,
         NEW highest, IsHighest(highest),
         NEW k \in Kind(regions, ManagedTypes)
  PROVE  EndFrame(regions[k]) <= AlignUp(highest) \div PAGE_SIZE
<1> DEFINE n == AlignUp(highest) \div PAGE_SIZE
           e == EndFrame(regions[k])
<1>1. \A j \in Kind(regions, ManagedTypes) :
        regions[j] \in MapRegion /\ RegionEnd(regions[j]) \in Nat
  BY MapFacts DEF Kind, RegionEnd, MapRegion
<1>2. highest \in Nat /\ RegionEnd(regions[k]) <= highest
  BY <1>1 DEF IsHighest
<1>3. n \in Nat /\ highest <= n * PAGE_SIZE
  BY <1>2, AlignUpBounds
<1>4. e \in Nat /\ e * PAGE_SIZE <= RegionEnd(regions[k])
  BY <1>1, RegionBounds, Quotient
<1> HIDE DEF n, e
<1>5. e * PAGE_SIZE < n * PAGE_SIZE + PAGE_SIZE
  <2>1. e * PAGE_SIZE \in Nat /\ n * PAGE_SIZE \in Nat
    BY <1>3, <1>4
  <2> QED
    BY <1>1, <1>2, <1>3, <1>4, <2>1
<1>6. e <= n
  BY <1>3, <1>4, <1>5, FewerPages
<1> QED
  BY <1>6 DEF e, n

(* A region found large enough holds all of the bitmap.                    *)
LEMMA StorageIsUsable ==
  ASSUME regions \in MemoryMaps,
         NEW highest, IsHighest(highest),
         NEW n \in Nat, n = AlignUp(highest) \div PAGE_SIZE,
         NEW k \in FittingRegions(n)
  PROVE  BitmapStorage(regions[k], n) \subseteq FramesOfKind(regions, "USABLE", n)
<1>1. k \in Kind(regions, {"USABLE"}) /\ k \in Kind(regions, ManagedTypes)
  BY DEF FittingRegions, Kind, ManagedTypes
<1>2. regions[k] \in MapRegion
  BY <1>1, MapFacts DEF Kind
<1>3. EndFrame(regions[k]) <= n
  BY <1>1, HighestCovers
<1>4. RegionEnd(regions[k]) - AlignUp(regions[k].base) >= BitmapBytes(n)
  BY DEF FittingRegions
<1>5. BitmapStorage(regions[k], n) \subseteq RegionFrames(regions[k], n)
  BY <1>2, <1>3, <1>4, StorageInRegion
<1> QED
  BY <1>1, <1>5 DEF FramesOfKind

-----------------------------------------------------------------------------
(* Consequences of the invariant *)

(* The second pass of alloc_frame never finds anything, so the candidates  *)
(* are all the free frames.                                                *)
LEMMA CandidatesAreClear ==
  ASSUME IInv
  PROVE  Candidates = clear
<1>1. clear \subseteq 0 .. (frame_count - 1) /\ frame_count \in Nat
  BY DEF IInv, TypeOK
<1>2. scan_hint \in 0 .. frame_count /\ \A i \in clear : scan_hint <= i
  BY DEF IInv, TypeOK, HintSound
<1>3. \A i \in clear :
        scan_hint <= i /\ i < frame_count /\ ~(i < scan_hint)
  BY <1>1, <1>2
<1>4. Pass(scan_hint, frame_count) = clear
  BY <1>3, Zenon DEF Pass
<1>5. Pass(0, scan_hint) = {}
  BY <1>3, Zenon DEF Pass
<1> QED
  BY <1>4, <1>5 DEF Candidates

LEMMA ManagedRange ==
  ASSUME IInv
  PROVE  Managed \subseteq 0 .. (frame_count - 1)
BY KindFrames DEF IInv, TypeOK, Managed

(* The calls below leave alone what Managed and Dormant depend on.         *)
LEMMA ManagedUnchanged ==
  ASSUME UNCHANGED <<regions, phase, bitmapVars>>
  PROVE  Managed' = Managed
BY DEF Managed, bitmapVars

(* What free_frames puts back into the pool is what its caller held of the *)
(* run: the frame 0, frames beyond the bitmap and free ones are skipped.   *)
LEMMA FreedWereHeld ==
  ASSUME IInv, NEW n, NEW f, FreeFrames(f, n)
  PROVE  /\ held \ held' = Freed(Frames!Run(f, n))
         /\ clear' \cup held' = clear \cup held
<1> DEFINE run == Frames!Run(f, n)
<1>1. /\ \A i \in run : MayFree(i)
      /\ clear' = clear \cup Freed(run) /\ held' = held \ run
  BY Zenon DEF FreeFrames
<1>2. \A i \in held : i # 0 /\ i < frame_count /\ ~(i >= frame_count) /\ i \notin clear
  BY DEF IInv, FramesConserved, TypeOK
<1> HIDE DEF run
<1>3. \A i \in run : i < frame_count => ~(i >= frame_count)
  BY DEF IInv, TypeOK, Frames!Run, run
<1>4. held \ held' = Freed(run)
  BY <1>1, <1>2, <1>3, Zenon DEF Freed, MayFree
<1>5. clear' \cup held' = clear \cup held
  BY <1>1, <1>4
<1> QED
  BY <1>4, <1>5 DEF run

(* Taking a run of free frames out of the pool, for a caller.              *)
LEMMA TakeRun ==
  ASSUME IInv, phase # "boot",
         NEW n \in Nat, NEW f \in Nat,
         Frames!Run(f, n) \subseteq clear,
         clear' = clear \ Frames!Run(f, n),
         free_frames_n' = free_frames_n - n,
         held' = held \cup Frames!Run(f, n),
         UNCHANGED <<regions, phase, bitmapVars>>
  PROVE  /\ Dormant' /\ FreeCountExact' /\ FramesConserved'
         /\ clear' \subseteq 0 .. (frame_count' - 1)
         /\ held' \subseteq 0 .. (frame_count' - 1)
         /\ free_frames_n' \in Nat
<1> USE DEF IInv
<1>1. /\ IsFiniteSet(clear)
      /\ Cardinality(clear') = Cardinality(clear) - n
      /\ Cardinality(clear') \in Nat
  <2>1. IsFiniteSet(clear)
    BY BoundedFinite DEF TypeOK
  <2>2. Cardinality(Frames!Run(f, n)) = n
    BY RunCardinality
  <2> QED
    BY <2>1, <2>2, CardinalityLess, FS_CardinalityType
<1>2. FreeCountExact' /\ free_frames_n' \in Nat
  BY <1>1 DEF FreeCountExact
<1>3. clear' \cup held' = clear \cup held
  OBVIOUS
<1>4. FramesConserved'
  BY <1>3, ManagedUnchanged DEF FramesConserved, bitmapVars
<1>5. Dormant'
  BY DEF Dormant, bitmapVars
<1> QED
  BY <1>2, <1>4, <1>5 DEF TypeOK, bitmapVars

-----------------------------------------------------------------------------
(* One step of each operation *)

LEMMA InitIInv == Init => IInv
<1> SUFFICES ASSUME Init PROVE IInv
  OBVIOUS
<1> USE DEF Init
<1>1. TypeOK
  <2>1. bitmap_found \in BOOLEAN /\ fault \in BOOLEAN
    BY Zenon
  <2>2. result \in [count : Nat, frame : 0 .. frame_count]
    BY DEF Frames!NoResult
  <2> QED
    BY <2>1, <2>2 DEF TypeOK
<1>2. FreeCountExact
  BY FS_EmptySet DEF FreeCountExact
<1> QED
  BY <1>1, <1>2 DEF IInv, Dormant, FramesConserved, HintSound, Managed

LEMMA AllocFrameIInv ==
  ASSUME IInv, NEW f \in 0 .. frame_count, AllocFrame(f)
  PROVE  IInv'
<1> USE DEF IInv
<1>1. phase # "boot" /\ f \in Nat /\ result' \in [count : Nat, frame : 0 .. frame_count]
  BY DEF AllocFrame, CanReadBitmap, Running, TypeOK
<1>2. CASE Candidates = {} /\ UNCHANGED <<poolVars, held>>
  <2> QED
    BY <1>1, <1>2, ManagedUnchanged
    DEF AllocFrame, TypeOK, Dormant, FreeCountExact, FramesConserved, HintSound,
        poolVars, bitmapVars
<1>3. CASE /\ IsLeast(f, Candidates)
           /\ clear' = clear \ {f}
           /\ free_frames_n' = free_frames_n - 1
           /\ scan_hint' = f + 1
           /\ held' = held \cup {f}
  <2>1. IsLeast(f, clear)
    BY <1>3, CandidatesAreClear
  <2>2. Frames!Run(f, 1) = {f}
    BY DEF Frames!Run
  <2>3. UNCHANGED <<regions, phase, fault, total_frames, bitmapVars>>
    BY DEF AllocFrame
  <2>4. /\ Dormant' /\ FreeCountExact' /\ FramesConserved'
        /\ clear' \subseteq 0 .. (frame_count' - 1)
        /\ held' \subseteq 0 .. (frame_count' - 1)
        /\ free_frames_n' \in Nat
    BY <1>1, <1>3, <2>1, <2>2, <2>3, TakeRun DEF IsLeast
  <2>5. f \in 0 .. (frame_count - 1) /\ scan_hint' \in 0 .. frame_count'
    BY <1>3, <2>1, <2>3 DEF IsLeast, TypeOK, bitmapVars
  <2>6. HintSound'
    BY <1>3, <2>1, <2>5 DEF HintSound, IsLeast, TypeOK
  <2>7. TypeOK'
    BY <1>1, <2>3, <2>4, <2>5 DEF TypeOK, bitmapVars
  <2> QED
    BY <2>4, <2>6, <2>7
<1> QED
  BY <1>2, <1>3 DEF AllocFrame

LEMMA AllocFramesIInv ==
  ASSUME IInv, NEW n \in Counts, NEW f \in 0 .. frame_count, AllocFrames(n, f)
  PROVE  IInv'
<1> USE DEF IInv
<1>1. n \in Nat /\ f \in Nat
  BY DEF TypeOK
<1>2. CASE n = 1 /\ AllocFrame(f)
  BY <1>2, AllocFrameIInv
<1>3. CASE /\ Running
           /\ result' = [count |-> n, frame |-> f]
           /\ UNCHANGED <<regions, phase, fault, total_frames, bitmapVars, poolVars, held>>
  BY <1>1, <1>3, ManagedUnchanged
  DEF Running, TypeOK, Dormant, FreeCountExact, FramesConserved, HintSound,
      poolVars, bitmapVars
<1>4. CASE /\ n > 1 /\ CanReadBitmap
           /\ IsLeast(f, RunStarts(n))
           /\ clear' = clear \ Frames!Run(f, n)
           /\ free_frames_n' = free_frames_n - n
           /\ held' = held \cup Frames!Run(f, n)
           /\ result' = [count |-> n, frame |-> f]
           /\ UNCHANGED <<regions, phase, fault, total_frames, bitmapVars, scan_hint>>
  <2>1. Frames!Run(f, n) \subseteq clear
    BY <1>4 DEF IsLeast, RunStarts
  <2>2. phase # "boot"
    BY <1>4 DEF CanReadBitmap, Running
  <2>3. /\ Dormant' /\ FreeCountExact' /\ FramesConserved'
        /\ clear' \subseteq 0 .. (frame_count' - 1)
        /\ held' \subseteq 0 .. (frame_count' - 1)
        /\ free_frames_n' \in Nat
    BY <1>1, <1>4, <2>1, <2>2, TakeRun
  <2>4. HintSound'
    BY <1>4 DEF HintSound
  <2>5. TypeOK'
    BY <1>1, <1>4, <2>3 DEF TypeOK, bitmapVars
  <2> QED
    BY <2>3, <2>4, <2>5
<1> QED
  BY <1>1, <1>2, <1>3, <1>4 DEF AllocFrames, poolVars, CanReadBitmap

LEMMA FreeFramesIInv ==
  ASSUME IInv, NEW n \in Nat, NEW f \in 0 .. frame_count, FreeFrames(f, n)
  PROVE  IInv'
<1> DEFINE run == Frames!Run(f, n)
           freed == Freed(run)
<1> USE DEF IInv
<1>1. /\ Running
      /\ \A i \in run : MayFree(i)
      /\ clear' = clear \cup freed
      /\ free_frames_n' = free_frames_n + Cardinality(freed)
      /\ \E hint \in freed \cup {scan_hint} :
           IsHintAfterFree(hint, freed) /\ scan_hint' = hint
      /\ held' = held \ run
      /\ result' = Frames!NoResult
      /\ UNCHANGED <<regions, phase, fault, total_frames, bitmapVars>>
  BY Zenon DEF FreeFrames
<1>2. freed = run \cap held
  <2>1. \A i \in held : i # 0 /\ i < frame_count /\ i \notin clear
    BY DEF FramesConserved, TypeOK
  <2>2. \A i \in run : i < frame_count => ~(i >= frame_count)
    BY DEF TypeOK, Frames!Run
  <2> QED
    BY <1>1, <2>1, <2>2, Zenon DEF Freed, MayFree
<1>3. clear' \cup held' = clear \cup held /\ clear' \cap held' = {}
  BY <1>1, <1>2 DEF FramesConserved
<1>4. clear \cap freed = {} /\ freed \subseteq 0 .. (frame_count - 1)
  BY <1>2 DEF FramesConserved, TypeOK
<1> HIDE DEF freed, run
<1>5. Cardinality(clear') = free_frames_n' /\ free_frames_n' \in Nat
  <2>1. IsFiniteSet(clear) /\ IsFiniteSet(freed)
    BY <1>4, BoundedFinite DEF TypeOK
  <2>2. /\ Cardinality(clear) \in Nat /\ Cardinality(freed) \in Nat
        /\ Cardinality(clear \cup freed) = Cardinality(clear) + Cardinality(freed)
    BY <1>4, <2>1, CardinalityMore
  <2> QED
    BY <1>1, <2>2 DEF FreeCountExact
<1>6. FramesConserved'
  BY <1>1, <1>3, ManagedUnchanged DEF FramesConserved, bitmapVars
<1>7. Dormant'
  BY <1>1, <1>2 DEF Dormant, Running, bitmapVars
<1>8. scan_hint' \in 0 .. frame_count /\ HintSound'
  <2>1. PICK hint \in freed \cup {scan_hint} :
          IsHintAfterFree(hint, freed) /\ scan_hint' = hint
    BY <1>1
  <2>2. CASE \E i \in freed : i < scan_hint
    <3>1. IsLeast(hint, freed)
      BY <2>1, <2>2 DEF IsHintAfterFree
    <3>2. PICK i \in freed : i < scan_hint
      BY <2>2
    <3>3. hint \in 0 .. frame_count /\ hint < scan_hint /\ \A j \in freed : hint <= j
      BY <1>4, <3>1, <3>2 DEF IsLeast, TypeOK
    <3> QED
      BY <1>1, <2>1, <3>3 DEF HintSound, TypeOK
  <2>3. CASE \A i \in freed : ~(i < scan_hint)
    <3>1. scan_hint' = scan_hint
      BY <2>1, <2>3 DEF IsHintAfterFree
    <3> QED
      BY <1>1, <1>4, <2>3, <3>1 DEF HintSound, TypeOK
  <2> QED
    BY <2>2, <2>3
<1>9. TypeOK'
  <2>1. result' \in [count : Nat, frame : 0 .. frame_count]
    BY <1>1 DEF Frames!NoResult, TypeOK
  <2>2. clear' \subseteq 0 .. (frame_count - 1) /\ held' \subseteq 0 .. (frame_count - 1)
    BY <1>1, <1>4 DEF TypeOK
  <2> QED
    BY <1>1, <1>5, <1>8, <2>1, <2>2 DEF TypeOK, bitmapVars
<1> QED
  BY <1>5, <1>6, <1>7, <1>8, <1>9 DEF FreeCountExact

(* What reclaiming adds was neither free nor held nor the bitmap's.        *)
LEMMA RegainedIsNew ==
  ASSUME IInv, phase = "up", CanReadBitmap
  PROVE  /\ Regained \subseteq 0 .. (frame_count - 1)
         /\ Regained \cap (clear \cup held \cup bitmap_frames) \subseteq {0}
         /\ Regained \cap clear = {}
         /\ ~bitmap_found => Regained = {}
         /\ bitmap_found =>
              Managed \cup Regained =
                FramesOfKind(regions, "USABLE", frame_count) \cup
                FramesOfKind(regions, "BOOTLOADER_RECLAIMABLE", frame_count)
<1> DEFINE mine  == FramesOfKind(regions, "USABLE", frame_count)
           boots == FramesOfKind(regions, "BOOTLOADER_RECLAIMABLE", frame_count)
<1> USE DEF IInv
<1>1. regions \in MemoryMaps /\ frame_count \in Nat
  BY DEF TypeOK
<1>2. mine \cap boots = {}
  BY <1>1, MapFacts
<1>3. boots \subseteq 0 .. (frame_count - 1)
  BY <1>1, KindFrames
<1> HIDE DEF mine, boots
<1>4. Regained = boots \ clear
  BY DEF Regained, boots
<1>5. bitmap_found => Managed = mine
  BY DEF Managed, mine
<1>6. ~bitmap_found => Managed = {} /\ boots = {}
  BY <1>1, <1>3 DEF Managed, CanReadBitmap
<1>7. (clear \cup held \cup bitmap_frames) \ {0} \subseteq mine \cup Managed
  BY DEF FramesConserved
<1> QED
  BY <1>2, <1>3, <1>4, <1>5, <1>6, <1>7 DEF Dormant, FramesConserved, mine, boots

(* Withdrawing the null frame is counted exactly when it is in the pool.   *)
LEMMA NullFrameCounted ==
  ASSUME NEW n \in Nat, NEW pool, pool \subseteq 0 .. (n - 1)
  PROVE  /\ Cardinality(pool) \in Nat
         /\ Cardinality(pool \ {0}) \in Nat
         /\ NullFrameIn(pool, n) \in {0, 1}
         /\ Cardinality(pool \ {0}) = Cardinality(pool) - NullFrameIn(pool, n)
<1>1. IsFiniteSet(pool) /\ Cardinality(pool) \in Nat
  BY BoundedFinite
<1>2. /\ IsFiniteSet(pool \ {0})
      /\ Cardinality(pool \ {0}) =
           IF 0 \in pool THEN Cardinality(pool) - 1 ELSE Cardinality(pool)
  BY <1>1, FS_RemoveElement
<1>3. 0 \in pool => n > 0
  OBVIOUS
<1> QED
  BY <1>1, <1>2, <1>3, FS_CardinalityType DEF NullFrameIn

LEMMA ReclaimIInv ==
  ASSUME IInv, ReclaimBootloader
  PROVE  IInv'
<1> DEFINE pool  == clear \cup Regained
           count == free_frames_n + Cardinality(Regained)
                      - NullFrameIn(pool, frame_count)
<1> USE DEF IInv
<1>1. /\ CanReadBitmap /\ phase = "up" /\ phase' = "reclaimed"
      /\ clear' = pool \ {0}
      /\ free_frames_n' = count
      /\ total_frames' = total_frames + (count - free_frames_n)
      /\ scan_hint' = 0
      /\ result' = Frames!NoResult
      /\ UNCHANGED <<regions, fault, bitmapVars, held>>
  BY Zenon DEF ReclaimBootloader
<1>2. /\ clear \subseteq 0 .. (frame_count - 1) /\ frame_count \in Nat
      /\ free_frames_n \in Nat /\ total_frames \in Nat
  BY DEF TypeOK
<1>3. Regained \subseteq 0 .. (frame_count - 1) /\ Regained \cap clear = {}
  BY <1>1, RegainedIsNew
<1>4. free_frames_n' = Cardinality(clear') /\ free_frames_n' \in Nat
  <2>1. IsFiniteSet(clear) /\ IsFiniteSet(Regained)
    BY <1>2, <1>3, BoundedFinite
  <2>2. /\ Cardinality(clear) \in Nat /\ Cardinality(Regained) \in Nat
        /\ Cardinality(pool) = Cardinality(clear) + Cardinality(Regained)
    BY <1>3, <2>1, CardinalityMore
  <2>3. /\ Cardinality(pool \ {0}) \in Nat /\ NullFrameIn(pool, frame_count) \in {0, 1}
        /\ Cardinality(pool \ {0}) = Cardinality(pool) - NullFrameIn(pool, frame_count)
    BY <1>2, <1>3, NullFrameCounted
  <2>4. free_frames_n = Cardinality(clear)
    BY DEF FreeCountExact
  <2> HIDE DEF pool
  <2> QED
    BY <1>1, <2>2, <2>3, <2>4
<1>5. free_frames_n' - free_frames_n \in Nat
  <2>1. clear \subseteq clear'
    BY <1>1 DEF FramesConserved
  <2>2. clear' \subseteq 0 .. (frame_count - 1)
    BY <1>1, <1>2, <1>3
  <2>3. Cardinality(clear) <= Cardinality(clear')
    BY <1>2, <2>1, <2>2, BoundedFinite, FS_Subset
  <2> QED
    BY <1>2, <1>4, <2>3 DEF FreeCountExact
<1>6. FramesConserved'
  <2>1. clear' \cap held' = {} /\ (clear' \cup held') \cap (bitmap_frames' \cup {0}) = {}
    BY <1>1, RegainedIsNew DEF FramesConserved, bitmapVars
  <2>2. CASE ~bitmap_found
    <3>1. Managed' = {} /\ clear' = {} /\ held' = {} /\ bitmap_frames' = {}
      BY <1>1, <2>2, RegainedIsNew DEF Managed, Dormant, bitmapVars
    <3> QED
      BY <2>1, <3>1 DEF FramesConserved
  <2>3. CASE bitmap_found
    <3>1. Managed' = Managed \cup Regained
      BY <1>1, <2>3, RegainedIsNew DEF Managed, bitmapVars
    <3> QED
      BY <1>1, <2>1, <3>1 DEF FramesConserved, bitmapVars
  <2> QED
    BY <2>2, <2>3
<1>7. Dormant'
  BY <1>1, RegainedIsNew DEF Dormant, bitmapVars
<1>8. TypeOK'
  <2>1. result' \in [count : Nat, frame : 0 .. frame_count]
    BY <1>1, <1>2 DEF Frames!NoResult
  <2>2. total_frames' \in Nat
    BY <1>1, <1>2, <1>4, <1>5
  <2>3. clear' \subseteq 0 .. (frame_count - 1)
    BY <1>1, <1>2, <1>3
  <2> QED
    BY <1>1, <1>2, <1>4, <2>1, <2>2, <2>3 DEF TypeOK, bitmapVars
<1>9. HintSound'
  BY <1>1, <1>8 DEF HintSound, TypeOK
<1> QED
  BY <1>4, <1>6, <1>7, <1>8, <1>9 DEF FreeCountExact

LEMMA PmmInitIInv ==
  ASSUME IInv, PmmInit
  PROVE  IInv'
<1> USE DEF IInv
<1>1. /\ phase = "boot" /\ phase' = "up"
      /\ clear = {} /\ held = {} /\ bitmap_frames = {} /\ ~bitmap_found
      /\ regions \in MemoryMaps
      /\ UNCHANGED <<regions, fault, held, result>>
  BY DEF PmmInit, Dormant, TypeOK
<1>2. PICK highest : IsHighest(highest) /\ frame_count' = AlignUp(highest) \div PAGE_SIZE
  BY DEF PmmInit
<1>3. highest \in Nat /\ frame_count' \in Nat
  <2>1. \A k \in Kind(regions, ManagedTypes) : RegionEnd(regions[k]) \in Nat
    BY <1>1, MapFacts DEF Kind, RegionEnd, MapRegion
  <2> QED
    BY <1>2, <2>1, AlignUpBounds DEF IsHighest
<1>4. CASE UNCHANGED <<bitmap_found, bitmap_frames, total_frames, poolVars>>
  <2>1. frame_count = 0 /\ scan_hint = 0 /\ free_frames_n \in Nat
    BY <1>1 DEF Dormant, TypeOK
  <2>2. /\ clear' = {} /\ held' = {} /\ bitmap_frames' = {} /\ scan_hint' = 0
        /\ free_frames_n' = free_frames_n /\ total_frames' = total_frames
    BY <1>1, <1>4, <2>1 DEF poolVars
  <2>3. ~bitmap_found' /\ bitmap_found' \in BOOLEAN /\ fault' \in BOOLEAN
    BY <1>1, <1>4, Zenon DEF TypeOK
  <2>4. result' \in [count : Nat, frame : 0 .. frame_count']
    <3>1. result \in [count : Nat, frame : 0 .. 0]
      BY <2>1 DEF TypeOK
    <3> QED
      BY <1>1, <1>3, <3>1
  <2>5. TypeOK'
    BY <1>1, <1>3, <1>4, <2>1, <2>2, <2>3, <2>4 DEF TypeOK
  <2>6. FramesConserved' /\ Dormant'
    BY <1>1, <2>2, <2>3, Zenon DEF FramesConserved, Dormant, Managed
  <2>7. FreeCountExact' /\ HintSound'
    BY <1>1, <2>2 DEF FreeCountExact, HintSound
  <2> QED
    BY <2>5, <2>6, <2>7
<1>5. ASSUME NEW k \in FittingRegions(frame_count'),
             BuildBitmap(regions[k], frame_count')
      PROVE  IInv'
  <2> DEFINE n       == frame_count'
             usable  == FramesOfKind(regions, "USABLE", n)
             storage == BitmapStorage(regions[k], n)
             carved  == usable \ storage
  <2>1. /\ bitmap_found' = TRUE /\ bitmap_frames' = storage
        /\ total_frames' = Cardinality(usable)
        /\ clear' = carved \ {0}
        /\ free_frames_n' = Cardinality(usable) - Cardinality(usable \cap storage)
                              - NullFrameIn(carved, n)
        /\ scan_hint' = 0
    BY <1>5, Zenon DEF BuildBitmap
  <2>2. usable \subseteq 0 .. (n - 1)
    BY <1>1, <1>3, KindFrames
  <2>3. storage \subseteq usable
    BY <1>1, <1>2, <1>3, StorageIsUsable
  <2>4. Managed' = usable
    BY <1>1, <2>1 DEF Managed
  <2> HIDE DEF usable, storage
  <2>5. clear' \subseteq 0 .. (n - 1) /\ storage \subseteq 0 .. (n - 1)
    BY <2>1, <2>2, <2>3
  <2>6. free_frames_n' = Cardinality(clear') /\ free_frames_n' \in Nat
    <3>1. usable \cap storage = storage /\ carved \subseteq 0 .. (n - 1)
      BY <2>2, <2>3
    <3>2. IsFiniteSet(usable)
      BY <1>3, <2>2, BoundedFinite
    <3>3. Cardinality(carved) = Cardinality(usable) - Cardinality(storage)
      BY <2>3, <3>2, CardinalityLess
    <3>4. /\ Cardinality(carved \ {0}) \in Nat
          /\ Cardinality(carved \ {0}) = Cardinality(carved) - NullFrameIn(carved, n)
      BY <1>3, <3>1, NullFrameCounted
    <3> QED
      BY <2>1, <3>1, <3>3, <3>4
  <2>7. FramesConserved'
    BY <1>1, <2>1, <2>3, <2>4 DEF FramesConserved
  <2>8. TypeOK'
    <3>1. total_frames' \in Nat
      BY <1>3, <2>1, <2>2, BoundedFinite
    <3>2. frame_count = 0 /\ result \in [count : Nat, frame : 0 .. 0]
      BY <1>1 DEF Dormant, TypeOK
    <3>3. result' \in [count : Nat, frame : 0 .. n]
      BY <1>1, <1>3, <3>2
    <3>4. bitmap_frames' \subseteq Nat
      BY <2>1, <2>5
    <3>5. bitmap_found' \in BOOLEAN /\ fault' \in BOOLEAN
      BY <1>1, <2>1, Zenon DEF TypeOK
    <3>6. clear' \subseteq 0 .. (n - 1) /\ held' \subseteq 0 .. (n - 1)
      BY <1>1, <2>5
    <3>7. scan_hint' \in 0 .. n /\ phase' \in {"boot", "up", "reclaimed"}
      BY <1>1, <1>3, <2>1
    <3>8. regions' \in MemoryMaps
      BY <1>1
    <3> QED
      BY <1>3, <2>6, <3>1, <3>3, <3>4, <3>5, <3>6, <3>7, <3>8 DEF TypeOK
  <2>9. Dormant'
    BY <1>1, <2>1, Zenon DEF Dormant
  <2>10. HintSound'
    <3>1. \A i \in clear' : 0 <= i
      BY <2>5
    <3> QED
      BY <2>1, <3>1, Zenon DEF HintSound
  <2>11. FreeCountExact'
    BY <2>6 DEF FreeCountExact
  <2> QED
    BY <2>7, <2>8, <2>9, <2>10, <2>11
<1> QED
  BY <1>4, <1>5 DEF PmmInit

-----------------------------------------------------------------------------
(* The theorems *)

LEMMA NextIInv == IInv /\ [Next]_vars => IInv'
<1> SUFFICES ASSUME IInv, [Next]_vars PROVE IInv'
  OBVIOUS
<1>1. CASE PmmInit
  BY <1>1, PmmInitIInv
<1>2. CASE \E f \in 0 .. frame_count : AllocFrame(f)
  BY <1>2, AllocFrameIInv
<1>3. CASE \E n \in Counts, f \in 0 .. frame_count : AllocFrames(n, f)
  BY <1>3, AllocFramesIInv
<1>4. CASE \E f \in 0 .. frame_count : FreeFrame(f)
  BY <1>4, FreeFramesIInv DEF FreeFrame
<1>5. CASE \E n \in Counts, f \in 0 .. frame_count : FreeFrames(f, n)
  <2>1. PICK n \in Counts, f \in 0 .. frame_count : FreeFrames(f, n)
    BY <1>5
  <2>2. n \in Nat
    OBVIOUS
  <2> QED
    BY <2>1, <2>2, FreeFramesIInv
<1>6. CASE ReclaimBootloader
  BY <1>6, ReclaimIInv
<1>7. CASE BitmapFault
  BY <1>7, ManagedUnchanged, Zenon
  DEF BitmapFault, IInv, TypeOK, Dormant, FreeCountExact, FramesConserved,
      HintSound, bitmapVars, poolVars, callVars
<1>8. CASE UNCHANGED vars
  BY <1>8, ManagedUnchanged, Zenon
  DEF vars, IInv, TypeOK, Dormant, FreeCountExact, FramesConserved,
      HintSound, bitmapVars, poolVars, callVars
<1> QED
  BY <1>1, <1>2, <1>3, <1>4, <1>5, <1>6, <1>7, <1>8 DEF Next, Halted

LEMMA SpecIInv == Spec => []IInv
<1>1. Init => IInv
  BY InitIInv
<1>2. IInv /\ [Next]_vars => IInv'
  BY NextIInv
<1> QED
  BY <1>1, <1>2, PTL DEF Spec

(* The type invariant: in every state of every execution the scan hint and *)
(* all frames that are free or held lie within what the bitmap spans, the  *)
(* counters never go below zero (pmm.c).                                   *)
THEOREM TypeCorrect == Spec => []TypeOK
<1>1. IInv => TypeOK
  BY DEF IInv
<1> QED
  BY <1>1, SpecIInv, PTL

(* pmm_free_bytes tells the truth, for every history of calls: the counter *)
(* is the number of free frames.                                           *)
THEOREM CountCorrect == Spec => []FreeCountExact
<1>1. IInv => FreeCountExact
  BY DEF IInv
<1> QED
  BY <1>1, SpecIInv, PTL

(* No frame is handed out twice or lost, none that is reserved or stores   *)
(* the bitmap is handed out, on any memory map the assumption admits.      *)
THEOREM ConservationCorrect == Spec => []FramesConserved
<1>1. IInv => FramesConserved
  BY DEF IInv
<1> QED
  BY <1>1, SpecIInv, PTL

(* No free frame is ever below the scan hint.                              *)
THEOREM HintCorrect == Spec => []HintSound
<1>1. IInv => HintSound
  BY DEF IInv
<1> QED
  BY <1>1, SpecIInv, PTL

(* alloc_frame returns the lowest free frame: the scan hint never makes it *)
(* overlook one.                                                           *)
THEOREM LowestFirstCorrect == Spec => LowestFirst
<1> DEFINE A == \A f \in held' \ held :
                  result'.count = 1 => \A g \in clear : f <= g
<1>1. IInv /\ [Next]_vars => [A]_vars
  <2> SUFFICES ASSUME IInv, Next PROVE A
    OBVIOUS
  <2>1. ASSUME NEW f \in 0 .. frame_count, AllocFrame(f)
        PROVE  A
    <3>1. CASE held' = held
      BY <3>1
    <3>2. CASE IsLeast(f, Candidates) /\ held' = held \cup {f}
      BY <3>2, CandidatesAreClear DEF IsLeast
    <3> QED
      BY <2>1, <3>1, <3>2 DEF AllocFrame
  <2>2. ASSUME NEW n \in Counts, NEW f \in 0 .. frame_count, AllocFrames(n, f)
        PROVE  A
    <3>1. CASE held' = held
      BY <3>1
    <3>2. CASE n = 1 /\ AllocFrame(f)
      BY <2>1, <3>2
    <3>3. CASE n > 1 /\ result' = [count |-> n, frame |-> f]
      <4>1. result'.count # 1
        BY <3>3
      <4> QED
        BY <4>1
    <3> QED
      BY <2>2, <3>1, <3>2, <3>3 DEF AllocFrames
  <2>3. ASSUME NEW n, NEW f, FreeFrames(f, n)
        PROVE  A
    BY <2>3 DEF FreeFrames
  <2>4. CASE PmmInit \/ ReclaimBootloader \/ BitmapFault \/ Halted
    BY <2>4 DEF PmmInit, ReclaimBootloader, BitmapFault, Halted, vars, callVars
  <2> QED
    BY <2>1, <2>2, <2>3, <2>4 DEF Next, FreeFrame
<1> QED
  BY <1>1, SpecIInv, PTL DEF Spec, LowestFirst

-----------------------------------------------------------------------------
(* The storage of the bitmap *)

\* Whether there is a bitmap, and how large it is, is settled by pmm_init.
StorageInv ==
  /\ BitmapHoldsEveryFrame
  /\ phase # "boot" /\ ~bitmap_found => FittingRegions(frame_count) = {}
  /\ fault => phase # "boot" /\ ~bitmap_found

(* The two roundings of the bitmap's size lose no bit.                     *)
LEMMA StorageSuffices ==
  ASSUME NEW r \in MapRegion, NEW n \in Nat
  PROVE  n <= 8 * PAGE_SIZE * Cardinality(BitmapStorage(r, n))
<1> DEFINE bytes  == (n + 7) \div 8
           frames == BitmapBytes(n) \div PAGE_SIZE
<1>1. bytes \in Nat /\ n <= 8 * bytes
  OBVIOUS
<1>2. frames \in Nat /\ bytes <= frames * PAGE_SIZE
  BY <1>1, AlignUpBounds DEF BitmapBytes
<1>3. FirstFrame(r) \in Nat
  BY RegionBounds
<1>4. BitmapStorage(r, n) = Frames!Run(FirstFrame(r), frames)
  BY DEF BitmapStorage, Frames!Run
<1> HIDE DEF bytes, frames
<1>5. Cardinality(BitmapStorage(r, n)) = frames
  BY <1>2, <1>3, <1>4, RunCardinality
<1>6. \A a \in Nat, b \in Nat : 8 * a * b = 8 * (b * a)
  OBVIOUS
<1>7. frames * PAGE_SIZE \in Nat
  BY <1>2
<1> QED
  BY <1>1, <1>2, <1>5, <1>6, <1>7

LEMMA PmmInitStorage ==
  ASSUME IInv, StorageInv, PmmInit
  PROVE  StorageInv'
<1>1. /\ phase = "boot" /\ phase' = "up" /\ ~bitmap_found
      /\ regions \in MemoryMaps /\ regions' = regions /\ fault' = fault
  BY DEF PmmInit, IInv, Dormant, TypeOK
<1>2. ~fault'
  BY <1>1 DEF StorageInv
<1>3. frame_count' \in Nat
  <2>1. TypeOK'
    BY PmmInitIInv DEF IInv
  <2> QED
    BY <2>1 DEF TypeOK
<1>4. CASE FittingRegions(frame_count') = {} /\ bitmap_found' = bitmap_found
  <2>1. FittingRegions(frame_count)' = {}
    BY <1>1, <1>4 DEF FittingRegions
  <2> QED
    BY <1>1, <1>2, <1>4, <2>1 DEF StorageInv, BitmapHoldsEveryFrame
<1>5. ASSUME NEW k \in FittingRegions(frame_count'),
             BuildBitmap(regions[k], frame_count')
      PROVE  StorageInv'
  <2>1. bitmap_found' = TRUE /\ bitmap_frames' = BitmapStorage(regions[k], frame_count')
    BY <1>5, Zenon DEF BuildBitmap
  <2>2. regions[k] \in MapRegion
    BY <1>1, MapFacts DEF FittingRegions, Kind
  <2> QED
    BY <1>2, <1>3, <2>1, <2>2, StorageSuffices DEF StorageInv, BitmapHoldsEveryFrame
<1> QED
  BY <1>4, <1>5 DEF PmmInit

LEMMA SpecStorage == Spec => []StorageInv
<1>1. Init => StorageInv
  BY DEF Init, StorageInv, BitmapHoldsEveryFrame
<1>2. IInv /\ StorageInv /\ [Next]_vars => StorageInv'
  <2> SUFFICES ASSUME IInv, StorageInv, [Next]_vars PROVE StorageInv'
    OBVIOUS
  <2>1. CASE PmmInit
    BY <2>1, PmmInitStorage
  <2>2. CASE /\ UNCHANGED <<regions, bitmapVars>>
             /\ phase' # "boot" => phase # "boot"
             /\ phase # "boot" => phase' # "boot"
             /\ fault' => fault \/ (phase # "boot" /\ ~bitmap_found)
    <3>1. FittingRegions(frame_count)' = FittingRegions(frame_count)
      BY <2>2 DEF FittingRegions, bitmapVars
    <3> QED
      BY <2>2, <3>1 DEF StorageInv, BitmapHoldsEveryFrame, bitmapVars
  <2>3. CASE \E f \in 0 .. frame_count : AllocFrame(f)
    BY <2>2, <2>3 DEF AllocFrame
  <2>4. CASE \E n \in Counts, f \in 0 .. frame_count : AllocFrames(n, f)
    BY <2>2, <2>4 DEF AllocFrames, AllocFrame
  <2>5. CASE \E n \in Nat, f \in 0 .. frame_count : FreeFrames(f, n)
    BY <2>2, <2>5 DEF FreeFrames
  <2>6. CASE ReclaimBootloader
    BY <2>2, <2>6 DEF ReclaimBootloader
  <2>7. CASE BitmapFault
    BY <2>2, <2>7 DEF BitmapFault, Running, CanReadBitmap
  <2>8. CASE UNCHANGED vars
    BY <2>2, <2>8 DEF vars
  <2>9. \A n \in Counts : n \in Nat
    OBVIOUS
  <2> QED
    BY <2>1, <2>3, <2>4, <2>5, <2>6, <2>7, <2>8, <2>9 DEF Next, Halted, FreeFrame
<1> QED
  BY <1>1, <1>2, SpecIInv, PTL DEF Spec

(* Whatever the page size and the memory map, the storage set aside for    *)
(* the bitmap has a bit for every frame (pmm.c:57, pmm.c:63).              *)
THEOREM BitmapCorrect == Spec => []BitmapHoldsEveryFrame
<1>1. StorageInv => BitmapHoldsEveryFrame
  BY DEF StorageInv
<1> QED
  BY <1>1, SpecStorage, PTL

(* The null bitmap is read only where no usable region could hold one.     *)
THEOREM FaultCorrect == Spec => []FaultOnlyWithoutRoom
<1>1. IInv /\ StorageInv => FaultOnlyWithoutRoom
  <2> SUFFICES ASSUME IInv, StorageInv, fault, NEW k \in Kind(regions, {"USABLE"})
               PROVE  RegionEnd(regions[k]) - AlignUp(regions[k].base)
                        < BitmapBytes(frame_count)
    BY DEF FaultOnlyWithoutRoom
  <2>1. k \notin FittingRegions(frame_count)
    BY DEF StorageInv
  <2>2. regions \in MemoryMaps /\ frame_count \in Nat
    BY DEF IInv, TypeOK
  <2>3. regions[k] \in MapRegion
    BY <2>2, MapFacts DEF Kind
  <2>4. RegionEnd(regions[k]) \in Nat /\ AlignUp(regions[k].base) \in Nat
    BY <2>3, AlignUpBounds DEF MapRegion, RegionEnd
  <2>5. BitmapBytes(frame_count) \in Nat
    <3>1. (frame_count + 7) \div 8 \in Nat
      BY <2>2
    <3> QED
      BY <3>1, AlignUpBounds DEF BitmapBytes
  <2> QED
    BY <2>1, <2>4, <2>5 DEF FittingRegions
<1> QED
  BY <1>1, SpecIInv, SpecStorage, PTL

-----------------------------------------------------------------------------
(* The total *)

\* The null frame, where pmm_init counted it.
CountedNull == FramesOfKind(regions, "USABLE", frame_count) \cap {0} \cap Managed

\* All frames the total stands for.  Allocating and freeing move frames about
\* in it, and only pmm_init and the reclaim change it.
Accounted == clear \cup held \cup bitmap_frames \cup CountedNull

TotalInv == total_frames = Cardinality(Accounted)

LEMMA AccountedFinite ==
  ASSUME IInv
  PROVE  /\ IsFiniteSet(Accounted)
         /\ clear \cap (held \cup bitmap_frames \cup CountedNull) = {}
<1>1. frame_count \in Nat /\ IsFiniteSet(0 .. (frame_count - 1))
  BY FS_Interval DEF IInv, TypeOK
<1>2. IsFiniteSet((0 .. (frame_count - 1)) \cup {0})
  BY <1>1, FS_AddElement
<1>3. Accounted \subseteq (0 .. (frame_count - 1)) \cup {0}
  BY ManagedRange DEF Accounted, CountedNull, IInv, FramesConserved
<1>4. clear \cap (held \cup bitmap_frames \cup CountedNull) = {}
  BY DEF CountedNull, IInv, FramesConserved
<1> QED
  BY <1>2, <1>3, <1>4, FS_Subset

LEMMA PmmInitTotal ==
  ASSUME IInv, TotalInv, PmmInit
  PROVE  TotalInv'
<1>1. /\ phase' = "up" /\ held' = {} /\ regions' = regions
      /\ clear = {} /\ held = {} /\ bitmap_frames = {} /\ ~bitmap_found
      /\ regions \in MemoryMaps
  BY DEF PmmInit, IInv, Dormant, TypeOK
<1>2. FramesConserved' /\ frame_count' \in Nat
  BY PmmInitIInv DEF IInv, TypeOK
<1>3. CASE UNCHANGED <<bitmap_found, bitmap_frames, total_frames, poolVars>>
  <2>1. CountedNull = {} /\ CountedNull' = {}
    BY <1>1, <1>3 DEF CountedNull, Managed
  <2>2. Accounted' = Accounted
    BY <1>1, <1>3, <2>1 DEF Accounted, poolVars
  <2> QED
    BY <1>3, <2>2 DEF TotalInv
<1>4. ASSUME NEW k \in FittingRegions(frame_count'),
             BuildBitmap(regions[k], frame_count')
      PROVE  TotalInv'
  <2> DEFINE usable == FramesOfKind(regions, "USABLE", frame_count')
  <2>1. /\ bitmap_found' /\ total_frames' = Cardinality(usable)
        /\ bitmap_frames' = BitmapStorage(regions[k], frame_count')
    BY <1>4, Zenon DEF BuildBitmap
  <2>2. PICK highest : IsHighest(highest) /\ frame_count' = AlignUp(highest) \div PAGE_SIZE
    BY DEF PmmInit
  <2>3. bitmap_frames' \subseteq usable
    BY <1>1, <1>2, <1>4, <2>1, <2>2, StorageIsUsable
  <2>4. Managed' = usable /\ CountedNull' = usable \cap {0}
    BY <1>1, <2>1 DEF Managed, CountedNull
  <2>5. (clear' \cup held' \cup bitmap_frames') \ {0} = usable \ {0} /\ 0 \notin clear'
    BY <1>2, <2>4 DEF FramesConserved
  <2> HIDE DEF usable
  <2>6. Accounted' = usable
    BY <1>1, <2>3, <2>4, <2>5 DEF Accounted
  <2> QED
    BY <2>1, <2>6 DEF TotalInv
<1> QED
  BY <1>3, <1>4 DEF PmmInit

LEMMA ReclaimTotal ==
  ASSUME IInv, TotalInv, ReclaimBootloader
  PROVE  TotalInv'
<1> DEFINE new == clear' \ clear
<1>1. /\ CanReadBitmap /\ phase = "up" /\ phase' = "reclaimed"
      /\ clear' = (clear \cup Regained) \ {0}
      /\ total_frames' = total_frames + (free_frames_n' - free_frames_n)
      /\ UNCHANGED <<regions, bitmapVars, held>>
  BY Zenon DEF ReclaimBootloader
<1>2. IInv'
  BY ReclaimIInv
<1>3. /\ 0 \notin clear
      /\ Regained \cap (clear \cup held \cup bitmap_frames) \subseteq {0}
  BY <1>1, RegainedIsNew DEF IInv, FramesConserved
<1>4. clear \subseteq clear' /\ new \cap Accounted = {}
  BY <1>1, <1>3 DEF Accounted, CountedNull
<1>5. CountedNull' = CountedNull
  BY <1>1 DEF CountedNull, Managed, bitmapVars
<1>6. Accounted' = Accounted \cup new
  BY <1>1, <1>4, <1>5 DEF Accounted, bitmapVars
<1>7. IsFiniteSet(clear')
  BY <1>2, BoundedFinite DEF IInv, TypeOK
<1>8. /\ IsFiniteSet(new) /\ Cardinality(clear) \in Nat /\ Cardinality(clear') \in Nat
      /\ Cardinality(new) = Cardinality(clear') - Cardinality(clear)
  BY <1>4, <1>7, CardinalityLess
<1> HIDE DEF new
<1>9. /\ Cardinality(Accounted) \in Nat
      /\ Cardinality(Accounted') = Cardinality(Accounted) + Cardinality(new)
  BY <1>4, <1>6, <1>8, AccountedFinite, CardinalityMore
<1>10. free_frames_n = Cardinality(clear) /\ free_frames_n' = Cardinality(clear')
  BY <1>2 DEF IInv, FreeCountExact
<1> QED
  BY <1>1, <1>8, <1>9, <1>10 DEF TotalInv

LEMMA SpecTotal == Spec => []TotalInv
<1>1. Init => TotalInv
  <2> SUFFICES ASSUME Init PROVE TotalInv
    OBVIOUS
  <2>1. Accounted = {}
    BY DEF Init, Accounted, CountedNull, Managed
  <2> QED
    BY <2>1, FS_EmptySet DEF Init, TotalInv
<1>2. IInv /\ TotalInv /\ [Next]_vars => TotalInv'
  <2> SUFFICES ASSUME IInv, TotalInv, [Next]_vars PROVE TotalInv'
    OBVIOUS
  <2>1. CASE PmmInit
    BY <2>1, PmmInitTotal
  <2>2. CASE ReclaimBootloader
    BY <2>2, ReclaimTotal
  <2>3. CASE /\ UNCHANGED <<regions, phase, total_frames, bitmapVars>>
             /\ clear' \cup held' = clear \cup held
    <3>1. CountedNull' = CountedNull
      BY <2>3, ManagedUnchanged DEF CountedNull, bitmapVars
    <3>2. Accounted' = Accounted
      BY <2>3, <3>1 DEF Accounted, bitmapVars
    <3> QED
      BY <2>3, <3>2 DEF TotalInv
  <2>4. ASSUME NEW f \in 0 .. frame_count, AllocFrame(f)
        PROVE  TotalInv'
    <3>1. Candidates = clear
      BY CandidatesAreClear
    <3> QED
      BY <2>3, <2>4, <3>1 DEF AllocFrame, IsLeast, poolVars
  <2>5. ASSUME NEW n \in Counts, NEW f \in 0 .. frame_count, AllocFrames(n, f)
        PROVE  TotalInv'
    <3>1. f \in RunStarts(n) => Frames!Run(f, n) \subseteq clear
      BY DEF RunStarts
    <3> QED
      BY <2>3, <2>4, <2>5, <3>1 DEF AllocFrames, IsLeast, poolVars
  <2>6. ASSUME NEW n \in Nat, NEW f \in 0 .. frame_count, FreeFrames(f, n)
        PROVE  TotalInv'
    <3>1. clear' \cup held' = clear \cup held
      BY <2>6, FreedWereHeld
    <3> QED
      BY <2>3, <2>6, <3>1 DEF FreeFrames
  <2>7. CASE BitmapFault \/ UNCHANGED vars
    BY <2>3, <2>7 DEF BitmapFault, vars, callVars, poolVars
  <2>8. \A n \in Counts : n \in Nat
    OBVIOUS
  <2> QED
    BY <2>1, <2>2, <2>4, <2>5, <2>6, <2>7, <2>8 DEF Next, Halted, FreeFrame
<1> QED
  BY <1>1, <1>2, SpecIInv, PTL DEF Spec

(* pmm_total_bytes accounts for every frame: those that are free, those    *)
(* callers hold, and those that were counted and then withdrawn.           *)
THEOREM TotalCorrect == Spec => []TotalAccounted
<1>1. IInv /\ TotalInv => TotalAccounted
  <2> SUFFICES ASSUME IInv, TotalInv PROVE TotalAccounted
    OBVIOUS
  <2> DEFINE rest == held \cup bitmap_frames \cup CountedNull
  <2>1. Accounted = clear \cup rest
    BY DEF Accounted
  <2>2. IsFiniteSet(Accounted) /\ clear \cap rest = {}
    BY AccountedFinite
  <2>3. IsFiniteSet(clear) /\ IsFiniteSet(rest)
    BY <2>1, <2>2, FS_Subset
  <2> HIDE DEF rest
  <2>4. /\ Cardinality(Accounted) = Cardinality(clear) + Cardinality(rest)
    BY <2>1, <2>2, <2>3, CardinalityMore
  <2>5. total_frames = free_frames_n + Cardinality(rest)
    BY <2>4 DEF TotalInv, IInv, FreeCountExact
  <2> QED
    BY <2>5 DEF TotalAccounted, CountedNull, rest
<1> QED
  BY <1>1, SpecIInv, SpecTotal, PTL

-----------------------------------------------------------------------------
(* Refinement of FrameAllocator *)

LEMMA AllocFrameRefines ==
  ASSUME IInv, NEW f \in 0 .. frame_count, AllocFrame(f)
  PROVE  Frames!Next
<1>1. result' = [count |-> 1, frame |-> f] /\ result'.count = 1 /\ result'.frame = f
  BY DEF AllocFrame
<1>2. Frames!Run(f, 1) = {f} /\ Candidates = clear
  BY CandidatesAreClear DEF Frames!Run
<1>3. CASE /\ IsLeast(f, Candidates)
           /\ clear' = clear \ {f} /\ held' = held \cup {f}
  <2>1. Frames!Allocate(1, f)
    BY <1>1, <1>2, <1>3 DEF IsLeast, Frames!Allocate
  <2> QED
    BY <1>1, <2>1 DEF Frames!Next
<1>4. CASE Candidates = {} /\ f = 0 /\ clear' = clear /\ held' = held
  <2>1. Frames!Refuse(1)
    BY <1>1, <1>2, <1>4 DEF Frames!Refuse
  <2> QED
    BY <1>1, <2>1 DEF Frames!Next
<1> QED
  BY <1>3, <1>4 DEF AllocFrame, poolVars

LEMMA AllocFramesRefines ==
  ASSUME IInv, NEW n \in Counts, NEW f \in 0 .. frame_count, AllocFrames(n, f)
  PROVE  Frames!Next
<1>1. CASE n = 1 /\ AllocFrame(f)
  BY <1>1, AllocFrameRefines
<1>2. CASE /\ n # 1 \/ ~AllocFrame(f)
           /\ result' = [count |-> n, frame |-> f]
  <2>1. result'.count = n /\ result'.frame = f /\ n \in Nat
    BY <1>2
  <2>2. CASE n = 0 /\ f = 0 /\ clear' = clear /\ held' = held
    <3>1. Frames!Refuse(n)
      BY <1>2, <2>2 DEF Frames!Refuse
    <3> QED
      BY <2>1, <3>1 DEF Frames!Next
  <2>3. CASE /\ n > 1 /\ IsLeast(f, RunStarts(n))
             /\ clear' = clear \ Frames!Run(f, n)
             /\ held' = held \cup Frames!Run(f, n)
    <3>1. Frames!Run(f, n) \subseteq clear /\ n > 0
      BY <2>1, <2>3 DEF IsLeast, RunStarts
    <3>2. Frames!Allocate(n, f)
      BY <1>2, <2>3, <3>1 DEF Frames!Allocate
    <3> QED
      BY <2>1, <3>2 DEF Frames!Next
  <2>4. CASE n > 1 /\ RunStarts(n) = {} /\ f = 0 /\ clear' = clear /\ held' = held
    <3>1. \A g \in clear : ~(Frames!Run(g, n) \subseteq clear)
      BY <2>4 DEF RunStarts
    <3>2. Frames!Refuse(n)
      BY <1>2, <2>4, <3>1 DEF Frames!Refuse
    <3> QED
      BY <2>1, <3>2 DEF Frames!Next
  <2> QED
    BY <1>2, <2>2, <2>3, <2>4 DEF AllocFrames, poolVars
<1> QED
  BY <1>1, <1>2 DEF AllocFrames

LEMMA FreeFramesRefines ==
  ASSUME IInv, NEW n, NEW f, FreeFrames(f, n)
  PROVE  Frames!Next
<1> DEFINE run == Frames!Run(f, n)
<1>1. /\ clear' = clear \cup Freed(run) /\ held' = held \ run
      /\ result' = Frames!NoResult
  BY Zenon DEF FreeFrames
<1>2. held \ held' = Freed(run)
  BY FreedWereHeld
<1>3. Frames!Release
  BY <1>1, <1>2 DEF Frames!Release
<1> QED
  BY <1>3 DEF Frames!Next

LEMMA DonateRefines ==
  ASSUME IInv, PmmInit \/ ReclaimBootloader
  PROVE  Frames!Next
<1>1. CASE PmmInit
  <2>1. clear = {} /\ held = {} /\ result = Frames!NoResult
    BY <1>1 DEF IInv, Dormant, PmmInit
  <2>2. IInv'
    BY <1>1, PmmInitIInv
  <2>3. 0 \notin clear'
    BY <2>2 DEF IInv, FramesConserved
  <2>4. held' = held /\ result' = result
    BY <1>1 DEF PmmInit
  <2>5. Frames!Donate
    BY <2>1, <2>3, <2>4 DEF Frames!Donate
  <2> QED
    BY <2>5 DEF Frames!Next
<1>2. CASE ReclaimBootloader
  <2>1. IInv' /\ clear' = (clear \cup Regained) \ {0}
    BY <1>2, ReclaimIInv DEF ReclaimBootloader
  <2>2. Regained \cap held \subseteq {0} /\ 0 \notin clear
    BY <1>2, RegainedIsNew DEF ReclaimBootloader, IInv, FramesConserved
  <2>3. held' = held /\ result' = Frames!NoResult
    BY <1>2 DEF ReclaimBootloader
  <2>4. Frames!Donate
    BY <2>1, <2>2, <2>3 DEF Frames!Donate
  <2> QED
    BY <2>4 DEF Frames!Next
<1> QED
  BY <1>1, <1>2

(* pmm.c implements FrameAllocator: every execution of the bitmap, hint    *)
(* and counter is one the abstract allocator allows.                       *)
THEOREM Refinement == Spec => Implements
<1>1. Init => Frames!Init
  BY DEF Init, Frames!Init
<1>2. IInv /\ [Next]_vars => [Frames!Next]_(Frames!frameVars)
  <2> SUFFICES ASSUME IInv, [Next]_vars
               PROVE  Frames!Next \/ UNCHANGED Frames!frameVars
    OBVIOUS
  <2>1. CASE PmmInit \/ ReclaimBootloader
    BY <2>1, DonateRefines
  <2>2. CASE \E f \in 0 .. frame_count : AllocFrame(f)
    BY <2>2, AllocFrameRefines
  <2>3. CASE \E n \in Counts, f \in 0 .. frame_count : AllocFrames(n, f)
    BY <2>3, AllocFramesRefines
  <2>4. CASE \E n, f : FreeFrames(f, n)
    BY <2>4, FreeFramesRefines
  <2>5. CASE BitmapFault \/ UNCHANGED vars
    BY <2>5 DEF BitmapFault, vars, poolVars, callVars, Frames!frameVars
  <2> QED
    BY <2>1, <2>2, <2>3, <2>4, <2>5 DEF Next, FreeFrame, Halted
<1> QED
  BY <1>1, <1>2, SpecIInv, PTL DEF Spec, Implements, Frames!Spec
=============================================================================
