-------------------------------- MODULE VMM ---------------------------------
(***************************************************************************)
(* Address spaces, src/kernel/memory/paging.c, and memory_init             *)
(* (src/kernel/memory/memory.c), which builds the kernel's own page tables *)
(* from the bootloader's and then takes the bootloader's memory over.      *)
(*                                                                         *)
(* clone_table is recursive, and each activation is a record of `stack`;   *)
(* one step handles one entry of one table.  map_page takes one step for   *)
(* each level it descends.  Between any two steps the processor may walk   *)
(* the live tables by itself and keep what it finds in its TLB.            *)
(*                                                                         *)
(* Frames come from FrameAllocator, which stands for pmm.c.  Frame         *)
(* numbers stand for physical addresses, and a virtual page is the         *)
(* sequence of its four table indices.                                     *)
(***************************************************************************)
EXTENDS Integers, Sequences

CONSTANTS
  ENTRIES,     \* entries in a table
  Pools,       \* the sets of frames that may be usable from the start
  BootFrames,  \* the bootloader's frames, its tables among them
  BootTables,  \* contents of those tables
  BootRoot,    \* the one cr3 points to at first
  Pages,       \* frames map_page is asked to map
  FlagSets,    \* sets of flags it is asked to set
  Virtual      \* virtual pages that are mapped and accessed

Index == 0 .. (ENTRIES - 1)
Path == [1 .. 4 -> Index]
Flags == {"PRESENT", "WRITE", "USER", "HUGE", "NX"}
Entry == [to : Nat, bits : SUBSET Flags]
Zero == [to |-> 0, bits |-> {}]
ZeroTable == [i \in Index |-> Zero]

\* What lies in a frame nobody has cleared.
Garbage == [i \in Index |-> [to |-> 0, bits |-> Flags]]

ASSUME TablesAssumption ==
  /\ ENTRIES \in Nat \ {0}
  /\ BootTables \in [DOMAIN BootTables -> [Index -> Entry]]
  /\ BootRoot \in DOMAIN BootTables
  /\ DOMAIN BootTables \subseteq BootFrames
  /\ FlagSets \subseteq SUBSET Flags /\ Virtual \subseteq Path /\ Pages \subseteq Nat

ASSUME FramesAssumption ==
  /\ \A pool \in Pools : pool \subseteq Nat \ {0} /\ pool \cap BootFrames = {}
  /\ BootFrames \subseteq Nat \ {0}

Present(e) == "PRESENT" \in e.bits

\* Whether the processor goes on from an entry of a table at this level (4 for
\* the root) to a table one level down.
Leads(e, level) ==
  Present(e) /\ (level = 4 \/ (level \in {2, 3} /\ "HUGE" \notin e.bits))

(* The bootloader's tables, which the processor walks as the kernel is     *)
(* entered, stand on four levels, each leading to tables one level down.   *)
Levelled(level) ==
  /\ level[BootRoot] = 4
  /\ \A t \in DOMAIN BootTables, i \in Index :
       LET e == BootTables[t][i]
       IN  Leads(e, level[t]) =>
             e.to \in DOMAIN BootTables /\ level[e.to] = level[t] - 1

ASSUME LevelsAssumption ==
  \E level \in [DOMAIN BootTables -> 1 .. 4] : Levelled(level)

VARIABLES
  phase,      \* how far memory_init is
  mem,        \* contents of the frames that were ever used as tables
  cr3,        \* the root of the live tables
  tlb,        \* translations the processor has kept
  stack,      \* the activations of clone_table, innermost last
  new_pml4,   \* what vmm_clone_kernel_space returned
  call,       \* the map_page in progress
  owned,      \* the frames paging.c has taken from the allocator
  stray,      \* frames it has used as tables that are not tables
  usable,     \* the frames pmm_init finds
  available, held, result    \* the state of the frame allocator

frameVars == <<available, held, result>>
cloneVars == <<stack, new_pml4>>
vars == <<phase, mem, cr3, tlb, cloneVars, call, owned, stray, usable, frameVars>>

Frames == INSTANCE FrameAllocator

Idle == [op |-> "idle"]
Unmapped == [to |-> 0, depth |-> 0, rights |-> {}]

Init ==
  /\ phase = "pmm_init"
  /\ mem = BootTables /\ cr3 = BootRoot
  /\ tlb = [v \in Virtual |-> Unmapped]
  /\ stack = << >> /\ new_pml4 = 0
  /\ call = Idle
  /\ owned = {} /\ stray = {}
  /\ usable \in Pools
  /\ Frames!Init

-----------------------------------------------------------------------------
(***************************************************************************)
(* What the processor does with the tables                                 *)
(***************************************************************************)

ContentsIn(m, f) == IF f \in DOMAIN m THEN m[f] ELSE Garbage
Contents(f) == ContentsIn(mem, f)

\* The table below t on the way to page v, 0 if the walk ends in t.
Below(m, t, v, depth) ==
  IF t = 0 THEN 0
  ELSE LET e == ContentsIn(m, t)[v[depth]]
       IN  IF Leads(e, 5 - depth) THEN e.to ELSE 0

\* The tables a walk for page v visits from `root` on, then zeros; m is the
\* memory.
Walk(m, root, v) ==
  LET pdpt == Below(m, root, v, 1)
      pd   == Below(m, pdpt, v, 2)
      pt   == Below(m, pd, v, 3)
  IN  <<root, pdpt, pd, pt>>

\* The depth at which a walk ends.
Deepest(walk) == CHOOSE d \in 1 .. 4 : walk[d] # 0 /\ (d < 4 => walk[d + 1] = 0)

\* What page v is mapped to, with the rights all levels agree on.
TranslationIn(m, root, v) ==
  LET walk  == Walk(m, root, v)
      depth == Deepest(walk)
      e     == [d \in 1 .. depth |-> ContentsIn(m, walk[d])[v[d]]]
  IN  IF ~Present(e[depth]) THEN Unmapped
      ELSE [to |-> e[depth].to, depth |-> depth,
            rights |-> {b \in {"WRITE", "USER"} : \A d \in 1 .. depth : b \in e[d].bits}
                         \cup {b \in {"NX"} : \E d \in 1 .. depth : b \in e[d].bits}]

Translation(v) == TranslationIn(mem, cr3, v)

\* The memory with this table in frame f.
With(m, f, table) == [g \in DOMAIN m \cup {f} |-> IF g = f THEN table ELSE m[g]]

\* The frames of all tables reached from a root.
TablesOf(root) == (UNION {{Walk(mem, root, v)[d] : d \in 1 .. 4} : v \in Path}) \ {0}

\* The processor walks the live tables and keeps the translation.
Access(v) ==
  /\ Translation(v) # Unmapped
  /\ tlb' = [tlb EXCEPT ![v] = Translation(v)]
  /\ UNCHANGED <<phase, mem, cr3, cloneVars, call, owned, stray, usable, frameVars>>

-----------------------------------------------------------------------------
(***************************************************************************)
(* memory_init                                                             *)
(***************************************************************************)

pmm_init ==
  /\ phase = "pmm_init"
  /\ phase' = "clone"
  /\ available' = usable
  /\ Frames!Donate
  /\ UNCHANGED <<mem, cr3, tlb, cloneVars, call, owned, stray, usable>>

\* alloc_frame returns f, the lowest free frame (LowestFirst of PMM).
alloc_frame(f) ==
  /\ \A g \in available : f <= g
  /\ Frames!Allocate(1, f)

\* A frame for a table joins those of paging.c.
Take(f) == alloc_frame(f) /\ owned' = owned \cup {f}

\* clone_table's test for a leaf without the 1GiB pages.
Leaf_SmallOnly(e, level) == level = 1 \/ (level = 2 /\ "HUGE" \in e.bits)

\* clone_table's test for an entry that maps memory.
Leaf(e, level) == level = 1 \/ (level \in {2, 3} /\ "HUGE" \in e.bits)

\* A call of clone_table(src, level) that got frame f for the copy.
Activation(src, f, level) == [src |-> src, dst |-> f, level |-> level, i |-> 0]

\* The bootloader's memory is reclaimed even when there is no copy.
CloneReturns_ReclaimAnyway(root) ==
  /\ new_pml4' = root
  /\ stack' = << >>
  /\ phase' = IF root # 0 THEN "load" ELSE "reclaim"

\* vmm_clone_kernel_space returns, and memory_init looks at what it got.
CloneReturns(root) ==
  /\ new_pml4' = root
  /\ stack' = << >>
  /\ phase' = IF root # 0 THEN "load" ELSE "kheap_init"

\* clone_table(src, level) is entered with `callers` beneath it.  If there is
\* no frame it returns 0, and so does every caller in turn.
CallClone(src, level, callers) ==
  \/ \E f \in available :
       /\ Take(f)
       /\ mem' = With(mem, f, Garbage)
       /\ stack' = Append(callers, Activation(src, f, level))
       /\ UNCHANGED <<phase, new_pml4>>
  \/ /\ Frames!Refuse(1)
     /\ CloneReturns(0)
     /\ UNCHANGED <<mem, owned>>

vmm_clone_kernel_space ==
  /\ phase = "clone" /\ stack = << >>
  /\ CallClone(cr3, 4, stack)
  /\ UNCHANGED <<cr3, tlb, call, stray, usable>>

Top == stack[Len(stack)]
Callers == SubSeq(stack, 1, Len(stack) - 1)

\* The entry a caller stores for a child, without the flags of the original.
Relocated_FlagsLost(e, child) == [to |-> child, bits |-> {"PRESENT", "WRITE"}]

\* The entry of the original itself.
Relocated_Shared(e, child) == e

\* The entry a caller stores for a child: the flags are kept.
Relocated(e, child) == [e EXCEPT !.to = child]

\* One turn of clone_table's loop that needs no child, or calls for one.
CloneEntry ==
  /\ stack # << >> /\ Top.i < ENTRIES
  /\ LET e == Contents(Top.src)[Top.i]
     IN  \/ /\ ~Present(e) \/ Leaf(e, Top.level)
            /\ mem' = [mem EXCEPT ![Top.dst][Top.i] = IF Present(e) THEN e ELSE Zero]
            /\ stack' = Append(Callers, [Top EXCEPT !.i = @ + 1])
            /\ UNCHANGED <<phase, new_pml4, owned, frameVars>>
         \/ /\ Present(e) /\ ~Leaf(e, Top.level)
            /\ CallClone(e.to, Top.level - 1, stack)
  /\ UNCHANGED <<cr3, tlb, call, stray, usable>>

\* clone_table returns a child to the activation that called it.
CloneReturn ==
  /\ Len(stack) > 1 /\ Top.i = ENTRIES
  /\ LET caller == Callers[Len(Callers)]
         e      == Contents(caller.src)[caller.i]
     IN  /\ mem' = [mem EXCEPT ![caller.dst][caller.i] = Relocated(e, Top.dst)]
         /\ stack' = [Callers EXCEPT ![Len(Callers)].i = @ + 1]
  /\ UNCHANGED <<phase, new_pml4, cr3, tlb, call, owned, stray, usable, frameVars>>

\* The outermost clone_table returns the new root.
CloneDone ==
  /\ Len(stack) = 1 /\ Top.i = ENTRIES
  /\ CloneReturns(Top.dst)
  /\ UNCHANGED <<mem, cr3, tlb, call, owned, stray, usable, frameVars>>

(* vmm_load_space: writing cr3 empties the TLB.                            *)
vmm_load_space ==
  /\ phase = "load"
  /\ phase' = "reclaim"
  /\ cr3' = new_pml4
  /\ tlb' = [v \in Virtual |-> Unmapped]
  /\ UNCHANGED <<mem, cloneVars, call, owned, stray, usable, frameVars>>

pmm_reclaim_bootloader ==
  /\ phase = "reclaim"
  /\ phase' = "kheap_init"
  /\ available' = available \cup BootFrames
  /\ Frames!Donate
  /\ UNCHANGED <<mem, cr3, tlb, cloneVars, call, owned, stray, usable>>

(* kheap_init takes its first frames, if there are any; from here on the   *)
(* heap is one of the other callers of the frame allocator.                *)
kheap_init ==
  /\ phase = "kheap_init"
  /\ phase' = "up"
  /\ (\E f \in available : alloc_frame(f)) \/ Frames!Refuse(1)
  /\ UNCHANGED <<mem, cr3, tlb, cloneVars, call, owned, stray, usable>>

-----------------------------------------------------------------------------
(***************************************************************************)
(* map_page                                                                *)
(***************************************************************************)

(* map_page(pml4, va, pa, flags) with the live root, up to its first       *)
(* next_level.                                                             *)
map_page(v, pa, flags) ==
  /\ phase = "up" /\ call = Idle
  /\ call' = [op |-> "map_page", va |-> v, pa |-> pa, flags |-> flags,
              table |-> cr3, depth |-> 1]
  /\ UNCHANGED <<phase, mem, cr3, tlb, cloneVars, owned, stray, usable, frameVars>>

\* A new table whose old contents stay in it.
Fresh_NotCleared == Garbage

\* What next_level puts in a frame before it links it in.
Fresh == ZeroTable

Descend(f) ==
  /\ call' = [call EXCEPT !.table = f, !.depth = @ + 1]
  /\ stray' = IF f \in DOMAIN mem' THEN stray ELSE stray \cup {f}

\* next_level: the table below is there, or there is a frame for it, or there
\* is none and map_page returns.
next_level ==
  /\ call.op = "map_page" /\ call.depth < 4
  /\ LET i == call.va[call.depth]
         e == Contents(call.table)[i]
     IN  \/ /\ Present(e)
            /\ UNCHANGED <<mem, owned, frameVars>>
            /\ Descend(e.to)
         \/ /\ ~Present(e)
            /\ \E f \in available :
                 /\ Take(f)
                 /\ mem' = [With(mem, f, Fresh) EXCEPT
                              ![call.table][i] = [to |-> f, bits |-> {"PRESENT", "WRITE"}]]
                 /\ Descend(f)
         \/ /\ ~Present(e)
            /\ Frames!Refuse(1)
            /\ call' = Idle
            /\ UNCHANGED <<mem, owned, stray>>
  /\ UNCHANGED <<phase, cr3, tlb, cloneVars, usable>>

\* The last level's entry is written.
SetEntry ==
  /\ call.op = "map_page" /\ call.depth = 4
  /\ call' = [call EXCEPT !.op = "invlpg"]
  /\ mem' = IF call.table \in DOMAIN mem
            THEN [mem EXCEPT ![call.table][call.va[4]] = [to |-> call.pa, bits |-> call.flags]]
            ELSE mem
  /\ UNCHANGED <<phase, cr3, tlb, cloneVars, owned, stray, usable, frameVars>>

\* map_page returns with the old translation still in the TLB.
invlpg_Missing ==
  /\ call.op = "invlpg"
  /\ call' = Idle
  /\ UNCHANGED <<phase, mem, cr3, tlb, cloneVars, owned, stray, usable, frameVars>>

invlpg ==
  /\ call.op = "invlpg"
  /\ call' = Idle
  /\ tlb' = [tlb EXCEPT ![call.va] = Unmapped]
  /\ UNCHANGED <<phase, mem, cr3, cloneVars, owned, stray, usable, frameVars>>

-----------------------------------------------------------------------------

(* The other callers of the frame allocator.  What they write is theirs.   *)
OtherTakes ==
  /\ phase = "up" /\ call = Idle
  /\ \E f \in available : alloc_frame(f)
  /\ UNCHANGED <<phase, mem, cr3, tlb, cloneVars, call, owned, stray, usable>>

OtherReturns ==
  /\ phase = "up" /\ call = Idle
  /\ \E f \in held \ owned : held' = held \ {f}
  /\ Frames!Release
  /\ UNCHANGED <<phase, mem, cr3, tlb, cloneVars, call, owned, stray, usable>>

MemoryInit ==
  \/ pmm_init
  \/ vmm_clone_kernel_space \/ CloneEntry \/ CloneReturn \/ CloneDone
  \/ vmm_load_space \/ pmm_reclaim_bootloader \/ kheap_init

Next ==
  \/ MemoryInit
  \/ \E v \in Virtual, pa \in Pages, flags \in FlagSets : map_page(v, pa, flags)
  \/ next_level \/ SetEntry \/ invlpg
  \/ \E v \in Virtual : Access(v)
  \/ OtherTakes \/ OtherReturns

Spec == Init /\ [][Next]_vars

-----------------------------------------------------------------------------
(***************************************************************************)
(* Properties                                                              *)
(***************************************************************************)

Activations ==
  [src : DOMAIN BootTables, dst : owned, level : 1 .. 4, i : 0 .. ENTRIES]

(* The type invariant: clone_table reads nothing but the bootloader's      *)
(* tables (whatever the page sizes), writes nothing but frames of its own, *)
(* and its recursion follows the levels down from 4.                       *)
TypeOK ==
  /\ phase \in {"pmm_init", "clone", "load", "reclaim", "kheap_init", "up"}
  /\ mem \in [DOMAIN BootTables \cup owned -> [Index -> Entry]]
  /\ cr3 \in {BootRoot, new_pml4}
  /\ stack \in Seq(Activations)
  /\ \A k \in DOMAIN stack : stack[k].level = 5 - k
  /\ owned \subseteq held

(* What the boot protocol's tables are like, though nothing promises it: no*)
(* two entries lead to one table (a write would change two pages).         *)
BootTablesUnshared ==
  \E level \in [DOMAIN BootTables -> 1 .. 4] :
    /\ Levelled(level)
    /\ \A t, u \in DOMAIN BootTables, i, j \in Index :
         LET e == BootTables[t][i]
             f == BootTables[u][j]
         IN  Leads(e, level[t]) /\ Leads(f, level[u]) /\ e.to = f.to => t = u /\ i = j

(* map_page is asked for no page under a large one, which it would take for*)
(* a table.                                                                *)
NoLargePages ==
  \A v \in Virtual :
    TranslationIn(BootTables, BootRoot, v) = Unmapped
      \/ TranslationIn(BootTables, BootRoot, v).depth = 4

(* No frame of the live tables is in the allocator's pool or in the hands  *)
(* of another caller: memory_init takes the bootloader's memory only after *)
(* nothing in it is walked any more (memory.c:21-24).  And memory that is  *)
(* no table is never written as one, as long as map_page is not asked for  *)
(* a page under a large one.                                               *)
LiveTablesHeld ==
  /\ TablesOf(cr3) \cap (available \cup (held \ owned)) = {}
  /\ stray = {}

(* No step changes what any page is mapped to, or with which rights, but   *)
(* map_page's last write for the one page it was asked to map: loading the *)
(* copy of the tables, reclaiming, linking in a new table and giving frames*)
(* to others are invisible to running code.                                *)
MappingsStable ==
  [][\A v \in Path :
       \/ TranslationIn(mem', cr3', v) = Translation(v)
       \/ call.op = "map_page" /\ call.depth = 4 /\ v = call.va]_<<mem, cr3>>

(* The processor uses no translation the live tables no longer hold, but   *)
(* for the page of a map_page that is about to drop it (vmm_load_space and *)
(* the invlpg of map_page).                                                *)
TLBCoherent ==
  \A v \in Virtual :
    \/ tlb[v] \in {Unmapped, Translation(v)}
    \/ call.op = "invlpg" /\ v = call.va

(* Once memory_init is done on tables of its own, every frame paging.c has *)
(* taken is one of those tables, even when map_page ran out of frames on   *)
(* its way down.                                                           *)
NothingLeaked ==
  phase = "up" /\ new_pml4 # 0 => owned = TablesOf(cr3)

=============================================================================
