------------------------------- MODULE MCVMM --------------------------------
(***************************************************************************)
(* VMM with two entries in a table and four tables of the bootloader's,    *)
(* one on each level, with a 1GiB page, a 2MiB page, a 4KiB page and absent*)
(* entries between them.                                                   *)
(***************************************************************************)
EXTENDS VMM, TLC

Table(e0, e1) == 0 :> e0 @@ 1 :> e1
Maps(to, bits) == [to |-> to, bits |-> bits \cup {"PRESENT"}]

MCBootTables ==
  10 :> Table(Maps(11, {"WRITE"}), Zero) @@
  11 :> Table(Maps(30, {"HUGE", "WRITE"}), Maps(12, {"WRITE", "USER"})) @@
  12 :> Table(Maps(13, {"NX"}), Maps(31, {"HUGE"})) @@
  13 :> Table(Maps(32, {"WRITE"}), Zero)
MCBootFrames == 10 .. 13

\* One frame too few for a copy, and just enough: what map_page gets then are
\* the frames reclaimed from the bootloader.
MCPools == {1 .. 3, 1 .. 4}

\* A page that is mapped, and one under an absent entry of the root, for which
\* map_page needs three tables.
MCVirtual == {<<0, 1, 0, 0>>, <<1, 0, 1, 1>>}

ASSUME BootTablesMeetConditions == BootTablesUnshared /\ NoLargePages

MCPages == {40}
MCFlagSets == {{"PRESENT", "WRITE", "NX"}, {}}
=============================================================================
