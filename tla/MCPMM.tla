------------------------------- MODULE MCPMM --------------------------------
(***************************************************************************)
(* PMM on small memory maps.  A frame has two bytes here, so one frame of  *)
(* bitmap spans sixteen frames and a map that reaches frame 16 needs two.  *)
(***************************************************************************)
EXTENDS PMM

Region(base, length, type) == [base |-> base, length |-> length, type |-> type]

\* Memory from address 0, which is where the bitmap then goes.
FromZero ==
  << Region(0, 6, "USABLE"), Region(6, 2, "RESERVED"),
     Region(8, 4, "BOOTLOADER_RECLAIMABLE"), Region(12, 6, "USABLE") >>

\* The bitmap takes two frames; the first usable region, which is the null
\* frame, is too small for it.
TwoFrameBitmap ==
  << Region(0, 2, "USABLE"), Region(6, 10, "USABLE"),
     Region(32, 4, "BOOTLOADER_RECLAIMABLE") >>

\* Bases and lengths that are not multiples of the page size, and the null
\* frame in memory to be reclaimed.
Unaligned ==
  << Region(0, 3, "BOOTLOADER_RECLAIMABLE"), Region(3, 10, "USABLE"),
     Region(13, 5, "BOOTLOADER_RECLAIMABLE") >>

\* The bitmap fills the only region it fits, and nothing is free until the
\* bootloader's memory is reclaimed.
ExactFit ==
  << Region(2, 4, "USABLE"), Region(32, 4, "BOOTLOADER_RECLAIMABLE") >>

\* No region holds a two-frame bitmap.
NoRoom ==
  << Region(2, 2, "USABLE"), Region(32, 4, "BOOTLOADER_RECLAIMABLE") >>

MCMemoryMaps == {FromZero, TwoFrameBitmap, Unaligned, ExactFit, NoRoom, << >>}
MCCounts == {0, 2, 3}
=============================================================================
