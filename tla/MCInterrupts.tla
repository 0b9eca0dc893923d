---------------------------- MODULE MCInterrupts ----------------------------
(***************************************************************************)
(* Interrupts with exceptions of each kind (with an error code, without,   *)
(* and the three whose stubs differ), lines of both PICs with the last one *)
(* of each, and one system call that is known and one that is not.         *)
(***************************************************************************)
EXTENDS Interrupts

MCExceptions == {0, 1, 3, 6, 13, 14, 17}
MCLines == {0, 7, 8, 15}
MCNumbers == {0, 1}
MCRegistered == {1}
=============================================================================
