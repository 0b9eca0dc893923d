------------------------------- MODULE MCTimer ------------------------------
(***************************************************************************)
(* Timer with a table of three slots, so that it fills up.                 *)
(***************************************************************************)
EXTENDS Timer

CONSTANTS f1, f2

MCCallbacks == {f1, f2}

\* The kernel registers a callback and, as pit.h lets it, a null pointer.
FromKernel == {f1, NULL}
FromCallback == {f2}

\* The kernel's own, the lowest that fits, the highest the divisor allows,
\* and two beyond these.
MCFrequencies == {18, 19, 100, 1193180, 1193181}
=============================================================================
