------------------------------ MODULE MCStrings -----------------------------
(***************************************************************************)
(* Strings in an arena of six cells with two characters besides 0, every   *)
(* content to begin with, and one or two delimiters.                       *)
(***************************************************************************)
EXTENDS Strings

MCCharSets == {{1}, {1, 2}}
=============================================================================
