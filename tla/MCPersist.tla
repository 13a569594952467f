------------------------------ MODULE MCPersist -----------------------------
(* TLC instances of Persist: a block of five units, so that a compaction leaves one or
   more to spare, new, half and wholly full of remnants, and two application images. *)
EXTENDS Persist, TLC

CONSTANTS a, b, none

MCImages == {a, b}
MCRemnants == {{}, {2, 4}, 1..5}
Interchangeable == Permutations(MCImages)
=============================================================================
