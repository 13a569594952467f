------------------------------ MODULE MCStream ------------------------------
(***************************************************************************)
(* TLC instance of Stream: lines of three bytes into units of four, as the *)
(* tool's 24 go into 256, so that a unit ends within a line and a stream   *)
(* that stopped goes on in the middle of one.                              *)
(***************************************************************************)
EXTENDS Stream, TLC

MCSymmetry == Permutations(Blobs)
=============================================================================
