------------------------------ MODULE MCInputs ------------------------------
(* A small panel: a turn of eight phases, three to a detent.        *)
EXTENDS Inputs

MCSteps == {3, -2, 1}
=============================================================================
