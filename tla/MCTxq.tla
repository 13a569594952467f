------------------------------- MODULE MCTxq --------------------------------
(***************************************************************************)
(* TLC instances of Txq: two EDIT keys and one EDIT_DELTA key, so that two *)
(* slots can be too few and three are enough, a discrete queue that fills, *)
(* and a control ring that holds one long or several short messages.       *)
(***************************************************************************)
EXTENDS Txq, TLC

CONSTANTS e1, e2, d1, press

MCKeys == {e1, e2, d1}
MCDeltas == {d1}
MCAmounts == {1, -2}
MCControlLens == {0, 2}
=============================================================================
