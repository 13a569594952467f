------------------------------ MODULE MCPanel -------------------------------
(* Four knobs in two rows.  A page with a number, a stop, a hold and a     *)
(* list that opens, and a second with another hold, packed under the same  *)
(* knob; and an operator layout of two pages.                              *)
EXTENDS Panel, TLC

Grid4 ==
  [operator |-> FALSE, pinned |-> {},
   kinds |-> 0 :> "NUMBER" @@ 1 :> "ESTOP" @@ 2 :> "HOLD" @@ 3 :> "OPENS" @@ 4 :> "HOLD",
   disabled |-> {}, transport |-> "UNDO" :> 9]

Operator ==
  [operator |-> TRUE, pinned |-> {},
   kinds |-> 0 :> "HOLD" @@ 1 :> "READONLY" @@ 2 :> "NUMBER" @@ 4 :> "ACTION",
   disabled |-> {4}, transport |-> [b \in {} |-> 0]]

MCTurned == {0, 2}
MCSurfaces == {Grid4, Operator}
=============================================================================
