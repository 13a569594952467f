------------------------------ MODULE MCScreen ------------------------------
(* Four knobs in two rows.  A page with a stop on every page, beside a     *)
(* hold that joins it on the first page only, over a number and a list,    *)
(* and a second page; a page with a pinned number; and an operator layout  *)
(* of two pages.                                                           *)
EXTENDS Screen, TLC

Panels ==
  [operator |-> FALSE, pinned |-> {0}, joined |-> {1},
   kinds |-> 0 :> "ESTOP" @@ 1 :> "HOLD" @@ 2 :> "NUMBER" @@ 3 :> "LIST"
             @@ 5 :> "NUMBER" @@ 6 :> "NUMBER"]

Pinned ==
  [operator |-> FALSE, pinned |-> {0}, joined |-> {},
   kinds |-> 0 :> "NUMBER" @@ 1 :> "NUMBER" @@ 2 :> "NUMBER" @@ 7 :> "NUMBER"]

Operator ==
  [operator |-> TRUE, pinned |-> {}, joined |-> {},
   kinds |-> 0 :> "NUMBER" @@ 1 :> "NUMBER" @@ 3 :> "HOLD" @@ 4 :> "NUMBER"]

MCLayouts == {Panels, Pinned, Operator}
MCVarying == {1}
MCReached == {0, 2}
=============================================================================
