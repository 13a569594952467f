----------------------------- MODULE MCSurface ------------------------------
(* Two knobs, one to a row, and room for three fields.  A layout whose     *)
(* fields fill a page, and an operator layout of two pages.                *)
EXTENDS Surface, TLC

Full == [operator |-> FALSE, kinds |-> 0 :> "NUMBER" @@ 1 :> "COLOR"]
Operator == [operator |-> TRUE, kinds |-> 0 :> "NUMBER" @@ 2 :> "NUMBER"]

MCLayouts == {Full, Operator}
=============================================================================
