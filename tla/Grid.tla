-------------------------------- MODULE Grid --------------------------------
(***************************************************************************)
(* Which slot a knob addresses (src/app/ui_state.c), shared by the modules *)
(* that turn hands into edits.                                             *)
(*                                                                         *)
(* A layout d is described by d.operator, the operator layout's flag, and  *)
(* d.pinned, the slots that hold their knob on every page.                 *)
(***************************************************************************)
EXTENDS Integers, FiniteSets

Sets == INSTANCE FiniteSetsExt

CONSTANT Pots      \* SURF_POTS, the knobs of one page: two rows

ASSUME PotsAssumption == Pots \in Nat \ {0} /\ Pots % 2 = 0

Knobs == 0..(Pots - 1)
Row == Pots \div 2
Nobody == -1

SpanOf(occupied) == IF occupied = {} THEN 0 ELSE Sets!Max(occupied) + 1

LastPageOf(occupied) ==
  IF occupied = {} THEN 0 ELSE ((SpanOf(occupied) - 1) \div Pots) * Pots

PageOf(slot) == (slot \div Pots) * Pots

OnPageOf(occupied, first) == {s \in occupied : first <= s /\ s < first + Pots}

\* A layout with pinned fields keeps reading order; in the operator layout
\* the rows are swapped; a short page is packed onto the lower row.
Addressed(d, occupied, first, k) ==
  LET here == OnPageOf(occupied, first)
      packed == {s \in here : Cardinality({t \in here : t < s}) = k - Row}
      Slot(s) == IF s \in occupied THEN s ELSE Nobody
  IN IF d.operator THEN Slot(first + ((k + Row) % Pots))
     ELSE IF d.pinned # {} THEN IF k \in d.pinned THEN k ELSE Slot(first + k)
     ELSE IF Cardinality(here) > Row THEN Slot(first + k)
     ELSE IF k >= Row /\ packed # {} THEN Sets!Max(packed) ELSE Nobody

\* The knobs that edit the digits of a slot drilled on the knobs given: the
\* other row.
DigitRow(knobs) == IF \E k \in knobs : k >= Row THEN 0..(Row - 1) ELSE Row..(Pots - 1)
=============================================================================
