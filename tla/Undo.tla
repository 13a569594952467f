-------------------------------- MODULE Undo --------------------------------
(***************************************************************************)
(* What undo promises of one value (src/app/history.h), apart from rings   *)
(* and cursors: a line of settled values with the present one between what *)
(* may be undone and what may be redone.                                   *)
(*                                                                         *)
(*   - what a hand does until it rests is one adjustment, and one step;    *)
(*   - a step back from a value just changed returns to where the          *)
(*     adjustment began;                                                   *)
(*   - a fresh adjustment gives up what could be redone, one that comes    *)
(*     back to where it began does not;                                    *)
(*   - the oldest step is forgotten first.                                 *)
(*                                                                         *)
(* The host may change the value at any time; that is no adjustment and    *)
(* leaves no mark.                                                         *)
(***************************************************************************)
EXTENDS Integers, Sequences

CONSTANTS
  Values,     \* what the value may be
  Depth       \* how many values are remembered, the present one included

VARIABLES
  value,      \* what the control shows
  trail,      \* [past, mark, future]: the settled values, mark the present
  fresh,      \* nothing has been adjusted yet
  open        \* an adjustment is going on

undoVars == <<value, trail, fresh, open>>

Blank(v) == [past |-> <<>>, mark |-> v, future |-> <<>>]

\* At most Depth - 1 steps back.
Recent(past) == IF Len(past) < Depth THEN past ELSE Tail(past)

Settled(t, v) ==
  IF v = t.mark THEN t
  ELSE [past |-> Recent(Append(t.past, t.mark)), mark |-> v, future |-> <<>>]

Back1(t) ==
  [past |-> SubSeq(t.past, 1, Len(t.past) - 1), mark |-> t.past[Len(t.past)],
   future |-> <<t.mark>> \o t.future]

Forward(t) ==
  [past |-> Append(t.past, t.mark), mark |-> Head(t.future), future |-> Tail(t.future)]

\* The trail once an adjustment that is going on counts as finished.
Closed == IF open THEN Settled(trail, value) ELSE trail

UndoInit ==
  /\ value \in Values
  /\ trail = Blank(value)
  /\ fresh = TRUE
  /\ open = FALSE

\* The hand moves the value, or tries to at its limit.
AbsAdjust ==
  /\ value' \in Values
  /\ trail' = IF fresh THEN Blank(value) ELSE trail
  /\ fresh' = FALSE
  /\ open' = TRUE

AbsSettle ==
  /\ trail' = Closed
  /\ open' = FALSE
  /\ UNCHANGED <<value, fresh>>

\* A reset is the end of the adjustment it falls into.
AbsReset ==
  /\ value' \in Values
  /\ trail' = Settled(IF fresh THEN Blank(value) ELSE trail, value')
  /\ fresh' = FALSE
  /\ open' = FALSE

AbsUndo ==
  /\ trail' = IF Closed.past # <<>> THEN Back1(Closed) ELSE Closed
  /\ value' = IF Closed.past # <<>> THEN trail'.mark ELSE value
  /\ open' = FALSE
  /\ UNCHANGED fresh

AbsRedo ==
  /\ trail' = IF Closed.future # <<>> THEN Forward(Closed) ELSE Closed
  /\ value' = IF Closed.future # <<>> THEN trail'.mark ELSE value
  /\ open' = FALSE
  /\ UNCHANGED fresh

\* The host's doing: it moves the value, or describes another control.
AbsForeign ==
  /\ value' \in Values
  /\ trail' = IF fresh THEN Blank(value') ELSE trail
  /\ UNCHANGED <<fresh, open>>

AbsForget ==
  /\ value' \in Values
  /\ trail' = Blank(value')
  /\ fresh' = TRUE
  /\ open' = FALSE

UndoNext ==
  AbsAdjust \/ AbsSettle \/ AbsReset \/ AbsUndo \/ AbsRedo \/ AbsForeign \/ AbsForget

UndoSpec == UndoInit /\ [][UndoNext]_undoVars
=============================================================================
