------------------------------ MODULE History -------------------------------
(***************************************************************************)
(* The per-field undo history of src/app/history.c: field_hist_t and the   *)
(* operations on one of them, as operators on the record.                  *)
(*                                                                         *)
(* ring[0] to ring[count - 1] are the entries, ring[pos] the one the       *)
(* cursor is at; what lies beyond count is what earlier entries left.  The *)
(* timer counts down in ticks.                                             *)
(***************************************************************************)
EXTENDS Integers

CONSTANTS
  HistDepth,       \* HIST_DEPTH
  SettleTicks,     \* HIST_SETTLE_MS in ticks
  Zeroed           \* the value of an entry nothing was written to

ASSUME HistoryAssumption == HistDepth \in Nat \ {0} /\ SettleTicks \in Nat

NoHistory ==
  [ring |-> [i \in 0..(HistDepth - 1) |-> Zeroed],
   count |-> 0, pos |-> 0, pending |-> FALSE, due |-> 0]

Unchanged(h, v) == h.count # 0 /\ h.ring[h.pos] = v

\* Variant: a change after an undo keeps what could be redone.
AppendedAfterAll(h, v) ==
  IF h.count < HistDepth
    THEN [h EXCEPT !.ring[h.count] = v, !.count = h.count + 1, !.pos = h.count]
    ELSE [h EXCEPT !.ring = [i \in DOMAIN @ |-> IF i = HistDepth - 1 THEN v ELSE @[i + 1]],
                   !.count = HistDepth, !.pos = HistDepth - 1]

\* The redo branch is dropped; a full ring slides, losing the oldest.
Appended(h, v) ==
  IF h.pos + 1 < HistDepth
    THEN [h EXCEPT !.ring[h.pos + 1] = v, !.count = h.pos + 2, !.pos = h.pos + 1]
    ELSE [h EXCEPT !.ring = [i \in DOMAIN @ |-> IF i = HistDepth - 1 THEN v ELSE @[i + 1]],
                   !.count = HistDepth, !.pos = HistDepth - 1]

PushEntry(h, v) ==
  IF Unchanged(h, v) THEN h
  ELSE IF h.count = 0 THEN [h EXCEPT !.ring[0] = v, !.count = 1, !.pos = 0]
  ELSE Appended(h, v)

\* v is the value before the change.
Touched(h, v) ==
  [(IF h.count = 0 THEN PushEntry(h, v) ELSE h)
     EXCEPT !.pending = TRUE, !.due = SettleTicks]

Commit(h, v) == IF h.pending THEN PushEntry([h EXCEPT !.pending = FALSE], v) ELSE h

Ticked(h, v) ==
  IF ~h.pending THEN h
  ELSE IF h.due = 0 THEN Commit(h, v)
  ELSE [h EXCEPT !.due = @ - 1]

CanUndo(h) == h.pending \/ h.pos > 0
CanRedo(h) == h.pos + 1 < h.count

\* Whether there is somewhere to go, once what is pending is committed.
UndoFinds(h, v) == Commit(h, v).pos > 0
RedoFinds(h, v) == CanRedo(Commit(h, v))

Undone(h, v) ==
  IF UndoFinds(h, v) THEN [Commit(h, v) EXCEPT !.pos = @ - 1] ELSE Commit(h, v)

Redone(h, v) ==
  IF RedoFinds(h, v) THEN [Commit(h, v) EXCEPT !.pos = @ + 1] ELSE Commit(h, v)

Present(h) == h.ring[h.pos]
=============================================================================
