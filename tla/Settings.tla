------------------------------ MODULE Settings ------------------------------
(***************************************************************************)
(* What the settings journal of src/common/persist.c promises its callers: *)
(* one register for each kind of record.  A write takes effect all at once *)
(* or not at all and leaves the other registers alone.  Only a compaction  *)
(* that was cut short takes that promise away; even then no register reads *)
(* as something that was never written to it.                              *)
(***************************************************************************)
EXTENDS Naturals

CONSTANTS Records,   \* what can be written, each with the `kind' of its register
          Kinds,     \* the registers
          None       \* no write is under way

VARIABLES
  value,   \* what each register reads as: a set of at most one record
  offered, \* the record being written
  ever,    \* every record ever offered
  faults,  \* flash errors and power cuts so far
  sure     \* no compaction has been cut short

vars == <<value, offered, ever, faults, sure>>

OfKind(k) == {r \in ever : r.kind = k}

Init ==
  /\ value = [k \in Kinds |-> {}]
  /\ offered = None
  /\ ever = {}
  /\ faults = 0
  /\ sure = TRUE

Offer ==
  /\ offered = None
  /\ offered' \in Records
  /\ ever' = ever \union {offered'}
  /\ UNCHANGED <<value, faults, sure>>

Written == [value EXCEPT ![offered.kind] = {offered}]

Commit ==
  /\ offered # None
  /\ value' = Written
  /\ offered' = None
  /\ UNCHANGED <<ever, faults, sure>>

\* An error was returned, or the power went: before the write took effect, or after.
Fail ==
  /\ offered # None
  /\ value' \in {value, Written}
  /\ offered' = None
  /\ faults' = faults + 1
  /\ UNCHANGED <<ever, sure>>

\* A compaction is cut short, or was once.
Unsure ==
  /\ sure' = FALSE
  /\ offered' \in {offered, None}
  /\ faults' \in {faults, faults + 1} /\ (sure => faults' > faults)
  /\ DOMAIN value' = Kinds
  /\ \A k \in Kinds : value'[k] = {} \/ \E r \in OfKind(k) : value'[k] = {r}
  /\ UNCHANGED ever

Next == Offer \/ Commit \/ Fail \/ Unsure

Spec == Init /\ [][Next]_vars
=============================================================================
