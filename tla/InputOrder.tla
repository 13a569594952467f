----------------------------- MODULE InputOrder -----------------------------
(***************************************************************************)
(* What the outbound queues promise the host about the panel, apart from   *)
(* slots, stamps and rings (docs/protocol.md 4, src/proto/txq.h):          *)
(*                                                                         *)
(*   - a control that is turned again before it was reported has one       *)
(*     pending report, which keeps its place and carries the newest event; *)
(*   - movement that is reported as a distance is added up;                *)
(*   - a press is never merged;                                            *)
(*   - reports leave in the order in which the hand first reached for what *)
(*     they report.                                                        *)
(*                                                                         *)
(* `first' is the event that opened a report, `seq' the newest event in    *)
(* it.  What may be refused, and when, is the implementation's business.   *)
(***************************************************************************)
EXTENDS Integers

CONSTANTS
  Keys,       \* what a coalescing message is about: an opcode and a field
  Deltas,     \* the Keys whose messages carry a distance (EDIT_DELTA)
  Press,      \* the kind of every message that is never coalesced
  Amounts     \* the distances one event can carry

VARIABLES
  pending,    \* the reports not yet handed to the transport
  born,       \* how many events the hand has made
  lastFirst   \* `first' of the report delivered last, 0 before any

absVars == <<pending, born, lastFirst>>

Report == [key: Keys \union {Press}, first: Nat, seq: Nat, amount: Int]

Opened(k, n, d) == [key |-> k, first |-> n, seq |-> n, amount |-> d]

Merged(r, n, d) ==
  [r EXCEPT !.seq = n, !.amount = IF r.key \in Deltas THEN @ + d ELSE d]

AbsInit ==
  /\ pending = {}
  /\ born = 0
  /\ lastFirst = 0

AbsTurn(k, d) ==
  /\ born' = born + 1
  /\ \/ \E r \in pending :
          /\ r.key = k
          /\ pending' = (pending \ {r}) \union {Merged(r, born + 1, d)}
     \/ /\ \A r \in pending : r.key # k
        /\ pending' = pending \union {Opened(k, born + 1, d)}
  /\ UNCHANGED lastFirst

AbsPress ==
  /\ born' = born + 1
  /\ pending' = pending \union {Opened(Press, born + 1, 0)}
  /\ UNCHANGED lastFirst

\* An event that finds no room is lost whole: no report is opened for it.
AbsRefuse ==
  /\ born' = born + 1
  /\ UNCHANGED <<pending, lastFirst>>

AbsDeliver ==
  \E r \in pending :
    /\ \A q \in pending : r.first <= q.first
    /\ pending' = pending \ {r}
    /\ lastFirst' = r.first
    /\ UNCHANGED born

\* Losing the host: nothing that was waiting is sent to the next one.
AbsForget ==
  /\ pending' = {}
  /\ UNCHANGED <<born, lastFirst>>

AbsNext ==
  \/ \E k \in Keys, d \in Amounts : AbsTurn(k, d)
  \/ AbsPress
  \/ AbsRefuse
  \/ AbsDeliver
  \/ AbsForget

AbsSpec == AbsInit /\ [][AbsNext]_absVars
=============================================================================
