-------------------------------- MODULE Txq ---------------------------------
(***************************************************************************)
(* The outbound queues of src/proto/txq.c.                                 *)
(*                                                                         *)
(* Producers call txq_push, the service loop calls txq_pump, and the       *)
(* session calls txq_clear when the host goes away.  All of them run on    *)
(* the one service loop, so a push never lands inside a pump; the pump is  *)
(* split here into one action per turn of its loop, which adds only        *)
(* behaviours in which the transport refuses after any number of messages. *)
(*                                                                         *)
(* A payload is reduced to the number of the newest event it carries and,  *)
(* for EDIT_DELTA, the distance.  `born' numbers the events in the order   *)
(* the hand makes them.                                                    *)
(***************************************************************************)
EXTENDS Integers, Sequences, FiniteSets

CONSTANTS
  Keys,            \* (opcode, coalesce_key) pairs of the coalescing opcodes
  Deltas,          \* the EDIT_DELTA ones
  Press,           \* the kind of a discrete message; not one of Keys
  Amounts,         \* distances an EDIT_DELTA can carry; EDITs ignore them
  Slots,           \* TXQ_COALESCE_SLOTS
  DiscreteDepth,   \* TXQ_DISCRETE_DEPTH
  ControlBytes,    \* TXQ_CONTROL_BYTES
  ControlHdr,      \* TXQ_CONTROL_HDR
  ControlLens,     \* payload lengths of the control messages
  CountMod,        \* 2^8: control_count is a uint8_t
  MaxEvents,       \* bound on input events
  MaxControl       \* bound on control messages

ASSUME KeysAssumption == Deltas \subseteq Keys /\ Press \notin Keys
ASSUME AmountsAssumption == Amounts \subseteq Int
ASSUME SizesAssumption ==
  /\ Slots \in Nat /\ DiscreteDepth \in Nat
  /\ ControlBytes \in Nat /\ ControlHdr \in Nat /\ ControlLens \subseteq Nat
  /\ CountMod \in Nat \ {0}
ASSUME BoundsAssumption == MaxEvents \in Nat /\ MaxControl \in Nat

VARIABLES
  coalesce,        \* the slots; stamp 0 marks an empty one
  discrete,        \* the FIFO, oldest first
  control,         \* lengths of the queued control messages, oldest first
  control_used,    \* bytes of the control ring in use
  control_count,   \* messages in the control ring, modulo CountMod
  stamp,           \* the last stamp given out
  dropped,         \* messages lost for want of room
  \* History, not in the code:
  born,            \* events made so far
  posted,          \* control messages offered so far
  lastFirst,       \* `first' of the input message emitted last
  touched,         \* the newest event about each key
  heard,           \* the newest event about each key that was emitted
  missed,          \* keys whose newest event was refused or forgotten
  owed             \* distance accepted and neither emitted nor forgotten

qvars == <<coalesce, discrete, control, control_used, control_count, stamp, dropped>>
hvars == <<born, posted, lastFirst, touched, heard, missed, owed>>
vars == <<qvars, hvars>>
cvars == <<control, control_used, control_count, posted>>

Slot == 1..Slots

\* txq_slot_t; `first' is history: the event for which the stamp was given.
Entry == [stamp: Nat, key: Keys \union {Press}, first: Nat, seq: Nat, amount: Int]

Empty == [stamp |-> 0, key |-> Press, first |-> 0, seq |-> 0, amount |-> 0]

Fresh(st, k, n, d) ==
  [stamp |-> st, key |-> k, first |-> n, seq |-> n, amount |-> d]

Used == {i \in Slot : coalesce[i].stamp # 0}

HeldBy(k) == {i \in Used : coalesce[i].key = k}
FreeSlots == Slot \ Used

\* The first empty slot in array order, as the search loop finds it.
FirstFree(i) == i \in FreeSlots /\ \A j \in FreeSlots : i <= j

CoalescedEntries == {coalesce[i] : i \in Used}
DiscreteEntries == {discrete[i] : i \in 1..Len(discrete)}
Entries == CoalescedEntries \union DiscreteEntries

-----------------------------------------------------------------------------
(* txq_push *)

Born == born < MaxEvents /\ born' = born + 1

\* Variants: the older payload is kept; a distance is replaced.
SupersedeStale(e, d) == [e EXCEPT !.amount = IF e.key \in Deltas THEN @ + d ELSE d]
SupersedeReplacing(e, d) == [e EXCEPT !.seq = born + 1, !.amount = d]

\* A newer message takes over the slot and leaves its stamp alone; distances add up.
Supersede(e, d) ==
  [e EXCEPT !.seq = born + 1, !.amount = IF e.key \in Deltas THEN @ + d ELSE d]

TurnHeld(k, d) ==
  \E i \in HeldBy(k) :
    /\ coalesce' = [coalesce EXCEPT ![i] = Supersede(@, d)]
    /\ touched' = [touched EXCEPT ![k] = born + 1]
    /\ missed' = missed \ {k}
    /\ owed' = [owed EXCEPT ![k] = @ + d]
    /\ UNCHANGED <<discrete, stamp, dropped>>

TurnFresh(k, d) ==
  /\ HeldBy(k) = {}
  /\ \E i \in Slot :
       /\ FirstFree(i)
       /\ coalesce' = [coalesce EXCEPT ![i] = Fresh(stamp + 1, k, born + 1, d)]
  /\ stamp' = stamp + 1
  /\ touched' = [touched EXCEPT ![k] = born + 1]
  /\ missed' = missed \ {k}
  /\ owed' = [owed EXCEPT ![k] = @ + d]
  /\ UNCHANGED <<discrete, dropped>>

TurnDropped(k) ==
  /\ HeldBy(k) = {}
  /\ FreeSlots = {}
  /\ dropped' = dropped + 1
  /\ touched' = [touched EXCEPT ![k] = born + 1]
  /\ missed' = missed \union {k}
  /\ UNCHANGED <<coalesce, discrete, stamp, owed>>

PushCoalescing(k, d) ==
  /\ Born
  /\ TurnHeld(k, d) \/ TurnFresh(k, d) \/ TurnDropped(k)
  /\ UNCHANGED <<cvars, lastFirst, heard>>

DiscreteFull == Len(discrete) >= DiscreteDepth

PushDiscrete ==
  /\ Born
  /\ \/ /\ ~DiscreteFull
        /\ stamp' = stamp + 1
        /\ discrete' = Append(discrete, Fresh(stamp + 1, Press, born + 1, 0))
        /\ UNCHANGED dropped
     \/ /\ DiscreteFull
        /\ dropped' = dropped + 1
        /\ UNCHANGED <<discrete, stamp>>
  /\ UNCHANGED <<coalesce, cvars, lastFirst, touched, heard, missed, owed>>

\* A payload longer than TXQ_PAYLOAD_MAX is refused before either queue is looked at.
PushTooLarge(k) ==
  /\ Born
  /\ dropped' = dropped + 1
  /\ touched' = [touched EXCEPT ![k] = born + 1]
  /\ missed' = missed \union {k}
  /\ UNCHANGED <<coalesce, discrete, stamp, cvars, lastFirst, heard, owed>>

PushControl(len) ==
  /\ posted < MaxControl
  /\ posted' = posted + 1
  /\ \/ /\ control_used + ControlHdr + len <= ControlBytes
        /\ control' = Append(control, len)
        /\ control_used' = control_used + ControlHdr + len
        /\ control_count' = (control_count + 1) % CountMod
        /\ UNCHANGED dropped
     \/ /\ control_used + ControlHdr + len > ControlBytes
        /\ dropped' = dropped + 1
        /\ UNCHANGED <<control, control_used, control_count>>
  /\ UNCHANGED <<coalesce, discrete, stamp, born, lastFirst, touched, heard, missed, owed>>

-----------------------------------------------------------------------------
(* txq_pump: one turn of its loop, the transport accepting the message *)

\* Variant: the header is not consumed with its message.
TookPayloadOnly(len) == len

\* Bytes taken from the ring with a message of this length.
Took(len) == ControlHdr + len

EmitControl ==
  /\ control_count # 0
  /\ control' = Tail(control)
  /\ control_used' = control_used - Took(Head(control))
  /\ control_count' = (control_count - 1) % CountMod
  /\ UNCHANGED <<coalesce, discrete, stamp, dropped, posted, born, lastFirst,
                 touched, heard, missed, owed>>

\* Variant: discrete only ahead of a younger turn.
DiscreteOnlyAheadOfTurn ==
  /\ discrete # <<>> /\ Used # {}
  /\ \A i \in Used : Head(discrete).stamp < coalesce[i].stamp

\* The discrete queue goes first only when its head is older than every used slot.
DiscreteIsOlder ==
  /\ discrete # <<>>
  /\ \A i \in Used : Head(discrete).stamp < coalesce[i].stamp

ControlDrained == control_count = 0

EmitDiscrete ==
  /\ ControlDrained
  /\ DiscreteIsOlder
  /\ discrete' = Tail(discrete)
  /\ lastFirst' = Head(discrete).first
  /\ UNCHANGED <<coalesce, stamp, dropped, cvars, born, touched, heard, missed, owed>>

\* Variant: the slots go out in array order.
FirstCoalesced(i) == i \in Used /\ \A j \in Used : i <= j

OldestCoalesced(i) == i \in Used /\ \A j \in Used : coalesce[i].stamp <= coalesce[j].stamp

EmitCoalesced ==
  /\ ControlDrained
  /\ ~DiscreteIsOlder
  /\ \E i \in Slot :
       /\ OldestCoalesced(i)
       /\ coalesce' = [coalesce EXCEPT ![i].stamp = 0]
       /\ lastFirst' = coalesce[i].first
       /\ heard' = [heard EXCEPT ![coalesce[i].key] = coalesce[i].seq]
       /\ owed' = [owed EXCEPT ![coalesce[i].key] = @ - coalesce[i].amount]
  /\ UNCHANGED <<discrete, stamp, dropped, cvars, born, touched, missed>>

Emit == EmitControl \/ EmitDiscrete \/ EmitCoalesced

(* txq_clear: the drop count survives, the stamps start again *)
Clear ==
  /\ coalesce' = [i \in Slot |-> Empty]
  /\ discrete' = <<>>
  /\ control' = <<>>
  /\ control_used' = 0
  /\ control_count' = 0
  /\ stamp' = 0
  /\ missed' = missed \union {coalesce[i].key : i \in Used}
  /\ owed' = [k \in Keys |-> 0]
  /\ UNCHANGED <<dropped, posted, born, lastFirst, touched, heard>>

-----------------------------------------------------------------------------
Init ==
  /\ coalesce = [i \in Slot |-> Empty]
  /\ discrete = <<>>
  /\ control = <<>>
  /\ control_used = 0
  /\ control_count = 0
  /\ stamp = 0
  /\ dropped = 0
  /\ born = 0
  /\ posted = 0
  /\ lastFirst = 0
  /\ touched = [k \in Keys |-> 0]
  /\ heard = [k \in Keys |-> 0]
  /\ missed = {}
  /\ owed = [k \in Keys |-> 0]

Next ==
  \/ \E k \in Keys, d \in Amounts : PushCoalescing(k, d)
  \/ PushDiscrete
  \/ \E k \in Keys : PushTooLarge(k)
  \/ \E len \in ControlLens : PushControl(len)
  \/ Emit
  \/ Clear

Spec == Init /\ [][Next]_vars

\* The loop pumps for ever; a host that keeps collecting makes the transport accept
\* again and again, and the pump does nothing else until it has.
FairSpec == Spec /\ WF_vars(Emit)
-----------------------------------------------------------------------------
(* Properties *)

\* What the input queues hold.
InputTypeOK ==
  /\ coalesce \in [Slot -> Entry]
  /\ \A i \in Used : coalesce[i].key \in Keys
  /\ discrete \in Seq(Entry)
  /\ \A n \in 1..Len(discrete) : discrete[n].key = Press
  /\ Len(discrete) <= DiscreteDepth
  /\ stamp \in Nat /\ dropped \in Nat /\ born \in Nat
  /\ lastFirst \in 0..born
  /\ touched \in [Keys -> Nat] /\ heard \in [Keys -> Nat]
  /\ missed \subseteq Keys
  /\ owed \in [Keys -> Int]

\* The bytes of the first n messages of these lengths, with their prefixes.
BytesTo(lens, n) ==
  LET upTo[i \in 0..n] == IF i = 0 THEN 0 ELSE upTo[i - 1] + ControlHdr + lens[i]
  IN  upTo[n]

\* What the control ring holds: its length prefixes cover the used bytes exactly.
ControlTypeOK ==
  /\ control \in Seq(ControlLens)
  /\ control_used \in 0..ControlBytes
  /\ control_used = BytesTo(control, Len(control))
  /\ control_count \in 0..(CountMod - 1)
  /\ posted \in 0..MaxControl

\* The shape of the state: every queue within its capacity (txq.h:50-87) and the
\* control ring's two accounts of itself in agreement.
TypeOK == InputTypeOK /\ ControlTypeOK

\* "One slot per opcode and field id" (txq.h:20): the search in push_coalescing
\* never leaves two slots holding the same control.
OneSlotPerKey ==
  \A i, j \in Used : coalesce[i].key = coalesce[j].key => i = j

\* One message is older than another by its stamp and by the event that opened it.
Older(e, f) == e.stamp < f.stamp /\ e.first < f.first

\* Stamps order the waiting messages, over both queues, as the hand made the
\* events that opened them, and none is older than what was already emitted:
\* superseding a slot, wrapping the ring and clearing never reorder the panel.
StampsAreInOrder ==
  /\ \A i \in Used : coalesce[i].stamp <= stamp /\ coalesce[i].first \in (lastFirst + 1)..born
  /\ \A n \in 1..Len(discrete) :
       discrete[n].stamp \in 1..stamp /\ discrete[n].first \in (lastFirst + 1)..born
  /\ \A i, j \in Used :
       i = j \/ Older(coalesce[i], coalesce[j]) \/ Older(coalesce[j], coalesce[i])
  /\ \A i \in Used, n \in 1..Len(discrete) :
       Older(coalesce[i], discrete[n]) \/ Older(discrete[n], coalesce[i])
  /\ \A m, n \in 1..Len(discrete) : m < n => Older(discrete[m], discrete[n])

\* Whatever was not refused or forgotten, the newest event about a control is
\* either waiting in its slot or was the last one emitted about it: coalescing
\* loses resolution, never the place where the hand left the knob (txq.h:20-22).
LatestSurvives ==
  \A k \in Keys \ missed :
    IF HeldBy(k) = {} THEN heard[k] = touched[k]
                      ELSE \A i \in HeldBy(k) : coalesce[i].seq = touched[k]

\* "Deltas ACCUMULATE; they do not replace" (txq.c:83): the distance accepted
\* and not yet emitted is exactly what the control's slot carries.
DistanceConserved ==
  \A k \in Deltas :
    IF HeldBy(k) = {} THEN owed[k] = 0
                      ELSE \A i \in HeldBy(k) : coalesce[i].amount = owed[k]

\* Input leaves in the order the hand first reached for each control, whichever
\* queue a message was in.
LeavesInOrder == [][lastFirst' >= lastFirst]_vars

\* The queues implement the ordered set of reports that the protocol promises.
Abs == INSTANCE InputOrder WITH
  pending <- {[key |-> e.key, first |-> e.first, seq |-> e.seq, amount |-> e.amount] :
                e \in Entries}
ImplementsInputOrder == Abs!AbsSpec

\* While the host keeps collecting, everything queued leaves: neither queue can
\* wedge the other, and the end of a burst finds all three empty.
Drains == <>[](control = <<>> /\ discrete = <<>> /\ Used = {})
=============================================================================
