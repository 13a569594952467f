-------------------------------- MODULE Diag --------------------------------
(***************************************************************************)
(* The diagnostics of src/proto/diag.c, with the control ring of           *)
(* src/proto/txq.c they leave through and what src/proto/session.c does    *)
(* with them on a visit.                                                   *)
(*                                                                         *)
(* Whoever has something to complain of records it with emp_diag; one      *)
(* visit of the session hands all that is recorded to the ring, which may  *)
(* refuse it.  Slots are only ever freed together, so they are a sequence. *)
(* Severity, text and statistics are left out; every message takes the     *)
(* same room.  Inputs composes this with one who complains.                *)
(***************************************************************************)
EXTENDS Integers, Sequences, FiniteSets

CONSTANTS
  Codes,           \* what there is to complain of
  Overflow,        \* EMP_DIAG_OVERFLOW, not one of them
  Other,           \* any other control message
  DiagSlots,       \* DIAG_SLOTS
  ControlDepth,    \* messages the control ring holds
  MaxRaised,       \* bound on complaints
  MaxMoves         \* bound on what happens outside

ASSUME CodesAssumption == Overflow \notin Codes /\ Other \notin Codes /\ Overflow # Other
ASSUME DiagSizes == DiagSlots \in Nat /\ ControlDepth \in Nat
ASSUME DiagBounds == MaxRaised \in Nat /\ MaxMoves \in Nat

VARIABLES
  slots,           \* [code, count] in use, oldest first
  overflowed,
  control,         \* the ring: messages with the complaints each counts
  attached,        \* usb_configured()
  moves,           \* for the bound
  \* History, not in the code:
  owed,            \* what there was to complain of so far
  told,            \* complaints the host has been told of
  missed           \* complaints whose report the ring refused, or whose host has gone

complaints == <<slots, overflowed>>
ring == <<control, told, missed>>
diagVars == <<complaints, ring, owed, attached>>

\* The sum of w[1] to w[n].
SumTo(w, n) ==
  LET upTo[i \in 0..n] == IF i = 0 THEN 0 ELSE upTo[i - 1] + w[i]
  IN  upTo[n]

Total(messages) == SumTo([i \in DOMAIN messages |-> messages[i].count], Len(messages))

Moved(n) == moves + n <= MaxMoves /\ moves' = moves + n

-----------------------------------------------------------------------------
(* emp_diag *)

Held(code) == {i \in DOMAIN slots : slots[i].code = code}

Counted(code) ==
  [i \in DOMAIN slots |-> IF i \in Held(code) THEN [slots[i] EXCEPT !.count = @ + 1] ELSE slots[i]]

\* A code already waiting is counted; one that finds no slot is counted as lost.
EmpDiag(code) ==
  \/ Held(code) # {} /\ slots' = Counted(code) /\ UNCHANGED overflowed
  \/ /\ Held(code) = {} /\ Len(slots) < DiagSlots
     /\ slots' = Append(slots, [code |-> code, count |-> 1])
     /\ UNCHANGED overflowed
  \/ /\ Held(code) = {} /\ Len(slots) = DiagSlots
     /\ overflowed' = overflowed + 1
     /\ UNCHANGED slots

Owed == owed < MaxRaised /\ owed' = owed + 1

Complain(code) == Moved(1) /\ Owed /\ EmpDiag(code) /\ UNCHANGED <<ring, attached>>

-----------------------------------------------------------------------------
(* push_control: what finds no room is gone, without a word.                 *)

Fitting(messages) ==
  LET room == ControlDepth - Len(control)
  IN IF Len(messages) < room THEN Len(messages) ELSE room

Accepted(messages) == control \o SubSeq(messages, 1, Fitting(messages))
Refused(messages) == SubSeq(messages, Fitting(messages) + 1, Len(messages))

\* Another message on the control channel: an answer, a heartbeat.
Another == <<[code |-> Other, count |-> 0]>>

Say ==
  /\ attached /\ Moved(1)
  /\ control' = Accepted(Another)
  /\ UNCHANGED <<complaints, owed, attached, told, missed>>

-----------------------------------------------------------------------------
(* emp_session_poll *)

\* emp_diag_tick.
Reports ==
  slots \o (IF overflowed = 0 THEN <<>> ELSE <<[code |-> Overflow, count |-> overflowed]>>)

Forget == slots' = <<>> /\ overflowed' = 0

\* The host is there: all is reported, and the transport takes n messages.
Visit(n) ==
  /\ attached
  /\ Forget
  /\ LET queue == Accepted(Reports)
     IN /\ n <= Len(queue)
        /\ control' = SubSeq(queue, n + 1, Len(queue))
        /\ told' = told + Total(SubSeq(queue, 1, n))
  /\ missed' = missed + Total(Refused(Reports))
  /\ UNCHANGED <<owed, attached, moves>>

\* It is not: txq_clear and emp_diag_drop_pending.
DropPending ==
  /\ ~attached
  /\ Forget
  /\ control' = <<>>
  /\ missed' = missed + Total(Reports) + Total(control)
  /\ UNCHANGED <<owed, attached, told, moves>>

Poll == DropPending \/ \E n \in 0..ControlDepth : Visit(n)

Unplug ==
  /\ attached /\ Moved(1) /\ attached' = FALSE
  /\ UNCHANGED <<complaints, ring, owed>>

Plug ==
  /\ ~attached /\ attached' = TRUE
  /\ UNCHANGED <<complaints, ring, owed, moves>>

DiagInit ==
  /\ slots = <<>> /\ overflowed = 0 /\ owed = 0
  /\ control = <<>> /\ attached = TRUE /\ moves = 0
  /\ told = 0 /\ missed = 0

DiagNext == Poll \/ Say \/ Unplug \/ Plug

-----------------------------------------------------------------------------
(* Properties. *)

\* diag.c:54-55: nothing is lost without a trace.  What there was to complain
\* of, a dropped sample of input included, is what the host was told of, what
\* waits to be told, and what the ring refused or went with a host; of a burst
\* of more codes than there are slots, at least the number is told.
ComplaintsAreAccounted ==
  owed = told + Total(Reports) + Total(control) + missed
=============================================================================
