-------------------------------- MODULE Link --------------------------------
(***************************************************************************)
(* The transmit half of src/proto/session.c over src/hal/usb_fs.c: from    *)
(* the outbound queues, through the one framed message that may be part-   *)
(* way out of the door, through the driver's linear buffer, to the host.   *)
(*                                                                         *)
(* A framed message is a run of chunks; a chunk is what one bulk packet    *)
(* carries, and knows how many chunks of its message follow it.  The host  *)
(* is reduced to its decoder: how many chunks it still owes the fragment   *)
(* it is collecting.  Time is reduced to the two deadlines being due.      *)
(***************************************************************************)
EXTENDS Bus, Integers, FiniteSets, SequencesExt

CONSTANTS
  Chunks,          \* how many chunks each kind of message takes
  BufCap,          \* chunks in the driver's tx_buf
  Backpressure,    \* HEARTBEAT_BACKPRESSURE, in chunks
  QueueCap,        \* messages each outbound queue can hold
  MaxHost,         \* bound on messages from the host
  MaxInput,        \* bound on input events
  MaxConsole,      \* bound on console writes and raw streams together
  MaxUnplug        \* bound on disconnections

Kinds == {"ready", "heartbeat", "answer", "input"}

ASSUME ChunksAssumption == Chunks \in [Kinds -> Nat \ {0}]
ASSUME SizesAssumption == BufCap \in Nat \ {0} /\ Backpressure \in Nat /\ QueueCap \in Nat
ASSUME BoundsAssumption ==
  /\ MaxHost \in Nat /\ MaxInput \in Nat
  /\ MaxConsole \in Nat /\ MaxUnplug \in Nat

VARIABLES
  muted,           \* a raw stream has asked for quiet
  control, input,  \* the outbound queues, control served first
  pending,         \* tx_buf past tx_pending_sent: chunks framed and not handed over
  buf,             \* the driver's tx_buf from tx_head to tx_tail
  tail,            \* tx_tail: the buffer is linear and rewinds only when drained
  host_seen,       \* stats.host_seen
  readyDue, heartbeatDue,  \* now_ms has passed next_ready_ms, next_heartbeat_ms
  \* The host at the other end, new at each connection:
  rxWant,          \* chunks its decoder still expects of a fragment
  torn,            \* it was given something else while it expected one, or a stray chunk
  gotReady,        \* it has received a READY whole
  stale,           \* it has received a chunk framed before it attached
  \* History:
  epoch,           \* connections so far
  cleared,         \* a service pass has seen this disconnection
  hosts, inputs, consoles, shots  \* used of the bounds

link == <<control, input, pending, buf, tail>>
hostView == <<rxWant, torn, gotReady, stale>>
counts == <<hosts, inputs, consoles, shots>>
linkVars == <<cfg_set, muted, link, host_seen, readyDue, heartbeatDue, hostView, epoch, cleared, counts>>

Message(kind) == [kind |-> kind, epoch |-> epoch]
Text == [kind |-> "text", first |-> FALSE, left |-> 0, epoch |-> epoch]

\* What emp_write_message leaves in tx_buf.
Framed(m) ==
  [i \in 1..Chunks[m.kind] |->
    [kind |-> m.kind, first |-> i = 1, left |-> Chunks[m.kind] - i, epoch |-> m.epoch]]

-----------------------------------------------------------------------------
(* Queueing *)

Offer(q, kind) == IF Len(q) < QueueCap THEN Append(q, Message(kind)) ELSE q

Knob ==
  /\ ~muted
  /\ inputs < MaxInput
  /\ inputs' = inputs + 1
  /\ input' = Offer(input, "input")
  /\ UNCHANGED <<cfg_set, muted, control, pending, buf, tail, host_seen, readyDue, heartbeatDue,
                 hostView, epoch, cleared, hosts, consoles, shots>>

FromHost ==
  /\ cfg_set /\ ~muted
  /\ hosts < MaxHost
  /\ hosts' = hosts + 1
  /\ UNCHANGED <<cfg_set, muted, input, pending, buf, tail, readyDue, heartbeatDue,
                 hostView, epoch, cleared, inputs, consoles, shots>>

Hello == FromHost /\ host_seen' = TRUE /\ control' = Offer(control, "ready")
Ping == FromHost /\ host_seen' = TRUE /\ control' = Offer(control, "answer")
Echo == FromHost /\ control' = Offer(control, "answer") /\ UNCHANGED host_seen
Surface == FromHost /\ host_seen' = TRUE /\ UNCHANGED control
Bye == FromHost /\ host_seen' = FALSE /\ UNCHANGED control

-----------------------------------------------------------------------------
(* txq_pump over tx_emit and tx_flush_pending *)

Room == BufCap - tail

Frames(q) == FlattenSeq([i \in 1..Len(q) |-> Framed(q[i])])

\* A message is framed once everything before it fits the driver's buffer, and is then
\* accepted whatever part of it fits; the pump stops at the first one refused.
Accepted(q) ==
  Cardinality({i \in 1..Len(q) : Len(pending) + Len(Frames(SubSeq(q, 1, i - 1))) <= Room})

\* Variant: a new message is framed over the tail of the last one.
LeavingOverTail(q) == Frames(q)

\* Anything already framed goes first.
Leaving(q) == pending \o Frames(q)

\* usb_write takes what fits behind tx_tail and no more.
HandOver(chunks) ==
  LET n == IF Len(chunks) < Room THEN Len(chunks) ELSE Room
  IN  /\ buf' = buf \o SubSeq(chunks, 1, n)
      /\ tail' = tail + n
      /\ pending' = SubSeq(chunks, n + 1, Len(chunks))

\* With nothing queued the pump does not come near the transport.
Pump(ctl, inp) ==
  \E n \in 0..Len(ctl \o inp) :
    /\ n = Accepted(ctl \o inp)
    /\ IF ctl \o inp = <<>> THEN UNCHANGED <<buf, tail, pending>>
                            ELSE HandOver(Leaving(SubSeq(ctl \o inp, 1, n)))
    /\ control' = SubSeq(ctl, n + 1, Len(ctl))
    /\ input' = IF n <= Len(ctl) THEN inp ELSE SubSeq(inp, n - Len(ctl) + 1, Len(inp))

-----------------------------------------------------------------------------
(* emp_session_poll *)

\* Variant: only the control queue is cleared.
PollDetachedKeepingInput ==
  /\ ~cfg_set /\ ~muted
  /\ control' = <<>>
  /\ cleared' = TRUE
  /\ UNCHANGED <<cfg_set, muted, input, pending, buf, tail, host_seen, readyDue, heartbeatDue,
                 hostView, epoch, counts>>

PollDetached ==
  /\ ~cfg_set /\ ~muted
  /\ control' = <<>>
  /\ input' = <<>>
  /\ cleared' = TRUE
  /\ UNCHANGED <<cfg_set, muted, pending, buf, tail, host_seen, readyDue, heartbeatDue,
                 hostView, epoch, counts>>

\* Variant: the tail of a message already framed also holds the heartbeat back.
HeartbeatRoomBehindTail == Len(buf) < Backpressure /\ pending = <<>>

HeartbeatRoom == Len(buf) < Backpressure

PollAttached ==
  /\ cfg_set /\ ~muted
  /\ \/ /\ ~host_seen /\ readyDue
        /\ readyDue' = FALSE
        /\ Pump(Offer(control, "ready"), input)
        /\ UNCHANGED heartbeatDue
     \/ /\ host_seen /\ heartbeatDue
        /\ heartbeatDue' = FALSE
        /\ Pump(IF HeartbeatRoom THEN Offer(control, "heartbeat") ELSE control, input)
        /\ UNCHANGED readyDue
     \/ /\ IF host_seen THEN ~heartbeatDue ELSE ~readyDue
        /\ Pump(control, input)
        /\ UNCHANGED <<readyDue, heartbeatDue>>
  /\ UNCHANGED <<cfg_set, muted, host_seen, hostView, epoch, cleared, counts>>

Poll == PollDetached \/ PollAttached

\* Variant: READY is repeated only for the first host.
ReadyTimerFirstHost ==
  /\ epoch = 0
  /\ ~readyDue /\ readyDue' = TRUE
  /\ UNCHANGED <<cfg_set, muted, link, host_seen, heartbeatDue, hostView, epoch, cleared, counts>>

ReadyTimer ==
  /\ ~readyDue /\ readyDue' = TRUE
  /\ UNCHANGED <<cfg_set, muted, link, host_seen, heartbeatDue, hostView, epoch, cleared, counts>>

HeartbeatTimer ==
  /\ ~heartbeatDue /\ heartbeatDue' = TRUE
  /\ UNCHANGED <<cfg_set, muted, link, host_seen, readyDue, hostView, epoch, cleared, counts>>

-----------------------------------------------------------------------------
(* The driver and the cable *)

\* cmd_shot holds the loop for as long as the pixels take, so while it runs nothing
\* but the driver and the cable moves; its pixels are text to the decoder.
ShotBegin ==
  /\ cfg_set /\ ~muted
  /\ consoles + shots < MaxConsole
  /\ shots' = shots + 1
  /\ muted' = TRUE
  /\ UNCHANGED <<cfg_set, link, host_seen, readyDue, heartbeatDue, hostView, epoch, cleared,
                 hosts, inputs, consoles>>

ShotEnd ==
  /\ muted
  /\ muted' = FALSE
  /\ UNCHANGED <<cfg_set, link, host_seen, readyDue, heartbeatDue, hostView, epoch, cleared,
                 counts>>

\* A command's output goes straight to the driver (usb_puts, usb_write_block), which
\* takes it whether or not a host is there.
ConsoleWrite ==
  /\ cfg_set \/ muted
  /\ consoles + shots < MaxConsole
  /\ tail < BufCap
  /\ consoles' = consoles + 1
  /\ buf' = Append(buf, Text)
  /\ tail' = tail + 1
  /\ UNCHANGED <<cfg_set, muted, control, input, pending, host_seen, readyDue, heartbeatDue,
                 hostView, epoch, cleared, hosts, inputs, shots>>

\* bulk_tx_service hands over one packet; the decoder at the other end takes it.
HostReads ==
  /\ cfg_set
  /\ buf # <<>>
  /\ LET c == Head(buf) IN
       /\ buf' = Tail(buf)
       /\ tail' = IF Len(buf) = 1 THEN 0 ELSE tail
       /\ rxWant' = IF c.kind # "text" /\ (c.first \/ rxWant > 0) THEN c.left ELSE rxWant
       /\ torn' = (torn \/ IF rxWant > 0 THEN c.kind = "text" \/ c.first \/ c.left # rxWant - 1
                                         ELSE c.kind # "text" /\ ~c.first)
       /\ stale' = (stale \/ c.epoch # epoch)
       /\ gotReady' = (gotReady \/ (c.kind = "ready" /\ c.left = 0))
  /\ UNCHANGED <<cfg_set, muted, control, input, pending, host_seen, readyDue, heartbeatDue,
                 epoch, cleared, counts>>

\* A bus reset or the loss of VBUS clears cfg_set and nothing else.
Detach ==
  /\ cfg_set
  /\ epoch < MaxUnplug
  /\ cfg_set' = FALSE
  /\ cleared' = FALSE
  /\ epoch' = epoch + 1
  /\ UNCHANGED <<muted, link, host_seen, readyDue, heartbeatDue, hostView, counts>>

\* Enumeration takes longer than a pass of the service loop, so one has run, unless
\* a raw stream holds the loop: usb_write_all polls the driver and nothing else.
Attach ==
  /\ ~cfg_set
  /\ cleared \/ muted
  /\ cfg_set' = TRUE
  /\ rxWant' = 0
  /\ torn' = FALSE
  /\ gotReady' = FALSE
  /\ stale' = FALSE
  /\ UNCHANGED <<muted, link, host_seen, readyDue, heartbeatDue, epoch, cleared, counts>>

-----------------------------------------------------------------------------
LinkInit ==
  /\ cfg_set = TRUE /\ muted = FALSE
  /\ control = <<>> /\ input = <<>>
  /\ pending = <<>> /\ buf = <<>> /\ tail = 0
  /\ host_seen = FALSE
  /\ readyDue = TRUE /\ heartbeatDue = TRUE
  /\ rxWant = 0 /\ torn = FALSE /\ gotReady = FALSE /\ stale = FALSE
  /\ epoch = 0 /\ cleared = FALSE
  /\ hosts = 0 /\ inputs = 0 /\ consoles = 0 /\ shots = 0

LinkNext ==
  \/ Knob
  \/ Hello \/ Ping \/ Echo \/ Surface \/ Bye
  \/ Poll
  \/ ReadyTimer \/ HeartbeatTimer
  \/ ShotBegin \/ ShotEnd \/ ConsoleWrite
  \/ HostReads
  \/ Detach \/ Attach

LinkSpec == LinkInit /\ [][LinkNext]_linkVars

\* The loop never stops, a stream ends, time passes, and the host collects what it
\* is offered.
LinkFairSpec ==
  /\ LinkSpec
  /\ WF_linkVars(Poll) /\ WF_linkVars(ShotEnd)
  /\ WF_linkVars(ReadyTimer) /\ WF_linkVars(HeartbeatTimer)
  /\ WF_linkVars(HostReads)
-----------------------------------------------------------------------------
(* Properties *)

\* Rule F4 (session.c:181): the fragments of two messages are never interleaved, so a
\* decoder loses its place only to bytes that were never framed (a console write) or
\* that were framed for an earlier host.
FramesWhole == torn => stale \/ consoles > 0

\* "Nothing queued survives losing the host" (session.c:516), of the two queues and
\* unless a raw stream held the loop while the host went and another came: all they
\* hold was queued for the host attached.
QueueIsCurrent ==
  cfg_set /\ shots = 0 => \A q \in {control, input} : \A i \in 1..Len(q) : q[i].epoch = epoch

\* A message part-way out of the door does not wedge there: while a host stays attached
\* and collects, chunks keep following it into the driver's buffer, if only behind the
\* next heartbeat.
TailKeepsMoving == <>[](cfg_set /\ pending # <<>>) => []<><<tail' > tail>>_linkVars

\* A host that attaches and says nothing is told what the device is, for as long as the
\* device has not heard from a host (session.c:559).
ReadyUntilSeen == cfg_set ~> (~cfg_set \/ host_seen \/ gotReady)
=============================================================================
