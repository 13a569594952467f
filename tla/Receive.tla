------------------------------ MODULE Receive ------------------------------
(***************************************************************************)
(* The receive half of src/proto/session.c over src/proto/frame.c: from    *)
(* the bulk endpoint, through the one fragment buffer and the one          *)
(* reassembly buffer, to the handlers, and the idle clock that gives up a  *)
(* reassembly.                                                             *)
(*                                                                         *)
(* What one packet carries is a unit: the first unit of a fragment holds   *)
(* its header, and a line of console text is a unit too.  The host obeys   *)
(* the protocol (F1: only surface messages are split; F2: one split        *)
(* message at a time; F3: whole ones in between) until its process dies or *)
(* its cable is pulled, at any point of any fragment; another then starts  *)
(* afresh.  The device is not told.                                        *)
(***************************************************************************)
EXTENDS Bus, Integers, SequencesExt

CONSTANTS
  Mail,         \* what a host may send: an opcode and the units of each of its fragments
  MaxTotal,     \* EMP_MAX_MESSAGE_RX, in units
  Limit,        \* REASM_IDLE_MS, in ticks
  MaxSent,      \* bound on messages
  MaxLines,     \* bound on console lines
  MaxCuts       \* bound on hosts that die and cables that are pulled

MailAssumption ==
  \A kind \in Mail : kind.parts \in Seq(Nat \ {0}) /\ kind.parts # <<>>
ASSUME MailIsFragments == MailAssumption
ASSUME LimitAssumption == Limit \in Nat \ {0} /\ MaxTotal \in Nat

VARIABLES
  wire,         \* units of the fragment in flight that the device has not read
  sending,      \* the split message the host is in, and its next fragment
  rx_frag,      \* units collected of a fragment: rx_have
  rx_need,      \* units it is to have
  reasm,        \* the reassembly: in_progress, the FIRST it began with, buf
  reasm_last_len, idle,  \* the length the last visit saw; how long ago that was new
  streaming,    \* a console command holds the loop
  \* History:
  sent,         \* every message sent
  clean,        \* fragments that were handed to the reassembler as they were sent
  delivered,    \* the content of every message handed to the handlers
  givenUp,      \* messages whose reassembly was given up as idle
  quiet,        \* how long ago the reassembly last took a fragment
  disturbed,    \* a host was lost, or the loop held, since the receiver was last empty
  lines, cuts   \* used of the bounds

host == <<wire, sending, sent, lines>>
frame == <<rx_frag, rx_need, clean, delivered>>
clock == <<reasm_last_len, idle, givenUp>>
device == <<cfg_set, frame, reasm, clock, streaming, quiet>>
vars == <<cfg_set, host, frame, reasm, clock, streaming, quiet, disturbed, cuts>>

Line == [m |-> 0, part |-> 0, unit |-> 0]
Fragment(m, p) == [u \in 1..sent[m].parts[p] |-> [m |-> m, part |-> p, unit |-> u]]
Content(m) == FlattenSeq([p \in DOMAIN sent[m].parts |-> Fragment(m, p)])
Split(m) == Len(sent[m].parts) > 1
NoMessage == [m |-> 0, part |-> 0]
LongestFragment == Max(UNION {Range(kind.parts) : kind \in Mail})

-----------------------------------------------------------------------------
(* emp_reasm_fragment: what one complete fragment does to the reassembly,  *)
(* and the message it completes, if any.                                   *)

Failed(r) == [r EXCEPT !.in_progress = FALSE, !.buf = <<>>]
Refuse(r) == [reasm |-> Failed(r), message |-> <<>>]
Keep(r) == [reasm |-> r, message |-> <<>>]

\* Variant: a single message is refused while another is in progress.
TakeSingleUnlessBusy(r, frag) ==
  IF r.in_progress THEN Refuse(r) ELSE [reasm |-> r, message |-> frag]
\* A fragment whose header says FIRST and LAST is delivered from where it lies.
TakeSingle(r, frag) == [reasm |-> r, message |-> frag]

\* FIRST names the whole message: its total, its CRC, its opcode.
Adopt(r, m) == [in_progress |-> TRUE, of |-> m, buf |-> <<>>]

MayContinue(r, m) == r.in_progress /\ sent[m].op = sent[r.of].op

TooLong(r, body) == Len(r.buf) + Len(body) > Len(Content(r.of))

\* Variant: the length is compared and the bytes are not.
MatchesLength(buf, m) == Len(buf) = Len(Content(m))
\* The CRC of the FIRST's message is that of the bytes collected.
Matches(buf, m) == buf = Content(m)

Collect(r, frag, last) ==
  LET grown == [r EXCEPT !.buf = @ \o frag]
  IN  CASE TooLong(r, frag) -> Refuse(r)
        [] ~TooLong(r, frag) /\ ~last -> Keep(grown)
        [] ~TooLong(r, frag) /\ last /\ ~Matches(grown.buf, r.of) -> Refuse(r)
        [] OTHER -> [reasm |-> [grown EXCEPT !.in_progress = FALSE], message |-> grown.buf]

Take(r, frag) ==
  LET m == frag[1].m
      first == frag[1].part = 1
      last == frag[1].part = Len(sent[m].parts)
  IN  CASE frag[1].unit # 1 -> Refuse(r)
        [] frag[1].unit = 1 /\ first /\ last -> TakeSingle(r, frag)
        [] frag[1].unit = 1 /\ first /\ ~last ->
             IF Len(Content(m)) > MaxTotal THEN Refuse(r) ELSE Collect(Adopt(r, m), frag, FALSE)
        [] OTHER -> IF MayContinue(r, m) THEN Collect(r, frag, last) ELSE Refuse(r)

-----------------------------------------------------------------------------
(* emp_session_poll, as far as the reassembly r that it finds.             *)

\* Variant: the clock is not started over when bytes come.
ProgressFromTheStart(r) == reasm_last_len' = Len(r.buf) /\ UNCHANGED idle
\* Variant: the length is not noted, so that each visit sees progress.
ProgressUnrecorded(r) == idle' = 0 /\ UNCHANGED reasm_last_len
\* Progress is a length other than the one the last visit saw.
Progress(r) == reasm_last_len' = Len(r.buf) /\ idle' = 0

Visit(r) ==
  \/ /\ cfg_set /\ ~r.in_progress
     /\ reasm' = r /\ reasm_last_len' = 0 /\ idle' = 0
     /\ UNCHANGED givenUp
  \/ /\ cfg_set /\ r.in_progress /\ Len(r.buf) # reasm_last_len
     /\ reasm' = r /\ Progress(r)
     /\ UNCHANGED givenUp
  \/ /\ cfg_set /\ r.in_progress /\ Len(r.buf) = reasm_last_len /\ idle >= Limit
     /\ reasm' = Failed(r) /\ reasm_last_len' = 0 /\ givenUp' = givenUp \union {r.of}
     /\ UNCHANGED idle
  \/ /\ ~cfg_set \/ (r.in_progress /\ Len(r.buf) = reasm_last_len /\ idle < Limit)
     /\ reasm' = r
     /\ UNCHANGED clock

-----------------------------------------------------------------------------
(* emp_session_feed, for the bytes of one packet.                          *)

\* Once a fragment is begun it is whatever comes until payload_len is met.  A
\* packet that finds none begun begins one with its header; and the bytes of a
\* payload whose header went elsewhere may hold the magic, and then promise any
\* number of bytes more.
Collecting(u) ==
  CASE rx_frag # <<>> -> {[have |-> Append(rx_frag, u), need |-> rx_need]}
    [] rx_frag = <<>> /\ u = Line -> {}
    [] rx_frag = <<>> /\ u.unit = 1 -> {[have |-> <<u>>, need |-> sent[u.m].parts[u.part]]}
    [] OTHER -> {[have |-> <<u>>, need |-> n] : n \in 1..LongestFragment}

\* What is not taken is the console's.
IsConsoles(u) == rx_frag = <<>> /\ (u = Line \/ u.unit # 1)

Complete(f) == Len(f.have) = f.need
AsSent(f) == f.have = Fragment(f.have[1].m, f.have[1].part)

\* Handed over or refused, a complete fragment leaves the buffer.
Leftover(f) == IF Complete(f) THEN <<>> ELSE f.have

Feed(f) ==
  /\ rx_frag' = Leftover(f)
  /\ rx_need' = IF Leftover(f) = <<>> THEN 0 ELSE f.need
  /\ IF Complete(f)
     THEN LET taken == Take(reasm, f.have)
          IN  /\ Visit(taken.reasm)
              /\ quiet' = IF taken.reasm.in_progress /\ taken.reasm # reasm THEN 0 ELSE quiet
              /\ delivered' = delivered \union ({taken.message} \ {<<>>})
              /\ clean' = IF AsSent(f) THEN clean \union {<<f.have[1].m, f.have[1].part>>}
                          ELSE clean
     ELSE Visit(reasm) /\ UNCHANGED <<quiet, delivered, clean>>

\* (History) a visit finds nothing on its way in, of a lost host or of this one.
NoteEmpty ==
  disturbed' = (disturbed /\ ~(cfg_set /\ ~reasm'.in_progress /\ rx_frag' = <<>> /\ wire' = <<>>))

-----------------------------------------------------------------------------
(* One turn of the main loop: what has arrived, then the session.          *)

PassTaking ==
  /\ ~streaming /\ wire # <<>>
  /\ wire' = Tail(wire)
  /\ \E f \in Collecting(Head(wire)) : Feed(f)
  /\ UNCHANGED <<cfg_set, sending, sent, lines, streaming, cuts>>
  /\ NoteEmpty

PassConsole ==
  /\ ~streaming /\ wire # <<>> /\ IsConsoles(Head(wire))
  /\ wire' = Tail(wire)
  /\ Visit(reasm)
  /\ UNCHANGED <<cfg_set, sending, sent, lines, frame, streaming, quiet, cuts>>
  /\ NoteEmpty

PassIdle ==
  /\ ~streaming /\ wire = <<>>
  /\ Visit(reasm)
  /\ UNCHANGED <<cfg_set, host, frame, streaming, quiet, cuts>>
  /\ NoteEmpty

\* A screenshot or a dump keeps the loop inside console_poll, and the session from
\* being visited, until it has been collected.
CommandBegins ==
  /\ ~streaming /\ wire # <<>> /\ Head(wire) = Line /\ rx_frag = <<>>
  /\ wire' = Tail(wire)
  /\ streaming' = TRUE
  /\ disturbed' = TRUE
  /\ UNCHANGED <<cfg_set, sending, sent, lines, frame, reasm, clock, quiet, cuts>>

CommandEnds ==
  /\ streaming
  /\ streaming' = FALSE
  /\ Visit(reasm)
  /\ UNCHANGED <<cfg_set, host, frame, quiet, cuts>>
  /\ NoteEmpty

Pass == PassTaking \/ PassConsole \/ PassIdle \/ CommandBegins \/ CommandEnds

\* Time passes.
Tick ==
  /\ idle < Limit \/ quiet < Limit
  /\ idle' = IF idle < Limit THEN idle + 1 ELSE idle
  /\ quiet' = IF quiet < Limit THEN quiet + 1 ELSE quiet
  /\ UNCHANGED <<cfg_set, host, frame, reasm, reasm_last_len, givenUp, streaming, disturbed, cuts>>

-----------------------------------------------------------------------------
(* The host.                                                               *)

\* A message of one fragment may be sent at any time, one of several when no other is.
Send ==
  /\ cfg_set /\ wire = <<>> /\ Len(sent) < MaxSent
  /\ \E kind \in Mail :
       LET m == Len(sent) + 1
       IN  /\ Len(kind.parts) > 1 => sending = NoMessage
           /\ sent' = Append(sent, kind)
           /\ sending' = IF Len(kind.parts) > 1 THEN [m |-> m, part |-> 2] ELSE sending
           /\ wire' = [u \in 1..kind.parts[1] |-> [m |-> m, part |-> 1, unit |-> u]]
  /\ UNCHANGED <<device, lines, disturbed, cuts>>

SendNext ==
  /\ cfg_set /\ wire = <<>> /\ sending # NoMessage
  /\ wire' = Fragment(sending.m, sending.part)
  /\ sending' = IF sending.part = Len(sent[sending.m].parts) THEN NoMessage
                ELSE [sending EXCEPT !.part = @ + 1]
  /\ UNCHANGED <<device, sent, lines, disturbed, cuts>>

SendLine ==
  /\ cfg_set /\ wire = <<>> /\ lines < MaxLines
  /\ wire' = <<Line>>
  /\ lines' = lines + 1
  /\ UNCHANGED <<device, sending, sent, disturbed, cuts>>

\* The process at the other end is gone, with what it had not sent; the cable is not,
\* nor the packets that have arrived.
HostDies ==
  /\ cfg_set /\ cuts < MaxCuts
  /\ \E n \in 0..Len(wire) : wire' = SubSeq(wire, 1, n)
  /\ sending' = NoMessage
  /\ cuts' = cuts + 1 /\ disturbed' = TRUE
  /\ UNCHANGED <<device, sent, lines>>

\* With the cable go all packets but the one that may be in rx_buf.
Unplug ==
  /\ cfg_set /\ cuts < MaxCuts
  /\ cfg_set' = FALSE
  /\ \E n \in 0..Len(wire) : n <= 1 /\ wire' = SubSeq(wire, 1, n)
  /\ sending' = NoMessage
  /\ cuts' = cuts + 1 /\ disturbed' = TRUE
  /\ UNCHANGED <<sent, lines, frame, reasm, clock, streaming, quiet>>

Plug ==
  /\ ~cfg_set
  /\ cfg_set' = TRUE
  /\ UNCHANGED <<host, frame, reasm, clock, streaming, quiet, disturbed, cuts>>

Host == Send \/ SendNext \/ SendLine \/ HostDies \/ Unplug \/ Plug

-----------------------------------------------------------------------------
Init ==
  /\ cfg_set = TRUE
  /\ wire = <<>> /\ sending = NoMessage /\ sent = <<>> /\ lines = 0
  /\ rx_frag = <<>> /\ rx_need = 0 /\ clean = {} /\ delivered = {}
  /\ reasm = [in_progress |-> FALSE, of |-> 0, buf |-> <<>>]
  /\ reasm_last_len = 0 /\ idle = 0 /\ givenUp = {}
  /\ streaming = FALSE /\ quiet = 0 /\ disturbed = FALSE /\ cuts = 0

Next == Pass \/ Tick \/ Host

Spec == Init /\ [][Next]_vars

\* The loop turns, time passes, and a command comes to its end; no host owes anything.
Fairness == WF_vars(Pass) /\ WF_vars(Tick)
FairSpec == Spec /\ Fairness

-----------------------------------------------------------------------------
(* Properties.                                                             *)

\* A message of several fragments reaches its handler as it was sent or not at all,
\* whatever two hosts' fragments the buffers were fed (frame.c:308-309), and while it
\* is collected it outgrows neither what its FIRST announced nor the buffer (295-296).
SplitArrivesWhole ==
  /\ \A d \in delivered : Split(d[1].m) => \E m \in 1..Len(sent) : d = Content(m)
  /\ reasm.buf # <<>> => Len(reasm.buf) <= Len(Content(reasm.of)) /\ Len(reasm.buf) <= MaxTotal

\* A message whose every fragment was handed over as sent reaches its handler, with
\* single messages between its fragments and whatever was in progress before it, unless
\* it is larger than the device accepts or was given up as idle (frame.c:235-247, 270-274).
CleanIsDelivered ==
  \A m \in 1..Len(sent) :
    /\ \A p \in DOMAIN sent[m].parts : <<m, p>> \in clean
    /\ ~(Split(m) /\ Len(Content(m)) > MaxTotal)
    /\ m \notin givenUp
    => Content(m) \in delivered

\* A transfer is given up only if no fragment of it came for the whole idle time, unless a
\* host was lost or the loop held since the receiver was last seen empty (session.c:529-545).
OnlyIdleIsGivenUp == [][givenUp' # givenUp => quiet' >= Limit \/ disturbed]_vars

\* A reassembly that no longer arrives is let go: while the device stays attached no
\* message is in progress for ever (session.c:533-535).
NeverWedged == <>[]cfg_set => []<>~reasm.in_progress
=============================================================================
