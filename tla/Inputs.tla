------------------------------- MODULE Inputs -------------------------------
(***************************************************************************)
(* The inputs from the hand to the interface: the rotation decoder and the *)
(* debouncer of src/hal/inputs.c, the touch filter of src/hal/qt2120.c,    *)
(* and the queue of samples between capture_inputs and                     *)
(* service_pending_inputs in src/main.c.                                   *)
(*                                                                         *)
(* A sample is captured by the main loop and, while the panel is drawn, by *)
(* whatever waits for the display; samples are taken apart only by the     *)
(* main loop, which captures nothing meanwhile.  With the queue full a     *)
(* sample is dropped and a diagnostic raised (Diag).                       *)
(*                                                                         *)
(* Between two samples a knob moves by less than half a turn, and a        *)
(* contact reads wrong for one sample at most, never twice running nor in  *)
(* the first.  Benchmark scenes are left out.                              *)
(***************************************************************************)
EXTENDS Diag

CONSTANTS
  Pots,
  Switches,        \* the knobs' switches and the buttons
  Quarter,         \* PH_R: the phase of a quarter turn
  Beyond,          \* how far past it a track may swing
  PerDetent,       \* PH_PER_DETENT
  Deadband,        \* PH_DEADBAND
  Steps,           \* how far a knob may move between samples, under a hand or at rest
  Angles,          \* where a knob may be at first
  QueueOverflow,   \* EMP_DIAG_INPUT_QUEUE_OVERFLOW, one of Codes
  InputQueue,      \* INPUT_QUEUE
  ReleaseTicks,    \* release_ms
  StuckTicks,      \* QT2120_STUCK_MS
  MaxDt,           \* the longest time that counts between two samples
  MaxGap           \* the longest there is

PerRev == 4 * Quarter

ASSUME QueueAssumption == QueueOverflow \in Codes /\ InputQueue \in Nat \ {0}
ASSUME PhaseAssumption ==
  /\ Quarter \in Nat \ {0} /\ PerDetent \in Nat \ {0} /\ Deadband \in Nat \ {0} /\ Beyond \in Nat
  /\ 2 * Deadband <= PerRev
  /\ Steps \subseteq {d \in -PerRev..PerRev : -PerRev < 2 * d /\ 2 * d < PerRev}
  /\ Angles \subseteq 0..PerRev - 1
ASSUME TimesAssumption ==
  /\ ReleaseTicks \in Nat \ {0} /\ StuckTicks \in Nat \ {0}
  /\ MaxDt \in Nat \ {0} /\ MaxGap \in Nat \ {0}

VARIABLES
  \* The panel:
  angle,           \* where each knob is
  held,            \* the switches a hand holds
  bounced,         \* the contacts that read wrong in the last sample
  key,             \* each touch key: what its electrode reads
  \* inputs.c:
  prev, accum, primed,
  settled, pending,        \* of debounce
  \* qt2120.c:
  stable, released_ms, held_ms,
  \* main.c:
  input_queue,
  prev_push, prev_touch, edges_primed,
  \* History, not in the code:
  slack,           \* how far each knob was turned, less the detents delivered
  gated,           \* how far by moves within the dead band, a sample each
  lost,            \* how far in samples that were dropped
  unseen           \* how often each switch was changed, less its edges

rotation == <<angle, prev, accum>>
switches == <<bounced, settled, pending>>
touch == <<stable, released_ms, held_ms>>
capture == <<rotation, switches, touch, primed>>
ui == <<prev_push, prev_touch, edges_primed>>
vars == <<diagVars, moves, held, key, capture, input_queue, ui, slack, gated, lost, unseen>>

-----------------------------------------------------------------------------
(* Rotation.  A knob has two tracks a quarter turn apart, each rising and  *)
(* falling once a turn, here about 0.                                      *)

Track(p) ==
  CASE p = Quarter -> Quarter + Beyond
    [] p = 3 * Quarter -> -(Quarter + Beyond)
    [] p < Quarter -> p
    [] p > 3 * Quarter -> p - PerRev
    [] OTHER -> 2 * Quarter - p

TrackB(p) == Track(p)
TrackA(p) == Track((p + Quarter) % PerRev)

\* phase_of.
PhaseOf(da, db) ==
  LET b == IF db > Quarter THEN Quarter ELSE IF db < -Quarter THEN -Quarter ELSE db
  IN IF b >= 0 THEN IF da >= 0 THEN b ELSE 2 * Quarter - b
     ELSE IF da < 0 THEN 2 * Quarter - b ELSE PerRev + b

\* Variant: the phase is not circular.
ShortWayStraight(d) == d

\* The short way round.
ShortWay(d) ==
  IF 2 * d > PerRev THEN d - PerRev ELSE IF 2 * d < -PerRev THEN d + PerRev ELSE d

\* C's division: towards zero.
Towards0(n, d) == IF n >= 0 THEN n \div d ELSE -((-n) \div d)

\* A step that is not motion.
Within(d) == -Deadband < d /\ d < Deadband

\* inputs_decode_rotation: what is gained and what is left of it.  A step that is not motion is
\* not kept for the next, which starts from where it ended.
Decoded(p, phase) ==
  LET d == ShortWay(phase - prev[p])
      sum == accum[p] + d
      ticks == Towards0(sum, PerDetent)
  IN IF ~primed \/ Within(d)
       THEN [ticks |-> 0, left |-> accum[p]]
       ELSE [ticks |-> ticks, left |-> sum - ticks * PerDetent]

-----------------------------------------------------------------------------
(* Switches.                                                               *)

Differ(a, b) == (a \ b) \union (b \ a)

\* Variant: a contact that opens is not believed.
DebouncedSticky(read) ==
  IF ~primed THEN read ELSE settled \union (read \ Differ(read, pending))

\* debounce: a contact changes once it has read the same twice; the first
\* reading of all is taken as it is.
Debounced(read) ==
  IF ~primed THEN read
  ELSE LET agreed == Switches \ Differ(read, pending)
       IN (settled \ agreed) \union (read \intersect agreed)

-----------------------------------------------------------------------------
(* Touch.  A key is clear, firmly touched, or latched just past its        *)
(* threshold with no finger there; a recalibration under a finger takes    *)
(* it for the reference.                                                   *)

Keys == {"clear", "firm", "latched", "absorbed"}
Reads == {p \in Pots : key[p] \in {"firm", "latched"}}

Recalibrated(k) == CASE k = "firm" -> "absorbed" [] k = "latched" -> "clear" [] OTHER -> k

Long(raw, moved, dt) ==
  [p \in Pots |-> IF p \in raw \ moved
                    THEN IF held_ms[p] + dt > StuckTicks THEN StuckTicks ELSE held_ms[p] + dt
                  ELSE 0]

\* Variant: a latched key is taken for a finger.
MarginalNever(long) == FALSE

\* None of the keys that have long been touched looks like a finger.
Marginal(long) == \A p \in Pots : long[p] >= StuckTicks => key[p] # "firm"

\* qt2120_touch_filter.  detail is whether the sensor gives its numbers.
Filter(raw, moved, dt, detail) ==
  \E long \in {Long(raw, moved, dt)} :
    LET gone == [p \in Pots |-> IF p \in raw THEN 0
                                ELSE IF p \in stable THEN released_ms[p] + dt
                                ELSE released_ms[p]]
        let_go == {p \in Pots : gone[p] >= ReleaseTicks}
        suspect == moved = {} /\ \E p \in Pots : long[p] >= StuckTicks
        recalibrate == suspect /\ (~detail \/ Marginal(long))
    IN /\ stable' = IF recalibrate THEN {} ELSE (stable \union raw) \ let_go
       /\ released_ms' = [p \in Pots |-> IF recalibrate \/ p \in let_go THEN 0 ELSE gone[p]]
       /\ held_ms' = IF suspect THEN [p \in Pots |-> 0] ELSE long
       /\ key' = IF recalibrate THEN [p \in Pots |-> Recalibrated(key[p])] ELSE key

-----------------------------------------------------------------------------
(* capture_inputs                                                          *)

QueueFull == Len(input_queue) = InputQueue

\* Variant: a sample that finds the queue full is dropped in silence.
EnqueuedQuietly(sample) ==
  IF QueueFull
    THEN /\ Owed
         /\ lost' = [p \in Pots |-> lost[p] + PerDetent * sample.detents[p]]
         /\ UNCHANGED <<input_queue, complaints>>
    ELSE input_queue' = Append(input_queue, sample) /\ UNCHANGED <<complaints, owed, lost>>

Enqueued(sample) ==
  IF QueueFull
    THEN /\ Owed /\ EmpDiag(QueueOverflow)
         /\ lost' = [p \in Pots |-> lost[p] + PerDetent * sample.detents[p]]
         /\ UNCHANGED input_queue
    ELSE input_queue' = Append(input_queue, sample) /\ UNCHANGED <<complaints, owed, lost>>

One(p, d) == [q \in Pots |-> IF q = p THEN d ELSE 0]
Still == [p \in Pots |-> 0]

\* turned is how far each knob is turned since the last sample, noise what
\* track A reads too little; bounce are the contacts that read wrong and deaf
\* the keys that do not read; detail, whether the sensor gives its numbers.
Sampled(turned, noise, bounce, deaf, detail, gap) ==
  \E now \in {[p \in Pots |-> (angle[p] + turned[p]) % PerRev]} :
  \E phase \in {[p \in Pots |-> PhaseOf(TrackA(now[p]) - noise, TrackB(now[p]))]} :
  \E decoded \in {[p \in Pots |-> Decoded(p, phase[p])]} :
    LET detents == [p \in Pots |-> decoded[p].ticks]
        moved == {p \in Pots : detents[p] # 0}
        read == Differ(held, bounce)
        dt == IF gap > MaxDt THEN MaxDt ELSE gap
    IN /\ angle' = now /\ prev' = phase /\ primed' = TRUE
       /\ accum' = [p \in Pots |-> decoded[p].left]
       /\ settled' = Debounced(read) /\ pending' = read /\ bounced' = bounce
       /\ Filter(Reads \ deaf, moved, dt, detail)
       /\ slack' = [p \in Pots |-> slack[p] + (IF primed THEN turned[p] ELSE 0)]
       /\ gated' = [p \in Pots |->
                      gated[p] + (IF primed /\ Within(turned[p]) THEN turned[p] ELSE 0)]
       /\ Enqueued([detents |-> detents, push |-> settled', touch |-> stable'])

\* Nothing happens meanwhile.
CaptureQuiet ==
  /\ Sampled(Still, 0, {}, {}, TRUE, 1)
  /\ UNCHANGED <<moves, ring, attached, held, ui, unseen>>

CaptureBusy ==
  /\ Moved(1)
  /\ \/ \E p \in Pots, d \in Steps, noise \in {0, 1} :
          Sampled(One(p, d), noise, {}, {}, TRUE, 1)
     \/ /\ primed
        /\ \E s \in Switches \ bounced : Sampled(Still, 0, {s}, {}, TRUE, 1)
     \/ \E deaf \in (SUBSET Pots) \ {{}} : Sampled(Still, 0, {}, deaf, TRUE, 1)
     \/ Sampled(Still, 0, {}, {}, FALSE, 1)
     \/ \E gap \in 2..MaxGap : Sampled(Still, 0, {}, {}, TRUE, gap)
  /\ UNCHANGED <<ring, attached, held, ui, unseen>>

Capture == CaptureQuiet \/ CaptureBusy

-----------------------------------------------------------------------------
(* service_pending_inputs, which runs consume_input on every sample that   *)
(* waits; nothing is captured meanwhile.                                   *)

\* Variant: a switch that is held at power-on is a press.
FirstUnprimed == prev_push

\* What the first sample of all is compared with is itself.
First == IF edges_primed THEN prev_push ELSE Head(input_queue).push

Edges(s) ==
  {i \in DOMAIN input_queue :
     s \in Differ(input_queue[i].push, IF i = 1 THEN First ELSE input_queue[i - 1].push)}

\* The detents of p in all samples that wait.
Waiting(p) == SumTo([i \in DOMAIN input_queue |-> input_queue[i].detents[p]], Len(input_queue))

Newest == input_queue[Len(input_queue)]

Service ==
  /\ input_queue # <<>> /\ input_queue' = <<>>
  /\ slack' = [p \in Pots |-> slack[p] - PerDetent * Waiting(p)]
  /\ prev_push' = Newest.push /\ prev_touch' = Newest.touch
  /\ edges_primed' = TRUE
  /\ unseen' = [s \in Switches |-> unseen[s] - Cardinality(Edges(s))]
  /\ UNCHANGED <<diagVars, moves, held, key, capture, gated, lost>>

-----------------------------------------------------------------------------
(* The hand, the sensor's electrodes, and the other users of Diag.         *)

Flip(s) ==
  /\ Moved(1)
  /\ held' = Differ(held, {s})
  /\ unseen' = [unseen EXCEPT ![s] = @ + (IF primed THEN 1 ELSE 0)]
  /\ UNCHANGED <<diagVars, key, capture, input_queue, ui, slack, gated, lost>>

Electrode(p) ==
  /\ Moved(1)
  /\ key' \in {[key EXCEPT ![p] = k] :
                 k \in CASE key[p] = "clear" -> {"firm", "latched"}
                         [] key[p] = "latched" -> {"firm"}
                         [] OTHER -> {"clear", "latched"}}
  /\ UNCHANGED <<diagVars, held, capture, input_queue, ui, slack, gated, lost, unseen>>

inputVars == <<held, key, capture, input_queue, ui, slack, gated, lost, unseen>>

Others == \E code \in Codes \ {QueueOverflow} : Complain(code) /\ UNCHANGED inputVars

Session == DiagNext /\ UNCHANGED inputVars

Init ==
  /\ DiagInit
  /\ angle \in [Pots -> Angles] /\ prev = Still /\ accum = Still /\ primed = FALSE
  /\ held \in SUBSET Switches /\ bounced = {} /\ settled = {} /\ pending = {}
  /\ key = [p \in Pots |-> "clear"]
  /\ stable = {} /\ released_ms = Still /\ held_ms = Still
  /\ input_queue = <<>>
  /\ prev_push = {} /\ prev_touch = {} /\ edges_primed = FALSE
  /\ slack = Still /\ gated = Still /\ lost = Still
  /\ unseen = [s \in Switches |-> 0]

Next ==
  \/ Capture \/ Service
  \/ \E s \in Switches : Flip(s)
  \/ \E p \in Pots : Electrode(p)
  \/ Others \/ Session

\* The main loop goes round: it samples, takes samples apart and visits the
\* session.
Spec ==
  /\ Init /\ [][Next]_vars
  /\ WF_vars(CaptureQuiet) /\ WF_vars(Service)

-----------------------------------------------------------------------------
(* Properties. *)

\* How far a knob has moved is the detents the interface was given, those that wait in samples,
\* those of samples dropped with the queue full, the moves that were each, in their sample, within
\* the dead band, and less than one detent more: whatever the corner of the phase it passed, and
\* whenever the panel was being drawn (inputs.c:118-153, main.c:2428-2447).  Moves within the dead
\* band are lost, however many follow one another, against inputs.c:146, "so a slow turn still
\* registers": without gated this is false.
MovementArrives ==
  \A p \in Pots :
    /\ slack[p] = accum[p] + gated[p] + lost[p] + PerDetent * Waiting(p)
    /\ -PerDetent < accum[p] /\ accum[p] < PerDetent

\* The interface sees no edge the hand did not make: not for a contact that
\* reads wrong once, nor for a switch held at power-on (inputs.c:374-386,
\* main.c:2459-2465), even when samples are dropped.
EdgesAreMeant == \A s \in Switches : unseen[s] >= 0

\* Once the hand is at rest the interface knows which switches it holds and
\* what the filter believes is touched, though edges were dropped.
InterfaceCatchesUp == <>[](prev_push = held /\ prev_touch = stable)

\* A key that is latched with no finger on any is let go in the end, and no
\* key stays so while the sensor's other keys read no finger (qt2120.c:262-266).
StuckKeysAreFreed ==
  \A p \in Pots : <>[](key[p] = "latched") => <>[](\E q \in Pots : key[q] = "firm")
=============================================================================
