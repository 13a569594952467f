------------------------------- MODULE Panel --------------------------------
(***************************************************************************)
(* The panel interface while it shows a surface: src/app/ui_state.c with   *)
(* the histories of src/app/history.c and the sending half of              *)
(* src/proto/surface.c.                                                    *)
(*                                                                         *)
(* A sample of the inputs is taken apart in a fixed order (main.c,         *)
(* consume_input): each knob's turn and press, then the buttons, then      *)
(* ui_state_tick.  What the host sends is handled between samples.  Time   *)
(* passes with the ticks.                                                  *)
(*                                                                         *)
(* A NUMBER stands for every kind a hand can edit.  Reports leave through  *)
(* the queues of Txq: an edit that still waits carries the newest value    *)
(* and keeps its place.  The host has negotiated the newest minor version. *)
(* What the panel does in its settings views is Setup's; touch, the digit  *)
(* window and the positions of lists are left out.                         *)
(***************************************************************************)
EXTENDS Grid, History, Sequences

CONSTANTS
  Surfaces,        \* what a host may describe: [operator, pinned, kinds,
                   \* disabled, transport]
  Top,             \* a number runs from 0 to Top
  HoldTicks,       \* EMP_HOLD_MS in ticks
  MaxLease,        \* the longest lease of a highlight, in ticks
  None,            \* no default, nothing to compare
  MaxStrokes,      \* bound on turns, presses and buttons
  Turned,          \* the knobs the hand turns
  MaxSurprises     \* bound on what the host does

Kinds == {"NUMBER", "READONLY", "LIST", "OPENS", "ACTION", "HOLD", "ESTOP"}
Actions == {"ACTION", "HOLD", "ESTOP"}
Buttons == <<"BACK", "UNDO", "REDO", "AUX", "SYSTEM", "PAGE_NEXT">>
Transport == {"UNDO", "REDO", "AUX"}
Numbers == 0..Top

ASSUME SurfacesAssumption ==
  \A d \in Surfaces :
    /\ d.operator \in BOOLEAN /\ d.pinned \subseteq 0..(Row - 1)
    /\ DOMAIN d.kinds \subseteq Nat /\ IsFiniteSet(DOMAIN d.kinds)
    /\ \A s \in DOMAIN d.kinds : d.kinds[s] \in Kinds
    /\ d.disabled \subseteq {s \in DOMAIN d.kinds : d.kinds[s] \in Actions}
    /\ DOMAIN d.transport \subseteq Transport
    /\ \A b \in DOMAIN d.transport : d.transport[b] \in Nat \ DOMAIN d.kinds
    \* The operator layout turns the page there.
    /\ d.operator /\ Row - 1 \in DOMAIN d.kinds => d.kinds[Row - 1] \notin Actions
ASSUME PanelBounds ==
  /\ Top \in Nat /\ HoldTicks \in Nat \ {0} /\ MaxLease \in Nat \ {0}
  /\ Turned \subseteq Knobs /\ MaxStrokes \in Nat /\ MaxSurprises \in Nat /\ None \notin Numbers

VARIABLES
  desc,            \* LIVE: the descriptor shown
  revision,        \* its revision
  values,          \* the numbers of its fields
  defaults,        \* their defaults, or None
  hist,            \* h[]: their histories
  mode,            \* SURFACE, or SETTINGS for all the views of Setup
  page, focused, zoom_held,
  hold,            \* [slot, pot, done, age, revision]: hold_start_ms as an age
  lit,             \* [slots, left]: highlights and what is left of the lease
  synced,          \* service_now_ms is the time of the last tick
  pushed, zooming, \* of prev_push and prev_btn: the knobs whose press began
                   \* a hold, and whether PAGE_NEXT is down
  handled,         \* how far the sample at hand has been taken apart
  outbox,          \* reports on their way to the host
  \* The host:
  truth,           \* its values
  chosen,          \* its defaults
  answers,         \* DEFAULTS on their way to the panel
  \* The bounds:
  strokes, surprises,
  \* History, not in the code:
  grip             \* the HOLD each knob was pressed on and has stayed on,
                   \* unturned and not yet sent, and for how long

view == <<mode, page, focused, zoom_held, lit, synced>>
fields == <<desc, revision, defaults>>
numbers == <<values, hist>>
hand == <<pushed, zooming, grip>>
host == <<truth, chosen, answers>>
bounds == <<strokes, surprises>>
vars == <<view, fields, numbers, hold, hand, handled, outbox, host, bounds>>

Occupied == DOMAIN desc.kinds
Editable == {s \in Occupied : desc.kinds[s] = "NUMBER"}
Is(s, kinds) == s \in Occupied /\ desc.kinds[s] \in kinds
Live(s, kinds) == Is(s, kinds) /\ s \notin desc.disabled

FieldForPage(first, k) == Addressed(desc, Occupied, first, k)
FieldFor(k) == FieldForPage(page, k)
KnobsFor(s) == {k \in Knobs : FieldFor(k) = s}
LastPage == LastPageOf(Occupied)
DigitKnobs == IF focused = Nobody THEN {} ELSE DigitRow(KnobsFor(focused))
Edits(k) == IF k \in DigitKnobs THEN focused ELSE FieldFor(k)

NoHold == [slot |-> Nobody, pot |-> Nobody, done |-> FALSE, age |-> 0, revision |-> 0]
NoGrip == [slot |-> Nobody, age |-> 0]
Dark == [slots |-> {}, left |-> 0]

-----------------------------------------------------------------------------
(* What the panel sends.                                                   *)

Waiting(op, s) ==
  {i \in DOMAIN outbox : outbox[i].op = op /\ outbox[i].slot = s
                         /\ outbox[i].revision = revision}

Report(op, s, v) == [op |-> op, revision |-> revision, slot |-> s, value |-> v]

\* send_edit: an edit of the field that still waits takes the new value.
SendEdit(s, v) ==
  outbox' = IF Waiting("EDIT", s) # {}
              THEN [i \in DOMAIN outbox |->
                      IF i \in Waiting("EDIT", s) THEN Report("EDIT", s, v) ELSE outbox[i]]
              ELSE Append(outbox, Report("EDIT", s, v))

Activate(what) == outbox' = Append(outbox, Report("ACTIVATE", what, None))

\* send_activate: an action or a list that opens something, not disabled.
SurfActivate(s) ==
  IF Live(s, Actions \union {"OPENS"}) THEN Activate(s) ELSE UNCHANGED outbox

SetNumber(s, v) ==
  /\ values' = [values EXCEPT ![s] = v]
  /\ SendEdit(s, v)

-----------------------------------------------------------------------------
(* Samples.  Input i of the sample is handled after those before it.       *)

Rest == -1
TurnOf(k) == 2 * k
PressOf(k) == 2 * k + 1
ButtonOf(i) == 2 * Pots + i

Input(i) ==
  /\ handled < i /\ handled' = i
  /\ UNCHANGED <<fields, host, synced, surprises>>

Stroke(i) ==
  /\ Input(i)
  /\ strokes < MaxStrokes /\ strokes' = strokes + 1

-----------------------------------------------------------------------------
(* Navigation.                                                             *)

\* Variant: leaving a field leaves its window held.
LeaveFocusHeld ==
  /\ hist' = IF focused \in Editable
               THEN [hist EXCEPT ![focused] = Commit(@, values[focused])] ELSE hist
  /\ focused' = Nobody
  /\ UNCHANGED zoom_held

\* Leaving a field ends the adjustment in progress.
LeaveFocus ==
  /\ hist' = IF focused \in Editable
               THEN [hist EXCEPT ![focused] = Commit(@, values[focused])] ELSE hist
  /\ focused' = Nobody
  /\ zoom_held' = FALSE

SetPage(first) ==
  IF first = page THEN UNCHANGED <<hist, focused, zoom_held, lit, page>>
  ELSE LeaveFocus /\ lit' = Dark /\ page' = first

\* A drill from the overview: an OPENS list sends, a LIST returns to its
\* top, and anything else is drilled into.
EnterFocus(s) ==
  IF s = Nobody \/ Is(s, {"LIST"}) THEN UNCHANGED <<hist, focused, zoom_held, outbox>>
  ELSE IF Is(s, {"OPENS"})
    THEN SurfActivate(s) /\ UNCHANGED <<hist, focused, zoom_held>>
  ELSE focused' = s /\ UNCHANGED <<hist, zoom_held, outbox>>

\* A drill into s from another field.
MoveFocus(s) ==
  /\ hist' = IF focused \in Editable
               THEN [hist EXCEPT ![focused] = Commit(@, values[focused])] ELSE hist
  /\ zoom_held' = FALSE
  /\ focused' = IF s = focused \/ Is(s, {"LIST", "OPENS"}) THEN Nobody ELSE s
  /\ IF s # focused /\ Is(s, {"OPENS"}) THEN SurfActivate(s) ELSE UNCHANGED outbox

-----------------------------------------------------------------------------
(* Knobs.                                                                  *)

StartHold(k, s) ==
  hold' = [slot |-> s, pot |-> k, done |-> FALSE, age |-> 0, revision |-> revision]

\* A HOLD pressed later takes the place of one that is being timed.
Gripped(k) ==
  IF mode = "SURFACE" /\ focused = Nobody /\ Live(FieldFor(k), {"HOLD"})
    THEN [j \in Knobs |-> IF j = k THEN [slot |-> FieldFor(k), age |-> 0] ELSE NoGrip]
    ELSE grip

\* An action in the overview or in the operator layout.
Trigger(k, s) ==
  IF ~Live(s, Actions) THEN UNCHANGED <<hold, outbox>>
  ELSE IF Is(s, {"HOLD"}) THEN StartHold(k, s) /\ UNCHANGED outbox
  ELSE SurfActivate(s) /\ UNCHANGED hold

PushOperator(k) ==
  IF page = 0 /\ k = Pots - 1
    THEN SetPage(IF Pots > LastPage THEN LastPage ELSE Pots) /\ UNCHANGED <<hold, outbox>>
    ELSE Trigger(k, FieldFor(k)) /\ UNCHANGED <<hist, focused, zoom_held, lit, page>>

\* Variant: a stop in the digit row only leaves the field that is drilled.
PushDrilledOnlyLeaves(k) ==
  /\ IF k \in DigitKnobs THEN LeaveFocus /\ UNCHANGED outbox ELSE MoveFocus(FieldFor(k))
  /\ UNCHANGED <<hold, lit, page>>

PushDrilled(k) ==
  /\ IF Is(FieldFor(k), {"ESTOP"}) THEN LeaveFocus /\ SurfActivate(FieldFor(k))
     ELSE IF k \in DigitKnobs THEN LeaveFocus /\ UNCHANGED outbox
     ELSE MoveFocus(FieldFor(k))
  /\ UNCHANGED <<hold, lit, page>>

PushOverview(k) ==
  /\ IF Is(FieldFor(k), Actions)
       THEN Trigger(k, FieldFor(k)) /\ UNCHANGED <<hist, focused, zoom_held>>
       ELSE EnterFocus(FieldFor(k)) /\ UNCHANGED hold
  /\ UNCHANGED <<lit, page>>

Push(k) ==
  /\ Stroke(PressOf(k))
  /\ k \notin pushed
  /\ grip' = Gripped(k)
  /\ IF mode # "SURFACE" THEN UNCHANGED <<hist, focused, zoom_held, lit, page, hold, outbox>>
     ELSE IF desc.operator THEN PushOperator(k)
     ELSE IF focused # Nobody THEN PushDrilled(k)
     ELSE PushOverview(k)
  /\ pushed' = IF hold' = hold THEN pushed ELSE pushed \union {k}
  /\ UNCHANGED <<mode, zooming, values>>

AfterRelease(k) == IF hold.pot = k THEN NoHold ELSE hold

Release(k) ==
  /\ Input(PressOf(k))
  /\ k \in pushed /\ pushed' = pushed \ {k}
  /\ grip' = [grip EXCEPT ![k] = NoGrip]
  /\ hold' = AfterRelease(k)
  /\ UNCHANGED <<view, numbers, zooming, outbox, strokes>>

\* Variant: a turn does not disturb a hold.
HeldThrough(k) == hold

AfterTurn(k) == IF hold.pot = k /\ ~hold.done THEN NoHold ELSE hold

Clamped(v) == IF v < 0 THEN 0 ELSE IF v > Top THEN Top ELSE v

\* A digit knob edits even when the value stays at its limit; while the
\* window is held nothing edits.
Turn(k, d) ==
  LET s == Edits(k)
      v == Clamped(values[s] + d)
  IN IF mode = "SURFACE" /\ ~zoom_held /\ s \in Editable
          /\ (k \in DigitKnobs \/ v # values[s])
       THEN /\ hist' = [hist EXCEPT ![s] = Touched(@, values[s])]
            /\ SetNumber(s, v)
       ELSE UNCHANGED <<numbers, outbox>>

Rotate(k, d) ==
  /\ Stroke(TurnOf(k))
  /\ hold' = AfterTurn(k)
  /\ grip' = [grip EXCEPT ![k] = NoGrip]
  /\ Turn(k, d)
  /\ UNCHANGED <<mode, page, focused, zoom_held, lit, pushed, zooming>>

-----------------------------------------------------------------------------
(* Buttons.                                                                *)

Modified(s) == s \in Editable /\ defaults[s] # None /\ values[s] # defaults[s]

Transported(b) ==
  /\ IF b \in DOMAIN desc.transport THEN Activate(desc.transport[b]) ELSE UNCHANGED outbox
  /\ UNCHANGED <<view, numbers, defaults>>

Step(found, h) ==
  LET s == focused
  IN /\ hist' = [hist EXCEPT ![s] = h]
     /\ IF found THEN SetNumber(s, Present(h)) ELSE UNCHANGED <<values, outbox>>

BackButton ==
  /\ IF focused # Nobody THEN LeaveFocus /\ UNCHANGED <<lit, page>>
     ELSE IF page > 0 THEN SetPage(page - Pots)
     ELSE UNCHANGED <<hist, focused, zoom_held, lit, page>>
  /\ UNCHANGED <<mode, values, defaults, outbox>>

UndoButton ==
  IF focused = Nobody THEN Transported("UNDO")
  ELSE /\ IF focused \in Editable /\ CanUndo(hist[focused])
            THEN Step(UndoFinds(hist[focused], values[focused]),
                      Undone(hist[focused], values[focused]))
            ELSE UNCHANGED <<numbers, outbox>>
       /\ UNCHANGED <<view, defaults>>

RedoButton ==
  IF focused = Nobody THEN Transported("REDO")
  ELSE /\ IF focused \in Editable /\ CanRedo(hist[focused])
            THEN Step(RedoFinds(hist[focused], values[focused]),
                      Redone(hist[focused], values[focused]))
            ELSE UNCHANGED <<numbers, outbox>>
       /\ UNCHANGED <<view, defaults>>

\* Variant: a Store stays with the panel.
AuxUnasked ==
  IF focused = Nobody THEN Transported("AUX")
  ELSE /\ defaults' = IF Modified(focused) THEN [defaults EXCEPT ![focused] = values[focused]]
                      ELSE defaults
       /\ UNCHANGED <<view, numbers, outbox>>

\* Store: the value shown becomes the default, and the host is asked to
\* take the value it holds.
AuxButton ==
  IF focused = Nobody THEN Transported("AUX")
  ELSE /\ IF Modified(focused)
            THEN /\ defaults' = [defaults EXCEPT ![focused] = values[focused]]
                 /\ outbox' = Append(outbox, Report("SAVE_DEFAULT", focused, None))
            ELSE UNCHANGED <<defaults, outbox>>
       /\ UNCHANGED <<view, numbers>>

\* Reset: an adjustment that is finished at once.
Reset(s) ==
  LET h == Touched(hist[s], values[s])
  IN /\ hist' = [hist EXCEPT ![s] = Commit(h, defaults[s])]
     /\ SetNumber(s, defaults[s])

SystemButton ==
  /\ IF focused = Nobody THEN mode' = "SETTINGS" /\ UNCHANGED <<numbers, outbox>>
     ELSE IF Modified(focused) THEN Reset(focused) /\ UNCHANGED mode
     ELSE UNCHANGED <<mode, numbers, outbox>>
  /\ UNCHANGED <<page, focused, zoom_held, lit, defaults>>

\* A number of one digit has no window to move.
ZoomButton ==
  /\ IF focused = Nobody
       THEN IF page < LastPage THEN SetPage(page + Pots)
            ELSE UNCHANGED <<hist, focused, zoom_held, lit, page>>
       ELSE /\ zoom_held' \in IF focused \in Editable THEN {TRUE, zoom_held} ELSE {zoom_held}
            /\ UNCHANGED <<hist, focused, lit, page>>
  /\ UNCHANGED <<mode, values, defaults, outbox>>

\* The settings views: BACK leaves the view, and the last of them.
SettingsButton(b) ==
  /\ mode' \in IF b = "BACK" THEN {"SURFACE", mode} ELSE {mode}
  /\ UNCHANGED <<page, focused, zoom_held, lit, numbers, defaults, outbox>>

SurfaceButton(b) ==
  CASE b = "BACK" -> BackButton
    [] b = "UNDO" -> UndoButton
    [] b = "REDO" -> RedoButton
    [] b = "AUX" -> AuxButton
    [] b = "SYSTEM" -> SystemButton
    [] b = "PAGE_NEXT" -> ZoomButton

Press(i) ==
  /\ handled < ButtonOf(i) /\ handled' = ButtonOf(i)
  /\ strokes < MaxStrokes /\ strokes' = strokes + 1
  /\ IF Buttons[i] = "PAGE_NEXT" THEN ~zooming /\ zooming' = TRUE ELSE UNCHANGED zooming
  /\ IF mode = "SURFACE" THEN SurfaceButton(Buttons[i]) ELSE SettingsButton(Buttons[i])
  /\ UNCHANGED <<desc, revision, host, hold, synced, pushed, grip, surprises>>

\* Only the release of PAGE_NEXT does something.
LetGo ==
  /\ Input(ButtonOf(Len(Buttons)))
  /\ zooming /\ zooming' = FALSE
  /\ zoom_held' = FALSE
  /\ UNCHANGED <<mode, page, focused, lit, numbers, hold, pushed, grip, outbox, strokes>>

-----------------------------------------------------------------------------
(* ui_state_tick, at the end of every sample.                              *)

\* The hold is still what its knob addresses.
StillHeld ==
  /\ mode = "SURFACE" /\ focused = Nobody
  /\ revision = hold.revision /\ Live(hold.slot, {"HOLD"})
  /\ FieldFor(hold.pot) = hold.slot

TickHold ==
  IF hold.slot = Nobody \/ hold.done THEN UNCHANGED <<hold, outbox>>
  ELSE IF ~StillHeld THEN hold' = NoHold /\ UNCHANGED outbox
  ELSE IF hold.age >= HoldTicks
    THEN hold' = [hold EXCEPT !.done = TRUE] /\ SurfActivate(hold.slot)
  ELSE hold' = [hold EXCEPT !.age = @ + 1] /\ UNCHANGED outbox

Fires(s) ==
  /\ Len(outbox') > Len(outbox)
  /\ outbox'[Len(outbox')].op = "ACTIVATE" /\ outbox'[Len(outbox')].slot = s

Aged(k) ==
  IF \/ mode # "SURFACE" \/ focused # Nobody \/ grip[k].slot \notin {FieldFor(k)} \ {Nobody}
     \/ grip[k].age = HoldTicks
    THEN NoGrip
    ELSE [grip[k] EXCEPT !.age = @ + 1]

Tick ==
  /\ handled' = Rest
  /\ lit' = IF lit.slots = {} \/ lit.left <= 1 THEN Dark ELSE [lit EXCEPT !.left = @ - 1]
  /\ synced' = TRUE
  /\ hist' = [s \in DOMAIN hist |-> Ticked(hist[s], values[s])]
  /\ TickHold
  /\ grip' = [k \in Knobs |-> Aged(k)]
  /\ UNCHANGED <<mode, page, focused, zoom_held, values, fields, pushed, zooming,
                 truth, chosen, answers, bounds>>

-----------------------------------------------------------------------------
(* What the host sends, handled between samples.                           *)

Empty == [operator |-> FALSE, pinned |-> {}, kinds |-> [s \in {} |-> 0],
          disabled |-> {}, transport |-> [b \in {} |-> 0]]

NumbersOf(d) == {s \in DOMAIN d.kinds : d.kinds[s] = "NUMBER"}

Surprise == handled = Rest /\ surprises < MaxSurprises /\ surprises' = surprises + 1

Described(d, r) ==
  /\ desc' = d /\ revision' = r
  /\ values' = [s \in NumbersOf(d) |-> 0]
  /\ defaults' = [s \in NumbersOf(d) |-> 0]
  /\ hist' = [s \in NumbersOf(d) |-> NoHistory]
  /\ truth' = values' /\ chosen' = defaults'
  /\ grip' = [k \in Knobs |-> NoGrip]

\* ui_state_surface_changed.
SurfaceChanged ==
  /\ hold' = NoHold
  /\ focused' = Nobody /\ zoom_held' = FALSE /\ page' = 0 /\ lit' = Dark

Publish(d) ==
  /\ Surprise
  /\ Described(d, surprises + 1)
  /\ SurfaceChanged
  /\ UNCHANGED <<mode, synced, pushed, zooming, handled, outbox, answers, strokes>>

\* CLEAR starts the interface over, its clock too, unless it is in settings.
Clear ==
  /\ Surprise
  /\ Described(Empty, 0)
  /\ SurfaceChanged
  /\ synced' = (synced /\ mode # "SURFACE")
  /\ UNCHANGED <<mode, pushed, zooming, handled, outbox, answers, strokes>>

Reveal(s) ==
  /\ Surprise
  /\ IF page = PageOf(s) THEN LeaveFocus /\ UNCHANGED <<lit, page>>
     ELSE SetPage(PageOf(s))
  /\ UNCHANGED <<mode, synced, fields, values, hold, hand, handled, outbox, host,
                 strokes>>

\* A lease is counted from the panel's last tick.
Highlight(slots, lease) ==
  /\ Surprise
  /\ lit' = [slots |-> slots, left |-> IF synced THEN lease ELSE 0]
  /\ UNCHANGED <<mode, page, focused, zoom_held, synced, fields, numbers, hold, hand,
                 handled, outbox, host, strokes>>

\* The host changes a value.
HostMoves(s, v) ==
  /\ Surprise
  /\ values' = [values EXCEPT ![s] = v]
  /\ truth' = [truth EXCEPT ![s] = v]
  /\ UNCHANGED <<view, fields, hist, hold, hand, handled, outbox, chosen, answers, strokes>>

Answer(s, v) == [revision |-> revision, slot |-> s, value |-> v]

HostChooses(s, v) ==
  /\ Surprise
  /\ chosen' = [chosen EXCEPT ![s] = v]
  /\ answers' = Append(answers, Answer(s, v))
  /\ UNCHANGED <<view, fields, numbers, hold, hand, handled, outbox, truth, strokes>>

\* handle_defaults.
HearDefaults ==
  /\ handled = Rest /\ answers # <<>>
  /\ answers' = Tail(answers)
  /\ defaults' = IF Head(answers).revision = revision
                   THEN [defaults EXCEPT ![Head(answers).slot] = Head(answers).value]
                   ELSE defaults
  /\ UNCHANGED <<view, desc, revision, numbers, hold, hand, handled, outbox, truth, chosen,
                 bounds>>

-----------------------------------------------------------------------------
(* The host's use of what it is sent.                                      *)

Deliver ==
  /\ handled = Rest /\ outbox # <<>>
  /\ outbox' = Tail(outbox)
  /\ LET m == Head(outbox)
     IN IF m.revision # revision \/ m.op = "ACTIVATE" THEN UNCHANGED host
        ELSE IF m.op = "EDIT"
          THEN truth' = [truth EXCEPT ![m.slot] = m.value] /\ UNCHANGED <<chosen, answers>>
        ELSE /\ chosen' = [chosen EXCEPT ![m.slot] = truth[m.slot]]
             /\ answers' = Append(answers, Answer(m.slot, truth[m.slot]))
             /\ UNCHANGED truth
  /\ UNCHANGED <<view, fields, numbers, hold, hand, handled, bounds>>

-----------------------------------------------------------------------------
Init ==
  /\ desc = Empty /\ revision = 0
  /\ values = [s \in {} |-> 0] /\ defaults = values /\ hist = values
  /\ mode = "SURFACE" /\ page = 0 /\ focused = Nobody /\ zoom_held = FALSE
  /\ hold = NoHold /\ lit = Dark /\ synced = FALSE
  /\ pushed = {} /\ zooming = FALSE /\ handled = Rest
  /\ outbox = <<>>
  /\ truth = values /\ chosen = values /\ answers = <<>>
  /\ strokes = 0 /\ surprises = 0
  /\ grip = [k \in Knobs |-> NoGrip]

Hand ==
  \/ \E k \in Knobs : Push(k) \/ Release(k)
  \/ \E k \in Turned, d \in {-1, 1} : Rotate(k, d)
  \/ \E i \in DOMAIN Buttons : Press(i)
  \/ LetGo

Host ==
  \/ \E d \in Surfaces : Publish(d)
  \/ Clear
  \/ \E s \in Occupied : Reveal(s)
  \/ \E slots \in {{}} \union {{s} : s \in Occupied}, lease \in 1..MaxLease : Highlight(slots, lease)
  \/ \E s \in Editable, v \in Numbers : HostMoves(s, v)
  \/ \E s \in Editable, v \in Numbers \union {None} : HostChooses(s, v)
  \/ HearDefaults \/ Deliver

Next == Hand \/ Tick \/ Host

Spec == Init /\ [][Next]_vars

-----------------------------------------------------------------------------
(* Properties. *)

\* Whatever the host sends, the panel acts on what it shows: a drilled field
\* is one a knob of this page turns, nothing is drilled behind the settings
\* views, the digit window moves only under the button that moves it,
\* the page is one of the descriptor's, and what the host lights up is there.
ActsOnWhatItShows ==
  /\ focused # Nobody => mode = "SURFACE" /\ KnobsFor(focused) # {}
  /\ zoom_held => focused # Nobody /\ zooming
  /\ page % Pots = 0 /\ page <= LastPage
  /\ lit.slots \subseteq Occupied

\* A service pass finds s held for long enough.
HeldLongEnough(s) ==
  /\ handled' = Rest /\ surprises' = surprises
  /\ mode = "SURFACE" /\ focused = Nobody
  /\ \E k \in pushed :
       /\ grip[k] = [slot |-> s, age |-> HoldTicks] /\ grip'[k] = NoGrip
       /\ FieldFor(k) = s

\* docs/protocol.md, EMP/1.7: a HOLD action is sent once, when its knob has
\* been held for EMP_HOLD_MS since it was pressed on it, unturned, and
\* addressed it in that descriptor at every service pass since; then it is
\* sent, and at no other time.  A HOLD pressed later takes its place.
HoldFiresWhenHeld ==
  [][\A s \in Occupied :
       Live(s, {"HOLD"}) => (Fires(s) <=> HeldLongEnough(s))]_vars

Stroked(i) == handled' = i /\ strokes' # strokes

\* docs/protocol.md, EMP/1.6: a stop needs one press of its knob, whatever
\* is drilled, digit row or not, and the drill is left.
StopNeedsOnePress ==
  [][\A k \in Knobs :
       Stroked(PressOf(k)) /\ mode = "SURFACE" /\ Live(FieldFor(k), {"ESTOP"}) =>
         Fires(FieldFor(k)) /\ focused' = Nobody]_vars

\* The undo of every field is the undo of Undo.
U(s) ==
  INSTANCE Undo WITH
    Values <- Numbers, Depth <- HistDepth,
    value <- IF s \in Editable THEN values[s] ELSE 0,
    trail <-
      IF s \notin Editable THEN [past |-> <<>>, mark |-> 0, future |-> <<>>]
      ELSE IF hist[s].count = 0
        THEN [past |-> <<>>, mark |-> values[s], future |-> <<>>]
      ELSE [past |-> [i \in 1..hist[s].pos |-> hist[s].ring[i - 1]],
            mark |-> hist[s].ring[hist[s].pos],
            future |-> [i \in 1..(hist[s].count - 1 - hist[s].pos) |->
                          hist[s].ring[hist[s].pos + i]]],
    fresh <- s \in Editable => hist[s].count = 0,
    open <- s \in Editable /\ hist[s].pending

Slots == UNION {NumbersOf(d) : d \in Surfaces}

\* A ring with a cursor and a settling timer is a line of settled values
\* (history.h), for every field of every descriptor.
ImplementsUndo ==
  /\ \A s \in Slots : U(s)!UndoInit
  /\ [][\A s \in Slots : [U(s)!UndoNext]_(U(s)!undoVars)]_vars

\* A Store is optimistic: once all is through, the default the panel resets
\* to is the host's.
DefaultsAgree == outbox = <<>> /\ answers = <<>> => defaults = chosen
=============================================================================
