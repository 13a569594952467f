------------------------------- MODULE Screen -------------------------------
(***************************************************************************)
(* What is on the display: src/app/ui.c repaints only what its caches say  *)
(* has changed since the last frame, over what earlier frames have left.   *)
(*                                                                         *)
(* A frame takes up to a second; the inputs sampled meanwhile are handled  *)
(* before the next one starts (main.c, service_pending_inputs), so several *)
(* changes may fall between two frames.  They are those of Panel, reduced  *)
(* to what is drawn.                                                       *)
(*                                                                         *)
(* The display is a set of regions: the card of each knob, the ground of   *)
(* each row (the space between its cards, and the readout that takes the   *)
(* place of a row), the band between the rows, and the legend.  A value, a *)
(* digit window, a settings view are members of small sets.                *)
(***************************************************************************)
EXTENDS Grid

CONSTANTS
  Layouts,         \* descriptors: [operator, pinned, kinds, joined]
  Data,            \* what a field may hold
  Status,          \* the data that come with a line of status
  Default,         \* what every field holds at first
  Views,           \* the settings views
  Blank,           \* nothing drawn, nothing remembered
  Varying,         \* the slots whose values change
  Reached,         \* the knobs the hand reaches
  MaxRevisions,    \* bound on descriptors
  MaxChanges       \* bound on the changes between two frames

ASSUME ScreenAssumption ==
  /\ \A d \in Layouts :
       /\ d.operator \in BOOLEAN /\ d.pinned \subseteq 0..(Row - 1)
       /\ IsFiniteSet(DOMAIN d.kinds) /\ d.joined \subseteq DOMAIN d.kinds
       /\ \A s \in DOMAIN d.kinds :
            s \in Nat /\ d.kinds[s] \in {"NUMBER", "HOLD", "LIST", "ESTOP"}
  /\ Status \subseteq Data /\ Default \in Data /\ Blank \notin Data
  /\ Blank \notin {"OVERVIEW", "DRILLED"} \union Views
  /\ Views \intersect {"SURFACE", "OVERVIEW", "DRILLED"} = {}
  /\ Reached \subseteq Knobs /\ MaxRevisions \in Nat /\ MaxChanges \in Nat

VARIABLES
  \* The interface:
  desc, revision, values, mode, page, focused, zoom_held,
  lit,             \* remote_highlights
  hand,            \* the knob touched, pressed or turned, or Nobody
  \* What the last frames drew:
  last_cell, last_view, last_revision, last_focus, last_page, last_zoom,
  last_readout,    \* last_value and its like
  last_legend,     \* Blank when not legend_valid
  was_operator, last_plate,
  framebuffer,
  \* The bounds:
  changes

interface == <<desc, revision, values, mode, page, focused, zoom_held, lit, hand>>
caches == <<last_cell, last_view, last_revision, last_focus, last_page, last_zoom,
            last_readout, last_legend, was_operator, last_plate>>
screenVars == <<interface, caches, framebuffer, changes>>

Rows == {0, 1}
RowOf(k) == k \div Row
KnobsOf(r) == {k \in Knobs : RowOf(k) = r}
Occupied == DOMAIN desc.kinds
FieldFor(k) == Addressed(desc, Occupied, page, k)
KnobsFor(s) == {k \in Knobs : FieldFor(k) = s}
Is(s, kinds) == s \in Occupied /\ desc.kinds[s] \in kinds

\* While a field is drilled the row that does not hold it shows the readout.
ReadoutRow == RowOf(CHOOSE k \in DigitRow(KnobsFor(focused)) : TRUE)

View == IF mode # "SURFACE" THEN mode ELSE IF focused # Nobody THEN "DRILLED" ELSE "OVERVIEW"
OperatorPage == IF desc.operator /\ page < 2 * Pots THEN 1 + page \div Pots ELSE 0

-----------------------------------------------------------------------------
(* What belongs in each region.                                            *)

Joined(s) == s \in desc.joined

\* A knob is alone, or the left or right half of a panel.
Role(k) ==
  LET Here(j) == j \in Knobs /\ RowOf(j) = RowOf(k) /\ FieldFor(j) # Nobody
      JoinedAt(j) == Joined(FieldFor(j))
  IN IF desc.operator \/ ~Here(k) THEN "ALONE"
     ELSE IF Here(k - 1) /\ JoinedAt(k) /\ ~JoinedAt(k - 1) THEN "RIGHT"
     ELSE IF Here(k + 1) /\ ~JoinedAt(k) /\ JoinedAt(k + 1) THEN "LEFT"
     ELSE "ALONE"

\* Outline, ring, inset, bar and cap: of the hand, of the drill, of the host.
Chrome(k) ==
  [hand |-> hand = k,
   drilled |-> focused # Nobody /\ FieldFor(k) = focused,
   lit |-> FieldFor(k) \in lit]

Value(s) == IF s \in Occupied THEN values[s] ELSE Blank

\* A card; cut says that its value was painted over its chrome.
Card(k) ==
  [slot |-> FieldFor(k), role |-> Role(k), value |-> Value(FieldFor(k)),
   chrome |-> Chrome(k), cut |-> FALSE]

Readout == <<"READOUT", focused, values[focused], zoom_held>>
Banner == <<"ZOOM">>
Strip == <<"STRIP", revision, page>>
Bridge == <<"PANEL">>
HasPanel(r) == \E k \in KnobsOf(r) : Role(k) = "LEFT"

\* ui_state_button_enabled, the buttons that would act.
Acting ==
  IF mode # "SURFACE" THEN {"BACK", "SYSTEM"}
  ELSE IF focused = Nobody
    THEN {"SYSTEM"} \union {b \in {"BACK"} : page > 0}
         \union {b \in {"PAGE_NEXT"} : page < LastPageOf(Occupied)}
  ELSE {"BACK"}
       \union {b \in {"AUX", "SYSTEM"} : Is(focused, {"NUMBER"}) /\ values[focused] # Default}
       \union {b \in {"PAGE_NEXT"} : Is(focused, {"NUMBER"})}

Legend == <<View, Acting>>

-----------------------------------------------------------------------------
(* Painters: from what is on the display to what is then on it.            *)

ClearScreen ==
  [cells |-> [k \in Knobs |-> Blank], ground |-> [r \in Rows |-> Blank],
   band |-> Blank, legend |-> Blank]

\* A view with a layout of its own draws between the cards too.
Fill(ink) == [ClearScreen EXCEPT !.ground = [r \in Rows |-> ink], !.band = ink]

DrawStrip(fb) == [fb EXCEPT !.band = Strip]
DrawBand(fb) == [fb EXCEPT !.band = IF zoom_held THEN Banner ELSE Strip]

\* The same buttons may act under other glyphs in another view.
DrawLegend(fb, full) ==
  IF full \/ last_legend # Acting THEN [fb EXCEPT !.legend = Legend] ELSE fb

\* render_cells, first pass: what has changed in each cell.
Looks(k) == [slot |-> FieldFor(k), role |-> Role(k), value |-> Value(FieldFor(k)),
            chrome |-> Chrome(k)]
\* Variant: a card that is no longer half of a panel looks unchanged.
SDirtyBySlot(k, full) ==
  full \/ last_cell[k] = Blank \/ last_cell[k].slot # FieldFor(k)

SDirty(k, full) ==
  full \/ last_cell[k] = Blank \/ last_cell[k].slot # FieldFor(k) \/ last_cell[k].role # Role(k)
VDirty(k, full) == SDirty(k, full) \/ last_cell[k].value # Value(FieldFor(k))
CDirty(k, full) == SDirty(k, full) \/ last_cell[k].chrome # Chrome(k)

\* A panel is drawn anew when either of its halves is.
Partner(k) == CASE Role(k) = "LEFT" -> k + 1 [] Role(k) = "RIGHT" -> k - 1 [] OTHER -> k
Anew(k, full) == SDirty(k, full) \/ SDirty(Partner(k), full)

\* A face restores its ring with it; a card keeps its value off the chrome
\* of a hold or a list only.
Restores(k, full) ==
  CDirty(k, full) \/ (VDirty(k, full) /\ (Role(k) # "ALONE" \/ Is(FieldFor(k), {"HOLD", "LIST"})))

DrawCell(shown, k, full) ==
  IF Anew(k, full) THEN Card(k)
  ELSE [shown EXCEPT
          !.value = IF VDirty(k, full) THEN Value(FieldFor(k)) ELSE @,
          !.chrome = IF Restores(k, full) THEN Chrome(k) ELSE @,
          !.cut = IF Restores(k, full) THEN FALSE ELSE @ \/ VDirty(k, full)]

RenderCells(fb, full, ks) ==
  [fb EXCEPT
     !.cells = [k \in Knobs |-> IF k \in ks THEN DrawCell(@[k], k, full) ELSE @[k]],
     !.ground = [r \in Rows |->
                   IF \E k \in ks \cap KnobsOf(r) : Role(k) = "LEFT" /\ Anew(k, full)
                     THEN Bridge ELSE @[r]]]

\* Only what has been considered is remembered.
Remembered(ks) == [k \in Knobs |-> IF k \in ks THEN Looks(k) ELSE last_cell[k]]

\* The half the readout occupies is cleared on entry.
RenderReadout(fb, rebuild) ==
  [fb EXCEPT
     !.cells = [k \in Knobs |-> IF rebuild /\ RowOf(k) = ReadoutRow THEN Blank ELSE @[k]],
     !.ground = [@ EXCEPT ![ReadoutRow] = Readout]]

-----------------------------------------------------------------------------
(* One frame.                                                              *)

Full == last_view # View \/ last_revision # revision

\* The views draw over each other's regions.
Forgotten(remembered) ==
  IF last_view # View THEN [k \in Knobs |-> Blank] ELSE remembered

\* A settings view is repainted whole, and so is its footer.
FrameSettings ==
  /\ mode # "SURFACE"
  /\ framebuffer' = IF Full THEN [Fill(<<mode>>) EXCEPT !.legend = Legend] ELSE framebuffer
  /\ last_cell' = Forgotten(last_cell)
  /\ UNCHANGED <<last_focus, last_page, last_zoom, last_readout, last_legend, was_operator,
                 last_plate>>

\* The operator layout: a plate a slot, each repainted whole.
Plate(k) == <<Value(FieldFor(k)), Chrome(k)>>

FrameOperator ==
  LET full == Full \/ was_operator # OperatorPage
      Dirty(k) == full \/ last_plate[k] # Plate(k)
      base == IF full THEN Fill(<<"HEADING">>) ELSE framebuffer
      status == \E k \in KnobsFor(Row - 1) : Dirty(k) /\ Value(Row - 1) \in Status
  IN /\ View = "OVERVIEW" /\ OperatorPage # 0
     /\ framebuffer' =
          [base EXCEPT
             !.cells = [k \in Knobs |-> IF Dirty(k) THEN Card(k) ELSE @[k]],
             !.band = IF OperatorPage = 1 /\ status THEN <<"STATUS", Value(Row - 1)>> ELSE @]
     /\ last_plate' = [k \in Knobs |-> Plate(k)]
     /\ was_operator' = OperatorPage
     /\ last_cell' = Forgotten(last_cell)
     /\ last_focus' = IF last_view # View THEN Nobody ELSE last_focus
     /\ UNCHANGED <<last_page, last_zoom, last_readout, last_legend>>

FrameOverview ==
  LET full == Full \/ was_operator # 0
      base == IF full THEN ClearScreen ELSE framebuffer
      banded == IF full \/ last_page # page THEN DrawStrip(base) ELSE base
  IN /\ View = "OVERVIEW" /\ OperatorPage = 0
     /\ framebuffer' = RenderCells(DrawLegend(banded, full), full, Knobs)
     /\ last_cell' = Forgotten(Remembered(Knobs))
     /\ last_page' = page
     /\ last_legend' = Acting
     /\ was_operator' = 0
     /\ last_focus' = IF last_view # View THEN Nobody ELSE last_focus
     /\ UNCHANGED <<last_zoom, last_readout, last_plate>>

\* Another field may take the other row.
Rebuilds == Full \/ last_focus # focused

FrameDrilled ==
  LET rebuild == Rebuilds
      changed == rebuild \/ last_readout # Readout \/ last_page # page
      row == Knobs \ KnobsOf(ReadoutRow)
      read == IF changed THEN RenderReadout(framebuffer, rebuild) ELSE framebuffer
      banded == IF rebuild \/ (changed /\ last_zoom # zoom_held) THEN DrawBand(read) ELSE read
  IN /\ View = "DRILLED"
     /\ framebuffer' = RenderCells(DrawLegend(banded, rebuild), rebuild, row)
     /\ last_cell' = Forgotten(Remembered(row))
     /\ last_legend' = Acting
     /\ last_focus' = focused /\ last_page' = page /\ last_zoom' = zoom_held
     /\ last_readout' = Readout
     /\ UNCHANGED <<was_operator, last_plate>>

Frame ==
  /\ FrameSettings \/ FrameOperator \/ FrameOverview \/ FrameDrilled
  /\ last_view' = View /\ last_revision' = revision
  /\ changes' = 0
  /\ UNCHANGED interface

-----------------------------------------------------------------------------
(* What may happen between two frames.                                     *)

Change ==
  /\ changes < MaxChanges /\ changes' = changes + 1
  /\ UNCHANGED <<caches, framebuffer>>

LeaveFocus == focused' = Nobody /\ zoom_held' = FALSE

TurnTo(first) == page' = first /\ lit' = IF first = page THEN lit ELSE {}

\* A press drills, leaves, or acts; the last knob of the first operator page
\* turns it.
Pressed(k) ==
  IF mode # "SURFACE" THEN UNCHANGED <<focused, zoom_held, page, lit>>
  ELSE IF desc.operator
    THEN /\ IF page = 0 /\ k = Pots - 1
              THEN TurnTo(IF Pots > LastPageOf(Occupied) THEN LastPageOf(Occupied) ELSE Pots)
              ELSE UNCHANGED <<page, lit>>
         /\ UNCHANGED <<focused, zoom_held>>
  ELSE /\ IF focused = Nobody
            THEN /\ focused' = IF Is(FieldFor(k), {"NUMBER"}) THEN FieldFor(k) ELSE Nobody
                 /\ UNCHANGED zoom_held
          ELSE IF \/ Is(FieldFor(k), {"ESTOP", "LIST"}) \/ FieldFor(k) = focused
                  \/ k \in DigitRow(KnobsFor(focused))
            THEN LeaveFocus
            ELSE focused' = FieldFor(k) /\ zoom_held' = FALSE
       /\ UNCHANGED <<page, lit>>

PressKnob(k) ==
  /\ Change
  /\ hand' = k
  /\ Pressed(k)
  /\ UNCHANGED <<desc, revision, values, mode>>

LetGo ==
  /\ Change
  /\ hand # Nobody /\ hand' = Nobody
  /\ UNCHANGED <<desc, revision, values, mode, page, focused, zoom_held, lit>>

\* A page button in the overview, BACK in a field, or a reveal.
ShowPage(first) ==
  /\ Change
  /\ LeaveFocus
  /\ TurnTo(first)
  /\ UNCHANGED <<desc, revision, values, mode, hand>>

SetValue(s, v) ==
  /\ Change
  /\ values' = [values EXCEPT ![s] = v]
  /\ UNCHANGED <<desc, revision, mode, page, focused, zoom_held, lit, hand>>

Highlight(slots) ==
  /\ Change
  /\ lit' = slots
  /\ UNCHANGED <<desc, revision, values, mode, page, focused, zoom_held, hand>>

\* The button that moves the digit window.
Zoom(z) ==
  /\ Change
  /\ Is(focused, {"NUMBER"}) /\ zoom_held' = z
  /\ UNCHANGED <<desc, revision, values, mode, page, focused, lit, hand>>

\* Settings are entered from the overview.
ShowView(m) ==
  /\ Change
  /\ focused = Nobody /\ mode' = m
  /\ UNCHANGED <<desc, revision, values, page, focused, zoom_held, lit, hand>>

\* ui_state_surface_changed.
Publish(d) ==
  /\ Change
  /\ revision < MaxRevisions /\ revision' = revision + 1
  /\ desc' = d /\ values' = [s \in DOMAIN d.kinds |-> Default]
  /\ LeaveFocus /\ page' = 0 /\ lit' = {}
  /\ UNCHANGED <<mode, hand>>

-----------------------------------------------------------------------------
NoLayout == [operator |-> FALSE, pinned |-> {}, kinds |-> [s \in {} |-> 0], joined |-> {}]

\* ui_reset.
ScreenInit ==
  /\ desc = NoLayout /\ revision = 0 /\ values = [s \in {} |-> 0]
  /\ mode = "SURFACE" /\ page = 0 /\ focused = Nobody /\ zoom_held = FALSE
  /\ lit = {} /\ hand = Nobody
  /\ last_cell = [k \in Knobs |-> Blank] /\ last_view = Blank /\ last_revision = Blank
  /\ last_focus = Nobody /\ last_page = Blank /\ last_zoom = Blank
  /\ last_readout = Blank /\ last_legend = Blank /\ was_operator = Blank
  /\ last_plate = [k \in Knobs |-> Blank]
  /\ framebuffer = ClearScreen
  /\ changes = 1

ScreenNext ==
  \/ Frame
  \/ \E k \in Reached : PressKnob(k)
  \/ LetGo
  \/ \E s \in Occupied : ShowPage(PageOf(s))
  \/ \E s \in Occupied \cap Varying, v \in Data : SetValue(s, v)
  \/ \E slots \in {{}} \union {{s} : s \in Occupied \cap Varying} : Highlight(slots)
  \/ \E z \in BOOLEAN : Zoom(z)
  \/ \E m \in Views \union {"SURFACE"} : ShowView(m)
  \/ \E d \in Layouts : Publish(d)

ScreenSpec == ScreenInit /\ [][ScreenNext]_screenVars

-----------------------------------------------------------------------------
(* Properties. *)

Drawn == changes = 0
Grid2 == View \in {"OVERVIEW", "DRILLED"} /\ OperatorPage = 0

\* Every card that belongs on the display shows its field, its value and its
\* chrome; only the value of an ordinary field may lie over its chrome.
CardsAreCurrent ==
  \A k \in Knobs :
    LET shown == framebuffer.cells[k]
    IN IF View \in Views \/ (View = "DRILLED" /\ RowOf(k) = ReadoutRow) THEN shown = Blank
       ELSE /\ [shown EXCEPT !.cut = FALSE] = Card(k)
            /\ shown.cut => shown.role = "ALONE" /\ ~Is(shown.slot, {"HOLD", "LIST"})

\* A readout and a panel are on the ground they need.
GroundIsCurrent ==
  \A r \in Rows :
    IF View = "DRILLED" /\ r = ReadoutRow THEN framebuffer.ground[r] = Readout
    ELSE Grid2 /\ HasPanel(r) => framebuffer.ground[r] = Bridge

\* The band says which page is shown, or that the window is held; the legend
\* what the buttons do.
BandIsCurrent ==
  /\ View = "OVERVIEW" /\ OperatorPage = 0 => framebuffer.band = Strip
  /\ View = "DRILLED" =>
       IF zoom_held THEN framebuffer.band = Banner
       ELSE framebuffer.band = Strip \/ (focused \in desc.pinned /\ framebuffer.band # Banner)
  /\ View \in Views => framebuffer.band = <<mode>>
  /\ OperatorPage = 0 \/ View \in Views => framebuffer.legend = Legend

\* ui.h: a frame repaints only what changed, and leaves what the interface
\* is: whatever fell between two frames, nothing of an earlier field, page,
\* view or descriptor stays on a card, a readout, the band or the legend.
ShowsWhatIs == Drawn => CardsAreCurrent /\ GroundIsCurrent /\ BandIsCurrent
=============================================================================
