------------------------------ MODULE Surface -------------------------------
(***************************************************************************)
(* The surface channel: src/proto/surface.c with the parts of              *)
(* src/app/ui_state.c that turn hands into edits and pages.                *)
(*                                                                         *)
(* A host describes a layout by a transaction of messages, then keeps its  *)
(* values fresh; the panel sends back what the hand does.  Messages to the *)
(* panel arrive in order and may be lost; each kind of message to the host *)
(* is the newest of its kind, which is what the queues of txq.c keep.      *)
(*                                                                         *)
(* A field is its kind and one number, a colour being its intensity.       *)
(* Labels, choices, styles, tones, highlights, actions, lists and pinned   *)
(* fields are left out, and the panel is in its surface mode.  The numbers *)
(* of one revision never occur in another, so that a value shows where it  *)
(* came from.                                                              *)
(***************************************************************************)
EXTENDS Grid, Sequences

CONSTANTS
  MaxFields,       \* SURF_MAX_FIELDS
  Layouts,         \* what a host may describe: [operator, kinds]
  Span,            \* a field runs from its minimum to Span above it
  MaxShows,        \* bound on the layouts the host shows
  MaxStrokes,      \* bound on turns, presses and page turns
  MaxSurprises     \* bound on what else happens: a message lost or refused,
                   \* a CLEAR, a REVEAL, a descriptor abandoned or too
                   \* large, a value moved by something else

Slots == 0..(MaxFields - 1)
Kinds == {"NUMBER", "COLOR"}

ASSUME FieldsAssumption == MaxFields \in Nat \ {0} /\ Span \in Nat
ASSUME LayoutsAssumption ==
  \A l \in Layouts :
    /\ l.operator \in BOOLEAN
    /\ DOMAIN l.kinds \subseteq Slots
    /\ \A s \in DOMAIN l.kinds : l.kinds[s] \in Kinds
ASSUME SurfaceBounds ==
  MaxShows \in Nat /\ MaxStrokes \in Nat /\ MaxSurprises \in Nat

VARIABLES
  arena,           \* the two descriptors: revision, operator and fields
  live_ix,         \* the one the panel reads
  staging,         \* the transaction being received
  page,            \* the first slot shown
  focused,         \* the drilled slot, or Nobody
  touched_mask,    \* the knobs the surface believes are touched
  fingers,         \* the knobs that are touched: main.c's prev_touch
  edit_seq,
  last_edit_seq,
  toPanel,         \* messages on their way to the panel
  toHost,          \* the newest EDIT of each slot, SCREEN, and whether
                   \* a DESC_REQUEST waits
  \* The host:
  shows,           \* layouts shown so far; the revision is the length
  showing,         \* it wants the last of them shown
  owing,           \* it has yet to send it
  truth,           \* its values
  accounted,       \* the newest edit_seq it has taken in, by slot
  heeded,          \* the stroke that edit came from (history)
  visible,         \* the last SCREEN it heard
  \* The bounds:
  strokes, surprises,
  \* History, not in the code:
  newest           \* the stroke that made the newest edit of each field

panel == <<arena, live_ix, staging, page, focused, touched_mask, edit_seq,
           last_edit_seq, newest>>
editSeqs == <<edit_seq, last_edit_seq, newest>>
editing == <<arena, editSeqs>>
host == <<shows, showing, owing, truth, accounted, heeded, visible>>
bounds == <<strokes, surprises>>
vars == <<panel, fingers, toPanel, toHost, host, bounds>>

NoFields == [s \in {} |-> 0]
NoScreen == [revision |-> 0, first |-> 0, count |-> 0]
NoEdit == [seq |-> 0]

Least(r) == r * (Span + 1)
Readings(r) == Least(r)..(Least(r) + Span)

-----------------------------------------------------------------------------
(* Reading the live descriptor. *)

Live == arena[live_ix]

\* Variant: the descriptor is received into the one the panel reads.
OnlyArena == live_ix

Stage == 1 - live_ix

fields == Live.fields
Occupied == DOMAIN fields

LastPage == LastPageOf(Occupied)

\* The slot knob k addresses, or Nobody.  No field is pinned.
FieldFor(k) == Addressed([operator |-> Live.operator, pinned |-> {}], Occupied, page, k)

KnobsFor(s) == {k \in Knobs : FieldFor(k) = s}

\* While a slot is drilled the other row edits its digits.
DigitKnobs == IF focused = Nobody THEN {} ELSE DigitRow(KnobsFor(focused))

\* The slot that turning knob k edits.
Edits(k) == IF k \in DigitKnobs THEN focused ELSE FieldFor(k)

-----------------------------------------------------------------------------
(* What the panel sends. *)

\* Variant: what the panel cannot take is dropped without a word.
Unasked(out) == out

Request(out) == [out EXCEPT !.request = TRUE]

Screen(out, a, first) ==
  [out EXCEPT !.screen = [revision |-> a.revision, first |-> first,
                          count |-> Sets!Min({SpanOf(DOMAIN a.fields) - first, Pots})]]

SendEdit(s, v) ==
  /\ edit_seq' = edit_seq + 1
  /\ last_edit_seq' = [last_edit_seq EXCEPT ![s] = edit_seq + 1]
  /\ newest' = [newest EXCEPT ![s] = strokes + 1]
  /\ toHost' = [toHost EXCEPT !.edit[s] =
                  [seq |-> edit_seq + 1, revision |-> Live.revision, value |-> v,
                   stroke |-> strokes + 1]]

SetNumber(s, v) ==
  /\ arena' = [arena EXCEPT ![live_ix].fields[s].value = v]
  /\ SendEdit(s, v)

-----------------------------------------------------------------------------
(* The descriptor transaction.  Each handler takes the message m at the    *)
(* head of toPanel.                                                        *)

Close == staging' = [staging EXCEPT !.open = FALSE]

Refuse ==
  /\ Close
  /\ toHost' = Request(toHost)
  /\ UNCHANGED <<arena, live_ix, page, focused, touched_mask, editSeqs>>

Ignore == UNCHANGED <<panel, toHost>>

DescBegin(m) ==
  /\ m.op = "DESC_BEGIN"
  /\ staging' = IF m.count > MaxFields
                  THEN [staging EXCEPT !.revision = m.revision, !.expect = m.count,
                                       !.open = FALSE]
                  ELSE [open |-> TRUE, revision |-> m.revision, expect |-> m.count,
                        next |-> 0, crc |-> <<>>]
  /\ IF m.count > MaxFields
       THEN toHost' = Request(toHost) /\ UNCHANGED arena
       ELSE /\ arena' = [arena EXCEPT ![Stage].operator = m.operator,
                                      ![Stage].fields = NoFields]
            /\ UNCHANGED toHost
  /\ UNCHANGED <<live_ix, page, focused, touched_mask, editSeqs>>

DescField(m) ==
  /\ m.op = "DESC_FIELD"
  /\ IF ~staging.open THEN Ignore
     ELSE IF \/ m.index # staging.next
             \/ m.id \notin Slots
             \/ m.id \in DOMAIN arena[Stage].fields
       THEN Refuse
       ELSE /\ staging' = [staging EXCEPT !.next = m.index + 1,
                                          !.crc = Append(@, <<m.id, m.kind, m.value>>)]
            /\ arena' = [arena EXCEPT ![Stage].fields =
                 [s \in DOMAIN @ \union {m.id} |->
                    IF s = m.id THEN [kind |-> m.kind, value |-> m.value] ELSE @[s]]]
            /\ UNCHANGED <<live_ix, page, focused, touched_mask, editSeqs, toHost>>

\* A field record the decoder does not take: a kind or a value it cannot read.
DescFieldUnread(m) ==
  /\ m.op = "DESC_FIELD" /\ staging.open
  /\ surprises < MaxSurprises
  /\ Refuse

Verified(m) ==
  /\ m.count = staging.next /\ m.count = staging.expect
  /\ m.revision = staging.revision
  /\ m.crc = staging.crc

Publish(m) ==
  LET fresh == [arena[Stage] EXCEPT !.revision = m.revision]
  IN /\ arena' = [arena EXCEPT ![Stage] = fresh]
     /\ live_ix' = Stage
     /\ page' = 0
     /\ touched_mask' = {}
     /\ last_edit_seq' = [s \in Slots |-> 0] /\ newest' = last_edit_seq'
     /\ focused' = Nobody
     /\ toHost' = Screen(toHost, fresh, 0)
     /\ Close
     /\ UNCHANGED edit_seq

DescEnd(m) ==
  /\ m.op = "DESC_END"
  /\ IF ~staging.open THEN Ignore
     ELSE IF Verified(m) THEN Publish(m)
     ELSE Refuse

DescAbort(m) ==
  /\ m.op = "DESC_ABORT"
  /\ Close
  /\ UNCHANGED <<arena, live_ix, page, focused, touched_mask, editSeqs, toHost>>

-----------------------------------------------------------------------------
(* The other messages. *)

\* Variant: the values of another revision are taken for this one's.
Ungated(r) == TRUE

\* Revision 0 is unstamped.
Gate(r) == r = 0 \/ r = Live.revision

UnderHand(s) ==
  \/ s % Pots \in touched_mask
  \/ fields[s].kind = "COLOR" /\ focused = s /\ touched_mask # {}

\* Variant: an acknowledgement of any edit of the field will do.
WithheldLoosely(s, ack) == UnderHand(s) /\ ack + 1 < last_edit_seq[s]

Withheld(s, ack) == UnderHand(s) /\ ack < last_edit_seq[s]

HandleValues(m) ==
  /\ m.op = "VALUES"
  /\ IF ~Gate(m.revision)
       THEN /\ toHost' = Request(toHost)
            /\ UNCHANGED panel
       ELSE /\ arena' = [arena EXCEPT ![live_ix].fields =
                 [s \in DOMAIN @ |->
                    IF s \in DOMAIN m.entries /\ ~Withheld(s, m.entries[s].ack)
                      THEN [@[s] EXCEPT !.value = m.entries[s].value]
                      ELSE @[s]]]
            /\ UNCHANGED <<live_ix, staging, page, focused, touched_mask, editSeqs, toHost>>

GoTo(first) ==
  /\ page' = first
  /\ focused' = Nobody
  /\ toHost' = Screen(toHost, Live, first)

HandleReveal(m) ==
  /\ m.op = "REVEAL"
  /\ IF ~Gate(m.revision)
       THEN toHost' = Request(toHost) /\ UNCHANGED panel
       ELSE IF m.id \notin Occupied THEN Ignore
       ELSE /\ GoTo(PageOf(m.id))
            /\ UNCHANGED <<arena, live_ix, staging, touched_mask, editSeqs>>

Empty == [revision |-> 0, operator |-> FALSE, fields |-> NoFields]

HandleClear(m) ==
  /\ m.op = "CLEAR"
  /\ arena' = [i \in 0..1 |-> Empty]
  /\ live_ix' = 0
  /\ Close
  /\ page' = 0
  /\ focused' = Nobody
  /\ touched_mask' = {}
  /\ edit_seq' = 0
  /\ last_edit_seq' = [s \in Slots |-> 0] /\ newest' = last_edit_seq'
  /\ toHost' = Screen(toHost, Empty, 0)

Handle ==
  /\ toPanel # <<>>
  /\ toPanel' = Tail(toPanel)
  /\ LET m == Head(toPanel)
     IN \/ DescBegin(m) \/ DescField(m) \/ DescEnd(m) \/ DescAbort(m)
        \/ HandleValues(m) \/ HandleReveal(m) \/ HandleClear(m)
  /\ UNCHANGED <<fingers, host, bounds>>

HandleUnread ==
  /\ toPanel # <<>>
  /\ toPanel' = Tail(toPanel)
  /\ DescFieldUnread(Head(toPanel))
  /\ surprises' = surprises + 1
  /\ UNCHANGED <<fingers, host, strokes>>

\* A message the link drops.
Lose ==
  /\ toPanel # <<>> /\ surprises < MaxSurprises
  /\ toPanel' = Tail(toPanel)
  /\ surprises' = surprises + 1
  /\ UNCHANGED <<panel, fingers, toHost, host, strokes>>

-----------------------------------------------------------------------------
(* The hand.  main.c tells the surface of a touch when it changes. *)

Touch(k) ==
  /\ fingers' = IF k \in fingers THEN fingers \ {k} ELSE fingers \union {k}
  /\ touched_mask' = fingers'
  /\ UNCHANGED <<editing, live_ix, staging, page, focused, toPanel, toHost, host, bounds>>

Stroke ==
  /\ strokes < MaxStrokes
  /\ strokes' = strokes + 1
  /\ UNCHANGED <<live_ix, staging, touched_mask, fingers, toPanel, host,
                 surprises>>

Clamped(v) == Sets!Max({Least(Live.revision), Sets!Min({v, Least(Live.revision) + Span})})

\* A digit knob sends its edit even when the value stayed at its limit.
Rotate(k, d) ==
  LET s == Edits(k)
      v == Clamped(fields[s].value + d)
  IN /\ Stroke
     /\ s # Nobody
     /\ v # fields[s].value \/ (k \in DigitKnobs /\ fields[s].kind = "NUMBER")
     /\ SetNumber(s, v)
     /\ UNCHANGED <<page, focused>>

\* In the operator layout the last knob of the first page turns the page,
\* and nothing drills.
Push(k) ==
  /\ Stroke
  /\ IF Live.operator
       THEN /\ page = 0 /\ k = Pots - 1 /\ LastPage > 0
            /\ GoTo(Pots)
       ELSE /\ focused' = IF k \in DigitKnobs \/ FieldFor(k) = focused THEN Nobody
                          ELSE FieldFor(k)
            /\ focused' # focused
            /\ UNCHANGED <<page, toHost>>
  /\ UNCHANGED editing

\* The leftmost button leaves a drilled field, or turns the page back.
Back ==
  /\ Stroke
  /\ IF focused # Nobody
       THEN focused' = Nobody /\ UNCHANGED <<page, toHost>>
       ELSE page > 0 /\ GoTo(page - Pots)
  /\ UNCHANGED editing

PageNext ==
  /\ Stroke
  /\ focused = Nobody /\ page < LastPage
  /\ GoTo(page + Pots)
  /\ UNCHANGED editing

-----------------------------------------------------------------------------
(* The host, as docs/protocol.md asks it to behave.  It sends when what it *)
(* sent before is through.                                                 *)

revision == Len(shows)
Described == shows[revision].kinds

Show(l) ==
  /\ revision < MaxShows
  /\ \A r \in 1..revision : shows[r] # l
  /\ shows' = Append(shows, l)
  /\ showing' = TRUE /\ owing' = TRUE
  /\ truth' = [s \in DOMAIN l.kinds |-> Least(revision + 1)]
  /\ UNCHANGED <<panel, fingers, toPanel, toHost, accounted, heeded, visible, bounds>>

\* The slots of the descriptor, lowest first.
Order(kinds) ==
  CHOOSE q \in [1..Cardinality(DOMAIN kinds) -> DOMAIN kinds] :
    \A i, j \in DOMAIN q : i < j => q[i] < q[j]

SendDescriptor ==
  LET q == Order(Described)
      n == Len(q)
      Payload(i) == <<q[i], Described[q[i]], truth[q[i]]>>
  IN /\ owing /\ toPanel = <<>>
     /\ owing' = FALSE
     /\ toPanel' =
          <<[op |-> "DESC_BEGIN", revision |-> revision, count |-> n,
             operator |-> shows[revision].operator]>>
          \o [i \in 1..n |-> [op |-> "DESC_FIELD", index |-> i - 1, id |-> q[i],
                              kind |-> Described[q[i]], value |-> truth[q[i]]]]
          \o <<[op |-> "DESC_END", revision |-> revision, count |-> n,
                crc |-> [i \in 1..n |-> Payload(i)]]>>
     /\ UNCHANGED <<panel, fingers, toHost, shows, showing, truth, accounted,
                    heeded, visible, bounds>>

\* The host starts on more fields than the panel holds; asked again, it
\* sends the layout it shows, which fits.
Overreach ==
  /\ showing /\ toPanel = <<>> /\ surprises < MaxSurprises
  /\ surprises' = surprises + 1
  /\ toPanel' = <<[op |-> "DESC_BEGIN", revision |-> revision, count |-> MaxFields + 1,
                   operator |-> FALSE]>>
  /\ UNCHANGED <<panel, fingers, toHost, host, strokes>>

\* The occupied slots the panel is known to show.
Watched ==
  IF visible.revision # revision THEN DOMAIN Described
  ELSE {s \in DOMAIN Described : visible.first <= s /\ s < visible.first + visible.count}

SendValues ==
  /\ showing /\ ~owing /\ toPanel = <<>>
  /\ toPanel' = <<[op |-> "VALUES", revision |-> revision,
                   entries |-> [s \in Watched |->
                                 [ack |-> accounted[s], value |-> truth[s],
                                  heeds |-> heeded[s]]]]>>
  /\ UNCHANGED <<panel, fingers, toHost, host, bounds>>

\* Something other than the panel changes a value.
Move(s) ==
  /\ showing /\ surprises < MaxSurprises
  /\ \E v \in Readings(revision) \ {truth[s]} : truth' = [truth EXCEPT ![s] = v]
  /\ surprises' = surprises + 1
  /\ UNCHANGED <<panel, fingers, toPanel, toHost, shows, showing, owing, accounted,
                 heeded, visible, strokes>>

\* A host that clears the panel starts its acknowledgements over.
SendClear ==
  /\ surprises < MaxSurprises /\ showing
  /\ surprises' = surprises + 1
  /\ toPanel' = Append(toPanel, [op |-> "CLEAR"])
  /\ showing' = FALSE /\ owing' = FALSE
  /\ accounted' = [s \in Slots |-> 0]
  /\ UNCHANGED <<panel, fingers, toHost, shows, truth, heeded, visible,
                 strokes>>

SendReveal ==
  /\ surprises < MaxSurprises /\ showing
  /\ surprises' = surprises + 1
  /\ \E s \in DOMAIN Described :
       toPanel' = Append(toPanel, [op |-> "REVEAL", revision |-> revision, id |-> s])
  /\ UNCHANGED <<panel, fingers, toHost, host, strokes>>

\* The rest of a descriptor is not sent, and the host means to start again.
Abandon ==
  /\ surprises < MaxSurprises /\ showing
  /\ surprises' = surprises + 1
  /\ \E i \in DOMAIN toPanel :
       /\ \A j \in i..Len(toPanel) : toPanel[j].op \in {"DESC_FIELD", "DESC_END"}
       /\ toPanel' = SubSeq(toPanel, 1, i - 1) \o <<[op |-> "DESC_ABORT"]>>
  /\ owing' = TRUE
  /\ UNCHANGED <<panel, fingers, toHost, shows, showing, truth, accounted, heeded,
                 visible, strokes>>

\* The host takes an edit made on the layout it shows.
HearEdit(s) ==
  LET e == toHost.edit[s]
  IN /\ e # NoEdit
     /\ toHost' = [toHost EXCEPT !.edit[s] = NoEdit]
     /\ IF showing /\ e.revision = revision
          THEN /\ truth' = [truth EXCEPT ![s] = e.value]
               /\ accounted' = [accounted EXCEPT ![s] = e.seq]
               /\ heeded' = [heeded EXCEPT ![s] = e.stroke]
          ELSE UNCHANGED <<truth, accounted, heeded>>
     /\ UNCHANGED <<panel, fingers, toPanel, shows, showing, owing, visible, bounds>>

HearRequest ==
  /\ toHost.request
  /\ toHost' = [toHost EXCEPT !.request = FALSE]
  /\ owing' = showing
  /\ UNCHANGED <<panel, fingers, toPanel, shows, showing, truth, accounted,
                    heeded, visible, bounds>>

HearScreen ==
  /\ toHost.screen # visible
  /\ visible' = toHost.screen
  /\ UNCHANGED <<panel, fingers, toPanel, toHost, shows, showing, owing, truth,
                 accounted, heeded, bounds>>

-----------------------------------------------------------------------------
Init ==
  /\ arena = [i \in 0..1 |-> Empty]
  /\ live_ix = 0
  /\ staging = [open |-> FALSE, revision |-> 0, expect |-> 0, next |-> 0, crc |-> <<>>]
  /\ page = 0 /\ focused = Nobody
  /\ touched_mask = {} /\ fingers = {}
  /\ edit_seq = 0 /\ last_edit_seq = [s \in Slots |-> 0] /\ newest = last_edit_seq
  /\ toPanel = <<>>
  /\ toHost = [edit |-> [s \in Slots |-> NoEdit], request |-> FALSE, screen |-> NoScreen]
  /\ shows = <<>> /\ showing = FALSE /\ owing = FALSE
  /\ truth = NoFields
  /\ accounted = [s \in Slots |-> 0] /\ heeded = accounted
  /\ visible = NoScreen
  /\ strokes = 0 /\ surprises = 0

Hand ==
  \/ \E k \in Knobs : Touch(k) \/ Push(k) \/ \E d \in {-1, 1} : Rotate(k, d)
  \/ Back \/ PageNext

Hear == HearRequest \/ HearScreen \/ \E s \in Slots : HearEdit(s)

Next ==
  \/ Handle \/ HandleUnread \/ Lose
  \/ Hand
  \/ \E l \in Layouts : Show(l)
  \/ SendDescriptor \/ SendValues \/ SendClear \/ SendReveal
  \/ Abandon \/ Overreach
  \/ \E s \in DOMAIN truth : Move(s)
  \/ Hear

\* The panel services what arrives, the host keeps sending, the layout it owes
\* before any values, and keeps hearing what was sent.
Fairness ==
  WF_vars(Handle) /\ WF_vars(SendDescriptor \/ SendValues) /\ WF_vars(Hear)

Spec == Init /\ [][Next]_vars /\ Fairness

-----------------------------------------------------------------------------
(* Properties. *)

\* Whatever is lost, refused, abandoned or started again, the panel shows
\* nothing or one whole layout, the one the host gave that revision
\* (surface.c: a descriptor that fails verification never becomes the live
\* one).
PublishedWhole ==
  Live.revision # 0 =>
    /\ Live.operator = shows[Live.revision].operator
    /\ Occupied = DOMAIN shows[Live.revision].kinds
    /\ \A s \in Occupied : fields[s].kind = shows[Live.revision].kinds[s]

\* A value never ends up in another layout: not on the panel (the revision
\* gate), not in an edit on its way, and not in the host.
ValuesKeepTheirLayout ==
  /\ \A s \in Occupied : fields[s].value \in Readings(Live.revision)
  /\ \A s \in Slots : LET e == toHost.edit[s] IN
       e # NoEdit => e.value \in Readings(e.revision)
  /\ \A s \in DOMAIN truth : truth[s] \in Readings(revision)

\* A message changes field s although it leaves out the hand's newest edit.
StaleValue(s) ==
  /\ toPanel # <<>> /\ Head(toPanel).op = "VALUES"
  /\ toPanel' = Tail(toPanel) /\ surprises' = surprises
  /\ s \in DOMAIN Head(toPanel).entries
  /\ Head(toPanel).entries[s].heeds < newest[s]
  /\ fields'[s].value # fields[s].value

\* While the surface holds knob s % Pots to be touched, a value that leaves
\* out an edit the hand made of field s never moves it: not when edits are
\* coalesced on their way, the host is slow, moves the value itself, or
\* clears the panel and starts its acknowledgements over.
KnobNotFought == [][\A s \in Occupied : s % Pots \in touched_mask => ~StaleValue(s)]_vars

\* The panel shows the layout the host wants shown, and on the visible page
\* the values the host holds.
Agreed ==
  showing =>
    /\ Live.revision = revision
    /\ \A s \in OnPageOf(Occupied, page) : fields[s].value = truth[s]

\* Once the hand rests and the link holds, panel and host agree for good:
\* a lost or refused descriptor is asked for again, a withheld value is
\* made up for.
Settles == <>[]Agreed
=============================================================================
