---------------------------- MODULE PanelProofs ----------------------------
(***************************************************************************)
(* Proofs about the panel's interface, for every page size, every set of   *)
(* descriptors, every length of a hold and of a lease, and any number of   *)
(* strokes.                                                                *)
(***************************************************************************)
EXTENDS Panel, FiniteSetTheorems, SequenceTheorems, WellFoundedInduction, TLAPS

-----------------------------------------------------------------------------
(* Numbers and pages.                                                      *)

\* A finite set of numbers has a largest one: a smallest subset without one
\* would have a smaller one.
LEMMA Largest ==
  ASSUME NEW S \in SUBSET Nat, IsFiniteSet(S), S # {}
  PROVE  \E x \in S : \A y \in S : y <= x
PROOF
<1> DEFINE Bad == {T \in SUBSET S : T # {} /\ \A x \in T : \E y \in T : ~(y <= x)}
           Sizes == {n \in Nat : \E T \in Bad : Cardinality(T) = n}
<1> SUFFICES ASSUME S \in Bad PROVE FALSE
  OBVIOUS
<1>1. Cardinality(S) \in Sizes
  BY FS_CardinalityType
<1>2. PICK n \in Sizes : \A m \in Sizes : ~(m < n)
  <2>1. PICK n \in Sizes : \A m \in Sizes : ~(<<m, n>> \in OpToRel(<, Nat))
    BY <1>1, NatLessThanWellFounded, WFMin, Sizes \subseteq Nat
  <2> QED
    BY <2>1 DEF OpToRel
<1>3. PICK T \in Bad : Cardinality(T) = n
  OBVIOUS
<1>4. IsFiniteSet(T)
  BY FS_Subset
<1>5. PICK x \in T : TRUE
  OBVIOUS
<1> DEFINE R == T \ {x}
<1>6. IsFiniteSet(R) /\ Cardinality(R) = n - 1 /\ n \in Nat
  BY <1>3, <1>4, <1>5, FS_RemoveElement
<1>7. R # {}
  BY <1>5
<1>8. R \notin Bad
  <2>1. n - 1 \in Nat
    BY <1>6, FS_CardinalityType
  <2>2. n - 1 \notin Sizes
    BY <1>2, <2>1
  <2> QED
    BY <2>1, <2>2, <1>6
<1>9. PICK y \in R : \A z \in R : z <= y
  BY <1>7, <1>8
<1> QED
  BY <1>9, <1>5

\* The span of a set of slots is past every slot of it.
LEMMA MaxIs ==
  ASSUME NEW S \in SUBSET Nat, IsFiniteSet(S), S # {}
  PROVE  SpanOf(S) \in Nat /\ \A y \in S : y < SpanOf(S)
PROOF
<1>1. Sets!Max(S) \in S /\ \A y \in S : Sets!Max(S) >= y
  BY Largest DEF Sets!Max
<1>2. SpanOf(S) = Sets!Max(S) + 1
  BY DEF SpanOf, Sets!Max
<1> QED
  <2>1. Sets!Max(S) \in Nat
    BY <1>1
  <2> HIDE DEF Sets!Max
  <2> QED
    BY <1>1, <1>2, <2>1

\* What SMT knows of a quotient: it rounds down, by less than the divisor.
LEMMA DivFacts ==
  ASSUME NEW a \in Nat, NEW p \in Nat \ {0}
  PROVE  /\ a \div p \in Nat /\ (a \div p) * p <= a /\ a < ((a \div p) + 1) * p
         /\ (a \div p) * p \in Nat
  OBVIOUS

\* A multiple below the next multiple is at most this one.
LEMMA Multiples ==
  ASSUME NEW m \in Nat, NEW n \in Nat, NEW p \in Nat \ {0}, m * p < (n + 1) * p
  PROVE  m <= n /\ m * p <= n * p /\ n * p \in Nat
PROOF
<1>1. m <= n
  <2> SUFFICES ASSUME m >= n + 1 PROVE FALSE
    OBVIOUS
  <2>1. m * p >= (n + 1) * p
    OBVIOUS
  <2>2. m * p \in Nat /\ (n + 1) * p \in Nat
    OBVIOUS
  <2> QED
    BY <2>1, <2>2
<1> QED
  BY <1>1

\* Rounding down to a multiple keeps the order.
LEMMA DivMonotone ==
  ASSUME NEW a \in Nat, NEW b \in Nat, a <= b, NEW p \in Nat \ {0}
  PROVE  (a \div p) * p <= (b \div p) * p
PROOF
<1>1. (a \div p) \in Nat /\ (b \div p) \in Nat /\ ((b \div p) + 1) * p \in Nat
  BY DivFacts
<1>2. (a \div p) * p < ((b \div p) + 1) * p
  BY DivFacts, <1>1
<1> HIDE <1>2
<1> QED
  BY <1>1, <1>2, Multiples

\* A multiple leaves no remainder.
LEMMA MultipleMod ==
  ASSUME NEW n \in Nat, NEW p \in Nat \ {0}
  PROVE  (n * p) % p = 0
  OBVIOUS

-----------------------------------------------------------------------------
(* The panel acts on what it shows.                                        *)

\* A drilled field is on the page shown, and the surface is shown.
FocusIsShown == focused # Nobody => mode = "SURFACE" /\ KnobsFor(focused) # {}

\* The window moves only over a drilled field, under its button.
WindowIsHeld == zoom_held => focused # Nobody /\ zooming

\* The page begins at a multiple of the page size, up to the last page: said
\* with a quotient, for the remainder says nothing of the next page.
PageIsOne == (\E n \in Nat : page = n * Pots) /\ page <= LastPage

\* What is lit is there; the lease keeps its type through the ticks.
LightsAreThere == lit \in [slots : SUBSET Occupied, left : Int]

\* The types the steps need.
Typed == desc \in Surfaces \union {Empty} /\ zoom_held \in BOOLEAN /\ zooming \in BOOLEAN

\* The inductive invariant of ActsOnWhatItShows.
IInv == Typed /\ FocusIsShown /\ WindowIsHeld /\ PageIsOne /\ LightsAreThere

\* Every descriptor, the empty one too, has finitely many fields.
LEMMA FieldsOfSurface ==
  ASSUME NEW d \in Surfaces \union {Empty}
  PROVE  DOMAIN d.kinds \in SUBSET Nat /\ IsFiniteSet(DOMAIN d.kinds)
  BY SurfacesAssumption, FS_EmptySet DEF Empty, SurfacesAssumption

\* So has the one that is shown.
LEMMA OccupiedFinite ==
  ASSUME Typed
  PROVE  Occupied \in SUBSET Nat /\ IsFiniteSet(Occupied)
  BY FieldsOfSurface DEF Typed, Occupied

\* A page has knobs.
LEMMA Positive == Pots \in Nat \ {0}
  BY PotsAssumption DEF PotsAssumption

\* The last page begins at a multiple of the page size, and the page of every
\* field is one too, no later than the last.
LEMMA LastPageFacts ==
  ASSUME NEW S \in SUBSET Nat, IsFiniteSet(S)
  PROVE  /\ LastPageOf(S) \in Nat /\ \E n \in Nat : LastPageOf(S) = n * Pots
         /\ \A s \in S : /\ PageOf(s) <= LastPageOf(S) /\ PageOf(s) \in Nat
                         /\ \E n \in Nat : PageOf(s) = n * Pots
PROOF
<1>1. CASE S = {}
  BY <1>1, Positive DEF LastPageOf
<1>2. CASE S # {}
  <2>1. SpanOf(S) \in Nat /\ \A s \in S : s < SpanOf(S)
    BY <1>2, MaxIs
  <2> HIDE DEF SpanOf
  <2> DEFINE last == SpanOf(S) - 1
  <2>2. last \in Nat /\ \A s \in S : s <= last
    <3>1. PICK s \in S : TRUE
      BY <1>2
    <3>2. s \in Nat /\ s < SpanOf(S)
      BY <2>1
    <3> QED
      BY <2>1, <3>2
  <2>3. LastPageOf(S) = (last \div Pots) * Pots
    BY <1>2 DEF LastPageOf
  <2> HIDE DEF last
  <2>4. /\ LastPageOf(S) \in Nat /\ \E n \in Nat : LastPageOf(S) = n * Pots
    BY <2>2, <2>3, Positive, DivFacts
  <2>5. ASSUME NEW s \in S
        PROVE  /\ PageOf(s) <= LastPageOf(S) /\ PageOf(s) \in Nat
               /\ \E n \in Nat : PageOf(s) = n * Pots
    <3>1. s \in Nat /\ s <= last
      BY <2>2
    <3> QED
      BY <3>1, <2>2, <2>3, Positive, DivFacts, DivMonotone DEF PageOf
  <2> QED
    BY <2>4, <2>5
<1> QED
  BY <1>1, <1>2

\* At the start nothing is shown.
LEMMA InitIInv == Init => IInv
PROOF
<1> SUFFICES ASSUME Init PROVE IInv
  OBVIOUS
<1>1. LastPage = 0
  BY DEF Init, LastPage, LastPageOf, Occupied, Empty
<1>2. page = 0 * Pots
  BY Positive DEF Init
<1>3. PageIsOne
  BY <1>1, <1>2 DEF Init, PageIsOne
<1>4. LightsAreThere
  BY DEF Init, LightsAreThere, Dark
<1> QED
  BY <1>3, <1>4 DEF Init, IInv, Typed, FocusIsShown, WindowIsHeld

\* From one page to the next and back.
LEMMA PageFacts ==
  ASSUME IInv
  PROVE  /\ page \in Nat /\ LastPage \in Nat
         /\ page > 0 => \E n \in Nat : page - Pots = n * Pots /\ n * Pots <= page
         /\ page < LastPage => page + Pots <= LastPage
         /\ LastPage > 0 => Pots <= LastPage
PROOF
<1>1. PICK n \in Nat : page = n * Pots
  BY DEF IInv, PageIsOne
<1>2. PICK m \in Nat : LastPage = m * Pots
  BY OccupiedFinite, LastPageFacts DEF IInv, LastPage
<1>3. n * Pots \in Nat /\ m * Pots \in Nat
  BY Positive
<1>4. ASSUME page > 0 PROVE page - Pots = (n - 1) * Pots /\ n - 1 \in Nat /\ (n - 1) * Pots <= page
  BY <1>1, <1>3, <1>4, Positive
<1>5. ASSUME page < LastPage PROVE page + Pots <= LastPage
  <2>1. n < m
    BY <1>1, <1>2, <1>3, <1>5, Positive
  <2>2. (n + 1) * Pots <= m * Pots
    BY <2>1, Positive
  <2> QED
    BY <1>1, <1>2, <2>2, Positive
<1>6. ASSUME LastPage > 0 PROVE Pots <= LastPage
  BY <1>2, <1>3, <1>6, Positive
<1> QED
  BY <1>1, <1>2, <1>3, <1>4, <1>5, <1>6

\* Turning to a page of the descriptor.
LEMMA SetPageKeeps ==
  ASSUME IInv, NEW first, SetPage(first), desc' = desc, mode' = mode,
         zooming' \in BOOLEAN, zooming => zooming',
         \E n \in Nat : first = n * Pots, first <= LastPage
  PROVE  IInv'
PROOF
<1>1. LastPage' = LastPage /\ Occupied' = Occupied
  BY DEF LastPage, Occupied
<1>2. CASE first = page
  <2>1. UNCHANGED <<focused, zoom_held, lit, page>>
    BY <1>2 DEF SetPage
  <2>2. KnobsFor(focused)' = KnobsFor(focused)
    BY <2>1, <1>1 DEF KnobsFor, FieldFor, FieldForPage
  <2> QED
    BY <1>1, <2>1, <2>2 DEF IInv, Typed, FocusIsShown, WindowIsHeld, PageIsOne, LightsAreThere
<1>3. CASE first # page
  <2>1. focused' = Nobody /\ zoom_held' = FALSE /\ lit' = Dark /\ page' = first
    BY <1>3 DEF SetPage, LeaveFocus
  <2>2. FocusIsShown' /\ WindowIsHeld' /\ Typed'
    BY <2>1 DEF IInv, Typed, FocusIsShown, WindowIsHeld
  <2>3. PageIsOne'
    BY <1>1, <2>1 DEF PageIsOne
  <2>4. LightsAreThere'
    BY <2>1 DEF LightsAreThere, Dark
  <2> QED
    BY <2>2, <2>3, <2>4 DEF IInv
<1> QED
  BY <1>2, <1>3

\* A step that leaves descriptor, page and drill alone.
LEMMA ViewKept ==
  ASSUME IInv, UNCHANGED <<desc, mode, page, focused>>,
         zooming' \in BOOLEAN, zoom_held' \in BOOLEAN, WindowIsHeld', LightsAreThere'
  PROVE  IInv'
PROOF
<1>1. LastPage' = LastPage /\ Occupied' = Occupied
  BY DEF LastPage, Occupied
<1>2. FocusIsShown'
  BY <1>1 DEF IInv, FocusIsShown, KnobsFor, FieldFor, FieldForPage
<1> QED
  BY <1>1, <1>2 DEF IInv, Typed, PageIsOne

\* A step that drills, leaves or keeps a field of the page that is shown.
LEMMA FocusMoves ==
  ASSUME IInv, UNCHANGED <<desc, page, lit, zooming>>, mode = "SURFACE", mode' = mode,
         zoom_held' \in {zoom_held, FALSE},
         NEW k \in Knobs, focused' \in {Nobody, focused, FieldFor(k)},
         zoom_held' => focused' # Nobody
  PROVE  IInv'
PROOF
<1>1. /\ LastPage' = LastPage /\ Occupied' = Occupied
      /\ \A s : KnobsFor(s)' = KnobsFor(s)
  BY DEF LastPage, Occupied, KnobsFor, FieldFor, FieldForPage
<1>2. FocusIsShown'
  <2>1. CASE focused' = FieldFor(k)
    <3>1. k \in KnobsFor(focused')
      BY <2>1 DEF KnobsFor
    <3>2. KnobsFor(focused)' # {}
      BY <3>1 DEF KnobsFor, FieldFor, FieldForPage, Occupied
    <3> QED
      BY <3>2 DEF FocusIsShown
  <2>2. CASE focused' = focused
    BY <2>2, <1>1 DEF IInv, FocusIsShown, KnobsFor, FieldFor, FieldForPage
  <2>3. CASE focused' = Nobody
    BY <2>3 DEF FocusIsShown
  <2> QED
    BY <2>1, <2>2, <2>3
<1>3. Typed'
  BY DEF IInv, Typed
<1>4. WindowIsHeld'
  BY DEF IInv, Typed, WindowIsHeld
<1>5. PageIsOne' /\ LightsAreThere'
  BY <1>1 DEF IInv, PageIsOne, LightsAreThere
<1> QED
  BY <1>2, <1>3, <1>4, <1>5 DEF IInv

\* A press in every layout: the operator layout turns the page, the overview
\* drills, a drilled field is left or exchanged.
LEMMA PushKeeps ==
  ASSUME IInv, NEW k \in Knobs, Push(k)
  PROVE  IInv'
PROOF
<1> USE DEF Push, Stroke, Input, fields
<1>1. CASE mode # "SURFACE"
  BY <1>1, ViewKept DEF IInv, Typed, WindowIsHeld, LightsAreThere, Occupied
<1>2. CASE mode = "SURFACE" /\ desc.operator /\ page = 0 /\ k = Pots - 1
  <2> DEFINE next == IF Pots > LastPage THEN LastPage ELSE Pots
  <2>1. SetPage(next)
    BY <1>2 DEF PushOperator
  <2>2. next <= LastPage /\ \E n \in Nat : next = n * Pots
    <3>1. LastPage \in Nat /\ \E n \in Nat : LastPage = n * Pots
      BY OccupiedFinite, LastPageFacts DEF IInv, LastPage
    <3>2. Pots = 1 * Pots
      BY Positive
    <3> QED
      BY <3>1, <3>2, Positive
  <2> HIDE DEF next
  <2> QED
    BY <2>1, <2>2, SetPageKeeps DEF IInv, Typed
<1>3. CASE mode = "SURFACE" /\ desc.operator /\ ~(page = 0 /\ k = Pots - 1)
  <2>1. UNCHANGED <<desc, mode, page, focused, zoom_held, lit, zooming>>
    BY <1>3 DEF PushOperator
  <2> QED
    BY <2>1, ViewKept DEF IInv, Typed, WindowIsHeld, LightsAreThere, Occupied
<1>4. CASE mode = "SURFACE" /\ ~desc.operator
  <2>1. UNCHANGED <<desc, page, lit, zooming, mode>>
    BY <1>4 DEF PushDrilled, PushOverview
  <2>2. /\ zoom_held' \in {zoom_held, FALSE}
        /\ focused' \in {Nobody, focused, FieldFor(k)}
        /\ zoom_held' => focused' # Nobody
    <3>1. CASE focused # Nobody
      BY <1>4, <3>1 DEF PushDrilled, LeaveFocus, MoveFocus
    <3>2. CASE focused = Nobody
      <4>1. zoom_held = FALSE
        BY <3>2 DEF IInv, Typed, WindowIsHeld
      <4> QED
        BY <1>4, <3>2, <4>1 DEF PushOverview, EnterFocus
    <3> QED
      BY <3>1, <3>2
  <2> QED
    BY <1>4, <2>1, <2>2, FocusMoves
<1> QED
  BY <1>1, <1>2, <1>3, <1>4

\* Every button, on the surface and in the settings views.
LEMMA PressKeeps ==
  ASSUME IInv, NEW i \in DOMAIN Buttons, Press(i)
  PROVE  IInv'
PROOF
<1> DEFINE b == Buttons[i]
<1>1. desc' = desc /\ zooming' \in BOOLEAN /\ (zooming => zooming') /\ (b = "PAGE_NEXT" => zooming')
  BY DEF Press, IInv, Typed
<1> HIDE DEF b
<1>2. CASE mode # "SURFACE"
  <2>1. /\ UNCHANGED <<page, focused, zoom_held, lit>>
        /\ mode' \in {"SURFACE", mode}
    BY <1>2 DEF Press, SettingsButton
  <2>2. focused = Nobody
    BY <1>2 DEF IInv, FocusIsShown
  <2>3. LastPage' = LastPage /\ Occupied' = Occupied
    BY <1>1 DEF LastPage, Occupied
  <2> QED
    BY <1>1, <2>1, <2>2, <2>3 DEF IInv, Typed, FocusIsShown, WindowIsHeld, PageIsOne, LightsAreThere
<1>3. CASE mode = "SURFACE"
  <2> USE DEF SurfaceButton
  <2>0. SurfaceButton(b)
    BY <1>3 DEF Press, b
  <2>1. CASE b = "BACK"
    <3>1. BackButton
      BY <2>0, <2>1
    <3>2. CASE focused # Nobody
      <4>1. /\ UNCHANGED <<lit, page, mode>> /\ focused' = Nobody /\ zoom_held' = FALSE
        BY <3>1, <3>2 DEF BackButton, LeaveFocus
      <4>2. LastPage' = LastPage /\ Occupied' = Occupied
        BY <1>1 DEF LastPage, Occupied
      <4> QED
        BY <1>1, <4>1, <4>2 DEF IInv, Typed, FocusIsShown, WindowIsHeld, PageIsOne, LightsAreThere
    <3>3. CASE focused = Nobody /\ page > 0
      <4>1. PICK n \in Nat : page - Pots = n * Pots /\ n * Pots <= page
        BY <3>3, PageFacts
      <4>2. SetPage(page - Pots) /\ mode' = mode
        BY <3>1, <3>3 DEF BackButton
      <4>3. page - Pots <= LastPage
        BY <4>1, PageFacts, Positive DEF IInv, PageIsOne
      <4> QED
        BY <1>1, <4>1, <4>2, <4>3, SetPageKeeps
    <3>4. CASE focused = Nobody /\ ~(page > 0)
      <4>1. UNCHANGED <<mode, page, focused, zoom_held, lit>>
        BY <3>1, <3>4 DEF BackButton
      <4> QED
        BY <1>1, <4>1, ViewKept DEF IInv, Typed, WindowIsHeld, LightsAreThere, Occupied
    <3> QED
      BY <3>2, <3>3, <3>4
  <2>2. CASE b \in {"UNDO", "REDO", "AUX"}
    <3>1. UNCHANGED <<mode, page, focused, zoom_held, lit>>
      BY <2>0, <2>2 DEF UndoButton, RedoButton, AuxButton, Transported, view
    <3> QED
      BY <1>1, <3>1, ViewKept DEF IInv, Typed, WindowIsHeld, LightsAreThere, Occupied
  <2>3. CASE b = "SYSTEM"
    <3>1. /\ UNCHANGED <<page, focused, zoom_held, lit>>
          /\ mode' = mode \/ focused = Nobody
      BY <2>0, <2>3 DEF SystemButton
    <3>2. LastPage' = LastPage /\ Occupied' = Occupied /\ KnobsFor(focused)' = KnobsFor(focused)
      BY <1>1, <3>1 DEF LastPage, Occupied, KnobsFor, FieldFor, FieldForPage
    <3> QED
      BY <1>1, <3>1, <3>2 DEF IInv, Typed, FocusIsShown, WindowIsHeld, PageIsOne, LightsAreThere
  <2>4. CASE b = "PAGE_NEXT"
    <3>1. ZoomButton
      BY <2>0, <2>4
    <3>2. CASE focused # Nobody
      <4>1. UNCHANGED <<mode, page, focused, lit>> /\ zoom_held' \in {TRUE, zoom_held}
        BY <3>1, <3>2 DEF ZoomButton
      <4> QED
        BY <1>1, <2>4, <3>2, <4>1, ViewKept DEF IInv, Typed, WindowIsHeld, LightsAreThere, Occupied
    <3>3. CASE focused = Nobody /\ page < LastPage
      <4>1. SetPage(page + Pots) /\ mode' = mode
        BY <3>1, <3>3 DEF ZoomButton
      <4>2. page + Pots <= LastPage
        BY <3>3, PageFacts
      <4>3. PICK n \in Nat : page = n * Pots
        BY DEF IInv, PageIsOne
      <4>4. page + Pots = (n + 1) * Pots /\ n + 1 \in Nat
        BY <4>3, Positive
      <4> QED
        BY <1>1, <4>1, <4>2, <4>4, SetPageKeeps
    <3>4. CASE focused = Nobody /\ ~(page < LastPage)
      <4>1. UNCHANGED <<mode, page, focused, zoom_held, lit>>
        BY <3>1, <3>4 DEF ZoomButton
      <4> QED
        BY <1>1, <4>1, ViewKept DEF IInv, Typed, WindowIsHeld, LightsAreThere, Occupied
    <3> QED
      BY <3>2, <3>3, <3>4
  <2>5. b \in {"BACK", "UNDO", "REDO", "AUX", "SYSTEM", "PAGE_NEXT"}
    BY DEF b, Buttons
  <2> QED
    BY <2>1, <2>2, <2>3, <2>4, <2>5
<1> QED
  BY <1>2, <1>3

\* The host shows one of the fields.
LEMMA RevealKeeps ==
  ASSUME IInv, NEW s \in Occupied, Reveal(s)
  PROVE  IInv'
PROOF
<1>1. UNCHANGED <<desc, mode, zooming>>
  BY DEF Reveal, fields, hand
<1>2. CASE page = PageOf(s)
  <2>1. UNCHANGED <<lit, page>> /\ focused' = Nobody /\ zoom_held' = FALSE
    BY <1>2 DEF Reveal, LeaveFocus
  <2>2. LastPage' = LastPage /\ Occupied' = Occupied
    BY <1>1 DEF LastPage, Occupied
  <2> QED
    BY <1>1, <2>1, <2>2 DEF IInv, Typed, FocusIsShown, WindowIsHeld, PageIsOne, LightsAreThere
<1>3. CASE page # PageOf(s)
  <2>1. SetPage(PageOf(s))
    BY <1>3 DEF Reveal
  <2>2. PageOf(s) <= LastPage /\ \E n \in Nat : PageOf(s) = n * Pots
    BY OccupiedFinite, LastPageFacts DEF IInv, LastPage
  <2> QED
    BY <1>1, <2>1, <2>2, SetPageKeeps DEF IInv, Typed
<1> QED
  BY <1>2, <1>3

\* A new descriptor, or none: nothing of the old view stays.
LEMMA DescribedKeeps ==
  ASSUME IInv, NEW d \in Surfaces \union {Empty}, desc' = d, SurfaceChanged,
         UNCHANGED <<mode, zooming>>
  PROVE  IInv'
PROOF
<1>1. focused' = Nobody /\ zoom_held' = FALSE /\ page' = 0 /\ lit' = Dark
  BY DEF SurfaceChanged
<1>2. Typed'
  BY <1>1 DEF IInv, Typed
<1>3. LastPage' \in Nat
  <2>1. LastPage' = LastPageOf(DOMAIN d.kinds)
    BY DEF LastPage, Occupied
  <2> QED
    BY <2>1, FieldsOfSurface, LastPageFacts
<1>4. PageIsOne'
  <2>1. page' = 0 * Pots
    BY <1>1, Positive
  <2> QED
    BY <1>1, <1>3, <2>1 DEF PageIsOne
<1> QED
  BY <1>1, <1>2, <1>4 DEF IInv, FocusIsShown, WindowIsHeld, LightsAreThere, Dark

\* A step that leaves the whole view alone.
LEMMA UntouchedKeeps ==
  ASSUME IInv, UNCHANGED <<desc, mode, page, focused, zoom_held, zooming, lit>>
  PROVE  IInv'
  BY ViewKept DEF IInv, Typed, WindowIsHeld, LightsAreThere, Occupied

\* The window is let go with the button.
LEMMA LetGoKeeps == IInv /\ LetGo => IInv'
PROOF
<1> SUFFICES ASSUME IInv, LetGo PROVE IInv'
  OBVIOUS
<1>1. UNCHANGED <<desc, mode, page, focused, lit>> /\ zoom_held' = FALSE /\ zooming' = FALSE
  BY DEF LetGo, Input, fields
<1> QED
  BY <1>1, ViewKept DEF IInv, WindowIsHeld, LightsAreThere, Occupied

\* A tick counts the lease down or ends it.
LEMMA TickKeeps == IInv /\ Tick => IInv'
PROOF
<1> SUFFICES ASSUME IInv, Tick PROVE IInv'
  OBVIOUS
<1>1. UNCHANGED <<desc, mode, page, focused, zoom_held, zooming>>
  BY DEF Tick, fields
<1>2. LightsAreThere'
  <2>1. CASE lit' = Dark
    BY <2>1 DEF LightsAreThere, Dark
  <2>2. CASE lit' = [lit EXCEPT !.left = @ - 1]
    BY <1>1, <2>2 DEF IInv, LightsAreThere, Occupied
  <2> QED
    BY <2>1, <2>2 DEF Tick
<1> QED
  BY <1>1, <1>2, ViewKept DEF IInv, Typed, WindowIsHeld

\* The host lights up what is there.
LEMMA HighlightKeeps ==
  ASSUME IInv, NEW slots \in SUBSET Occupied, NEW lease \in 1..MaxLease, Highlight(slots, lease)
  PROVE  IInv'
PROOF
<1>1. UNCHANGED <<desc, mode, page, focused, zoom_held, zooming>>
  BY DEF Highlight, fields, hand
<1>2. LightsAreThere'
  BY <1>1 DEF Highlight, LightsAreThere, Occupied
<1> QED
  BY <1>1, <1>2, ViewKept DEF IInv, Typed, WindowIsHeld

\* Everything the hand does.
LEMMA HandKeeps == IInv /\ Hand => IInv'
PROOF
<1> SUFFICES ASSUME IInv, Hand PROVE IInv'
  OBVIOUS
<1>1. ASSUME NEW k \in Knobs, Push(k) PROVE IInv'
  BY <1>1, PushKeeps
<1>2. ASSUME NEW k \in Knobs, Release(k) PROVE IInv'
  BY <1>2, UntouchedKeeps DEF Release, Input, fields, view
<1>3. ASSUME NEW k \in Turned, NEW d \in {-1, 1}, Rotate(k, d) PROVE IInv'
  BY <1>3, UntouchedKeeps DEF Rotate, Stroke, Input, fields
<1>4. ASSUME NEW i \in DOMAIN Buttons, Press(i) PROVE IInv'
  BY <1>4, PressKeeps
<1> QED
  BY <1>1, <1>2, <1>3, <1>4, LetGoKeeps DEF Hand

\* Everything the host does.
LEMMA HostKeeps == IInv /\ Host => IInv'
PROOF
<1> SUFFICES ASSUME IInv, Host PROVE IInv'
  OBVIOUS
<1> USE DEF view, fields, hand, bounds
<1>1. ASSUME NEW d \in Surfaces, Publish(d) PROVE IInv'
  BY <1>1, DescribedKeeps DEF Publish, Described
<1>2. ASSUME Clear PROVE IInv'
  BY <1>2, DescribedKeeps DEF Clear, Described
<1>3. ASSUME NEW s \in Occupied, Reveal(s) PROVE IInv'
  BY <1>3, RevealKeeps
<1>4. ASSUME NEW slots \in {{}} \union {{s} : s \in Occupied}, NEW lease \in 1..MaxLease,
             Highlight(slots, lease)
      PROVE  IInv'
  BY <1>4, HighlightKeeps
<1>5. ASSUME NEW s \in Editable, NEW v \in Numbers, HostMoves(s, v) PROVE IInv'
  BY <1>5, UntouchedKeeps DEF HostMoves
<1>6. ASSUME NEW s \in Editable, NEW v \in Numbers \union {None}, HostChooses(s, v) PROVE IInv'
  BY <1>6, UntouchedKeeps DEF HostChooses
<1>7. ASSUME HearDefaults PROVE IInv'
  BY <1>7, UntouchedKeeps DEF HearDefaults
<1>8. ASSUME Deliver PROVE IInv'
  BY <1>8, UntouchedKeeps DEF Deliver
<1> QED
  BY <1>1, <1>2, <1>3, <1>4, <1>5, <1>6, <1>7, <1>8 DEF Host

\* The invariant has the property in it.
LEMMA InvariantIsEnough == IInv => ActsOnWhatItShows
PROOF
<1> SUFFICES ASSUME IInv PROVE ActsOnWhatItShows
  OBVIOUS
<1>1. page % Pots = 0
  BY MultipleMod, Positive DEF IInv, PageIsOne
<1> QED
  BY <1>1 DEF IInv, ActsOnWhatItShows, FocusIsShown, WindowIsHeld, PageIsOne, LightsAreThere

\* Every step keeps the invariant.
LEMMA NextKeeps == IInv /\ [Next]_vars => IInv'
PROOF
<1> SUFFICES ASSUME IInv, [Next]_vars PROVE IInv'
  OBVIOUS
<1>1. CASE UNCHANGED vars
  BY <1>1, UntouchedKeeps DEF vars, view, fields, hand
<1> QED
  BY <1>1, HandKeeps, TickKeeps, HostKeeps DEF Next

\* Whatever the host sends between two samples, the panel acts on what it
\* shows (ui_state.c), for every page size and every set of descriptors.
THEOREM ActsOnWhatItShowsHolds == Spec => []ActsOnWhatItShows
PROOF
<1> QED
  BY InitIInv, NextKeeps, InvariantIsEnough, PTL DEF Spec

-----------------------------------------------------------------------------
(* A stop needs one press.                                                 *)

\* What waits for the host is a sequence.
IsMail == \E S : outbox \in Seq(S)

\* What a step may do to it: nothing, one report at the end, newer values in
\* place, or one report taken from the front.
MailMoves ==
  \/ UNCHANGED outbox
  \/ \E m : outbox' = Append(outbox, m)
  \/ \E m, I : outbox' = [i \in DOMAIN outbox |-> IF i \in I THEN m ELSE outbox[i]]
  \/ outbox # <<>> /\ outbox' = Tail(outbox)

\* Such a step leaves a sequence.
LEMMA MailStays == IsMail /\ MailMoves => IsMail'
PROOF
<1> SUFFICES ASSUME IsMail, MailMoves PROVE IsMail'
  OBVIOUS
<1>1. PICK S : outbox \in Seq(S)
  BY DEF IsMail
<1> SUFFICES \E T : outbox' \in Seq(T)
  BY DEF IsMail
<1>2. CASE UNCHANGED outbox
  BY <1>1, <1>2
<1>3. CASE \E m : outbox' = Append(outbox, m)
  <2>1. PICK m : outbox' = Append(outbox, m)
    BY <1>3
  <2>2. outbox \in Seq(S \union {m})
    BY <1>1
  <2>3. outbox' \in Seq(S \union {m})
    BY <2>1, <2>2
  <2> QED
    BY <2>3
<1>4. CASE \E m, I : outbox' = [i \in DOMAIN outbox |-> IF i \in I THEN m ELSE outbox[i]]
  <2>1. PICK m, I : outbox' = [i \in DOMAIN outbox |-> IF i \in I THEN m ELSE outbox[i]]
    BY <1>4
  <2>2. DOMAIN outbox = 1..Len(outbox) /\ Len(outbox) \in Nat
    BY <1>1
  <2>3. outbox' \in [1..Len(outbox) -> S \union {m}]
    BY <1>1, <2>1, <2>2
  <2>4. outbox' \in Seq(S \union {m})
    BY <2>2, <2>3
  <2> QED
    BY <2>4
<1>5. CASE outbox # <<>> /\ outbox' = Tail(outbox)
  BY <1>1, <1>5
<1> QED
  BY <1>2, <1>3, <1>4, <1>5 DEF MailMoves

\* The same, and what is put at its end does not activate a HOLD.
QuietMail ==
  \/ UNCHANGED outbox
  \/ \E m : outbox' = Append(outbox, m) /\ (m.op # "ACTIVATE" \/ ~Live(m.slot, {"HOLD"}))
  \/ \E m, I : outbox' = [i \in DOMAIN outbox |-> IF i \in I THEN m ELSE outbox[i]]
  \/ outbox # <<>> /\ outbox' = Tail(outbox)

\* An action that is no HOLD.
LEMMA ActivateQuiet == \A s : SurfActivate(s) /\ ~Is(s, {"HOLD"}) => QuietMail
PROOF
<1> SUFFICES ASSUME NEW s, SurfActivate(s), ~Is(s, {"HOLD"}) PROVE QuietMail
  OBVIOUS
<1>1. CASE outbox' = Append(outbox, Report("ACTIVATE", s, None))
  <2>1. Report("ACTIVATE", s, None).slot = s
    BY DEF Report
  <2> QED
    BY <1>1, <2>1 DEF QuietMail, Live
<1>2. CASE UNCHANGED outbox
  BY <1>2 DEF QuietMail
<1> QED
  BY <1>1, <1>2 DEF SurfActivate, Activate

\* An edit is put at the end or takes its place.
LEMMA SetNumberQuiet == \A s, v : SetNumber(s, v) => QuietMail
PROOF
<1> SUFFICES ASSUME NEW s, NEW v, SendEdit(s, v) PROVE QuietMail
  BY DEF SetNumber
<1>1. CASE Waiting("EDIT", s) # {}
  BY <1>1 DEF SendEdit, QuietMail
<1>2. CASE Waiting("EDIT", s) = {}
  <2>1. Report("EDIT", s, v).op # "ACTIVATE"
    BY DEF Report
  <2> QED
    BY <1>2, <2>1 DEF SendEdit, QuietMail
<1> QED
  BY <1>1, <1>2

\* A press of a HOLD only starts its clock, in every layout.
LEMMA PushQuiet == ASSUME Typed, NEW k \in Knobs, Push(k) PROVE QuietMail
PROOF
<1>1. CASE mode # "SURFACE"
  BY <1>1 DEF Push, QuietMail
<1>2. CASE mode = "SURFACE" /\ desc.operator
  BY <1>2, ActivateQuiet DEF Push, PushOperator, Trigger, QuietMail
<1>3. CASE mode = "SURFACE" /\ ~desc.operator /\ focused # Nobody
  BY <1>3, ActivateQuiet DEF Push, PushDrilled, MoveFocus, QuietMail, Is
<1>4. CASE mode = "SURFACE" /\ ~desc.operator /\ focused = Nobody
  BY <1>4, ActivateQuiet DEF Push, PushOverview, Trigger, EnterFocus, QuietMail, Is
<1> QED
  BY <1>1, <1>2, <1>3, <1>4

\* No button fires a HOLD: the transport fields are no fields of the page.
LEMMA ButtonQuiet == ASSUME Typed, NEW i \in DOMAIN Buttons, Press(i) PROVE QuietMail
PROOF
<1> DEFINE b == Buttons[i]
<1>1. CASE mode # "SURFACE"
  BY <1>1 DEF Press, SettingsButton, QuietMail
<1>2. CASE mode = "SURFACE"
  <2>1. SurfaceButton(b)
    BY <1>2 DEF Press
  <2>2. b \in {"BACK", "UNDO", "REDO", "AUX", "SYSTEM", "PAGE_NEXT"}
    BY DEF Buttons
  <2>3. ASSUME NEW x, Transported(x) PROVE QuietMail
    <3>1. CASE x \in DOMAIN desc.transport
      <4> DEFINE m == Report("ACTIVATE", desc.transport[x], None)
      <4>1. outbox' = Append(outbox, m) /\ m.slot = desc.transport[x]
        BY <2>3, <3>1 DEF Transported, Activate, Report
      <4>2. desc.transport[x] \notin Occupied
        BY <3>1, SurfacesAssumption DEF SurfacesAssumption, Typed, Empty, Occupied
      <4> QED
        BY <4>1, <4>2 DEF QuietMail, Live, Is
    <3>2. CASE x \notin DOMAIN desc.transport
      BY <2>3, <3>2 DEF Transported, QuietMail
    <3> QED
      BY <3>1, <3>2
  <2> HIDE DEF b
  <2>5. CASE b = "BACK"
    BY <2>1, <2>5 DEF SurfaceButton, BackButton, QuietMail
  <2>6. CASE b = "UNDO"
    <3>1. CASE focused # Nobody /\ focused \in Editable /\ CanUndo(hist[focused])
      BY <2>1, <2>6, <3>1, SetNumberQuiet DEF SurfaceButton, UndoButton, Step, QuietMail
    <3> QED
      BY <2>1, <2>3, <2>6, <3>1 DEF SurfaceButton, UndoButton, QuietMail
  <2>7. CASE b = "REDO"
    <3>1. CASE focused # Nobody /\ focused \in Editable /\ CanRedo(hist[focused])
      BY <2>1, <2>7, <3>1, SetNumberQuiet DEF SurfaceButton, RedoButton, Step, QuietMail
    <3> QED
      BY <2>1, <2>3, <2>7, <3>1 DEF SurfaceButton, RedoButton, QuietMail
  <2>8. CASE b = "AUX"
    <3>1. Report("SAVE_DEFAULT", focused, None).op # "ACTIVATE"
      BY DEF Report
    <3> QED
      BY <2>1, <2>3, <2>8, <3>1 DEF SurfaceButton, AuxButton, QuietMail
  <2>9. CASE b = "SYSTEM"
    BY <2>1, <2>9, SetNumberQuiet DEF SurfaceButton, SystemButton, Reset, QuietMail
  <2>10. CASE b = "PAGE_NEXT"
    BY <2>1, <2>10 DEF SurfaceButton, ZoomButton, QuietMail
  <2> QED
    BY <2>2, <2>5, <2>6, <2>7, <2>8, <2>9, <2>10
<1> QED
  BY <1>1, <1>2

\* Only a tick may fire a HOLD.
LEMMA NextQuiet == Typed /\ [Next]_vars /\ ~Tick => QuietMail
PROOF
<1> SUFFICES ASSUME Typed, [Next]_vars, ~Tick PROVE QuietMail
  OBVIOUS
<1>1. CASE Hand
  <2>1. ASSUME NEW k \in Turned, NEW d \in {-1, 1}, Rotate(k, d) PROVE QuietMail
    BY <2>1, SetNumberQuiet DEF Rotate, Turn, QuietMail
  <2>2. ASSUME NEW k \in Knobs, Release(k) PROVE QuietMail
    BY <2>2 DEF Release, QuietMail
  <2>3. ASSUME LetGo PROVE QuietMail
    BY <2>3 DEF LetGo, QuietMail
  <2> QED
    BY <1>1, <2>1, <2>2, <2>3, PushQuiet, ButtonQuiet DEF Hand
<1>2. CASE Host
  <2>1. ASSUME Deliver PROVE QuietMail
    BY <2>1 DEF Deliver, QuietMail
  <2>2. ASSUME ~Deliver PROVE UNCHANGED outbox
    BY <1>2, <2>2 DEF Host, Publish, Clear, Reveal, Highlight, HostMoves, HostChooses, HearDefaults
  <2> QED
    BY <2>1, <2>2 DEF QuietMail
<1>3. CASE UNCHANGED vars
  BY <1>3 DEF vars, QuietMail
<1> QED
  BY <1>1, <1>2, <1>3 DEF Next

\* Every step moves the mail as it may.
LEMMA NextMoves == Typed /\ [Next]_vars => MailMoves
PROOF
<1> SUFFICES ASSUME Typed, [Next]_vars PROVE MailMoves
  OBVIOUS
<1>1. CASE Tick
  <2>1. TickHold
    BY <1>1 DEF Tick
  <2> QED
    BY <2>1 DEF TickHold, SurfActivate, Activate, MailMoves
<1>2. CASE ~Tick
  BY <1>2, NextQuiet DEF QuietMail, MailMoves
<1> QED
  BY <1>1, <1>2

\* Nothing is drilled in the operator layout.
OperatorIsFlat == desc.operator => focused = Nobody

\* Every step keeps the operator layout flat.
LEMMA FlatStays == IInv /\ OperatorIsFlat /\ [Next]_vars => OperatorIsFlat'
PROOF
<1> SUFFICES ASSUME IInv, OperatorIsFlat, [Next]_vars PROVE OperatorIsFlat'
  OBVIOUS
<1> SUFFICES ASSUME desc'.operator PROVE focused' = Nobody
  BY DEF OperatorIsFlat
<1> USE DEF fields, view
<1>1. CASE Hand
  <2>1. desc' = desc /\ focused = Nobody
    BY <1>1 DEF Hand, Push, Release, Rotate, Press, LetGo, Stroke, Input, OperatorIsFlat
  <2>2. ASSUME NEW k \in Knobs, Push(k) PROVE focused' = Nobody
    BY <2>1, <2>2 DEF Push, PushOperator, SetPage, LeaveFocus
  <2>3. ASSUME NEW i \in DOMAIN Buttons, Press(i) PROVE focused' = Nobody
    <3>1. CASE mode # "SURFACE"
      BY <2>1, <2>3, <3>1 DEF Press, SettingsButton
    <3>2. CASE mode = "SURFACE"
      <4>1. SurfaceButton(Buttons[i])
        BY <2>3, <3>2 DEF Press
      <4>2. Buttons[i] \in {"BACK", "UNDO", "REDO", "AUX", "SYSTEM", "PAGE_NEXT"}
        BY DEF Buttons
      <4> QED
        BY <2>1, <4>1, <4>2
        DEF SurfaceButton, BackButton, UndoButton, RedoButton, AuxButton, SystemButton,
            ZoomButton, Transported, SetPage, LeaveFocus
    <3> QED
      BY <3>1, <3>2
  <2>4. ASSUME NEW k \in Knobs, Release(k) PROVE focused' = Nobody
    BY <2>1, <2>4 DEF Release
  <2>5. ASSUME NEW k \in Turned, NEW d \in {-1, 1}, Rotate(k, d) PROVE focused' = Nobody
    BY <2>1, <2>5 DEF Rotate
  <2>6. ASSUME LetGo PROVE focused' = Nobody
    BY <2>1, <2>6 DEF LetGo
  <2> QED
    BY <1>1, <2>2, <2>3, <2>4, <2>5, <2>6 DEF Hand
<1>2. CASE Tick
  BY <1>2 DEF Tick, OperatorIsFlat
<1>3. CASE Host
  BY <1>3 DEF Host, Publish, Clear, SurfaceChanged, Reveal, SetPage, LeaveFocus, Highlight,
     HostMoves, HostChooses, HearDefaults, Deliver, OperatorIsFlat
<1>4. CASE UNCHANGED vars
  BY <1>4 DEF vars, OperatorIsFlat
<1> QED
  BY <1>1, <1>2, <1>3, <1>4 DEF Next

\* An action that is there and enabled is sent when it is activated.
LEMMA LiveIsFired ==
  ASSUME NEW s, Live(s, Actions), SurfActivate(s), IsMail
  PROVE  Fires(s)
PROOF
<1>1. outbox' = Append(outbox, Report("ACTIVATE", s, None))
  BY DEF SurfActivate, Live, Is, Activate, Actions
<1>2. PICK S : outbox \in Seq(S)
  BY DEF IsMail
<1> DEFINE m == Report("ACTIVATE", s, None)
<1>3. m.op = "ACTIVATE" /\ m.slot = s
  BY DEF Report
<1> HIDE DEF m
<1>4. outbox \in Seq(S \union {m})
  BY <1>2
<1>5. Len(outbox') = Len(outbox) + 1 /\ outbox'[Len(outbox')] = m /\ Len(outbox) \in Nat
  BY <1>1, <1>4 DEF m
<1> QED
  BY <1>3, <1>5 DEF Fires

\* The knob that turns the operator layout's page has no action under it.
LEMMA NothingUnderThePageKnob ==
  ASSUME Typed, desc.operator, page = 0
  PROVE  ~Live(FieldFor(Pots - 1), Actions)
PROOF
<1> SUFFICES ASSUME Live(FieldFor(Pots - 1), Actions) PROVE FALSE
  OBVIOUS
<1>1. Row \in Nat /\ Pots = 2 * Row /\ Row > 0
  BY PotsAssumption DEF PotsAssumption, Row
<1>2. (Pots - 1 + Row) % Pots = Row - 1
  BY <1>1
<1>3. FieldFor(Pots - 1) = Row - 1
  <2>1. FieldFor(Pots - 1) \in {Row - 1, Nobody}
    BY <1>1, <1>2 DEF FieldFor, FieldForPage, Addressed
  <2>2. FieldFor(Pots - 1) \in Occupied
    BY DEF Live, Is
  <2>3. Nobody \notin Occupied
    BY OccupiedFinite DEF Nobody
  <2> QED
    BY <2>1, <2>2, <2>3
<1>4. Row - 1 \in Occupied /\ desc.kinds[Row - 1] \in Actions
  BY <1>3 DEF Live, Is, Actions
<1>5. desc \in Surfaces
  BY <1>4 DEF Typed, Empty, Occupied
<1> QED
  BY <1>4, <1>5, SurfacesAssumption DEF SurfacesAssumption, Occupied

\* A press of a stop sends it and leaves the drill: in the overview, in the
\* operator layout and under a drilled field, digit row or not.
LEMMA PressStops ==
  ASSUME IInv, OperatorIsFlat, IsMail, NEW k \in Knobs, Push(k), mode = "SURFACE",
         Live(FieldFor(k), {"ESTOP"})
  PROVE  Fires(FieldFor(k)) /\ focused' = Nobody
PROOF
<1>1. SurfActivate(FieldFor(k)) => Fires(FieldFor(k))
  BY LiveIsFired DEF Live, Is, Actions
<1>2. Live(FieldFor(k), Actions) /\ Is(FieldFor(k), Actions) /\ ~Is(FieldFor(k), {"HOLD"})
  BY DEF Live, Is, Actions
<1>3. CASE desc.operator
  <2>1. ~(page = 0 /\ k = Pots - 1)
    BY <1>2, <1>3, NothingUnderThePageKnob DEF IInv
  <2>2. PushOperator(k)
    BY <1>3 DEF Push
  <2>3. Trigger(k, FieldFor(k)) /\ focused' = focused
    BY <2>1, <2>2 DEF PushOperator
  <2> QED
    BY <1>1, <1>2, <1>3, <2>3 DEF Trigger, OperatorIsFlat
<1>4. CASE ~desc.operator /\ focused # Nobody
  BY <1>1, <1>4 DEF Push, PushDrilled, LeaveFocus, Live
<1>5. CASE ~desc.operator /\ focused = Nobody
  <2>1. PushOverview(k)
    BY <1>5 DEF Push
  <2> QED
    BY <1>1, <1>2, <1>5, <2>1 DEF PushOverview, Trigger
<1> QED
  BY <1>3, <1>4, <1>5

\* Only a press handles the press of a knob.
LEMMA OnlyThePress ==
  ASSUME NEW k \in Knobs, [Next]_vars, Stroked(PressOf(k))
  PROVE  Push(k)
PROOF
<1> USE DEF Stroked
<1>1. Pots \in Nat /\ k \in Nat /\ k < Pots
  BY Positive DEF Knobs
<1>2. CASE Hand
  <2>1. ASSUME NEW j \in Knobs, Push(j) PROVE j = k
    BY <1>1, <2>1 DEF Push, Stroke, Input, PressOf, Knobs
  <2>2. ASSUME NEW j \in Knobs, Release(j) PROVE FALSE
    BY <2>2 DEF Release
  <2>3. ASSUME NEW j \in Turned, NEW d \in {-1, 1}, Rotate(j, d) PROVE FALSE
    <3>1. j \in Int
      BY <1>1, PanelBounds DEF PanelBounds, Knobs
    <3> QED
      BY <1>1, <2>3, <3>1 DEF Rotate, Stroke, Input, PressOf, TurnOf
  <2>4. ASSUME NEW i \in DOMAIN Buttons, Press(i) PROVE FALSE
    <3>1. i \in 1..6
      BY DEF Buttons
    <3>2. handled' = 2 * Pots + i
      BY <2>4 DEF Press, ButtonOf
    <3> QED
      BY <1>1, <3>1, <3>2 DEF PressOf
  <2>5. ASSUME LetGo PROVE FALSE
    BY <2>5 DEF LetGo
  <2> QED
    BY <1>2, <2>1, <2>2, <2>3, <2>4, <2>5 DEF Hand
<1>3. CASE Tick
  BY <1>3 DEF Tick, bounds
<1>4. CASE Host
  BY <1>4 DEF Host, Publish, Clear, Reveal, Highlight, HostMoves, HostChooses, HearDefaults,
     Deliver, bounds
<1>5. CASE UNCHANGED vars
  BY <1>5 DEF vars, bounds
<1> QED
  BY <1>2, <1>3, <1>4, <1>5 DEF Next

\* At the start nothing waits and nothing is drilled.
LEMMA InitAll == Init => IInv /\ OperatorIsFlat /\ IsMail
PROOF
<1> SUFFICES ASSUME Init PROVE OperatorIsFlat /\ IsMail
  BY InitIInv
<1>1. outbox \in Seq({})
  BY DEF Init
<1> QED
  BY <1>1 DEF Init, OperatorIsFlat, IsMail

\* A stop needs one press of its knob, whatever is drilled (docs/protocol.md,
\* EMP/1.6), for every page size and every set of descriptors.
THEOREM StopNeedsOnePressHolds == Spec => StopNeedsOnePress
PROOF
<1> DEFINE All == IInv /\ OperatorIsFlat /\ IsMail
           OnePress == \A k \in Knobs :
             Stroked(PressOf(k)) /\ mode = "SURFACE" /\ Live(FieldFor(k), {"ESTOP"}) =>
               Fires(FieldFor(k)) /\ focused' = Nobody
<1>1. Init => All
  BY InitAll
<1>2. All /\ [Next]_vars => All'
  BY NextKeeps, FlatStays, NextMoves, MailStays DEF IInv
<1>3. All /\ [Next]_vars => OnePress
  BY OnlyThePress, PressStops
<1> QED
  <2> HIDE DEF All
  <2>1. All /\ [Next]_vars => [OnePress]_vars
    BY <1>3
  <2> HIDE DEF OnePress
  <2>2. Spec => [][OnePress]_vars
    BY <1>1, <1>2, <2>1, PTL DEF Spec
  <2> QED
    BY <2>2 DEF StopNeedsOnePress, OnePress

-----------------------------------------------------------------------------
(* A HOLD is sent when it has been held.                                   *)

\* A step that fires no HOLD.
Silent == \A s : Live(s, {"HOLD"}) => ~Fires(s)

\* Quiet mail fires none.
LEMMA QuietIsSilent == IsMail /\ QuietMail => Silent
PROOF
<1> SUFFICES ASSUME IsMail, QuietMail, NEW s, Live(s, {"HOLD"}), Fires(s) PROVE FALSE
  BY DEF Silent
<1>1. PICK S : outbox \in Seq(S)
  BY DEF IsMail
<1>2. Len(outbox) \in Nat /\ Len(outbox') > Len(outbox)
  BY <1>1 DEF Fires
<1>3. CASE UNCHANGED outbox
  BY <1>2, <1>3
<1>4. CASE \E m : outbox' = Append(outbox, m) /\ (m.op # "ACTIVATE" \/ ~Live(m.slot, {"HOLD"}))
  <2>1. PICK m : outbox' = Append(outbox, m) /\ (m.op # "ACTIVATE" \/ ~Live(m.slot, {"HOLD"}))
    BY <1>4
  <2>2. outbox \in Seq(S \union {m})
    BY <1>1
  <2>3. outbox'[Len(outbox')] = m
    BY <2>1, <2>2
  <2>4. m.op = "ACTIVATE" /\ m.slot = s
    BY <2>3 DEF Fires
  <2> QED
    BY <2>1, <2>4
<1>5. CASE \E m, I : outbox' = [i \in DOMAIN outbox |-> IF i \in I THEN m ELSE outbox[i]]
  <2>1. PICK m, I : outbox' = [i \in DOMAIN outbox |-> IF i \in I THEN m ELSE outbox[i]]
    BY <1>5
  <2>2. DOMAIN outbox = 1..Len(outbox)
    BY <1>1
  <2>3. outbox' \in [1..Len(outbox) -> S \union {m}]
    BY <1>1, <2>1, <2>2
  <2>4. Len(outbox') = Len(outbox)
    BY <1>2, <2>3
  <2> QED
    BY <1>2, <2>4
<1>6. CASE outbox # <<>> /\ outbox' = Tail(outbox)
  <2>1. Len(outbox') = Len(outbox) - 1
    BY <1>1, <1>6
  <2> QED
    BY <1>2, <2>1
<1> QED
  BY <1>3, <1>4, <1>5, <1>6 DEF QuietMail

\* The clock of a knob that has been held since it was pressed on a HOLD.
Timed(k) == [slot |-> grip[k].slot, pot |-> k, done |-> FALSE, age |-> grip[k].age,
             revision |-> revision]

\* Whoever holds a HOLD is being timed, and has been since the press.
GripIsTimed ==
  \A k \in Knobs : grip[k].slot # Nobody =>
    /\ hold = Timed(k) /\ grip[k].age <= HoldTicks
    /\ k \in pushed /\ Live(grip[k].slot, {"HOLD"})

\* Whoever is being timed holds it.
TimedIsGrip == hold.slot # Nobody /\ ~hold.done => hold.pot \in Knobs /\ grip[hold.pot].slot = hold.slot

\* The type of the one clock there is.
HoldType == [slot : Int, pot : Int, done : BOOLEAN, age : Nat, revision : Nat]

\* The clock at rest has it.
LEMMA NoHoldIsTyped == NoHold \in HoldType /\ NoGrip \in [slot : Int, age : Nat]
  BY DEF NoHold, NoGrip, HoldType, Nobody

\* The types the steps need.
HoldTyped ==
  /\ hold \in HoldType
  /\ grip \in [Knobs -> [slot : Int, age : Nat]]
  /\ revision \in Nat /\ surprises \in Nat /\ handled \in Int /\ pushed \subseteq Knobs

\* The inductive invariant of HoldFiresWhenHeld: the code's one clock is what
\* the hand has done since the press, on the one knob that is timed.
HInv == HoldTyped /\ GripIsTimed /\ TimedIsGrip

\* At the start nothing is held.
LEMMA InitHInv == Init => HInv
PROOF
<1> SUFFICES ASSUME Init PROVE HInv
  OBVIOUS
<1>1. HoldTyped
  BY NoHoldIsTyped DEF Init, HoldTyped, Rest
<1>2. \A k \in Knobs : grip[k].slot = Nobody
  BY DEF Init, NoGrip
<1>3. hold.slot = Nobody
  BY DEF Init, NoHold
<1> QED
  BY <1>1, <1>2, <1>3 DEF HInv, GripIsTimed, TimedIsGrip

\* A step that leaves the clock and the grips alone.
LEMMA HoldUntouched ==
  ASSUME HInv, UNCHANGED <<desc, revision, hold, grip>>, pushed \subseteq pushed',
         pushed' \subseteq Knobs, surprises' \in Nat, handled' \in Int
  PROVE  HInv'
PROOF
<1>1. HoldTyped'
  BY DEF HInv, HoldTyped
<1>2. GripIsTimed'
  BY DEF HInv, GripIsTimed, Timed, Live, Is, Occupied
<1>3. TimedIsGrip'
  BY DEF HInv, TimedIsGrip
<1> QED
  BY <1>1, <1>2, <1>3 DEF HInv

\* A knob turned or released: its clock stops and the others go on.
LEMMA GripLost ==
  ASSUME HInv, NEW k \in Knobs, grip' = [grip EXCEPT ![k] = NoGrip],
         hold' \in {hold, NoHold}, hold.pot # k => hold' = hold,
         hold.pot = k /\ ~hold.done => hold' = NoHold,
         UNCHANGED <<desc, revision>>, pushed' \in {pushed, pushed \ {k}},
         surprises' \in Nat, handled' \in Int
  PROVE  HInv'
PROOF
<1>1. grip'[k].slot = Nobody /\ \A j \in Knobs \ {k} : grip'[j] = grip[j]
  BY DEF HInv, HoldTyped, NoGrip
<1>2. HoldTyped'
  <2>1. grip' \in [Knobs -> [slot : Int, age : Nat]]
    BY NoHoldIsTyped DEF HInv, HoldTyped
  <2>2. hold' \in HoldType
    BY NoHoldIsTyped DEF HInv, HoldTyped
  <2> QED
    BY <2>1, <2>2 DEF HInv, HoldTyped
<1>3. GripIsTimed'
  <2> SUFFICES ASSUME NEW j \in Knobs, grip'[j].slot # Nobody
               PROVE  /\ hold' = Timed(j)' /\ grip'[j].age <= HoldTicks
                      /\ j \in pushed' /\ Live(grip[j].slot, {"HOLD"})'
    BY DEF GripIsTimed
  <2>1. j # k /\ grip'[j] = grip[j]
    BY <1>1
  <2>2. /\ hold = Timed(j) /\ grip[j].age <= HoldTicks
        /\ j \in pushed /\ Live(grip[j].slot, {"HOLD"})
    BY <2>1 DEF HInv, GripIsTimed
  <2>3. hold.pot = j
    BY <2>2 DEF Timed
  <2> QED
    BY <2>1, <2>2, <2>3 DEF Timed, Live, Is, Occupied
<1>4. TimedIsGrip'
  <2> SUFFICES ASSUME hold'.slot # Nobody, ~hold'.done
               PROVE  hold'.pot \in Knobs /\ grip'[hold'.pot].slot = hold'.slot
    BY DEF TimedIsGrip
  <2>1. hold' = hold /\ hold.pot # k
    BY DEF NoHold
  <2> QED
    BY <1>1, <2>1 DEF HInv, TimedIsGrip
<1> QED
  BY <1>2, <1>3, <1>4 DEF HInv

\* A press of a HOLD takes the clock from any other knob.
LEMMA GripTaken ==
  ASSUME HInv, NEW k \in Knobs, k \notin pushed, StartHold(k, FieldFor(k)), FieldFor(k) \in Int,
         FieldFor(k) # Nobody, Live(FieldFor(k), {"HOLD"}),
         grip' = [j \in Knobs |-> IF j = k THEN [slot |-> FieldFor(k), age |-> 0] ELSE NoGrip],
         UNCHANGED <<desc, revision>>,
         pushed' = (IF hold' = hold THEN pushed ELSE pushed \union {k}),
         surprises' \in Nat, handled' \in Int
  PROVE  HInv'
PROOF
<1>1. /\ hold'.slot = FieldFor(k) /\ hold'.pot = k /\ hold'.done = FALSE
      /\ hold'.age = 0 /\ hold'.revision = revision
  BY DEF StartHold
<1>2. k \in pushed'
  <2> SUFFICES ASSUME hold' = hold PROVE FALSE
    OBVIOUS
  <2>1. grip[k].slot # Nobody
    BY <1>1 DEF HInv, TimedIsGrip
  <2> QED
    BY <2>1 DEF HInv, GripIsTimed
<1>3. HoldTyped'
  <2>1. k \in Int /\ hold' \in HoldType
    BY Positive DEF StartHold, HInv, HoldTyped, HoldType, Knobs
  <2>2. grip' \in [Knobs -> [slot : Int, age : Nat]]
    BY NoHoldIsTyped
  <2>3. pushed' \subseteq Knobs
    BY DEF HInv, HoldTyped
  <2> QED
    BY <2>1, <2>2, <2>3 DEF HInv, HoldTyped
<1>4. GripIsTimed'
  <2> SUFFICES ASSUME NEW j \in Knobs, grip'[j].slot # Nobody
               PROVE  /\ hold' = Timed(j)' /\ grip'[j].age <= HoldTicks
                      /\ j \in pushed' /\ Live(grip[j].slot, {"HOLD"})'
    BY DEF GripIsTimed
  <2>1. j = k /\ grip'[j] = [slot |-> FieldFor(k), age |-> 0]
    BY DEF NoGrip
  <2> QED
    <3>1. hold' = Timed(j)'
      BY <2>1 DEF StartHold, Timed
    <3>2. grip'[j].age <= HoldTicks
      BY <2>1, PanelBounds DEF PanelBounds
    <3>3. Live(grip[j].slot, {"HOLD"})'
      BY <2>1 DEF Live, Is, Occupied
    <3> QED
      BY <1>2, <2>1, <3>1, <3>2, <3>3
<1>5. TimedIsGrip'
  BY <1>1 DEF TimedIsGrip
<1> QED
  BY <1>3, <1>4, <1>5 DEF HInv

\* A release.
LEMMA ReleaseKeepsHold == ASSUME HInv, NEW k \in Knobs, Release(k) PROVE HInv'
PROOF
<1>1. UNCHANGED <<desc, revision, surprises>> /\ handled' = PressOf(k) /\ PressOf(k) \in Int
  BY Positive DEF Release, Input, fields, PressOf, Knobs
<1>2. hold' = (IF hold.pot = k THEN NoHold ELSE hold) /\ grip' = [grip EXCEPT ![k] = NoGrip]
  BY DEF Release, AfterRelease
<1>3. pushed' = pushed \ {k}
  BY DEF Release
<1> QED
  BY <1>1, <1>2, <1>3, GripLost DEF HInv, HoldTyped

\* A turn.
LEMMA RotateKeepsHold ==
  ASSUME HInv, NEW k \in Turned, NEW d \in {-1, 1}, Rotate(k, d) PROVE HInv'
PROOF
<1>0. k \in Knobs
  BY PanelBounds DEF PanelBounds
<1>1. UNCHANGED <<desc, revision, surprises, pushed>> /\ handled' = TurnOf(k) /\ TurnOf(k) \in Int
  BY <1>0, Positive DEF Rotate, Stroke, Input, fields, TurnOf, Knobs
<1>2. hold' = (IF hold.pot = k /\ ~hold.done THEN NoHold ELSE hold) /\ grip' = [grip EXCEPT ![k] = NoGrip]
  BY DEF Rotate, AfterTurn
<1> QED
  BY <1>0, <1>1, <1>2, GripLost DEF HInv, HoldTyped

\* A press starts the clock exactly when it grips a HOLD.
LEMMA PushKeepsHold ==
  ASSUME Typed, OperatorIsFlat, HInv, NEW k \in Knobs, Push(k) PROVE HInv'
PROOF
<1>1. UNCHANGED <<desc, revision, surprises>> /\ handled' = PressOf(k) /\ PressOf(k) \in Int
  BY Positive DEF Push, Stroke, Input, fields, PressOf, Knobs
<1>2. k \notin pushed /\ grip' = Gripped(k)
      /\ pushed' = (IF hold' = hold THEN pushed ELSE pushed \union {k})
  BY DEF Push
<1>3. CASE mode = "SURFACE" /\ focused = Nobody /\ Live(FieldFor(k), {"HOLD"})
  <2>1. Is(FieldFor(k), Actions) /\ Live(FieldFor(k), Actions) /\ Is(FieldFor(k), {"HOLD"})
    BY <1>3 DEF Live, Is, Actions
  <2>2. FieldFor(k) \in Int /\ FieldFor(k) # Nobody
    BY <2>1, OccupiedFinite DEF Is, Nobody
  <2>3. StartHold(k, FieldFor(k))
    <3>1. CASE desc.operator
      <4>1. ~(page = 0 /\ k = Pots - 1)
        BY <2>1, <3>1, NothingUnderThePageKnob
      <4> QED
        BY <1>3, <2>1, <3>1, <4>1 DEF Push, PushOperator, Trigger
    <3>2. CASE ~desc.operator
      BY <1>3, <2>1, <3>2 DEF Push, PushOverview, Trigger
    <3> QED
      BY <3>1, <3>2
  <2> QED
    BY <1>1, <1>2, <1>3, <2>2, <2>3, GripTaken DEF Gripped, HInv, HoldTyped
<1>4. CASE ~(mode = "SURFACE" /\ focused = Nobody /\ Live(FieldFor(k), {"HOLD"}))
  <2>1. hold' = hold
    <3>1. CASE mode # "SURFACE"
      BY <3>1 DEF Push
    <3>2. CASE mode = "SURFACE" /\ desc.operator
      BY <1>4, <3>2 DEF Push, PushOperator, Trigger, OperatorIsFlat, Live, Is
    <3>3. CASE mode = "SURFACE" /\ ~desc.operator /\ focused # Nobody
      BY <3>3 DEF Push, PushDrilled
    <3>4. CASE mode = "SURFACE" /\ ~desc.operator /\ focused = Nobody
      BY <1>4, <3>4 DEF Push, PushOverview, Trigger, Live, Is
    <3> QED
      BY <3>1, <3>2, <3>3, <3>4
  <2> QED
    BY <1>1, <1>2, <1>4, <2>1, HoldUntouched DEF Gripped, HInv, HoldTyped
<1> QED
  BY <1>3, <1>4

\* A tick ages clock and grip alike, or ends both.
LEMMA TickKeepsHold == HInv /\ Tick => HInv'
PROOF
<1> SUFFICES ASSUME HInv, Tick PROVE HInv'
  OBVIOUS
<1>1. UNCHANGED <<desc, revision, mode, page, focused, pushed, surprises>> /\ handled' = Rest
  BY DEF Tick, fields, bounds
<1>2. TickHold /\ grip' = [k \in Knobs |-> Aged(k)]
  BY DEF Tick
<1>3. \A k \in Knobs : grip'[k] = NoGrip \/ grip'[k] = [grip[k] EXCEPT !.age = @ + 1]
  BY <1>2 DEF Aged
<1>4. hold' \in HoldType
  <2>1. hold' \in {hold, NoHold, [hold EXCEPT !.done = TRUE], [hold EXCEPT !.age = @ + 1]}
    BY <1>2 DEF TickHold
  <2> QED
    <3>1. hold \in HoldType /\ hold.age + 1 \in Nat
      BY DEF HInv, HoldTyped, HoldType
    <3>2. [hold EXCEPT !.done = TRUE] \in HoldType /\ [hold EXCEPT !.age = @ + 1] \in HoldType
      BY <3>1 DEF HoldType
    <3> QED
      BY <2>1, <3>1, <3>2, NoHoldIsTyped
<1>5. HoldTyped'
  <2>1. grip' \in [Knobs -> [slot : Int, age : Nat]]
    BY <1>2, <1>3 DEF HInv, HoldTyped, NoGrip, Nobody
  <2> QED
    BY <1>1, <1>4, <2>1 DEF HInv, HoldTyped, Rest
<1>6. ASSUME NEW k \in Knobs, grip[k].slot # Nobody
      PROVE  /\ StillHeld <=> mode = "SURFACE" /\ focused = Nobody /\ FieldFor(k) = grip[k].slot
             /\ hold.slot # Nobody /\ ~hold.done /\ hold.age = grip[k].age /\ hold.pot = k
  BY <1>6 DEF HInv, GripIsTimed, Timed, StillHeld
<1>7. GripIsTimed'
  <2> SUFFICES ASSUME NEW k \in Knobs, grip'[k].slot # Nobody
               PROVE  /\ hold' = Timed(k)' /\ grip'[k].age <= HoldTicks
                      /\ k \in pushed' /\ Live(grip[k].slot, {"HOLD"})'
    BY DEF GripIsTimed
  <2>1. /\ Aged(k) = [grip[k] EXCEPT !.age = @ + 1] /\ grip'[k] = Aged(k)
        /\ mode = "SURFACE" /\ focused = Nobody /\ grip[k].slot = FieldFor(k)
        /\ grip[k].slot # Nobody /\ grip[k].age # HoldTicks
    BY <1>2 DEF Aged, NoGrip
  <2>2. /\ hold = Timed(k) /\ grip[k].age <= HoldTicks
        /\ k \in pushed /\ Live(grip[k].slot, {"HOLD"})
    BY <2>1 DEF HInv, GripIsTimed
  <2>3. grip'[k].slot = grip[k].slot /\ grip'[k].age = grip[k].age + 1 /\ grip[k].age \in Nat
    BY <2>1 DEF HInv, HoldTyped
  <2>4. hold' = [hold EXCEPT !.age = @ + 1]
    BY <1>2, <1>6, <2>1, <2>2, <2>3, PanelBounds DEF TickHold, PanelBounds
  <2>5. hold' = Timed(k)'
    BY <1>1, <2>2, <2>3, <2>4 DEF Timed
  <2>6. grip'[k].age <= HoldTicks
    BY <2>1, <2>2, <2>3, PanelBounds DEF PanelBounds
  <2>7. Live(grip[k].slot, {"HOLD"})'
    BY <1>1, <2>2, <2>3 DEF Live, Is, Occupied
  <2> QED
    BY <1>1, <2>2, <2>5, <2>6, <2>7
<1>8. TimedIsGrip'
  <2> SUFFICES ASSUME hold'.slot # Nobody, ~hold'.done
               PROVE  hold'.pot \in Knobs /\ grip'[hold'.pot].slot = hold'.slot
    BY DEF TimedIsGrip
  <2>1. hold.slot # Nobody /\ ~hold.done
    BY <1>2 DEF TickHold, NoHold, HInv, HoldTyped
  <2>2. hold.pot \in Knobs /\ grip[hold.pot].slot = hold.slot
    BY <2>1 DEF HInv, TimedIsGrip
  <2>3. StillHeld /\ ~(hold.age >= HoldTicks) /\ hold' = [hold EXCEPT !.age = @ + 1]
    BY <1>2, <2>1 DEF TickHold, NoHold, HInv, HoldTyped, HoldType
  <2>4. grip'[hold.pot] = [grip[hold.pot] EXCEPT !.age = @ + 1]
    BY <1>2, <1>6, <2>1, <2>2, <2>3, PanelBounds DEF Aged, PanelBounds, HInv, HoldTyped
  <2> QED
    BY <2>2, <2>3, <2>4 DEF HInv, HoldTyped
<1> QED
  BY <1>5, <1>7, <1>8 DEF HInv

\* What the host sends: a descriptor ends every hold, the rest none.
LEMMA HostKeepsHold == HInv /\ Host => HInv'
PROOF
<1> SUFFICES ASSUME HInv, Host PROVE HInv'
  OBVIOUS
<1> USE DEF fields, hand, bounds
<1>1. surprises' \in Nat /\ handled' = handled
  BY DEF HInv, HoldTyped, Host, Surprise, Publish, Clear, Reveal, Highlight, HostMoves,
     HostChooses, HearDefaults, Deliver
<1>2. ASSUME hold' = NoHold, grip' = [k \in Knobs |-> NoGrip], revision' \in Nat,
             UNCHANGED pushed
      PROVE  HInv'
  <2>1. HoldTyped'
    BY <1>1, <1>2, NoHoldIsTyped DEF HInv, HoldTyped
  <2> QED
    BY <1>2, <2>1 DEF HInv, GripIsTimed, TimedIsGrip, NoHold, NoGrip
<1>3. ASSUME NEW d \in Surfaces, Publish(d) PROVE HInv'
  BY <1>2, <1>3 DEF Publish, Described, SurfaceChanged, HInv, HoldTyped
<1>4. ASSUME Clear PROVE HInv'
  BY <1>2, <1>4 DEF Clear, Described, SurfaceChanged
<1>5. ASSUME UNCHANGED <<desc, revision, hold, grip, pushed>> PROVE HInv'
  BY <1>1, <1>5, HoldUntouched DEF HInv, HoldTyped
<1>6. ASSUME ~\E d \in Surfaces : Publish(d), ~Clear
      PROVE  UNCHANGED <<desc, revision, hold, grip, pushed>>
  BY <1>6 DEF Host, Reveal, Highlight, HostMoves, HostChooses, HearDefaults, Deliver
<1> QED
  BY <1>3, <1>4, <1>5, <1>6

\* Every step keeps the clock on the grip.
LEMMA NextKeepsHold == Typed /\ OperatorIsFlat /\ HInv /\ [Next]_vars => HInv'
PROOF
<1> SUFFICES ASSUME Typed, OperatorIsFlat, HInv, [Next]_vars PROVE HInv'
  OBVIOUS
<1>1. ASSUME NEW i \in DOMAIN Buttons, Press(i) PROVE HInv'
  <2>1. handled' = 2 * Pots + i /\ i \in 1..6
    BY <1>1 DEF Press, ButtonOf, Buttons
  <2> QED
    BY <1>1, <2>1, HoldUntouched, Positive DEF Press, HInv, HoldTyped
<1>2. ASSUME LetGo PROVE HInv'
  <2>1. handled' = 2 * Pots + 6
    BY <1>2 DEF LetGo, Input, ButtonOf, Buttons
  <2> QED
    BY <1>2, <2>1, HoldUntouched, Positive DEF LetGo, Input, fields, HInv, HoldTyped
<1>3. CASE UNCHANGED vars
  BY <1>3, HoldUntouched DEF vars, fields, hand, bounds, HInv, HoldTyped
<1> QED
  BY <1>1, <1>2, <1>3, PushKeepsHold, ReleaseKeepsHold, RotateKeepsHold, TickKeepsHold,
     HostKeepsHold
  DEF Next, Hand

\* Only a tick finds a HOLD held for long enough.
LEMMA OnlyTheTick ==
  ASSUME [Next]_vars, ~Tick, surprises \in Nat, NEW s, s # Nobody, HeldLongEnough(s)
  PROVE  FALSE
PROOF
<1>1. handled' = -1 /\ surprises' = surprises
  BY DEF HeldLongEnough, Rest
<1>2. PICK k \in pushed : grip[k] = [slot |-> s, age |-> HoldTicks] /\ grip'[k] = NoGrip
  BY DEF HeldLongEnough
<1>3. grip' # grip
  BY <1>2 DEF NoGrip
<1>4. Pots \in Nat /\ Knobs \subseteq Nat /\ Turned \subseteq Nat
  BY Positive, PanelBounds DEF PanelBounds, Knobs
<1>5. CASE Hand
  <2>1. ASSUME NEW j \in Knobs, Push(j) \/ Release(j) PROVE FALSE
    BY <1>1, <1>4, <2>1 DEF Push, Release, Stroke, Input, PressOf
  <2>2. ASSUME NEW j \in Turned, NEW d \in {-1, 1}, Rotate(j, d) PROVE FALSE
    BY <1>1, <1>4, <2>2 DEF Rotate, Stroke, Input, TurnOf
  <2>3. ASSUME NEW i \in DOMAIN Buttons, Press(i) PROVE FALSE
    BY <1>3, <2>3 DEF Press
  <2>4. ASSUME LetGo PROVE FALSE
    BY <1>3, <2>4 DEF LetGo
  <2> QED
    BY <1>5, <2>1, <2>2, <2>3, <2>4 DEF Hand
<1>6. CASE Host
  <2>1. HearDefaults \/ Deliver \/ surprises' = surprises + 1
    BY <1>6 DEF Host, Surprise, Publish, Clear, Reveal, Highlight, HostMoves, HostChooses
  <2>2. ~HearDefaults /\ ~Deliver
    BY <1>3 DEF HearDefaults, Deliver, hand
  <2> QED
    BY <1>1, <2>1, <2>2
<1>7. CASE UNCHANGED vars
  BY <1>3, <1>7 DEF vars, hand
<1> QED
  BY <1>5, <1>6, <1>7 DEF Next

\* A tick fires a HOLD exactly when it finds it held for long enough.
LEMMA TickFiresWhenHeld ==
  ASSUME HInv, IsMail, Tick, NEW s \in Occupied, Live(s, {"HOLD"}), Nobody \notin Occupied
  PROVE  Fires(s) <=> HeldLongEnough(s)
PROOF
<1>1. /\ handled' = Rest /\ surprises' = surprises /\ TickHold
      /\ grip' = [k \in Knobs |-> Aged(k)]
  BY DEF Tick, bounds
<1>2. ASSUME UNCHANGED outbox PROVE ~Fires(s)
  BY <1>2 DEF IsMail, Fires
<1>3. ASSUME Fires(s) PROVE HeldLongEnough(s)
  <2>1. /\ hold.slot # Nobody /\ ~hold.done /\ StillHeld /\ hold.age >= HoldTicks
        /\ SurfActivate(hold.slot) /\ ~UNCHANGED outbox
    BY <1>1, <1>2, <1>3 DEF TickHold
  <2>2. hold.slot = s
    <3>1. outbox' = Append(outbox, Report("ACTIVATE", hold.slot, None))
      BY <2>1 DEF SurfActivate, Activate
    <3> DEFINE m == Report("ACTIVATE", hold.slot, None)
    <3>2. m.slot = hold.slot
      BY DEF Report
    <3> HIDE DEF m
    <3>3. PICK S : outbox \in Seq(S)
      BY DEF IsMail
    <3>4. outbox \in Seq(S \union {m})
      BY <3>3
    <3>5. outbox'[Len(outbox')] = m
      BY <3>1, <3>4 DEF m
    <3> QED
      BY <1>3, <3>2, <3>5 DEF Fires
  <2>3. hold.pot \in Knobs /\ grip[hold.pot].slot = s
    BY <2>1, <2>2 DEF HInv, TimedIsGrip
  <2>4. hold = Timed(hold.pot) /\ grip[hold.pot].age <= HoldTicks /\ hold.pot \in pushed
    BY <2>1, <2>2, <2>3 DEF HInv, GripIsTimed
  <2>5. grip[hold.pot].age = HoldTicks
    BY <2>1, <2>3, <2>4, PanelBounds DEF HInv, HoldTyped, Timed, PanelBounds
  <2>6. grip[hold.pot] = [slot |-> s, age |-> HoldTicks]
    BY <2>3, <2>5 DEF HInv, HoldTyped
  <2>7. grip'[hold.pot] = NoGrip
    BY <1>1, <2>3, <2>5 DEF Aged
  <2> QED
    BY <1>1, <2>1, <2>2, <2>4, <2>6, <2>7 DEF HeldLongEnough, StillHeld
<1>4. ASSUME HeldLongEnough(s) PROVE Fires(s)
  <2>1. mode = "SURFACE" /\ focused = Nobody
    BY <1>4 DEF HeldLongEnough
  <2>2. PICK k \in pushed : /\ grip[k] = [slot |-> s, age |-> HoldTicks] /\ grip'[k] = NoGrip
                            /\ FieldFor(k) = s
    BY <1>4 DEF HeldLongEnough
  <2>3. k \in Knobs
    BY DEF HInv, HoldTyped
  <2>4. hold = Timed(k) /\ Live(s, {"HOLD"})
    BY <2>2, <2>3 DEF HInv, GripIsTimed
  <2>5. hold.slot = s /\ hold.pot = k /\ ~hold.done /\ hold.age = HoldTicks /\ hold.revision = revision
    BY <2>2, <2>4 DEF Timed
  <2>6. StillHeld
    BY <2>1, <2>2, <2>5 DEF StillHeld
  <2>7. hold.age >= HoldTicks
    BY <2>5, PanelBounds DEF PanelBounds
  <2>8. SurfActivate(s)
    BY <1>1, <2>5, <2>6, <2>7 DEF TickHold
  <2> QED
    BY <2>4, <2>8, LiveIsFired DEF Live, Is, Actions
<1> QED
  BY <1>3, <1>4

\* A HOLD is sent exactly when its knob has been held on it for EMP_HOLD_MS
\* (docs/protocol.md, EMP/1.7), for every page size, every set of descriptors
\* and every length of the hold.
THEOREM HoldFiresWhenHeldHolds == Spec => HoldFiresWhenHeld
PROOF
<1> DEFINE All == IInv /\ OperatorIsFlat /\ IsMail /\ HInv
           Exactly == \A s \in Occupied : Live(s, {"HOLD"}) => (Fires(s) <=> HeldLongEnough(s))
<1>1. Init => All
  BY InitAll, InitHInv
<1>2. All /\ [Next]_vars => All'
  BY NextKeeps, FlatStays, NextMoves, MailStays, NextKeepsHold DEF IInv
<1>3. All /\ [Next]_vars => Exactly
  <2> SUFFICES ASSUME All, [Next]_vars, NEW s \in Occupied, Live(s, {"HOLD"})
               PROVE  Fires(s) <=> HeldLongEnough(s)
    OBVIOUS
  <2>1. Nobody \notin Occupied
    BY OccupiedFinite DEF IInv, Nobody
  <2>2. CASE Tick
    BY <2>1, <2>2, TickFiresWhenHeld
  <2>3. CASE ~Tick
    <3>1. ~Fires(s)
      BY <2>3, NextQuiet, QuietIsSilent DEF IInv, Silent
    <3>2. ~HeldLongEnough(s)
      BY <2>1, <2>3, OnlyTheTick DEF HInv, HoldTyped
    <3> QED
      BY <3>1, <3>2
  <2> QED
    BY <2>2, <2>3
<1> QED
  <2> HIDE DEF All
  <2>1. All /\ [Next]_vars => [Exactly]_vars
    BY <1>3
  <2> HIDE DEF Exactly
  <2>2. Spec => [][Exactly]_vars
    BY <1>1, <1>2, <2>1, PTL DEF Spec
  <2> QED
    BY <2>2 DEF HoldFiresWhenHeld, Exactly

-----------------------------------------------------------------------------
(* Histories: what each operation on a ring makes of its line of values.    *)

\* A ring with its entries, its cursor among them, and a timer.
Rings == [0..(HistDepth - 1) -> Numbers \union {Zeroed}]
HistoryType == [ring : Rings, count : Nat, pos : Nat, pending : BOOLEAN, due : Nat]
Sound(h) ==
  /\ h.count <= HistDepth /\ h.pos < HistDepth
  /\ h.count = 0 => h.pos = 0 /\ ~h.pending
  /\ h.count # 0 => h.pos < h.count
  /\ \A i \in Nat : i < h.count => h.ring[i] \in Numbers
Histories == {h \in HistoryType : Sound(h)}

\* The line of values of a ring that something was written to.
Past(h) == [i \in 1..h.pos |-> h.ring[i - 1]]
Future(h) == [i \in 1..(h.count - 1 - h.pos) |-> h.ring[h.pos + i]]
Line(h) == [past |-> Past(h), mark |-> Present(h), future |-> Future(h)]

\* What a history is made of.
LEMMA HistoryIs ==
  ASSUME NEW h \in Histories
  PROVE  /\ h \in HistoryType /\ h.ring \in Rings
         /\ h.count \in Nat /\ h.count <= HistDepth /\ h.pos \in Nat /\ h.pos < HistDepth
         /\ h.pending \in BOOLEAN /\ h.due \in Nat
         /\ h.count = 0 => h.pos = 0 /\ ~h.pending
         /\ h.count # 0 => h.pos < h.count
         /\ \A i \in Nat : i < h.count => h.ring[i] \in Numbers
         /\ HistDepth \in Nat \ {0} /\ SettleTicks \in Nat
BY HistoryAssumption DEF Histories, Sound, HistoryType, HistoryAssumption

\* The past and the future of a history are sequences.
LEMMA LineIs ==
  ASSUME NEW h \in Histories, h.count # 0
  PROVE  /\ Past(h) \in Seq(Numbers) /\ Len(Past(h)) = h.pos
         /\ \A i \in 1..h.pos : Past(h)[i] = h.ring[i - 1]
         /\ Future(h) \in Seq(Numbers) /\ Len(Future(h)) = h.count - 1 - h.pos
         /\ \A i \in 1..(h.count - 1 - h.pos) : Future(h)[i] = h.ring[h.pos + i]
         /\ Present(h) \in Numbers
PROOF
<1> USE HistoryIs
<1>1. h.count - 1 - h.pos \in Nat
  OBVIOUS
<1>2. \A i \in 1..h.pos : i - 1 \in Nat /\ i - 1 < h.count
  OBVIOUS
<1>3. \A i \in 1..(h.count - 1 - h.pos) : h.pos + i \in Nat /\ h.pos + i < h.count
  BY <1>1
<1>4. Past(h) \in [1..h.pos -> Numbers]
  BY <1>2 DEF Past
<1>5. Future(h) \in [1..(h.count - 1 - h.pos) -> Numbers]
  BY <1>3 DEF Future
<1>6. Past(h) \in Seq(Numbers) /\ Len(Past(h)) = h.pos
  BY <1>4
<1>7. Future(h) \in Seq(Numbers) /\ Len(Future(h)) = h.count - 1 - h.pos
  BY <1>1, <1>5
<1> QED
  BY <1>6, <1>7 DEF Past, Future, Present

\* A history with other entries and another cursor.
Wrote(f, h, r, c, p) == f = [h EXCEPT !.ring = r, !.count = c, !.pos = p]

\* Nothing else of it is written.
LEMMA Rewritten ==
  ASSUME NEW h \in HistoryType, NEW r \in Rings, NEW c \in Nat, NEW p \in Nat,
         NEW f, Wrote(f, h, r, c, p)
  PROVE  /\ f \in HistoryType /\ f.ring = r /\ f.count = c /\ f.pos = p
         /\ f.pending = h.pending /\ f.due = h.due
BY DEF HistoryType, Wrote

\* Writing one entry is writing the ring with that entry.
LEMMA OneEntry ==
  ASSUME NEW h \in HistoryType, NEW i, NEW v, NEW c, NEW p
  PROVE  [h EXCEPT !.ring[i] = v, !.count = c, !.pos = p]
           = [h EXCEPT !.ring = [h.ring EXCEPT ![i] = v], !.count = c, !.pos = p]
BY DEF HistoryType

\* What a push writes: the ring with the value at the cursor.
IsPushed(g, h, r, p, v) ==
  /\ g \in HistoryType /\ g.ring = r /\ g.count = p + 1 /\ g.pos = p
  /\ g.pending = h.pending /\ r \in Rings /\ p \in Nat /\ p < HistDepth
  /\ r[p] = v

\* A push that leaves numbers behind the cursor leaves a history.
LEMMA PushedIsHistory ==
  ASSUME NEW h \in Histories, NEW v \in Numbers, NEW r, NEW p, NEW g, IsPushed(g, h, r, p, v),
         \A i \in Nat : i < p => r[i] \in Numbers
  PROVE  /\ g \in Histories /\ g.count # 0 /\ g.pending = h.pending /\ Present(g) = v
         /\ Past(g) \in Seq(Numbers) /\ Len(Past(g)) = p
         /\ \A i \in 1..p : Past(g)[i] = r[i - 1]
         /\ Future(g) = <<>>
PROOF
<1>1. /\ g \in HistoryType /\ g.ring = r /\ g.count = p + 1 /\ g.pos = p
      /\ g.pending = h.pending /\ r \in Rings /\ p \in Nat /\ p < HistDepth /\ r[p] = v
  BY DEF IsPushed
<1>2. \A i \in Nat : i < p + 1 => r[i] \in Numbers
  BY <1>1
<1>3. HistDepth \in Nat \ {0}
  BY HistoryIs
<1>4. g \in Histories
  BY <1>1, <1>2, <1>3 DEF Histories, Sound
<1>5. g.count # 0 /\ g.count - 1 - g.pos = 0
  BY <1>1
<1>6. Future(g) \in Seq(Numbers) /\ Len(Future(g)) = 0
  BY <1>4, <1>5, LineIs
<1>7. Future(g) = <<>>
  BY <1>6, EmptySeq
<1> QED
  BY <1>1, <1>4, <1>5, <1>7, LineIs DEF Present

\* An entry pushed on an empty ring begins the line.
LEMMA PushedFirst ==
  ASSUME NEW h \in Histories, NEW v \in Numbers, h.count = 0, NEW s
  PROVE  LET g == PushEntry(h, v)
         IN  /\ g \in Histories /\ g.count # 0 /\ g.pending = h.pending
             /\ Line(g) = U(s)!Blank(v)
PROOF
<1>0. /\ h \in HistoryType /\ h.ring \in Rings
      /\ h.count \in Nat /\ h.count <= HistDepth /\ h.pos \in Nat /\ h.pos < HistDepth
      /\ h.count = 0 => h.pos = 0 /\ ~h.pending
      /\ h.count # 0 => h.pos < h.count
      /\ \A i \in Nat : i < h.count => h.ring[i] \in Numbers
      /\ HistDepth \in Nat \ {0}
  BY HistoryIs
<1> USE <1>0
<1> DEFINE g == PushEntry(h, v)
           r == [h.ring EXCEPT ![0] = v]
<1>1. g = [h EXCEPT !.ring[0] = v, !.count = 1, !.pos = 0]
  BY DEF PushEntry, Unchanged
<1>2. r \in Rings /\ r[0] = v
  BY DEF Rings
<1>3. g = [h EXCEPT !.ring = r, !.count = 1, !.pos = 0]
  BY <1>1, OneEntry
<1> HIDE DEF r, g
<1>4. IsPushed(g, h, r, 0, v)
  <2>1. PICK c \in Nat, p \in Nat : c = 1 /\ p = 0
    OBVIOUS
  <2>2. Wrote(g, h, r, c, p)
    BY <1>3, <2>1 DEF Wrote
  <2>3. g \in HistoryType /\ g.ring = r /\ g.count = c /\ g.pos = p /\ g.pending = h.pending
    BY <1>2, <2>2, Rewritten
  <2> QED
    BY <1>2, <2>1, <2>3 DEF IsPushed
<1>5. /\ g \in Histories /\ g.count # 0 /\ g.pending = h.pending /\ Present(g) = v
      /\ Past(g) \in Seq(Numbers) /\ Len(Past(g)) = 0 /\ Future(g) = <<>>
  <2>1. PICK p : p = 0
    OBVIOUS
  <2>2. IsPushed(g, h, r, p, v) /\ \A i \in Nat : i < p => r[i] \in Numbers
    BY <1>4, <2>1
  <2> QED
    BY <2>1, <2>2, PushedIsHistory
<1>6. Past(g) = <<>>
  BY <1>5, EmptySeq
<1> QED
  BY <1>5, <1>6 DEF Line, U!Blank, g

\* What a push writes on the others: behind the cursor, or at the end of a
\* ring that slid.
LEMMA PushedWrites ==
  ASSUME NEW h \in Histories, NEW v \in Numbers, h.count # 0, v # Present(h)
  PROVE  \E r, p :
           /\ IsPushed(PushEntry(h, v), h, r, p, v)
           /\ h.pos + 1 < HistDepth =>
                p = h.pos + 1 /\ \A i \in Nat : i < p => r[i] = h.ring[i]
           /\ ~(h.pos + 1 < HistDepth) =>
                p = h.pos /\ \A i \in Nat : i < p => r[i] = h.ring[i + 1]
PROOF
<1>0. /\ h \in HistoryType /\ h.ring \in Rings
      /\ h.count \in Nat /\ h.count <= HistDepth /\ h.pos \in Nat /\ h.pos < HistDepth
      /\ h.count = 0 => h.pos = 0 /\ ~h.pending
      /\ h.count # 0 => h.pos < h.count
      /\ \A i \in Nat : i < h.count => h.ring[i] \in Numbers
      /\ HistDepth \in Nat \ {0}
  BY HistoryIs
<1> USE <1>0
<1> DEFINE g == PushEntry(h, v)
<1>1. g = Appended(h, v)
  BY DEF PushEntry, Unchanged, Present
<1>2. CASE h.pos + 1 < HistDepth
  <2> DEFINE r == [h.ring EXCEPT ![h.pos + 1] = v]
  <2>1. PICK p \in Nat : p = h.pos + 1 /\ p < HistDepth
    BY <1>2
  <2>2. r \in Rings /\ r[p] = v /\ \A i \in Nat : i < p => r[i] = h.ring[i]
    BY <2>1 DEF Rings
  <2>3. g = [h EXCEPT !.ring = r, !.count = h.pos + 2, !.pos = h.pos + 1]
    BY <1>1, <1>2, OneEntry DEF Appended
  <2>4. PICK c \in Nat : c = h.pos + 2 /\ c = p + 1
    BY <2>1
  <2> HIDE DEF r, g
  <2>5. Wrote(g, h, r, c, p)
    BY <2>1, <2>3, <2>4 DEF Wrote
  <2>6. g \in HistoryType /\ g.ring = r /\ g.count = c /\ g.pos = p /\ g.pending = h.pending
    BY <2>2, <2>5, Rewritten
  <2>7. IsPushed(g, h, r, p, v)
    BY <2>1, <2>2, <2>4, <2>6 DEF IsPushed
  <2> QED
    BY <1>2, <2>1, <2>2, <2>7 DEF g
<1>3. CASE ~(h.pos + 1 < HistDepth)
  <2> DEFINE r == [i \in 0..(HistDepth - 1) |-> IF i = HistDepth - 1 THEN v ELSE h.ring[i + 1]]
  <2>1. PICK p \in Nat : p = h.pos /\ p = HistDepth - 1
    BY <1>3
  <2>2. r \in Rings /\ r[p] = v /\ \A i \in Nat : i < p => r[i] = h.ring[i + 1]
    BY <2>1 DEF Rings
  <2>3. DOMAIN h.ring = 0..(HistDepth - 1)
    BY DEF Rings
  <2>4. g = [h EXCEPT !.ring = r, !.count = HistDepth, !.pos = HistDepth - 1]
    BY <1>1, <1>3, <2>3 DEF Appended
  <2> HIDE DEF r, g
  <2>5. PICK c \in Nat : c = HistDepth /\ c = p + 1
    BY <2>1
  <2>6. Wrote(g, h, r, c, p)
    BY <2>1, <2>4, <2>5 DEF Wrote
  <2>7. g \in HistoryType /\ g.ring = r /\ g.count = c /\ g.pos = p /\ g.pending = h.pending
    BY <2>2, <2>6, Rewritten
  <2>8. IsPushed(g, h, r, p, v)
    BY <2>1, <2>2, <2>5, <2>7 DEF IsPushed
  <2> QED
    BY <1>3, <2>1, <2>2, <2>8 DEF g
<1> QED
  BY <1>2, <1>3

\* An entry pushed on the others drops what could be redone, and the oldest
\* entry when the ring is full.
LEMMA PushedNext ==
  ASSUME NEW h \in Histories, NEW v \in Numbers, h.count # 0, v # Present(h), NEW s
  PROVE  LET g == PushEntry(h, v)
         IN  /\ g \in Histories /\ g.count # 0 /\ g.pending = h.pending
             /\ Line(g) = U(s)!Settled(Line(h), v)
PROOF
<1>0. /\ h \in HistoryType /\ h.ring \in Rings
      /\ h.count \in Nat /\ h.count <= HistDepth /\ h.pos \in Nat /\ h.pos < HistDepth
      /\ h.count = 0 => h.pos = 0 /\ ~h.pending
      /\ h.count # 0 => h.pos < h.count
      /\ \A i \in Nat : i < h.count => h.ring[i] \in Numbers
      /\ HistDepth \in Nat \ {0}
  BY HistoryIs
<1> USE <1>0
<1> DEFINE g == PushEntry(h, v)
           room == h.pos + 1 < HistDepth
<1>1. PICK r, p :
        /\ IsPushed(g, h, r, p, v)
        /\ room => p = h.pos + 1 /\ \A i \in Nat : i < p => r[i] = h.ring[i]
        /\ ~room => p = h.pos /\ \A i \in Nat : i < p => r[i] = h.ring[i + 1]
  BY PushedWrites
<1> HIDE DEF g
<1>2. p \in Nat /\ \A i \in Nat : i < p => r[i] \in Numbers
  BY <1>1 DEF IsPushed
<1>3. /\ g \in Histories /\ g.count # 0 /\ g.pending = h.pending /\ Present(g) = v
      /\ Past(g) \in Seq(Numbers) /\ Len(Past(g)) = p
      /\ \A i \in 1..p : Past(g)[i] = r[i - 1]
      /\ Future(g) = <<>>
  BY <1>1, <1>2, PushedIsHistory
<1>4. /\ Past(h) \in Seq(Numbers) /\ Len(Past(h)) = h.pos
      /\ \A i \in 1..h.pos : Past(h)[i] = h.ring[i - 1]
      /\ Present(h) \in Numbers /\ Present(h) = h.ring[h.pos]
  BY LineIs DEF Present
<1> DEFINE longer == Append(Past(h), Present(h))
<1>5. /\ longer \in Seq(Numbers) /\ Len(longer) = h.pos + 1
      /\ \A i \in 1..(h.pos + 1) : longer[i] = h.ring[i - 1]
  BY <1>4, AppendProperties
<1> HIDE DEF longer
<1>6. Past(g) = U(s)!Recent(longer)
  <2>1. CASE room
    <3>1. p = h.pos + 1 /\ U(s)!Recent(longer) = longer
      BY <1>1, <1>5, <2>1 DEF U!Recent
    <3>2. \A i \in 1..p : Past(g)[i] = longer[i]
      BY <1>1, <1>2, <1>3, <1>5, <2>1, <3>1
    <3> QED
      BY <1>3, <1>5, <3>1, <3>2, SeqEqual
  <2>2. CASE ~room
    <3>1. p = h.pos /\ U(s)!Recent(longer) = Tail(longer)
      BY <1>1, <1>5, <2>2 DEF U!Recent
    <3>2. /\ Tail(longer) \in Seq(Numbers) /\ Len(Tail(longer)) = p
          /\ \A i \in 1..p : Tail(longer)[i] = longer[i + 1]
      BY <1>5, <3>1, HeadTailProperties
    <3>3. \A i \in 1..p : Past(g)[i] = Tail(longer)[i]
      BY <1>1, <1>2, <1>3, <1>5, <2>2, <3>1, <3>2
    <3>4. PICK a, b \in Seq(Numbers) : a = Past(g) /\ b = Tail(longer)
      BY <1>3, <3>2
    <3>5. Len(a) = Len(b) /\ \A i \in 1..Len(a) : a[i] = b[i]
      BY <1>3, <3>2, <3>3, <3>4
    <3> QED
      BY <3>1, <3>4, <3>5, SeqEqual
  <2> QED
    BY <2>1, <2>2
<1> QED
  BY <1>3, <1>6 DEF Line, U!Settled, longer, g

\* So a push settles the line on a value, or begins it.
LEMMA Pushed ==
  ASSUME NEW h \in Histories, NEW v \in Numbers, NEW s
  PROVE  LET g == PushEntry(h, v)
         IN  /\ g \in Histories /\ g.count # 0 /\ g.pending = h.pending
             /\ Line(g) = IF h.count = 0 THEN U(s)!Blank(v) ELSE U(s)!Settled(Line(h), v)
PROOF
<1>1. CASE h.count = 0
  BY <1>1, PushedFirst
<1>2. CASE h.count # 0 /\ v # Present(h)
  BY <1>2, PushedNext
<1>3. CASE h.count # 0 /\ v = Present(h)
  BY <1>3 DEF PushEntry, Unchanged, Present, Line, U!Settled
<1> QED
  BY <1>1, <1>2, <1>3

\* A history with another timer and flag.
Flags(g, f, b, d) == g = [f EXCEPT !.pending = b, !.due = d]

\* Timers and flags do not change the line.
LEMMA Flagged ==
  ASSUME NEW f \in Histories, f.count # 0, NEW b \in BOOLEAN, NEW d \in Nat, NEW g, Flags(g, f, b, d)
  PROVE  g \in Histories /\ g.count # 0 /\ g.pending = b /\ Line(g) = Line(f)
PROOF
<1>1. /\ g \in HistoryType /\ g.ring = f.ring /\ g.count = f.count /\ g.pos = f.pos
      /\ g.pending = b /\ Sound(f)
  BY DEF Histories, HistoryType, Flags
<1>2. Sound(g)
  BY <1>1 DEF Sound
<1>3. Line(g) = Line(f)
  BY <1>1 DEF Line, Past, Future, Present
<1> QED
  BY <1>1, <1>2, <1>3 DEF Histories

\* A hand's change opens an adjustment, and begins the line.
LEMMA TouchedIs ==
  ASSUME NEW h \in Histories, NEW v \in Numbers, NEW s
  PROVE  LET g == Touched(h, v)
         IN  /\ g \in Histories /\ g.count # 0 /\ g.pending = TRUE
             /\ Line(g) = IF h.count = 0 THEN U(s)!Blank(v) ELSE Line(h)
PROOF
<1> DEFINE f == IF h.count = 0 THEN PushEntry(h, v) ELSE h
<1>1. /\ f \in Histories /\ f.count # 0
      /\ Line(f) = IF h.count = 0 THEN U(s)!Blank(v) ELSE Line(h)
  BY Pushed
<1>2. Touched(h, v) = [f EXCEPT !.pending = TRUE, !.due = SettleTicks]
  BY DEF Touched
<1>3. PICK b \in BOOLEAN, d \in Nat : b = TRUE /\ d = SettleTicks
  BY HistoryAssumption DEF HistoryAssumption
<1> HIDE DEF f
<1>4. Flags(Touched(h, v), f, b, d)
  BY <1>2, <1>3 DEF Flags
<1> QED
  BY <1>1, <1>3, <1>4, Flagged

\* The end of an adjustment settles the line.
LEMMA CommitIs ==
  ASSUME NEW h \in Histories, NEW v \in Numbers, NEW s
  PROVE  LET g == Commit(h, v)
         IN  /\ g \in Histories /\ ~g.pending /\ (g.count = 0 <=> h.count = 0)
             /\ h.count # 0 => Line(g) = IF h.pending THEN U(s)!Settled(Line(h), v) ELSE Line(h)
PROOF
<1>1. CASE ~h.pending
  BY <1>1 DEF Commit
<1>2. CASE h.pending
  <2> DEFINE f == [h EXCEPT !.pending = FALSE]
  <2>1. /\ f \in HistoryType /\ f.ring = h.ring /\ f.count = h.count /\ f.pos = h.pos
        /\ f.pending = FALSE /\ Sound(h) /\ h.count # 0
    BY <1>2 DEF Histories, HistoryType, Sound
  <2>2. Commit(h, v) = PushEntry(f, v)
    BY <1>2 DEF Commit
  <2> HIDE DEF f
  <2>3. Sound(f) /\ f \in Histories
    BY <2>1 DEF Sound, Histories
  <2>4. Line(f) = Line(h)
    BY <2>1 DEF Line, Past, Future, Present
  <2> QED
    BY <1>2, <2>1, <2>2, <2>3, <2>4, Pushed
<1> QED
  BY <1>1, <1>2, HistoryIs

\* A tick counts, or ends the adjustment.
LEMMA TickedIs ==
  ASSUME NEW h \in Histories, NEW v \in Numbers
  PROVE  LET g == Ticked(h, v)
         IN  \/ g = Commit(h, v)
             \/ g \in Histories /\ g.count = h.count /\ g.pending = h.pending /\ Line(g) = Line(h)
PROOF
<1>1. CASE ~h.pending \/ h.due = 0
  BY <1>1 DEF Ticked
<1>2. CASE h.pending /\ h.due # 0
  <2>0. PICK d \in Nat : d = h.due - 1
    BY <1>2, HistoryIs
  <2> DEFINE g == [h EXCEPT !.due = d]
  <2>1. /\ g \in HistoryType /\ g.ring = h.ring /\ g.count = h.count /\ g.pos = h.pos
        /\ g.pending = h.pending /\ Sound(h)
    BY <1>2 DEF Histories, HistoryType
  <2>2. Ticked(h, v) = g
    BY <1>2, <2>0 DEF Ticked
  <2> HIDE DEF g
  <2>3. Sound(g) /\ Line(g) = Line(h)
    BY <2>1 DEF Sound, Line, Past, Future, Present
  <2> QED
    BY <2>1, <2>2, <2>3 DEF Histories
<1> QED
  BY <1>1, <1>2, HistoryIs

\* The cursor moves within the ring.
LEMMA Moved ==
  ASSUME NEW h \in Histories, NEW p \in Nat, p < h.count
  PROVE  LET g == [h EXCEPT !.pos = p]
         IN  /\ g \in Histories /\ g.count = h.count /\ g.ring = h.ring /\ g.pos = p
             /\ g.pending = h.pending
PROOF
<1> DEFINE g == [h EXCEPT !.pos = p]
<1>1. /\ g \in HistoryType /\ g.ring = h.ring /\ g.count = h.count /\ g.pos = p
      /\ g.pending = h.pending /\ Sound(h)
  BY DEF Histories, HistoryType
<1>2. h.count \in Nat /\ HistDepth \in Nat
  BY HistoryIs
<1> HIDE DEF g
<1>3. Sound(g)
  BY <1>1, <1>2 DEF Sound
<1> QED
  BY <1>1, <1>3 DEF Histories, g

\* A step back along the line.
LEMMA StepsBack ==
  ASSUME NEW h \in Histories, h.count # 0, NEW s
  PROVE  /\ h.pos > 0 <=> Line(h).past # <<>>
         /\ h.pos > 0 =>
              LET g == [h EXCEPT !.pos = @ - 1]
              IN  /\ g \in Histories /\ g.count # 0 /\ g.pending = h.pending
                  /\ Line(g) = U(s)!Back1(Line(h))
PROOF
<1>0. /\ h \in HistoryType /\ h.ring \in Rings
      /\ h.count \in Nat /\ h.count <= HistDepth /\ h.pos \in Nat /\ h.pos < HistDepth
      /\ h.count = 0 => h.pos = 0 /\ ~h.pending
      /\ h.count # 0 => h.pos < h.count
      /\ \A i \in Nat : i < h.count => h.ring[i] \in Numbers
      /\ HistDepth \in Nat \ {0}
  BY HistoryIs
<1> USE <1>0
<1>1. /\ Past(h) \in Seq(Numbers) /\ Len(Past(h)) = h.pos
      /\ \A i \in 1..h.pos : Past(h)[i] = h.ring[i - 1]
      /\ Future(h) \in Seq(Numbers) /\ Len(Future(h)) = h.count - 1 - h.pos
      /\ \A i \in 1..(h.count - 1 - h.pos) : Future(h)[i] = h.ring[h.pos + i]
      /\ Present(h) \in Numbers /\ Present(h) = h.ring[h.pos]
  BY LineIs DEF Present
<1>2. h.pos > 0 <=> Past(h) # <<>>
  BY <1>1, EmptySeq
<1>3. SUFFICES ASSUME h.pos > 0
      PROVE  LET g == [h EXCEPT !.pos = @ - 1]
             IN  /\ g \in Histories /\ g.count # 0 /\ g.pending = h.pending
                 /\ Line(g) = U(s)!Back1(Line(h))
  BY <1>2 DEF Line
<1>4. PICK p \in Nat : p = h.pos - 1 /\ p < h.count /\ p + 1 = h.pos
  BY <1>3
<1> DEFINE g == [h EXCEPT !.pos = p]
<1>5. /\ g \in Histories /\ g.count = h.count /\ g.ring = h.ring /\ g.pos = p
      /\ g.pending = h.pending
  BY <1>4, Moved
<1> HIDE DEF g
<1>6. /\ Past(g) \in Seq(Numbers) /\ Len(Past(g)) = p
      /\ \A i \in 1..p : Past(g)[i] = h.ring[i - 1]
      /\ Future(g) \in Seq(Numbers) /\ Len(Future(g)) = h.count - 1 - p
      /\ \A i \in 1..(h.count - 1 - p) : Future(g)[i] = h.ring[p + i]
      /\ Present(g) = h.ring[p]
  BY <1>5, LineIs DEF Present
<1>7. Past(g) = SubSeq(Past(h), 1, Len(Past(h)) - 1)
  <2>1. PICK b : b = SubSeq(Past(h), 1, p)
    OBVIOUS
  <2>2. p <= Len(Past(h))
    BY <1>1, <1>4
  <2>3. b \in Seq(Numbers) /\ Len(b) = p /\ \A i \in 1..p : b[i] = Past(h)[i]
    BY <1>1, <1>4, <2>1, <2>2, SubSeqProperties
  <2>4. \A i \in 1..Len(b) : b[i] = Past(g)[i]
    BY <1>1, <1>4, <1>6, <2>3
  <2>5. b = Past(g)
    BY <1>6, <2>3, <2>4, SeqEqual
  <2> QED
    BY <1>1, <1>4, <2>1, <2>5
<1>8. Present(g) = Past(h)[Len(Past(h))]
  <2>1. PICK q \in 1..h.pos : q = h.pos /\ q - 1 = p
    BY <1>4
  <2>2. Past(h)[q] = h.ring[q - 1]
    BY <1>1
  <2> QED
    BY <1>1, <1>6, <2>1, <2>2
<1>9. Future(g) = <<Present(h)>> \o Future(h)
  <2>a. PICK v \in Numbers : v = Present(h)
    BY <1>1
  <2>b. <<v>> \in Seq(Numbers)
    OBVIOUS
  <2>0. PICK one \in Seq(Numbers), ahead \in Seq(Numbers) :
          one = <<Present(h)>> /\ ahead = Future(h)
    BY <1>1, <2>a, <2>b
  <2> DEFINE b == one \o ahead
  <2>1. Len(one) = 1 /\ one[1] = Present(h)
    BY <2>0
  <2>2. /\ b \in Seq(Numbers) /\ Len(b) = Len(one) + Len(ahead)
        /\ \A i \in 1..Len(b) : b[i] = IF i <= Len(one) THEN one[i] ELSE ahead[i - Len(one)]
    BY ConcatProperties
  <2> HIDE DEF b
  <2>3. Len(b) = Len(Future(g)) /\ Len(ahead) = h.count - 1 - h.pos
    BY <1>1, <1>4, <1>6, <2>0, <2>1, <2>2
  <2>4. \A i \in 1..Len(b) : b[i] = Future(g)[i]
    <3>1. TAKE i \in 1..Len(b)
    <3>2. Future(g)[i] = h.ring[p + i]
      BY <1>6, <2>3
    <3>3. CASE i = 1
      BY <1>1, <1>4, <2>1, <2>2, <3>2, <3>3
    <3>4. CASE i # 1
      <4>1. PICK j \in Nat : j = i - 1 /\ j \in 1..(h.count - 1 - h.pos)
        BY <2>1, <2>2, <2>3, <3>4
      <4>2. b[i] = ahead[j]
        BY <2>1, <2>2, <3>4, <4>1
      <4>3. h.pos + j = p + i
        BY <1>4, <2>1, <2>2, <2>3, <4>1
      <4>4. ahead[j] = h.ring[h.pos + j]
        BY <1>1, <2>0, <4>1
      <4> QED
        BY <3>2, <4>2, <4>3, <4>4
    <3> QED
      BY <3>3, <3>4
  <2> QED
    BY <1>6, <2>0, <2>2, <2>3, <2>4, SeqEqual DEF b
<1>10. Line(g) = U(s)!Back1(Line(h))
  BY <1>7, <1>8, <1>9 DEF Line, U!Back1
<1> QED
  BY <1>4, <1>5, <1>10 DEF g

\* A step forward along the line.
LEMMA StepsForward ==
  ASSUME NEW h \in Histories, h.count # 0, NEW s
  PROVE  /\ CanRedo(h) <=> Line(h).future # <<>>
         /\ CanRedo(h) =>
              LET g == [h EXCEPT !.pos = @ + 1]
              IN  /\ g \in Histories /\ g.count # 0 /\ g.pending = h.pending
                  /\ Line(g) = U(s)!Forward(Line(h))
PROOF
<1>0. /\ h \in HistoryType /\ h.ring \in Rings
      /\ h.count \in Nat /\ h.count <= HistDepth /\ h.pos \in Nat /\ h.pos < HistDepth
      /\ h.count = 0 => h.pos = 0 /\ ~h.pending
      /\ h.count # 0 => h.pos < h.count
      /\ \A i \in Nat : i < h.count => h.ring[i] \in Numbers
      /\ HistDepth \in Nat \ {0}
  BY HistoryIs
<1> USE <1>0
<1>1. /\ Past(h) \in Seq(Numbers) /\ Len(Past(h)) = h.pos
      /\ \A i \in 1..h.pos : Past(h)[i] = h.ring[i - 1]
      /\ Future(h) \in Seq(Numbers) /\ Len(Future(h)) = h.count - 1 - h.pos
      /\ \A i \in 1..(h.count - 1 - h.pos) : Future(h)[i] = h.ring[h.pos + i]
      /\ Present(h) \in Numbers /\ Present(h) = h.ring[h.pos]
  BY LineIs DEF Present
<1>2. CanRedo(h) <=> Future(h) # <<>>
  BY <1>1, EmptySeq DEF CanRedo
<1>3. SUFFICES ASSUME CanRedo(h)
      PROVE  LET g == [h EXCEPT !.pos = @ + 1]
             IN  /\ g \in Histories /\ g.count # 0 /\ g.pending = h.pending
                 /\ Line(g) = U(s)!Forward(Line(h))
  BY <1>2 DEF Line
<1>4. PICK p \in Nat : p = h.pos + 1 /\ p < h.count
  BY <1>3 DEF CanRedo
<1> DEFINE g == [h EXCEPT !.pos = p]
<1>5. /\ g \in Histories /\ g.count = h.count /\ g.ring = h.ring /\ g.pos = p
      /\ g.pending = h.pending
  BY <1>4, Moved
<1> HIDE DEF g
<1>6. /\ Past(g) \in Seq(Numbers) /\ Len(Past(g)) = p
      /\ \A i \in 1..p : Past(g)[i] = h.ring[i - 1]
      /\ Future(g) \in Seq(Numbers) /\ Len(Future(g)) = h.count - 1 - p
      /\ \A i \in 1..(h.count - 1 - p) : Future(g)[i] = h.ring[p + i]
      /\ Present(g) = h.ring[p]
  BY <1>5, LineIs DEF Present
<1>7. Past(g) = Append(Past(h), Present(h))
  <2> DEFINE b == Append(Past(h), Present(h))
  <2>1. /\ b \in Seq(Numbers) /\ Len(b) = h.pos + 1
        /\ \A i \in 1..(h.pos + 1) : b[i] = h.ring[i - 1]
    BY <1>1, AppendProperties
  <2> HIDE DEF b
  <2>2. Len(b) = Len(Past(g)) /\ \A i \in 1..Len(b) : b[i] = Past(g)[i]
    BY <1>4, <1>6, <2>1
  <2> QED
    BY <1>6, <2>1, <2>2, SeqEqual DEF b
<1>8. Present(g) = Head(Future(h))
  BY <1>1, <1>2, <1>3, <1>4, <1>6, HeadTailProperties
<1>9. Future(g) = Tail(Future(h))
  <2>1. PICK b : b = Tail(Future(h))
    OBVIOUS
  <2>2. /\ b \in Seq(Numbers) /\ Len(b) = Len(Future(h)) - 1
        /\ \A i \in 1..Len(b) : b[i] = Future(h)[i + 1]
    BY <1>1, <1>2, <1>3, <2>1, HeadTailProperties
  <2>3. Len(b) = h.count - 1 - p /\ Len(b) = Len(Future(g))
    BY <1>1, <1>4, <1>6, <2>2
  <2>4. \A i \in 1..Len(b) : b[i] = Future(g)[i]
    <3>1. TAKE i \in 1..Len(b)
    <3>2. PICK j \in 1..(h.count - 1 - h.pos) : j = i + 1
      BY <1>4, <2>3
    <3>3. b[i] = Future(h)[j]
      BY <2>2, <3>2
    <3>4. Future(h)[j] = h.ring[h.pos + j]
      BY <1>1, <3>2
    <3>5. h.pos \in Nat /\ p = h.pos + 1 /\ i \in Nat /\ j = i + 1
      BY <1>4, <2>3, <3>2
    <3>6. h.pos + j = p + i
      BY ONLY <3>5
    <3> QED
      BY <1>6, <2>3, <3>3, <3>4, <3>6
  <2> QED
    BY <1>6, <2>1, <2>2, <2>3, <2>4, SeqEqual
<1>10. Line(g) = U(s)!Forward(Line(h))
  BY <1>7, <1>8, <1>9 DEF Line, U!Forward
<1> QED
  BY <1>4, <1>5, <1>10 DEF g

-----------------------------------------------------------------------------
(* One field and its line of values.                                       *)

\* What Undo sees of a field.
ValueOf(s) == IF s \in Editable THEN values[s] ELSE 0
TrailOf(s) ==
  IF s \notin Editable THEN [past |-> <<>>, mark |-> 0, future |-> <<>>]
  ELSE IF hist[s].count = 0 THEN [past |-> <<>>, mark |-> values[s], future |-> <<>>]
  ELSE Line(hist[s])
FreshOf(s) == s \in Editable => hist[s].count = 0
OpenOf(s) == s \in Editable /\ hist[s].pending

\* It is what the mapping says.
LEMMA Mapped ==
  ASSUME NEW s
  PROVE  /\ U(s)!undoVars = <<ValueOf(s), TrailOf(s), FreshOf(s), OpenOf(s)>>
         /\ (U(s)!undoVars)' = <<ValueOf(s)', TrailOf(s)', FreshOf(s)', OpenOf(s)'>>
         /\ U(s)!Closed = IF OpenOf(s) THEN U(s)!Settled(TrailOf(s), ValueOf(s)) ELSE TrailOf(s)
BY DEF U!undoVars, U!Closed, ValueOf, TrailOf, FreshOf, OpenOf, Line, Past, Future, Present

\* The steps of Undo, in these terms.
LEMMA AbsSteps ==
  ASSUME NEW s
  PROVE  /\ /\ ValueOf(s)' \in Numbers
            /\ TrailOf(s)' = IF FreshOf(s) THEN U(s)!Blank(ValueOf(s)) ELSE TrailOf(s)
            /\ FreshOf(s)' = FALSE /\ OpenOf(s)' = TRUE
            => U(s)!UndoNext
         /\ /\ TrailOf(s)' = U(s)!Closed
            /\ OpenOf(s)' = FALSE /\ ValueOf(s)' = ValueOf(s) /\ FreshOf(s)' = FreshOf(s)
            => U(s)!UndoNext
         /\ /\ ValueOf(s)' \in Numbers
            /\ TrailOf(s)' = U(s)!Settled(IF FreshOf(s) THEN U(s)!Blank(ValueOf(s)) ELSE TrailOf(s),
                                          ValueOf(s)')
            /\ FreshOf(s)' = FALSE /\ OpenOf(s)' = FALSE
            => U(s)!UndoNext
         /\ /\ TrailOf(s)' = IF U(s)!Closed.past # <<>> THEN U(s)!Back1(U(s)!Closed) ELSE U(s)!Closed
            /\ ValueOf(s)' = IF U(s)!Closed.past # <<>> THEN TrailOf(s)'.mark ELSE ValueOf(s)
            /\ OpenOf(s)' = FALSE /\ FreshOf(s)' = FreshOf(s)
            => U(s)!UndoNext
         /\ /\ TrailOf(s)' = IF U(s)!Closed.future # <<>> THEN U(s)!Forward(U(s)!Closed)
                             ELSE U(s)!Closed
            /\ ValueOf(s)' = IF U(s)!Closed.future # <<>> THEN TrailOf(s)'.mark ELSE ValueOf(s)
            /\ OpenOf(s)' = FALSE /\ FreshOf(s)' = FreshOf(s)
            => U(s)!UndoNext
         /\ /\ ValueOf(s)' \in Numbers
            /\ TrailOf(s)' = IF FreshOf(s) THEN U(s)!Blank(ValueOf(s)') ELSE TrailOf(s)
            /\ FreshOf(s)' = FreshOf(s) /\ OpenOf(s)' = OpenOf(s)
            => U(s)!UndoNext
         /\ /\ ValueOf(s)' \in Numbers
            /\ TrailOf(s)' = U(s)!Blank(ValueOf(s)')
            /\ FreshOf(s)' = TRUE /\ OpenOf(s)' = FALSE
            => U(s)!UndoNext
BY DEF U!UndoNext, U!AbsAdjust, U!AbsSettle, U!AbsReset, U!AbsUndo, U!AbsRedo, U!AbsForeign,
       U!AbsForget, U!Blank, U!Closed, ValueOf, TrailOf, FreshOf, OpenOf, Line, Past, Future, Present

\* What a step may do to a field and its history.
Kept(s) == hist'[s] = hist[s] /\ values'[s] = values[s]
Settles(s) ==
  hist'[s] \in {Commit(hist[s], values[s]), Ticked(hist[s], values[s])} /\ values'[s] = values[s]
Adjusts(s) == hist'[s] = Touched(hist[s], values[s]) /\ values'[s] \in Numbers
Resets(s) ==
  values'[s] \in Numbers /\ hist'[s] = Commit(Touched(hist[s], values[s]), values'[s])
GoesBack(s) ==
  /\ CanUndo(hist[s]) /\ hist'[s] = Undone(hist[s], values[s])
  /\ values'[s] = IF UndoFinds(hist[s], values[s]) THEN Present(hist'[s]) ELSE values[s]
GoesOn(s) ==
  /\ CanRedo(hist[s]) /\ hist'[s] = Redone(hist[s], values[s])
  /\ values'[s] = IF RedoFinds(hist[s], values[s]) THEN Present(hist'[s]) ELSE values[s]
IsMoved(s) == hist'[s] = hist[s] /\ values'[s] \in Numbers
FieldMoves(s) ==
  Kept(s) \/ Settles(s) \/ Adjusts(s) \/ Resets(s) \/ GoesBack(s) \/ GoesOn(s) \/ IsMoved(s)

\* What such a step leaves, and that it is a step of Undo.
Follows(s) ==
  /\ hist'[s] \in Histories /\ values'[s] \in Numbers
  /\ [U(s)!UndoNext]_(U(s)!undoVars)

\* A field that is editable before and after, in the terms of its history.
LEMMA InTerms ==
  ASSUME NEW s \in Editable, s \in Editable'
  PROVE  /\ ValueOf(s) = values[s] /\ ValueOf(s)' = values'[s]
         /\ FreshOf(s) = (hist[s].count = 0) /\ FreshOf(s)' = (hist'[s].count = 0)
         /\ hist[s] \in Histories => OpenOf(s) = hist[s].pending
         /\ hist'[s] \in Histories => OpenOf(s)' = hist'[s].pending
         /\ TrailOf(s) = IF hist[s].count = 0 THEN U(s)!Blank(values[s]) ELSE Line(hist[s])
         /\ TrailOf(s)' = IF hist'[s].count = 0 THEN U(s)!Blank(values'[s]) ELSE Line(hist'[s])
PROOF
<1>1. ASSUME NEW h \in Histories PROVE h.pending \in BOOLEAN
  BY HistoryIs
<1> QED
  BY <1>1 DEF ValueOf, FreshOf, OpenOf, TrailOf, U!Blank

\* The end of an adjustment is a step of Undo, if there was one or not.
LEMMA CommitFollows ==
  ASSUME NEW s \in Editable, s \in Editable', hist[s] \in Histories, values[s] \in Numbers,
         hist'[s] = Commit(hist[s], values[s]), values'[s] = values[s]
  PROVE  Follows(s)
PROOF
<1> DEFINE h == hist[s]
           g == hist'[s]
           v == values[s]
<1>1. /\ g \in Histories /\ ~g.pending /\ (g.count = 0 <=> h.count = 0)
      /\ h.count # 0 => Line(g) = IF h.pending THEN U(s)!Settled(Line(h), v) ELSE Line(h)
  BY CommitIs
<1>2. h.count = 0 => ~h.pending
  BY HistoryIs
<1>3. ValueOf(s)' = ValueOf(s) /\ FreshOf(s)' = FreshOf(s) /\ OpenOf(s)' = FALSE
  BY <1>1, InTerms
<1>4. TrailOf(s)' = U(s)!Closed
  <2>1. U(s)!Closed = IF h.pending THEN U(s)!Settled(TrailOf(s), v) ELSE TrailOf(s)
    BY Mapped, InTerms
  <2> QED
    BY <1>1, <1>2, <2>1, InTerms
<1>5. U(s)!UndoNext
  BY <1>3, <1>4, AbsSteps
<1> QED
  BY <1>1, <1>5 DEF Follows

\* A tick is no step, or ends the adjustment.
LEMMA TickFollows ==
  ASSUME NEW s \in Editable, s \in Editable', hist[s] \in Histories, values[s] \in Numbers,
         hist'[s] = Ticked(hist[s], values[s]), values'[s] = values[s]
  PROVE  Follows(s)
PROOF
<1>1. CASE hist'[s] = Commit(hist[s], values[s])
  BY <1>1, CommitFollows
<1>2. CASE /\ hist'[s] \in Histories /\ hist'[s].count = hist[s].count
           /\ hist'[s].pending = hist[s].pending /\ Line(hist'[s]) = Line(hist[s])
  <2>1. /\ ValueOf(s)' = ValueOf(s) /\ FreshOf(s)' = FreshOf(s)
        /\ OpenOf(s)' = OpenOf(s) /\ TrailOf(s)' = TrailOf(s)
    BY <1>2, InTerms
  <2>2. UNCHANGED U(s)!undoVars
    BY <2>1, Mapped
  <2> QED
    BY <1>2, <2>2 DEF Follows
<1> QED
  BY <1>1, <1>2, TickedIs

\* A hand's change is an adjustment.
LEMMA AdjustFollows ==
  ASSUME NEW s \in Editable, s \in Editable', hist[s] \in Histories, values[s] \in Numbers, Adjusts(s)
  PROVE  Follows(s)
PROOF
<1> DEFINE h == hist[s]
           g == hist'[s]
<1>1. /\ g \in Histories /\ g.count # 0 /\ g.pending = TRUE
      /\ Line(g) = IF h.count = 0 THEN U(s)!Blank(values[s]) ELSE Line(h)
  <2>1. PICK v \in Numbers, c \in Histories : v = values[s] /\ c = h
    OBVIOUS
  <2>2. PICK f : f = Touched(c, v)
    OBVIOUS
  <2>3. /\ f \in Histories /\ f.count # 0 /\ f.pending = TRUE
        /\ Line(f) = IF c.count = 0 THEN U(s)!Blank(v) ELSE Line(c)
    BY <2>2, TouchedIs
  <2>4. g = f
    BY <2>1, <2>2 DEF Adjusts
  <2> QED
    BY <2>1, <2>3, <2>4
<1>2. values'[s] \in Numbers
  BY DEF Adjusts
<1>3. ValueOf(s)' \in Numbers /\ FreshOf(s)' = FALSE /\ OpenOf(s)' = TRUE
  BY <1>1, <1>2, InTerms
<1>4. TrailOf(s)' = IF FreshOf(s) THEN U(s)!Blank(ValueOf(s)) ELSE TrailOf(s)
  BY <1>1, InTerms
<1>5. U(s)!UndoNext
  BY <1>3, <1>4, AbsSteps
<1> QED
  BY <1>1, <1>2, <1>5 DEF Follows

\* A reset is an adjustment that is over.
LEMMA ResetFollows ==
  ASSUME NEW s \in Editable, s \in Editable', hist[s] \in Histories, values[s] \in Numbers, Resets(s)
  PROVE  Follows(s)
PROOF
<1> DEFINE h == hist[s]
           f == Touched(hist[s], values[s])
           g == hist'[s]
           d == values'[s]
<1>1. d \in Numbers /\ g = Commit(f, d)
  BY DEF Resets
<1>2. /\ f \in Histories /\ f.count # 0 /\ f.pending = TRUE
      /\ Line(f) = IF h.count = 0 THEN U(s)!Blank(values[s]) ELSE Line(h)
  BY TouchedIs
<1> HIDE DEF f
<1>3. g \in Histories /\ ~g.pending /\ g.count # 0 /\ Line(g) = U(s)!Settled(Line(f), d)
  BY <1>1, <1>2, CommitIs
<1>4. ValueOf(s)' = d /\ ValueOf(s)' \in Numbers /\ FreshOf(s)' = FALSE /\ OpenOf(s)' = FALSE
  <2>1. ValueOf(s)' = d
    BY InTerms
  <2>2. FreshOf(s)' = FALSE
    BY <1>3, InTerms
  <2>3. OpenOf(s)' = FALSE
    BY <1>3, InTerms
  <2> QED
    BY <1>1, <2>1, <2>2, <2>3
<1>5. Line(f) = IF FreshOf(s) THEN U(s)!Blank(ValueOf(s)) ELSE TrailOf(s)
  BY <1>2, InTerms
<1>6. TrailOf(s)' = U(s)!Settled(Line(f), ValueOf(s)')
  BY <1>3, <1>4, InTerms
<1>7. U(s)!UndoNext
  BY <1>4, <1>5, <1>6, AbsSteps
<1> QED
  BY <1>1, <1>3, <1>7 DEF Follows

\* What an adjustment leaves when it ends before a step back or forward.
LEMMA EndsFirst ==
  ASSUME NEW s \in Editable, s \in Editable', hist[s] \in Histories, values[s] \in Numbers,
         hist[s].count # 0
  PROVE  LET c == Commit(hist[s], values[s])
         IN  c \in Histories /\ ~c.pending /\ c.count # 0 /\ U(s)!Closed = Line(c)
PROOF
<1> DEFINE h == hist[s]
           c == Commit(h, values[s])
<1>1. /\ c \in Histories /\ ~c.pending /\ c.count # 0
      /\ Line(c) = IF h.pending THEN U(s)!Settled(Line(h), values[s]) ELSE Line(h)
  BY CommitIs
<1>2. U(s)!Closed = IF h.pending THEN U(s)!Settled(Line(h), values[s]) ELSE Line(h)
  BY Mapped, InTerms
<1> QED
  BY <1>1, <1>2

\* An undo steps back along the line.
LEMMA BackFollows ==
  ASSUME NEW s \in Editable, s \in Editable', hist[s] \in Histories, values[s] \in Numbers, GoesBack(s)
  PROVE  Follows(s)
PROOF
<1> DEFINE h == hist[s]
           c == Commit(h, values[s])
           g == hist'[s]
<1>1. h.count # 0
  BY HistoryIs DEF GoesBack, CanUndo
<1>2. c \in Histories /\ ~c.pending /\ c.count # 0 /\ U(s)!Closed = Line(c)
  BY <1>1, EndsFirst
<1>3. UndoFinds(h, values[s]) = (c.pos > 0)
  BY DEF UndoFinds
<1>4. g = IF c.pos > 0 THEN [c EXCEPT !.pos = @ - 1] ELSE c
  BY <1>3 DEF GoesBack, Undone
<1> HIDE DEF c
<1>5. /\ (c.pos > 0) = (Line(c).past # <<>>)
      /\ c.pos > 0 => g \in Histories /\ g.count # 0 /\ ~g.pending /\ Line(g) = U(s)!Back1(Line(c))
  BY <1>2, <1>4, StepsBack
<1>6. g \in Histories /\ g.count # 0 /\ ~g.pending /\ Line(g).mark = Present(g) /\ Present(g) \in Numbers
  BY <1>2, <1>4, <1>5, LineIs DEF Line
<1>7. values'[s] = IF c.pos > 0 THEN Present(g) ELSE values[s]
  BY <1>3 DEF GoesBack
<1>8. OpenOf(s)' = FALSE /\ FreshOf(s)' = FreshOf(s) /\ TrailOf(s)' = Line(g)
  BY <1>1, <1>6, InTerms
<1>9. ValueOf(s)' = IF U(s)!Closed.past # <<>> THEN TrailOf(s)'.mark ELSE ValueOf(s)
  BY <1>2, <1>5, <1>6, <1>7, <1>8, InTerms
<1>10. TrailOf(s)' = IF U(s)!Closed.past # <<>> THEN U(s)!Back1(U(s)!Closed) ELSE U(s)!Closed
  BY <1>2, <1>4, <1>5, <1>8
<1>11. U(s)!UndoNext
  BY <1>8, <1>9, <1>10, AbsSteps
<1> QED
  BY <1>6, <1>7, <1>11 DEF Follows

\* A redo steps forward along the line.
LEMMA OnFollows ==
  ASSUME NEW s \in Editable, s \in Editable', hist[s] \in Histories, values[s] \in Numbers, GoesOn(s)
  PROVE  Follows(s)
PROOF
<1> DEFINE h == hist[s]
           c == Commit(h, values[s])
           g == hist'[s]
<1>1. h.count # 0
  BY HistoryIs DEF GoesOn, CanRedo
<1>2. c \in Histories /\ ~c.pending /\ c.count # 0 /\ U(s)!Closed = Line(c)
  BY <1>1, EndsFirst
<1>3. RedoFinds(h, values[s]) = CanRedo(c)
  BY DEF RedoFinds
<1>4. g = IF CanRedo(c) THEN [c EXCEPT !.pos = @ + 1] ELSE c
  BY <1>3 DEF GoesOn, Redone
<1> HIDE DEF c
<1>5. /\ CanRedo(c) = (Line(c).future # <<>>)
      /\ CanRedo(c) => g \in Histories /\ g.count # 0 /\ ~g.pending /\ Line(g) = U(s)!Forward(Line(c))
  <2>1. CanRedo(c) \in BOOLEAN
    BY DEF CanRedo
  <2> QED
    BY <1>2, <1>4, <2>1, StepsForward
<1>6. g \in Histories /\ g.count # 0 /\ ~g.pending /\ Line(g).mark = Present(g) /\ Present(g) \in Numbers
  BY <1>2, <1>4, <1>5, LineIs DEF Line
<1>7. values'[s] = IF CanRedo(c) THEN Present(g) ELSE values[s]
  BY <1>3 DEF GoesOn
<1>8. OpenOf(s)' = FALSE /\ FreshOf(s)' = FreshOf(s) /\ TrailOf(s)' = Line(g)
  BY <1>1, <1>6, InTerms
<1>9. ValueOf(s)' = IF U(s)!Closed.future # <<>> THEN TrailOf(s)'.mark ELSE ValueOf(s)
  BY <1>2, <1>5, <1>6, <1>7, <1>8, InTerms
<1>10. TrailOf(s)' = IF U(s)!Closed.future # <<>> THEN U(s)!Forward(U(s)!Closed) ELSE U(s)!Closed
  BY <1>2, <1>4, <1>5, <1>8
<1>11. U(s)!UndoNext
  BY <1>8, <1>9, <1>10, AbsSteps
<1> QED
  BY <1>6, <1>7, <1>11 DEF Follows

\* The host's doing leaves no mark.
LEMMA MovedFollows ==
  ASSUME NEW s \in Editable, s \in Editable', hist[s] \in Histories, values[s] \in Numbers, IsMoved(s)
  PROVE  Follows(s)
PROOF
<1>1. hist'[s] = hist[s] /\ values'[s] \in Numbers
  BY DEF IsMoved
<1>2. /\ ValueOf(s)' \in Numbers /\ FreshOf(s)' = FreshOf(s) /\ OpenOf(s)' = OpenOf(s)
      /\ TrailOf(s)' = IF FreshOf(s) THEN U(s)!Blank(ValueOf(s)') ELSE TrailOf(s)
  BY <1>1, InTerms
<1>3. U(s)!UndoNext
  BY <1>2, AbsSteps
<1> QED
  BY <1>1, <1>3 DEF Follows

\* So every such step is a step of Undo or none.
LEMMA FieldFollows ==
  ASSUME NEW s \in Editable, s \in Editable', hist[s] \in Histories, values[s] \in Numbers, FieldMoves(s)
  PROVE  Follows(s)
PROOF
<1>1. CASE Kept(s)
  BY <1>1, MovedFollows DEF Kept, IsMoved
<1>2. CASE Settles(s)
  BY <1>2, CommitFollows, TickFollows DEF Settles
<1> QED
  BY <1>1, <1>2, AdjustFollows, ResetFollows, BackFollows, OnFollows, MovedFollows DEF FieldMoves

\* A field of a descriptor that is described begins anew, as does a slot that is no field.
LEMMA DescribedFollows ==
  ASSUME NEW s, s \in Editable' => hist'[s] = NoHistory /\ values'[s] = 0
  PROVE  [U(s)!UndoNext]_(U(s)!undoVars)
PROOF
<1>1. 0 \in Numbers
  BY PanelBounds DEF PanelBounds, Numbers
<1>2. NoHistory.count = 0 /\ NoHistory.pending = FALSE
  BY DEF NoHistory
<1>3. ValueOf(s)' = 0 /\ FreshOf(s)' = TRUE /\ OpenOf(s)' = FALSE
  BY <1>2 DEF ValueOf, FreshOf, OpenOf
<1>4. TrailOf(s)' = U(s)!Blank(0)
  BY <1>2 DEF TrailOf, U!Blank
<1> QED
  BY <1>1, <1>3, <1>4, AbsSteps

\* A slot that is no field before or after is not touched.
LEMMA NoFieldStays ==
  ASSUME NEW s, s \notin Editable, s \notin Editable'
  PROVE  [U(s)!UndoNext]_(U(s)!undoVars)
PROOF
<1>1. ValueOf(s)' = ValueOf(s) /\ FreshOf(s)' = FreshOf(s) /\ OpenOf(s)' = OpenOf(s) /\ TrailOf(s)' = TrailOf(s)
  BY DEF ValueOf, FreshOf, OpenOf, TrailOf
<1> QED
  BY <1>1, Mapped

-----------------------------------------------------------------------------
(* Every step, by what it does to the numbers and to the mail.             *)

Opinions == Numbers \union {None}

\* The numbers of the fields, the panel's and the host's.
NumbersTyped ==
  /\ values \in [Editable -> Numbers] /\ hist \in [Editable -> Histories]
  /\ defaults \in [Editable -> Opinions]
  /\ truth \in [Editable -> Numbers] /\ chosen \in [Editable -> Opinions]
  /\ revision \in Nat /\ surprises \in Nat /\ revision <= surprises
  /\ revision = 0 => Editable = {}

\* Each field makes one of its moves, or none.
NumbersMove ==
  /\ values' = [s \in Editable |-> values'[s]] /\ hist' = [s \in Editable |-> hist'[s]]
  /\ \A s \in Editable : FieldMoves(s)

\* The mail: nothing, an action, or an edit of a field.
EditMail ==
  \/ UNCHANGED outbox
  \/ \E m : m.op = "ACTIVATE" /\ outbox' = Append(outbox, m)
  \/ \E s \in Editable, v \in Numbers : SendEdit(s, v)

\* A step that touches neither the descriptor nor what the defaults are.
PlainStep ==
  /\ UNCHANGED <<fields, host>> /\ surprises' \in {surprises, surprises + 1}
  /\ NumbersMove /\ EditMail

\* A Store.
StoreStep ==
  /\ UNCHANGED <<desc, revision, host, surprises, numbers>>
  /\ focused \in Editable /\ defaults' = [defaults EXCEPT ![focused] = values[focused]]
  /\ outbox' = Append(outbox, Report("SAVE_DEFAULT", focused, None))

\* Nothing moves when nothing is written.
LEMMA NumbersKept == NumbersTyped /\ UNCHANGED numbers => NumbersMove
BY DEF NumbersTyped, numbers, NumbersMove, FieldMoves, Kept

\* One field moves, and no other.
LEMMA OneMoves ==
  ASSUME NumbersTyped, NEW s \in Editable, NEW h, NEW v, hist' = [hist EXCEPT ![s] = h],
         values' = [values EXCEPT ![s] = v], FieldMoves(s)
  PROVE  NumbersMove
PROOF
<1>1. ASSUME NEW t \in Editable PROVE FieldMoves(t)
  <2>1. CASE t # s
    BY <2>1 DEF NumbersTyped, FieldMoves, Kept
  <2> QED
    BY <2>1
<1> QED
  BY <1>1 DEF NumbersTyped, NumbersMove

\* So it is when only its history is written.
LEMMA OneSettles ==
  ASSUME NumbersTyped, NEW s \in Editable, NEW h, hist' = [hist EXCEPT ![s] = h],
         values' = values, FieldMoves(s)
  PROVE  NumbersMove
PROOF
<1>1. values' = [values EXCEPT ![s] = values[s]]
  BY DEF NumbersTyped
<1> QED
  BY <1>1, OneMoves

\* Leaving the field that is drilled.
LeavesFocus ==
  /\ hist' = IF focused \in Editable
               THEN [hist EXCEPT ![focused] = Commit(@, values[focused])] ELSE hist
  /\ values' = values

\* It settles the field, if it is one.
LEMMA LeavingMoves == NumbersTyped /\ LeavesFocus => NumbersMove
PROOF
<1> SUFFICES ASSUME NumbersTyped, LeavesFocus PROVE NumbersMove
  OBVIOUS
<1>1. CASE focused \in Editable
  <2>1. hist' = [hist EXCEPT ![focused] = Commit(hist[focused], values[focused])]
    BY <1>1 DEF LeavesFocus
  <2>2. hist'[focused] = Commit(hist[focused], values[focused]) /\ values' = values
    BY <1>1, <2>1 DEF LeavesFocus, NumbersTyped
  <2>3. FieldMoves(focused)
    BY <2>2 DEF FieldMoves, Settles
  <2> QED
    BY <1>1, <2>1, <2>2, <2>3, OneSettles
<1>2. CASE focused \notin Editable
  BY <1>2, NumbersKept DEF LeavesFocus, numbers
<1> QED
  BY <1>1, <1>2

\* An action is a plain report.
LEMMA ActionIsPlain == \A s : SurfActivate(s) => EditMail
PROOF
<1>1. \A s : Report("ACTIVATE", s, None).op = "ACTIVATE"
  BY DEF Report
<1> QED
  BY <1>1 DEF SurfActivate, Activate, EditMail

\* A press of a knob.
LEMMA PushIsPlain ==
  ASSUME NumbersTyped, NEW k \in Knobs, Push(k)
  PROVE  PlainStep
PROOF
<1>1. UNCHANGED <<fields, host, surprises, values>>
  BY DEF Push, Stroke, Input
<1>2. (hist' = hist \/ LeavesFocus) /\ EditMail
  <2>1. CASE mode # "SURFACE"
    BY <2>1 DEF Push, EditMail
  <2>2. CASE mode = "SURFACE" /\ desc.operator
    BY <1>1, <2>2, ActionIsPlain
    DEF Push, PushOperator, SetPage, LeaveFocus, LeavesFocus, Trigger, EditMail
  <2>3. CASE mode = "SURFACE" /\ ~desc.operator /\ focused # Nobody
    BY <1>1, <2>3, ActionIsPlain
    DEF Push, PushDrilled, MoveFocus, LeaveFocus, LeavesFocus, EditMail
  <2>4. CASE mode = "SURFACE" /\ ~desc.operator /\ focused = Nobody
    BY <1>1, <2>4, ActionIsPlain DEF Push, PushOverview, Trigger, EnterFocus, EditMail
  <2> QED
    BY <2>1, <2>2, <2>3, <2>4
<1> QED
  BY <1>1, <1>2, NumbersKept, LeavingMoves DEF PlainStep, numbers

\* A turn of a knob.
LEMMA RotateIsPlain ==
  ASSUME NumbersTyped, NEW k \in Knobs, NEW d \in {-1, 1}, Rotate(k, d)
  PROVE  PlainStep
PROOF
<1>1. UNCHANGED <<fields, host, surprises>> /\ Turn(k, d)
  BY DEF Rotate, Stroke, Input
<1>2. CASE UNCHANGED <<numbers, outbox>>
  BY <1>1, <1>2, NumbersKept DEF PlainStep, EditMail
<1>3. CASE ~UNCHANGED <<numbers, outbox>>
  <2>0. PICK s \in Editable :
          \E v : /\ s = Edits(k) /\ v = Clamped(values[s] + d)
                /\ hist' = [hist EXCEPT ![s] = Touched(hist[s], values[s])] /\ SetNumber(s, v)
    BY <1>1, <1>3 DEF Turn
  <2>1. PICK v : /\ s = Edits(k) /\ v = Clamped(values[s] + d)
                 /\ hist' = [hist EXCEPT ![s] = Touched(hist[s], values[s])] /\ SetNumber(s, v)
    BY <2>0
  <2>2. values[s] \in Int /\ Top \in Nat
    BY PanelBounds DEF NumbersTyped, Numbers, PanelBounds
  <2>3. v \in Numbers
    BY <2>1, <2>2 DEF Clamped, Numbers
  <2>4. values' = [values EXCEPT ![s] = v] /\ SendEdit(s, v)
    BY <2>1 DEF SetNumber
  <2>5. Adjusts(s)
    BY <2>1, <2>3, <2>4 DEF Adjusts, NumbersTyped
  <2>6. NumbersMove
    BY <2>1, <2>4, <2>5, OneMoves DEF FieldMoves
  <2> QED
    BY <1>1, <2>3, <2>4, <2>6 DEF PlainStep, EditMail
<1> QED
  BY <1>2, <1>3

\* A step along a history.
LEMMA StepIsPlain ==
  ASSUME NumbersTyped, NEW s \in Editable, NEW h, NEW found \in BOOLEAN, s = focused,
         Step(found, h), UNCHANGED <<fields, host, surprises>>,
         \/ /\ CanUndo(hist[s]) /\ h = Undone(hist[s], values[s])
            /\ found = UndoFinds(hist[s], values[s])
         \/ /\ CanRedo(hist[s]) /\ h = Redone(hist[s], values[s])
            /\ found = RedoFinds(hist[s], values[s])
  PROVE  PlainStep
PROOF
<1>1. hist' = [hist EXCEPT ![s] = h] /\ hist'[s] = h
  BY DEF Step, NumbersTyped
<1>2. values'[s] = IF found THEN Present(h) ELSE values[s]
  BY DEF Step, SetNumber, NumbersTyped
<1>3. FieldMoves(s)
  BY <1>1, <1>2 DEF FieldMoves, GoesBack, GoesOn
<1>4. s \in Editable' /\ hist[s] \in Histories /\ values[s] \in Numbers
  BY DEF NumbersTyped, fields, Editable, Occupied
<1>5. values'[s] \in Numbers
  BY <1>3, <1>4, FieldFollows DEF Follows
<1>6. CASE found
  <2>1. values' = [values EXCEPT ![s] = Present(h)] /\ SendEdit(s, Present(h))
    BY <1>6 DEF Step, SetNumber
  <2>2. Present(h) \in Numbers
    BY <1>2, <1>5, <1>6
  <2> QED
    BY <1>1, <1>3, <2>1, <2>2, OneMoves DEF PlainStep, EditMail
<1>7. CASE ~found
  BY <1>1, <1>3, <1>7, OneSettles DEF PlainStep, EditMail, Step
<1> QED
  BY <1>6, <1>7

\* A press of a button, but for a Store.
LEMMA PressIsPlain ==
  ASSUME NumbersTyped, NEW i \in DOMAIN Buttons, Press(i)
  PROVE  PlainStep \/ StoreStep
PROOF
<1>1. UNCHANGED <<desc, revision, host, surprises>>
  BY DEF Press
<1>2. CASE mode # "SURFACE"
  <2>1. UNCHANGED <<numbers, defaults, outbox>>
    BY <1>2 DEF Press, SettingsButton
  <2> QED
    BY <1>1, <2>1, NumbersKept DEF PlainStep, EditMail, fields
<1>3. CASE mode = "SURFACE"
  <2> DEFINE b == Buttons[i]
  <2>1. SurfaceButton(b) /\ b \in {"BACK", "UNDO", "REDO", "AUX", "SYSTEM", "PAGE_NEXT"}
    BY <1>3 DEF Press, Buttons
  <2> HIDE DEF b
  <2>2. ASSUME NEW x, Transported(x) PROVE PlainStep
    <3>1. UNCHANGED <<fields, host, surprises, numbers>>
      BY <1>1, <2>2 DEF Transported, fields
    <3>2. \A s : Report("ACTIVATE", s, None).op = "ACTIVATE"
      BY DEF Report
    <3>3. EditMail
      BY <2>2, <3>2 DEF Transported, Activate, EditMail
    <3> QED
      BY <3>1, <3>3, NumbersKept DEF PlainStep
  <2>3. CASE b \in {"BACK", "PAGE_NEXT"}
    <3>1. UNCHANGED <<values, defaults, outbox>> /\ (hist' = hist \/ LeavesFocus)
      BY <2>1, <2>3
      DEF SurfaceButton, BackButton, ZoomButton, SetPage, LeaveFocus, LeavesFocus
    <3> QED
      BY <1>1, <3>1, NumbersKept, LeavingMoves DEF PlainStep, EditMail, fields, numbers
  <2>4. CASE b = "UNDO"
    <3>1. CASE focused = Nobody
      BY <2>1, <2>2, <2>4, <3>1 DEF SurfaceButton, UndoButton
    <3>2. CASE focused # Nobody /\ focused \in Editable /\ CanUndo(hist[focused])
      <4>1. /\ Step(UndoFinds(hist[focused], values[focused]),
                    Undone(hist[focused], values[focused]))
            /\ UNCHANGED defaults
        BY <2>1, <2>4, <3>2 DEF SurfaceButton, UndoButton
      <4>2. UndoFinds(hist[focused], values[focused]) \in BOOLEAN
        BY DEF UndoFinds
      <4> QED
        BY <1>1, <3>2, <4>1, <4>2, StepIsPlain DEF fields
    <3>3. CASE focused # Nobody /\ ~(focused \in Editable /\ CanUndo(hist[focused]))
      <4>1. UNCHANGED <<numbers, outbox, defaults>>
        BY <2>1, <2>4, <3>3 DEF SurfaceButton, UndoButton
      <4> QED
        BY <1>1, <4>1, NumbersKept DEF PlainStep, EditMail, fields
    <3> QED
      BY <3>1, <3>2, <3>3
  <2>5. CASE b = "REDO"
    <3>1. CASE focused = Nobody
      BY <2>1, <2>2, <2>5, <3>1 DEF SurfaceButton, RedoButton
    <3>2. CASE focused # Nobody /\ focused \in Editable /\ CanRedo(hist[focused])
      <4>1. /\ Step(RedoFinds(hist[focused], values[focused]),
                    Redone(hist[focused], values[focused]))
            /\ UNCHANGED defaults
        BY <2>1, <2>5, <3>2 DEF SurfaceButton, RedoButton
      <4>2. RedoFinds(hist[focused], values[focused]) \in BOOLEAN
        BY DEF RedoFinds, CanRedo
      <4> QED
        BY <1>1, <3>2, <4>1, <4>2, StepIsPlain DEF fields
    <3>3. CASE focused # Nobody /\ ~(focused \in Editable /\ CanRedo(hist[focused]))
      <4>1. UNCHANGED <<numbers, outbox, defaults>>
        BY <2>1, <2>5, <3>3 DEF SurfaceButton, RedoButton
      <4> QED
        BY <1>1, <4>1, NumbersKept DEF PlainStep, EditMail, fields
    <3> QED
      BY <3>1, <3>2, <3>3
  <2>6. CASE b = "AUX"
    <3>1. CASE focused = Nobody
      BY <2>1, <2>2, <2>6, <3>1 DEF SurfaceButton, AuxButton
    <3>2. CASE focused # Nobody /\ Modified(focused)
      <4>1. focused \in Editable
        BY <3>2 DEF Modified
      <4> QED
        BY <1>1, <2>1, <2>6, <3>2, <4>1 DEF SurfaceButton, AuxButton, StoreStep
    <3>3. CASE focused # Nobody /\ ~Modified(focused)
      <4>1. UNCHANGED <<numbers, outbox, defaults>>
        BY <2>1, <2>6, <3>3 DEF SurfaceButton, AuxButton
      <4> QED
        BY <1>1, <4>1, NumbersKept DEF PlainStep, EditMail, fields
    <3> QED
      BY <3>1, <3>2, <3>3
  <2>7. CASE b = "SYSTEM"
    <3>1. CASE focused # Nobody /\ Modified(focused)
      <4>1. Reset(focused) /\ UNCHANGED defaults
        BY <2>1, <2>7, <3>1 DEF SurfaceButton, SystemButton
      <4>2. focused \in Editable /\ defaults[focused] \in Numbers
        BY <3>1 DEF Modified, NumbersTyped, Opinions
      <4>0. PICK v \in Numbers : v = defaults[focused]
        BY <4>2
      <4>3. PICK h : v = defaults[focused] /\ h = Commit(Touched(hist[focused], values[focused]), v)
        BY <4>0
      <4>4. /\ hist' = [hist EXCEPT ![focused] = h] /\ values' = [values EXCEPT ![focused] = v]
            /\ SendEdit(focused, v)
        BY <4>1, <4>3 DEF Reset, SetNumber
      <4>5. FieldMoves(focused)
        BY <4>2, <4>3, <4>4 DEF FieldMoves, Resets, NumbersTyped
      <4> QED
        BY <1>1, <4>1, <4>2, <4>4, <4>5, OneMoves DEF PlainStep, EditMail, fields
    <3>2. CASE ~(focused # Nobody /\ Modified(focused))
      <4>1. UNCHANGED <<numbers, outbox, defaults>>
        BY <2>1, <2>7, <3>2 DEF SurfaceButton, SystemButton
      <4> QED
        BY <1>1, <4>1, NumbersKept DEF PlainStep, EditMail, fields
    <3> QED
      BY <3>1, <3>2
  <2> QED
    BY <2>1, <2>3, <2>4, <2>5, <2>6, <2>7
<1> QED
  BY <1>2, <1>3

\* A tick.
LEMMA TickIsPlain == NumbersTyped /\ Tick => PlainStep
PROOF
<1> SUFFICES ASSUME NumbersTyped, Tick PROVE PlainStep
  OBVIOUS
<1>1. UNCHANGED <<fields, host, surprises, values>> /\ TickHold
  BY DEF Tick, host, bounds
<1>2. EditMail
  BY <1>1, ActionIsPlain DEF TickHold, EditMail
<1>3. hist' = [s \in Editable |-> Ticked(hist[s], values[s])]
  BY DEF Tick, NumbersTyped
<1>4. \A s \in Editable : FieldMoves(s)
  BY <1>1, <1>3 DEF FieldMoves, Settles
<1>5. NumbersMove
  BY <1>1, <1>3, <1>4 DEF NumbersMove, NumbersTyped
<1> QED
  BY <1>1, <1>2, <1>5 DEF PlainStep

\* What the host shows and lights up.
LEMMA RevealIsPlain ==
  ASSUME NumbersTyped, NEW s \in Occupied, Reveal(s)
  PROVE  PlainStep
PROOF
<1>1. UNCHANGED <<fields, host, values, outbox>> /\ surprises' = surprises + 1
  BY DEF Reveal, Surprise
<1>2. hist' = hist \/ LeavesFocus
  BY <1>1 DEF Reveal, SetPage, LeaveFocus, LeavesFocus
<1> QED
  BY <1>1, <1>2, NumbersKept, LeavingMoves DEF PlainStep, EditMail, numbers

\* A step that leaves the numbers and the mail alone.
LEMMA QuietIsPlain ==
  ASSUME NumbersTyped, UNCHANGED <<fields, host, numbers, outbox>>,
         surprises' \in {surprises, surprises + 1}
  PROVE  PlainStep
BY NumbersKept DEF PlainStep, EditMail

\* Every step is one of these, or one of the host's.
LEMMA StepsAre ==
  ASSUME NumbersTyped, [Next]_vars
  PROVE  \/ PlainStep \/ StoreStep
         \/ (\E d \in Surfaces : Publish(d)) \/ Clear
         \/ (\E s \in Editable, v \in Numbers : HostMoves(s, v))
         \/ (\E s \in Editable, v \in Opinions : HostChooses(s, v))
         \/ HearDefaults \/ Deliver
PROOF
<1>1. CASE Hand
  <2>1. ASSUME NEW k \in Knobs, Release(k) PROVE PlainStep
    BY <2>1, QuietIsPlain DEF Release, Input
  <2>2. ASSUME LetGo PROVE PlainStep
    BY <2>2, QuietIsPlain DEF LetGo, Input
  <2>3. Turned \subseteq Knobs
    BY PanelBounds DEF PanelBounds
  <2> QED
    BY <1>1, <2>1, <2>2, <2>3, PushIsPlain, RotateIsPlain, PressIsPlain DEF Hand
<1>2. CASE Host
  <2>1. ASSUME NEW slots \in {{}} \union {{s} : s \in Occupied}, NEW lease \in 1..MaxLease,
               Highlight(slots, lease)
        PROVE  PlainStep
    BY <2>1, QuietIsPlain DEF Highlight, Surprise
  <2> QED
    BY <1>2, <2>1, RevealIsPlain DEF Host, Opinions
<1>3. CASE UNCHANGED vars
  BY <1>3, QuietIsPlain DEF vars, bounds
<1> QED
  BY <1>1, <1>2, <1>3, TickIsPlain DEF Next

-----------------------------------------------------------------------------
(* The invariant of the numbers and the defaults.                          *)

\* What waits for the host, apart from its order.
Entries == {outbox[i] : i \in DOMAIN outbox}

\* Every report is of a descriptor that was shown; one of the descriptor
\* that is shown is of its fields.
Sent(m) ==
  m.op # "ACTIVATE" =>
    /\ m.revision \in 1..surprises
    /\ m.revision = revision => m.slot \in Editable /\ (m.op = "EDIT" => m.value \in Numbers)
MailTyped == IsMail /\ \A m \in Entries : Sent(m)

\* So is every answer.
Said(a) ==
  /\ a.revision \in 1..surprises
  /\ a.revision = revision => a.slot \in Editable /\ a.value \in Opinions
AnswersTyped == (\E S : answers \in Seq(S)) /\ \A i \in DOMAIN answers : Said(answers[i])

\* What will yet be said of a field's default.
IsStore(m, s) == m.op \notin {"EDIT", "ACTIVATE"} /\ m.revision = revision /\ m.slot = s
Asked(s) == \E m \in Entries : IsStore(m, s)
Awaited(s) == {i \in DOMAIN answers : answers[i].revision = revision /\ answers[i].slot = s}

\* The last answer says what the host has; while none is on its way, and no
\* Store, the panel has it.
LastSays(s) ==
  \A i \in Awaited(s) : (\A j \in Awaited(s) : j <= i) => answers[i].value = chosen[s]
Agrees(s) == Awaited(s) = {} /\ ~Asked(s) => defaults[s] = chosen[s]
Agreeing == \A s \in Editable : LastSays(s) /\ Agrees(s)

NInv == NumbersTyped /\ MailTyped /\ AnswersTyped /\ Agreeing

\* A report that is put at the end.
LEMMA MailGrows ==
  ASSUME IsMail, NEW m, outbox' = Append(outbox, m)
  PROVE  IsMail' /\ Entries' = Entries \union {m}
PROOF
<1>1. PICK S : outbox \in Seq(S)
  BY DEF IsMail
<1>2. PICK T : T = S \union {m}
  OBVIOUS
<1>3. outbox \in Seq(T) /\ m \in T
  BY <1>1, <1>2
<1>4. /\ outbox' \in Seq(T) /\ Len(outbox') = Len(outbox) + 1 /\ Len(outbox) \in Nat
      /\ \A i \in 1..Len(outbox) : outbox'[i] = outbox[i]
      /\ outbox'[Len(outbox) + 1] = m
  BY <1>3, AppendProperties
<1>5. DOMAIN outbox = 1..Len(outbox) /\ DOMAIN outbox' = 1..(Len(outbox) + 1)
  BY <1>3, <1>4
<1> QED
  BY <1>4, <1>5 DEF IsMail, Entries

\* The report that goes first.
LEMMA MailLeaves ==
  ASSUME IsMail, outbox # <<>>, outbox' = Tail(outbox)
  PROVE  /\ IsMail' /\ Head(outbox) \in Entries
         /\ Entries' \subseteq Entries /\ Entries \subseteq Entries' \union {Head(outbox)}
PROOF
<1>1. PICK S : outbox \in Seq(S)
  BY DEF IsMail
<1>2. /\ outbox' \in Seq(S) /\ Len(outbox') = Len(outbox) - 1 /\ Len(outbox) \in Nat \ {0}
      /\ \A i \in 1..Len(outbox') : outbox'[i] = outbox[i + 1]
      /\ Head(outbox) = outbox[1]
  BY <1>1, HeadTailProperties, EmptySeq
<1>3. DOMAIN outbox = 1..Len(outbox) /\ DOMAIN outbox' = 1..Len(outbox')
  BY <1>1, <1>2
<1>4. Head(outbox) \in Entries
  BY <1>2, <1>3 DEF Entries
<1>5. \A i \in DOMAIN outbox' : i + 1 \in DOMAIN outbox /\ outbox'[i] = outbox[i + 1]
  BY <1>2, <1>3
<1>6. Entries' \subseteq Entries
  BY <1>5 DEF Entries
<1>7. ASSUME NEW i \in DOMAIN outbox, i # 1 PROVE outbox[i] \in Entries'
  <2>0. i - 1 \in DOMAIN outbox' /\ (i - 1) + 1 = i
    BY <1>2, <1>3, <1>7
  <2>1. PICK j \in DOMAIN outbox' : j + 1 = i
    BY <2>0
  <2> QED
    BY <1>5, <2>1 DEF Entries
<1> QED
  BY <1>1, <1>2, <1>4, <1>6, <1>7 DEF IsMail, Entries

\* An edit takes the place of one that waits, or is put at the end.
LEMMA MailEdited ==
  ASSUME IsMail, NEW s, NEW v, SendEdit(s, v)
  PROVE  LET m == Report("EDIT", s, v)
         IN  /\ IsMail' /\ Entries' \subseteq Entries \union {m}
             /\ \A n \in Entries : n.op # "EDIT" => n \in Entries'
PROOF
<1> DEFINE m == Report("EDIT", s, v)
<1>1. CASE Waiting("EDIT", s) = {}
  <2>1. outbox' = Append(outbox, m)
    BY <1>1 DEF SendEdit
  <2> HIDE DEF m
  <2>2. IsMail' /\ Entries' = Entries \union {m}
    BY <2>1, MailGrows
  <2> QED
    BY <2>2 DEF m
<1>2. CASE Waiting("EDIT", s) # {}
  <2> DEFINE I == Waiting("EDIT", s)
  <2>1. outbox' = [i \in DOMAIN outbox |-> IF i \in I THEN m ELSE outbox[i]]
    BY <1>2 DEF SendEdit
  <2>2. \A i \in I : i \in DOMAIN outbox /\ outbox[i].op = "EDIT"
    BY DEF Waiting
  <2> HIDE DEF I, m
  <2>3. MailMoves
    BY <2>1 DEF MailMoves
  <2>4. IsMail'
    BY <2>3, MailStays
  <2>5. Entries' \subseteq Entries \union {m}
    BY <2>1 DEF Entries
  <2>6. ASSUME NEW n \in Entries, n.op # "EDIT" PROVE n \in Entries'
    <3>1. PICK i \in DOMAIN outbox : n = outbox[i]
      BY DEF Entries
    <3>2. i \notin I /\ i \in DOMAIN outbox' /\ outbox'[i] = n
      BY <2>1, <2>2, <2>6, <3>1
    <3> QED
      BY <3>2 DEF Entries
  <2> QED
    BY <2>4, <2>5, <2>6 DEF m
<1> QED
  BY <1>1, <1>2

\* An answer that is put at the end.
LEMMA AnswersGrow ==
  ASSUME NEW a, \E S : answers \in Seq(S), answers' = Append(answers, a)
  PROVE  /\ \E S : answers' \in Seq(S)
         /\ \E n \in Nat :
              /\ DOMAIN answers = 1..n /\ DOMAIN answers' = 1..(n + 1)
              /\ answers'[n + 1] = a /\ \A i \in 1..n : answers'[i] = answers[i]
PROOF
<1>1. PICK S : answers \in Seq(S)
  OBVIOUS
<1>2. PICK T : T = S \union {a}
  OBVIOUS
<1>3. answers \in Seq(T) /\ a \in T
  BY <1>1, <1>2
<1>4. /\ answers' \in Seq(T) /\ Len(answers') = Len(answers) + 1 /\ Len(answers) \in Nat
      /\ \A i \in 1..Len(answers) : answers'[i] = answers[i]
      /\ answers'[Len(answers) + 1] = a
  BY <1>3, AppendProperties
<1>5. DOMAIN answers = 1..Len(answers) /\ DOMAIN answers' = 1..(Len(answers) + 1)
  BY <1>3, <1>4
<1> QED
  BY <1>4, <1>5

\* The answer that goes first.
LEMMA AnswersLeave ==
  ASSUME \E S : answers \in Seq(S), answers # <<>>, answers' = Tail(answers)
  PROVE  /\ \E S : answers' \in Seq(S)
         /\ \E n \in Nat :
              /\ DOMAIN answers = 1..(n + 1) /\ DOMAIN answers' = 1..n
              /\ Head(answers) = answers[1] /\ \A i \in 1..n : answers'[i] = answers[i + 1]
PROOF
<1>1. PICK S : answers \in Seq(S)
  OBVIOUS
<1>2. /\ answers' \in Seq(S) /\ Len(answers') = Len(answers) - 1 /\ Len(answers) \in Nat \ {0}
      /\ \A i \in 1..Len(answers') : answers'[i] = answers[i + 1]
      /\ Head(answers) = answers[1]
  BY <1>1, HeadTailProperties, EmptySeq
<1>3. DOMAIN answers = 1..Len(answers) /\ DOMAIN answers' = 1..Len(answers')
  BY <1>1, <1>2
<1>4. Len(answers) - 1 \in Nat /\ (Len(answers) - 1) + 1 = Len(answers)
  BY <1>2
<1>5. PICK n \in Nat : n = Len(answers) - 1 /\ n + 1 = Len(answers)
  BY <1>4
<1> QED
  BY <1>2, <1>3, <1>5

\* Fields that make their moves stay what they are, and follow Undo.
LEMMA FieldsMove ==
  ASSUME NumbersTyped, NumbersMove, desc' = desc
  PROVE  /\ Editable' = Editable
         /\ values' \in [Editable -> Numbers] /\ hist' \in [Editable -> Histories]
         /\ \A s : [U(s)!UndoNext]_(U(s)!undoVars)
PROOF
<1>1. Editable' = Editable
  BY DEF Editable, Occupied
<1>2. ASSUME NEW s \in Editable PROVE Follows(s)
  <2>1. hist[s] \in Histories /\ values[s] \in Numbers /\ s \in Editable' /\ FieldMoves(s)
    BY <1>1 DEF NumbersTyped, NumbersMove
  <2> QED
    BY <2>1, FieldFollows
<1>3. values' \in [Editable -> Numbers] /\ hist' \in [Editable -> Histories]
  BY <1>2 DEF Follows, NumbersMove
<1>4. ASSUME NEW s PROVE [U(s)!UndoNext]_(U(s)!undoVars)
  <2>1. CASE s \in Editable
    BY <1>2, <2>1 DEF Follows
  <2>2. CASE s \notin Editable
    BY <1>1, <2>2, NoFieldStays
  <2> QED
    BY <2>1, <2>2
<1> QED
  BY <1>1, <1>3, <1>4

\* Reports stay what they are while the descriptor does.
LEMMA SentStays ==
  ASSUME NumbersTyped, revision' = revision, Editable' = Editable,
         surprises' \in {surprises, surprises + 1}, NEW m, Sent(m)
  PROVE  Sent(m)'
BY DEF Sent, NumbersTyped

\* So do answers.
LEMMA SaidStays ==
  ASSUME NumbersTyped, revision' = revision, Editable' = Editable,
         surprises' \in {surprises, surprises + 1}, NEW a, Said(a)
  PROVE  Said(a)'
BY DEF Said, NumbersTyped

\* What an action or an edit does to the mail: nothing to the Stores in it.
LEMMA EditMailKeeps ==
  ASSUME NumbersTyped, MailTyped, EditMail, revision' = revision, Editable' = Editable,
         surprises' \in {surprises, surprises + 1}
  PROVE  MailTyped' /\ \A s : Asked(s)' = Asked(s)
PROOF
<1>1. CASE UNCHANGED outbox
  <2>1. Entries' = Entries /\ IsMail'
    BY <1>1 DEF Entries, MailTyped, IsMail
  <2> QED
    BY <2>1, SentStays DEF MailTyped, Asked, IsStore
<1>2. ASSUME NEW m, m.op = "ACTIVATE", outbox' = Append(outbox, m)
      PROVE  MailTyped' /\ \A s : Asked(s)' = Asked(s)
  <2>1. IsMail' /\ Entries' = Entries \union {m}
    BY <1>2, MailGrows DEF MailTyped
  <2>2. Sent(m)'
    BY <1>2 DEF Sent
  <2>3. MailTyped'
    BY <2>1, <2>2, SentStays DEF MailTyped
  <2> QED
    BY <1>2, <2>1, <2>3 DEF Asked, IsStore
<1>3. ASSUME NEW t \in Editable, NEW v \in Numbers, SendEdit(t, v)
      PROVE  MailTyped' /\ \A s : Asked(s)' = Asked(s)
  <2>0. PICK m : m = Report("EDIT", t, v)
    OBVIOUS
  <2>1. m.op = "EDIT" /\ m.revision = revision /\ m.slot = t /\ m.value = v
    BY <2>0 DEF Report
  <2>2. /\ IsMail' /\ Entries' \subseteq Entries \union {m}
        /\ \A n \in Entries : n.op # "EDIT" => n \in Entries'
    BY <1>3, <2>0, MailEdited DEF MailTyped
  <2>3. Sent(m)'
    BY <2>1 DEF Sent, NumbersTyped
  <2>4. MailTyped'
    BY <2>2, <2>3, SentStays DEF MailTyped
  <2>5. ASSUME NEW s PROVE Asked(s)' = Asked(s)
    BY <2>1, <2>2 DEF Asked, IsStore
  <2> QED
    BY <2>4, <2>5
<1> QED
  BY <1>1, <1>2, <1>3 DEF EditMail

\* Answers that stay.
LEMMA AnswersStay ==
  ASSUME NumbersTyped, AnswersTyped, UNCHANGED <<revision, answers>>, Editable' = Editable,
         surprises' \in {surprises, surprises + 1}
  PROVE  AnswersTyped' /\ \A s : Awaited(s)' = Awaited(s)
BY SaidStays DEF AnswersTyped, Awaited

\* A plain step keeps the invariant.
LEMMA PlainKeeps == NInv /\ PlainStep => NInv'
PROOF
<1> SUFFICES ASSUME NInv, PlainStep PROVE NInv'
  OBVIOUS
<1>1. /\ UNCHANGED <<desc, revision, defaults, truth, chosen, answers>> /\ NumbersMove /\ EditMail
      /\ surprises' \in {surprises, surprises + 1}
      /\ NumbersTyped /\ MailTyped /\ AnswersTyped /\ Agreeing
  BY DEF PlainStep, fields, host, NInv
<1>2. Editable' = Editable /\ values' \in [Editable -> Numbers] /\ hist' \in [Editable -> Histories]
  BY <1>1, FieldsMove
<1>3. NumbersTyped'
  BY <1>1, <1>2 DEF NumbersTyped
<1>4. MailTyped' /\ AnswersTyped' /\ \A s : Asked(s)' = Asked(s) /\ Awaited(s)' = Awaited(s)
  BY <1>1, <1>2, EditMailKeeps, AnswersStay
<1>5. Agreeing'
  BY <1>1, <1>2, <1>4 DEF Agreeing, LastSays, Agrees
<1> QED
  BY <1>3, <1>4, <1>5 DEF NInv

\* A Store is asked of the host.
LEMMA StoreKeeps == NInv /\ StoreStep => NInv'
PROOF
<1> SUFFICES ASSUME NInv, StoreStep PROVE NInv'
  OBVIOUS
<1>1. /\ UNCHANGED <<desc, revision, truth, chosen, answers, surprises, values, hist>>
      /\ focused \in Editable /\ defaults' = [defaults EXCEPT ![focused] = values[focused]]
      /\ outbox' = Append(outbox, Report("SAVE_DEFAULT", focused, None))
      /\ NumbersTyped /\ MailTyped /\ AnswersTyped /\ Agreeing
  BY DEF StoreStep, host, numbers, NInv
<1>2. Editable' = Editable
  BY <1>1 DEF Editable, Occupied
<1>3. NumbersTyped'
  BY <1>1, <1>2 DEF NumbersTyped, Opinions
<1>a. PICK m, f : m = Report("SAVE_DEFAULT", focused, None) /\ f = focused
  OBVIOUS
<1>4. m.op = "SAVE_DEFAULT" /\ m.revision = revision /\ m.slot = f /\ f \in Editable
  BY <1>1, <1>a DEF Report
<1>5. IsMail' /\ Entries' = Entries \union {m}
  BY <1>1, <1>a, MailGrows DEF MailTyped
<1>6. Sent(m)'
  BY <1>1, <1>2, <1>4 DEF Sent, NumbersTyped
<1>7. MailTyped'
  BY <1>1, <1>2, <1>5, <1>6, SentStays DEF MailTyped
<1>8. Asked(f)' /\ \A s : Asked(s) => Asked(s)'
  BY <1>1, <1>4, <1>5 DEF Asked, IsStore
<1>9. AnswersTyped' /\ \A s : Awaited(s)' = Awaited(s)
  BY <1>1, <1>2, AnswersStay
<1>10. ASSUME NEW s \in Editable PROVE LastSays(s)' /\ Agrees(s)'
  <2>1. LastSays(s)'
    BY <1>1, <1>9 DEF Agreeing, LastSays
  <2>2. s # f => defaults'[s] = defaults[s]
    BY <1>1, <1>a DEF NumbersTyped
  <2>3. Agrees(s)'
    BY <1>1, <1>8, <1>9, <2>2 DEF Agreeing, Agrees
  <2> QED
    BY <2>1, <2>3
<1>11. Agreeing'
  BY <1>2, <1>10 DEF Agreeing
<1> QED
  BY <1>3, <1>7, <1>9, <1>11 DEF NInv

\* A new descriptor: nothing on its way is of it.
LEMMA DescribedKeepsNumbers ==
  ASSUME NInv, NEW d, NEW r \in Nat, Described(d, r), UNCHANGED <<outbox, answers>>,
         surprises' = surprises + 1, r = surprises + 1 \/ (r = 0 /\ NumbersOf(d) = {})
  PROVE  NInv'
PROOF
<1>1. /\ values' = [s \in NumbersOf(d) |-> 0] /\ defaults' = [s \in NumbersOf(d) |-> 0]
      /\ hist' = [s \in NumbersOf(d) |-> NoHistory]
      /\ truth' = values' /\ chosen' = defaults' /\ revision' = r
      /\ NumbersTyped /\ MailTyped /\ AnswersTyped
  BY DEF Described, NInv
<1>2. Editable' = NumbersOf(d)
  BY DEF Described, Editable, Occupied, NumbersOf
<1>3. 0 \in Numbers
  BY PanelBounds DEF PanelBounds, Numbers
<1>4. NoHistory \in Histories
  <2>1. HistDepth \in Nat \ {0}
    BY HistoryAssumption DEF HistoryAssumption
  <2>2. /\ NoHistory \in HistoryType /\ NoHistory.count = 0 /\ NoHistory.pos = 0
        /\ NoHistory.pending = FALSE
    BY <2>1 DEF NoHistory, HistoryType, Rings
  <2> QED
    BY <2>1, <2>2 DEF Histories, Sound
<1>5. surprises \in Nat /\ r <= surprises'
  BY <1>1 DEF NumbersTyped
<1>6. NumbersTyped'
  BY <1>1, <1>2, <1>3, <1>4, <1>5 DEF NumbersTyped, Opinions
<1>7. \A q \in 1..surprises : q \in 1..surprises' /\ q # r
  BY <1>5
<1>8. Entries' = Entries /\ IsMail'
  BY <1>1 DEF Entries, MailTyped, IsMail
<1>9. MailTyped'
  BY <1>1, <1>7, <1>8 DEF MailTyped, Sent
<1>10. AnswersTyped'
  BY <1>1, <1>7 DEF AnswersTyped, Said
<1>11. \A s : Awaited(s)' = {}
  BY <1>1, <1>7 DEF AnswersTyped, Said, Awaited
<1>12. Agreeing'
  BY <1>1, <1>11 DEF Agreeing, LastSays, Agrees
<1> QED
  BY <1>6, <1>9, <1>10, <1>12 DEF NInv

\* The host moves a value.
LEMMA HostMovesKeeps ==
  ASSUME NInv, NEW s \in Editable, NEW v \in Numbers, HostMoves(s, v)
  PROVE  NInv' /\ NumbersMove
PROOF
<1>1. /\ UNCHANGED <<desc, revision, defaults, hist, chosen, answers, outbox>>
      /\ surprises' \in {surprises, surprises + 1}
      /\ values' = [values EXCEPT ![s] = v] /\ truth' = [truth EXCEPT ![s] = v]
      /\ NumbersTyped /\ MailTyped /\ AnswersTyped /\ Agreeing
  BY DEF HostMoves, Surprise, fields, NInv
<1>2. FieldMoves(s)
  BY <1>1 DEF FieldMoves, IsMoved, NumbersTyped
<1>3. hist' = [hist EXCEPT ![s] = hist[s]]
  BY <1>1 DEF NumbersTyped
<1>4. NumbersMove
  BY <1>1, <1>2, <1>3, OneMoves
<1>5. Editable' = Editable /\ values' \in [Editable -> Numbers] /\ hist' \in [Editable -> Histories]
  BY <1>1, <1>4, FieldsMove
<1>6. NumbersTyped'
  BY <1>1, <1>5 DEF NumbersTyped
<1>7. EditMail
  BY <1>1 DEF EditMail
<1>8. MailTyped' /\ AnswersTyped' /\ \A t : Asked(t)' = Asked(t) /\ Awaited(t)' = Awaited(t)
  BY <1>1, <1>5, <1>7, EditMailKeeps, AnswersStay
<1>9. Agreeing'
  BY <1>1, <1>5, <1>8 DEF Agreeing, LastSays, Agrees
<1> QED
  BY <1>4, <1>6, <1>8, <1>9 DEF NInv

\* What the host says of a default is the last that is said of it.
LEMMA ChosenIsSaid ==
  ASSUME NInv, NEW s \in Editable, NEW v \in Opinions, chosen' = [chosen EXCEPT ![s] = v],
         answers' = Append(answers, Answer(s, v)),
         UNCHANGED <<desc, revision, defaults>>, surprises' \in {surprises, surprises + 1},
         \A t \in Editable : t # s => Asked(t)' = Asked(t)
  PROVE  AnswersTyped' /\ chosen' \in [Editable -> Opinions] /\ Agreeing'
PROOF
<1>1. NumbersTyped /\ AnswersTyped /\ Agreeing /\ revision' = revision /\ defaults' = defaults
  BY DEF NInv
<1>2. Editable' = Editable
  BY DEF Editable, Occupied
<1>3. PICK a : a = Answer(s, v)
  OBVIOUS
<1>4. a.revision = revision /\ a.slot = s /\ a.value = v
  BY <1>3 DEF Answer
<1>5. PICK n \in Nat :
        /\ DOMAIN answers = 1..n /\ DOMAIN answers' = 1..(n + 1)
        /\ answers'[n + 1] = a /\ \A i \in 1..n : answers'[i] = answers[i]
  BY <1>1, <1>3, AnswersGrow DEF AnswersTyped
<1>6. revision \in 1..surprises
  BY <1>1 DEF NumbersTyped
<1>7. Said(a)'
  BY <1>1, <1>2, <1>4, <1>6, SaidStays DEF Said
<1>8. AnswersTyped'
  <2>1. \E S : answers' \in Seq(S)
    BY <1>1, <1>3, AnswersGrow DEF AnswersTyped
  <2>2. ASSUME NEW i \in DOMAIN answers' PROVE \E b : b = answers'[i] /\ Said(b)'
    <3>1. CASE i = n + 1
      BY <1>5, <1>7, <3>1
    <3>2. CASE i # n + 1
      <4>1. i \in 1..n /\ answers'[i] = answers[i]
        BY <1>5, <3>2
      <4>2. PICK b : b = answers[i]
        OBVIOUS
      <4>3. Said(b)
        BY <1>1, <1>5, <4>1, <4>2 DEF AnswersTyped
      <4>4. Said(b)'
        BY <1>1, <1>2, <4>3 DEF Said, NumbersTyped
      <4> QED
        BY <4>1, <4>2, <4>4
    <3> QED
      BY <3>1, <3>2
  <2> QED
    BY <2>1, <2>2 DEF AnswersTyped, Said
<1>9. PICK z \in Nat : z = n + 1 /\ z \notin 1..n /\ \A i \in 1..z : i # z => i \in 1..n
  OBVIOUS
<1>10. ASSUME NEW t \in Editable PROVE LastSays(t)' /\ Agrees(t)'
  <2>1. CASE t = s
    <3>1. z \in Awaited(t)' /\ Awaited(t)' \subseteq 1..z
      BY <1>1, <1>4, <1>5, <1>9, <2>1 DEF Awaited
    <3>2. \A i \in Awaited(t)' : (\A j \in Awaited(t)' : j <= i) => i = z
      BY <1>9, <3>1
    <3>3. chosen'[t] = v /\ answers'[z].value = v
      BY <1>1, <1>4, <1>5, <1>9, <2>1 DEF NumbersTyped
    <3> QED
      BY <3>1, <3>2, <3>3 DEF LastSays, Agrees
  <2>2. CASE t # s
    <3>1. Awaited(t)' = Awaited(t)
      BY <1>1, <1>4, <1>5, <1>9, <2>2 DEF Awaited
    <3>2. \A i \in Awaited(t) : answers'[i] = answers[i]
      BY <1>5 DEF Awaited
    <3>3. chosen'[t] = chosen[t] /\ Asked(t)' = Asked(t)
      BY <1>1, <2>2 DEF NumbersTyped
    <3> QED
      BY <1>1, <3>1, <3>2, <3>3 DEF Agreeing, LastSays, Agrees
  <2> QED
    BY <2>1, <2>2
<1>11. chosen' \in [Editable -> Opinions]
  BY <1>1 DEF NumbersTyped
<1> QED
  BY <1>2, <1>8, <1>10, <1>11 DEF Agreeing

\* The host takes another default and says so.
LEMMA HostChoosesKeeps ==
  ASSUME NInv, NEW s \in Editable, NEW v \in Opinions, HostChooses(s, v)
  PROVE  NInv' /\ NumbersMove
PROOF
<1>1. /\ UNCHANGED <<desc, revision, defaults, values, hist, truth, outbox>>
      /\ surprises' \in {surprises, surprises + 1}
      /\ chosen' = [chosen EXCEPT ![s] = v] /\ answers' = Append(answers, Answer(s, v))
      /\ NumbersTyped /\ MailTyped
  BY DEF HostChooses, Surprise, fields, numbers, NInv
<1>2. NumbersMove
  BY <1>1, NumbersKept DEF numbers
<1>3. Editable' = Editable
  BY <1>1, <1>2, FieldsMove
<1>4. EditMail
  BY <1>1 DEF EditMail
<1>5. MailTyped' /\ \A t : Asked(t)' = Asked(t)
  BY <1>1, <1>3, <1>4, EditMailKeeps
<1>6. AnswersTyped' /\ chosen' \in [Editable -> Opinions] /\ Agreeing'
  BY <1>1, <1>5, ChosenIsSaid
<1>7. NumbersTyped'
  BY <1>1, <1>3, <1>6 DEF NumbersTyped
<1> QED
  BY <1>2, <1>5, <1>6, <1>7 DEF NInv

\* The host takes in a report.
LEMMA DeliverKeeps == NInv /\ Deliver => NInv' /\ NumbersMove
PROOF
<1> SUFFICES ASSUME NInv, Deliver PROVE NInv' /\ NumbersMove
  OBVIOUS
<1>1. PICK m : m = Head(outbox)
  OBVIOUS
<1>2. /\ UNCHANGED <<desc, revision, defaults, values, hist, surprises>>
      /\ outbox # <<>> /\ outbox' = Tail(outbox)
      /\ NumbersTyped /\ MailTyped /\ AnswersTyped /\ Agreeing
  BY DEF Deliver, fields, numbers, bounds, NInv
<1>3. NumbersMove
  BY <1>2, NumbersKept DEF numbers
<1>4. Editable' = Editable
  BY <1>2, <1>3, FieldsMove
<1>5. /\ IsMail' /\ m \in Entries
      /\ Entries' \subseteq Entries /\ Entries \subseteq Entries' \union {m}
  BY <1>1, <1>2, MailLeaves DEF MailTyped
<1>6. MailTyped'
  BY <1>2, <1>4, <1>5, SentStays DEF MailTyped
<1>7. ASSUME NEW s, ~IsStore(m, s) PROVE Asked(s)' = Asked(s)
  BY <1>2, <1>5, <1>7 DEF Asked, IsStore
<1>8. m.revision = revision /\ m.op # "ACTIVATE" =>
        m.slot \in Editable /\ (m.op = "EDIT" => m.value \in Numbers)
  BY <1>2, <1>5 DEF MailTyped, Sent
<1>9. CASE m.revision # revision \/ m.op \in {"ACTIVATE", "EDIT"}
  <2>1. \A s : Asked(s)' = Asked(s)
    BY <1>7, <1>9 DEF IsStore
  <2>2. UNCHANGED <<chosen, answers>> /\ truth' \in [Editable -> Numbers]
    <3>1. CASE m.revision # revision \/ m.op = "ACTIVATE"
      BY <1>1, <1>2, <3>1 DEF Deliver, host, NumbersTyped
    <3>2. CASE m.revision = revision /\ m.op = "EDIT"
      <4>1. truth' = [truth EXCEPT ![m.slot] = m.value] /\ UNCHANGED <<chosen, answers>>
        BY <1>1, <3>2 DEF Deliver
      <4> QED
        BY <1>2, <1>8, <3>2, <4>1 DEF NumbersTyped
    <3> QED
      BY <1>9, <3>1, <3>2
  <2>3. AnswersTyped' /\ \A s : Awaited(s)' = Awaited(s)
    BY <1>2, <1>4, <2>2, AnswersStay
  <2>4. NumbersTyped'
    BY <1>2, <1>4, <2>2 DEF NumbersTyped
  <2>5. Agreeing'
    BY <1>2, <1>4, <2>1, <2>2, <2>3 DEF Agreeing, LastSays, Agrees
  <2> QED
    BY <1>3, <1>6, <2>3, <2>4, <2>5 DEF NInv
<1>10. CASE m.revision = revision /\ m.op \notin {"ACTIVATE", "EDIT"}
  <2>1. PICK s \in Editable, v \in Opinions : s = m.slot /\ v = truth[s]
    BY <1>2, <1>8, <1>10 DEF NumbersTyped, Opinions
  <2>2. /\ chosen' = [chosen EXCEPT ![s] = v] /\ answers' = Append(answers, Answer(s, v))
        /\ UNCHANGED truth
    BY <1>1, <1>10, <2>1 DEF Deliver
  <2>3. \A t \in Editable : t # s => Asked(t)' = Asked(t)
    BY <1>7, <2>1 DEF IsStore
  <2>4. AnswersTyped' /\ chosen' \in [Editable -> Opinions] /\ Agreeing'
    BY <1>2, <2>2, <2>3, ChosenIsSaid
  <2>5. NumbersTyped'
    BY <1>2, <1>4, <2>2, <2>4 DEF NumbersTyped
  <2> QED
    BY <1>3, <1>6, <2>4, <2>5 DEF NInv
<1> QED
  BY <1>9, <1>10

\* The panel takes in an answer: the last one makes it agree.
LEMMA HearKeeps == NInv /\ HearDefaults => NInv' /\ NumbersMove
PROOF
<1> SUFFICES ASSUME NInv, HearDefaults PROVE NInv' /\ NumbersMove
  OBVIOUS
<1>1. PICK a : a = Head(answers)
  OBVIOUS
<1>2. /\ UNCHANGED <<desc, revision, values, hist, outbox, truth, chosen, surprises>>
      /\ answers # <<>> /\ answers' = Tail(answers)
      /\ defaults' = IF a.revision = revision THEN [defaults EXCEPT ![a.slot] = a.value] ELSE defaults
      /\ NumbersTyped /\ MailTyped /\ AnswersTyped /\ Agreeing
  BY <1>1 DEF HearDefaults, numbers, bounds, NInv
<1>3. NumbersMove
  BY <1>2, NumbersKept DEF numbers
<1>4. Editable' = Editable
  BY <1>2, <1>3, FieldsMove
<1>5. EditMail
  BY <1>2 DEF EditMail
<1>6. MailTyped' /\ \A t : Asked(t)' = Asked(t)
  BY <1>2, <1>4, <1>5, EditMailKeeps
<1>7. PICK n \in Nat :
        /\ DOMAIN answers = 1..(n + 1) /\ DOMAIN answers' = 1..n
        /\ a = answers[1] /\ \A i \in 1..n : answers'[i] = answers[i + 1]
  BY <1>1, <1>2, AnswersLeave DEF AnswersTyped
<1>8. Said(a)
  <2>1. 1 \in DOMAIN answers
    BY <1>7
  <2> QED
    BY <1>2, <1>7, <2>1 DEF AnswersTyped
<1>9. AnswersTyped'
  <2>1. \E S : answers' \in Seq(S)
    BY <1>1, <1>2, AnswersLeave DEF AnswersTyped
  <2>2. ASSUME NEW i \in DOMAIN answers' PROVE \E b : b = answers'[i] /\ Said(b)'
    <3>1. PICK k \in DOMAIN answers : k = i + 1 /\ answers'[i] = answers[k]
      BY <1>7
    <3>2. PICK b : b = answers[k]
      OBVIOUS
    <3>3. Said(b)
      BY <1>2, <3>1, <3>2 DEF AnswersTyped
    <3>4. Said(b)'
      BY <1>2, <1>4, <3>3 DEF Said
    <3> QED
      BY <3>1, <3>2, <3>4
  <2> QED
    BY <2>1, <2>2 DEF AnswersTyped, Said
<1>10. defaults' \in [Editable -> Opinions]
  BY <1>2, <1>8 DEF NumbersTyped, Said
<1>11. NumbersTyped'
  BY <1>2, <1>4, <1>10 DEF NumbersTyped
<1>12. ASSUME NEW s \in Editable PROVE LastSays(s)' /\ Agrees(s)'
  <2>1. \A i \in 1..n : i \in Awaited(s)' <=> i + 1 \in Awaited(s)
    BY <1>2, <1>7 DEF Awaited
  <2>2. Awaited(s)' \subseteq 1..n /\ Awaited(s) \subseteq 1..(n + 1)
    BY <1>7 DEF Awaited
  <2>3. LastSays(s) /\ Agrees(s)
    BY <1>2 DEF Agreeing
  <2>4. LastSays(s)'
    <3>1. SUFFICES ASSUME NEW i \in Awaited(s)', \A j \in Awaited(s)' : j <= i
                   PROVE  answers'[i].value = chosen[s]
      BY <1>2 DEF LastSays
    <3>2. PICK k \in Nat : k = i + 1 /\ k \in Awaited(s) /\ answers'[i] = answers[k]
      BY <1>7, <2>1, <2>2
    <3>3. ASSUME NEW j \in Awaited(s) PROVE j <= k
      <4>1. CASE j = 1
        BY <2>2, <3>2, <4>1
      <4>2. CASE j # 1
        <5>1. PICK q \in 1..n : q + 1 = j
          <6>1. j - 1 \in 1..n /\ (j - 1) + 1 = j
            BY <2>2, <4>2
          <6> QED
            BY <6>1
        <5>2. q \in Awaited(s)'
          BY <2>1, <5>1
        <5> QED
          BY <2>2, <3>1, <3>2, <5>1, <5>2
      <4> QED
        BY <4>1, <4>2
    <3> QED
      BY <2>3, <3>2, <3>3 DEF LastSays
  <2>5. Agrees(s)'
    <3>1. SUFFICES ASSUME Awaited(s)' = {}, ~Asked(s) PROVE defaults'[s] = chosen[s]
      BY <1>2, <1>6 DEF Agrees
    <3>2. Awaited(s) \subseteq {1}
      <4>1. ASSUME NEW j \in Awaited(s), j # 1 PROVE FALSE
        <5>1. j - 1 \in 1..n /\ (j - 1) + 1 = j
          BY <2>2, <4>1
        <5>2. PICK q \in 1..n : q + 1 = j
          BY <5>1
        <5> QED
          BY <2>1, <3>1, <5>2
      <4> QED
        BY <4>1
    <3>3. CASE 1 \in Awaited(s)
      <4>1. a.revision = revision /\ a.slot = s
        BY <1>7, <3>3 DEF Awaited
      <4>2. a.value = chosen[s]
        BY <1>7, <2>3, <3>2, <3>3 DEF LastSays
      <4> QED
        BY <1>2, <4>1, <4>2 DEF NumbersTyped
    <3>4. CASE 1 \notin Awaited(s)
      <4>1. Awaited(s) = {}
        BY <3>2, <3>4
      <4>2. a.revision = revision => a.slot # s
        BY <1>7, <3>4 DEF Awaited
      <4>3. defaults'[s] = defaults[s]
        BY <1>2, <1>8, <4>2 DEF NumbersTyped, Said
      <4> QED
        BY <2>3, <3>1, <4>1, <4>3 DEF Agrees
    <3> QED
      BY <3>3, <3>4
  <2> QED
    BY <2>4, <2>5
<1>13. Agreeing'
  BY <1>4, <1>12 DEF Agreeing
<1> QED
  BY <1>3, <1>6, <1>9, <1>11, <1>13 DEF NInv

\* At first there is nothing to agree on.
LEMMA InitNumbers == Init => NInv
PROOF
<1> SUFFICES ASSUME Init PROVE NInv
  OBVIOUS
<1>1. Editable = {}
  BY DEF Init, Editable, Empty, Occupied
<1>2. /\ revision = 0 /\ surprises = 0 /\ outbox = <<>> /\ answers = <<>>
      /\ values = [s \in {} |-> 0] /\ defaults = values /\ hist = values
      /\ truth = values /\ chosen = values
  BY DEF Init
<1>3. \A S : [s \in {} |-> 0] \in [{} -> S]
  OBVIOUS
<1>4. NumbersTyped
  BY <1>1, <1>2, <1>3 DEF NumbersTyped
<1>5. outbox \in Seq({}) /\ DOMAIN outbox = {} /\ answers \in Seq({}) /\ DOMAIN answers = {}
  BY <1>2
<1>6. MailTyped
  BY <1>5 DEF MailTyped, IsMail, Entries
<1>7. AnswersTyped
  BY <1>5 DEF AnswersTyped
<1> QED
  BY <1>1, <1>4, <1>6, <1>7 DEF NInv, Agreeing

\* A descriptor, or none.
LEMMA DescribedIs ==
  ASSUME NInv, (\E d \in Surfaces : Publish(d)) \/ Clear
  PROVE  NInv' /\ \A s : [U(s)!UndoNext]_(U(s)!undoVars)
PROOF
<1>1. PICK d, r :
        /\ Described(d, r) /\ UNCHANGED <<outbox, answers>> /\ surprises' = surprises + 1
        /\ r = surprises + 1 \/ (r = 0 /\ NumbersOf(d) = {})
  <2>1. NumbersOf(Empty) = {}
    BY DEF NumbersOf, Empty
  <2> QED
    BY <2>1 DEF Publish, Clear, Surprise
<1>2. surprises \in Nat /\ r \in Nat
  BY <1>1 DEF NInv, NumbersTyped
<1>3. NInv'
  BY <1>1, <1>2, DescribedKeepsNumbers
<1>4. ASSUME NEW s PROVE s \in Editable' => hist'[s] = NoHistory /\ values'[s] = 0
  <2>1. Editable' = NumbersOf(d)
    BY <1>1 DEF Described, Editable, Occupied, NumbersOf
  <2> QED
    BY <1>1, <2>1 DEF Described
<1> QED
  BY <1>3, <1>4, DescribedFollows

\* Every step keeps it, and is a step of Undo for every field.
LEMMA NextKeepsNumbers ==
  ASSUME NInv, [Next]_vars
  PROVE  NInv' /\ \A s : [U(s)!UndoNext]_(U(s)!undoVars)
PROOF
<1>0. NumbersTyped
  BY DEF NInv
<1>1. ASSUME NumbersMove, desc' = desc PROVE \A s : [U(s)!UndoNext]_(U(s)!undoVars)
  BY <1>0, <1>1, FieldsMove
<1>2. CASE PlainStep
  <2>1. NumbersMove /\ desc' = desc
    BY <1>2 DEF PlainStep, fields
  <2> QED
    BY <1>1, <1>2, <2>1, PlainKeeps
<1>3. CASE StoreStep
  <2>1. NumbersMove /\ desc' = desc
    BY <1>0, <1>3, NumbersKept DEF StoreStep
  <2> QED
    BY <1>1, <1>3, <2>1, StoreKeeps
<1>4. CASE (\E d \in Surfaces : Publish(d)) \/ Clear
  BY <1>4, DescribedIs
<1>5. CASE \E s \in Editable, v \in Numbers : HostMoves(s, v)
  <2>1. NInv' /\ NumbersMove
    BY <1>5, HostMovesKeeps
  <2>2. desc' = desc
    BY <1>5 DEF HostMoves, fields
  <2> QED
    BY <1>1, <2>1, <2>2
<1>6. CASE \E s \in Editable, v \in Opinions : HostChooses(s, v)
  <2>1. NInv' /\ NumbersMove
    BY <1>6, HostChoosesKeeps
  <2>2. desc' = desc
    BY <1>6 DEF HostChooses, fields
  <2> QED
    BY <1>1, <2>1, <2>2
<1>7. CASE HearDefaults
  <2>1. NInv' /\ NumbersMove
    BY <1>7, HearKeeps
  <2>2. desc' = desc
    BY <1>7 DEF HearDefaults
  <2> QED
    BY <1>1, <2>1, <2>2
<1>8. CASE Deliver
  <2>1. NInv' /\ NumbersMove
    BY <1>8, DeliverKeeps
  <2>2. desc' = desc
    BY <1>8 DEF Deliver, fields
  <2> QED
    BY <1>1, <2>1, <2>2
<1> QED
  BY <1>0, <1>2, <1>3, <1>4, <1>5, <1>6, <1>7, <1>8, StepsAre

\* Once all is through, both have the same defaults.
LEMMA AgreeingIsEnough == NInv => DefaultsAgree
PROOF
<1> SUFFICES ASSUME NInv, outbox = <<>>, answers = <<>> PROVE defaults = chosen
  BY DEF DefaultsAgree
<1>1. DOMAIN outbox = {} /\ DOMAIN answers = {}
  OBVIOUS
<1>2. ASSUME NEW s \in Editable PROVE defaults[s] = chosen[s]
  <2>1. Awaited(s) = {} /\ ~Asked(s)
    BY <1>1 DEF Awaited, Asked, Entries
  <2> QED
    BY <2>1 DEF NInv, Agreeing, Agrees
<1>3. defaults \in [Editable -> Opinions] /\ chosen \in [Editable -> Opinions]
  BY DEF NInv, NumbersTyped
<1> QED
  BY <1>2, <1>3

\* A Store is optimistic: once all is through, the default the panel resets
\* to is the host's (surface.c), whatever the host chose meanwhile and
\* whichever descriptor it replaced, for every set of descriptors and any
\* number of reports and answers under way.
THEOREM DefaultsAgreeHolds == Spec => []DefaultsAgree
PROOF
<1>1. NInv /\ [Next]_vars => NInv'
  BY NextKeepsNumbers
<1> QED
  BY <1>1, InitNumbers, AgreeingIsEnough, PTL DEF Spec

\* A ring with a cursor and a settling timer is a line of settled values
\* (history.h): every step of the panel is a step of Undo, or none, for every
\* field of every descriptor, every depth and every range of values.
THEOREM ImplementsUndoHolds == Spec => ImplementsUndo
PROOF
<1> DEFINE Steps == \A s \in Slots : [U(s)!UndoNext]_(U(s)!undoVars)
           Starts == \A s \in Slots : U(s)!UndoInit
<1>1. Init => Starts
  <2> SUFFICES ASSUME Init, NEW s \in Slots PROVE U(s)!UndoInit
    OBVIOUS
  <2>1. s \notin Editable
    BY DEF Init, Editable, Empty, Occupied
  <2>2. 0 \in Numbers
    BY PanelBounds DEF PanelBounds, Numbers
  <2> QED
    BY <2>1, <2>2 DEF U!UndoInit, U!Blank
<1>2. NInv /\ [Next]_vars => NInv' /\ Steps
  BY NextKeepsNumbers
<1> HIDE DEF Starts, Steps
<1>3. NInv /\ [Next]_vars => [Steps]_vars
  BY <1>2
<1>4. Spec => Starts /\ [][Steps]_vars
  BY <1>1, <1>2, <1>3, InitNumbers, PTL DEF Spec
<1> QED
  BY <1>4 DEF ImplementsUndo, Starts, Steps
=============================================================================
