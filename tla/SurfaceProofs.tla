--------------------------- MODULE SurfaceProofs ---------------------------
(***************************************************************************)
(* Proofs about the surface channel, for every number of knobs and fields, *)
(* any layouts, any span of their numbers, and any number of layouts       *)
(* shown, strokes and surprises.                                           *)
(***************************************************************************)
EXTENDS Surface, FiniteSetTheorems, SequenceTheorems, WellFoundedInduction, TLAPS

-----------------------------------------------------------------------------
(* Numbers and sets of them. *)

\* A finite set of numbers has a largest one: a smallest subset without one
\* would have a smaller one.
LEMMA Largest ==
  ASSUME NEW S \in SUBSET Nat, IsFiniteSet(S), S # {}
  PROVE  \E x \in S : \A y \in S : y <= x
PROOF
<1> DEFINE Bad == {T \in SUBSET S : T # {} /\ \A x \in T : \E y \in T : ~(y <= x)}
           Sizes == {n \in Nat : \E T \in Bad : Cardinality(T) = n}
<1> SUFFICES ASSUME S \in Bad PROVE FALSE
  OBVIOUS
<1>1. Cardinality(S) \in Sizes
  BY FS_CardinalityType
<1>2. PICK n \in Sizes : \A m \in Sizes : ~(m < n)
  <2>1. PICK n \in Sizes : \A m \in Sizes : ~(<<m, n>> \in OpToRel(<, Nat))
    BY <1>1, NatLessThanWellFounded, WFMin, Sizes \subseteq Nat
  <2> QED
    BY <2>1 DEF OpToRel
<1>3. PICK T \in Bad : Cardinality(T) = n
  OBVIOUS
<1>4. IsFiniteSet(T)
  BY FS_Subset
<1>5. PICK x \in T : TRUE
  OBVIOUS
<1> DEFINE R == T \ {x}
<1>6. IsFiniteSet(R) /\ Cardinality(R) = n - 1 /\ n \in Nat
  BY <1>3, <1>4, <1>5, FS_RemoveElement
<1>7. R # {}
  BY <1>5
<1>8. R \notin Bad
  <2>1. n - 1 \in Nat
    BY <1>6, FS_CardinalityType
  <2>2. n - 1 \notin Sizes
    BY <1>2, <2>1
  <2> QED
    BY <2>1, <2>2, <1>6
<1>9. PICK y \in R : \A z \in R : z <= y
  BY <1>7, <1>8
<1> QED
  BY <1>9, <1>5

\* A set of naturals with 0 and every successor is all of them.
LEMMA SetInduction ==
  ASSUME NEW S, 0 \in S, \A n \in Nat : n \in S => n + 1 \in S
  PROVE  Nat \subseteq S
PROOF
<1> DEFINE Out == {n \in Nat : n \notin S}
<1> SUFFICES ASSUME Out # {} PROVE FALSE
  OBVIOUS
<1>1. PICK m \in Out : \A n \in Out : ~(<<n, m>> \in OpToRel(<, Nat))
  BY NatLessThanWellFounded, WFMin, Out \subseteq Nat
<1>2. m \in Nat /\ m # 0 /\ m - 1 \in Nat
  OBVIOUS
<1>3. <<m - 1, m>> \in OpToRel(<, Nat)
  BY <1>2 DEF OpToRel
<1>4. m - 1 \in S
  BY <1>1, <1>2, <1>3
<1> QED
  BY <1>2, <1>4

\* The least of two numbers.
LEMMA LeastOfTwo ==
  ASSUME NEW a \in Int, NEW b \in Int
  PROVE  Sets!Min({a, b}) \in {a, b} /\ Sets!Min({a, b}) <= a /\ Sets!Min({a, b}) <= b
PROOF
<1>1. \E x \in {a, b} : \A y \in {a, b} : x <= y
  OBVIOUS
<1>2. Sets!Min({a, b}) \in {a, b} /\ \A y \in {a, b} : Sets!Min({a, b}) <= y
  BY <1>1 DEF Sets!Min
<1> QED
  BY <1>2 DEF Sets!Min

\* The largest of two numbers.
LEMMA LargestOfTwo ==
  ASSUME NEW a \in Int, NEW b \in Int
  PROVE  Sets!Max({a, b}) \in {a, b} /\ a <= Sets!Max({a, b}) /\ b <= Sets!Max({a, b})
PROOF
<1>1. \E x \in {a, b} : \A y \in {a, b} : x >= y
  OBVIOUS
<1>2. Sets!Max({a, b}) \in {a, b} /\ \A y \in {a, b} : Sets!Max({a, b}) >= y
  BY <1>1 DEF Sets!Max
<1> QED
  BY <1>2 DEF Sets!Max

\* What a field of a revision reads is a number.
LEMMA ReadingsAre ==
  ASSUME NEW r \in Nat
  PROVE  Least(r) \in Nat /\ Readings(r) \subseteq Int /\ Least(r) \in Readings(r)
PROOF
<1>1. Least(r) \in Nat
  BY FieldsAssumption DEF Least
<1> QED
  BY <1>1, FieldsAssumption DEF Readings

\* A value turned past the limits of its field is held at them.
LEMMA ClampedReads ==
  ASSUME NEW v \in Int, Live.revision \in Nat
  PROVE  Clamped(v) \in Readings(Live.revision)
PROOF
<1> DEFINE a == Least(Live.revision)
           h == a + Span
           b == Sets!Min({v, h})
           c == Sets!Max({a, b})
<1>1. a \in Nat /\ h \in Nat /\ a <= h
  BY ReadingsAre, FieldsAssumption
<1> HIDE DEF a, h
<1>2. b \in {v, h} /\ b <= h
  BY <1>1, LeastOfTwo
<1> HIDE DEF b
<1>3. b \in Int
  BY <1>1, <1>2
<1>4. c \in {a, b} /\ a <= c
  BY <1>1, <1>3, LargestOfTwo
<1> HIDE DEF c
<1>5. c \in a..h
  BY <1>1, <1>2, <1>4
<1> QED
  BY <1>5 DEF a, b, c, h, Clamped, Readings

\* The slots are finitely many numbers.
LEMMA SlotsAre ==
  ASSUME NEW D \in SUBSET Slots
  PROVE  D \subseteq Nat /\ IsFiniteSet(D)
PROOF
<1>1. IsFiniteSet(Slots) /\ Slots \subseteq Nat
  BY FS_Interval, FieldsAssumption DEF Slots
<1> QED
  BY <1>1, FS_Subset

\* A largest slot is one of them.
LEMMA LargestSlot ==
  ASSUME NEW D \in SUBSET Slots, D # {}
  PROVE  Sets!Max(D) \in D
PROOF
<1>1. \E x \in D : \A y \in D : x >= y
  <2>1. PICK x \in D : \A y \in D : y <= x
    BY SlotsAre, Largest
  <2> QED
    BY <2>1, SlotsAre
<1> QED
  BY <1>1 DEF Sets!Max

\* The span of a set of slots is a number.
LEMMA SpanIs ==
  ASSUME NEW D \in SUBSET Slots
  PROVE  SpanOf(D) \in Nat
PROOF
<1>1. CASE D = {}
  BY <1>1 DEF SpanOf
<1>2. CASE D # {}
  <2>1. Sets!Max(D) \in Nat
    BY <1>2, LargestSlot, SlotsAre
  <2> QED
    BY <2>1, <1>2 DEF SpanOf
<1> QED
  BY <1>1, <1>2

\* A knob edits a slot of the layout, or none.
LEMMA EditsAField ==
  ASSUME NEW k, Occupied \subseteq Slots, focused \in Occupied \union {Nobody}
  PROVE  FieldFor(k) \in Occupied \union {Nobody} /\ Edits(k) \in Occupied \union {Nobody}
PROOF
<1> DEFINE here == OnPageOf(Occupied, page)
           packed == {s \in here : Cardinality({t \in here : t < s}) = k - Row}
<1>1. packed # {} => Sets!Max(packed) \in Occupied
  BY LargestSlot DEF OnPageOf
<1>2. FieldFor(k) \in Occupied \union {Nobody}
  BY <1>1 DEF FieldFor, Addressed
<1> QED
  BY <1>2 DEF Edits

-----------------------------------------------------------------------------
(* The order in which a descriptor lists its fields. *)

Increasing(q, n) == \A i, j \in 1..n : i < j => q[i] < q[j]

\* A set of slots can be listed lowest first.
LEMMA ListExists ==
  ASSUME NEW D \in SUBSET Slots
  PROVE  \E q \in [1..Cardinality(D) -> D] : Increasing(q, Cardinality(D))
PROOF
<1> DEFINE Listed(E) == \E q \in [1..Cardinality(E) -> E] : Increasing(q, Cardinality(E))
           S == {n \in Nat : \A E \in SUBSET Slots : Cardinality(E) = n => Listed(E)}
<1>1. 0 \in S
  <2> SUFFICES ASSUME NEW E \in SUBSET Slots, Cardinality(E) = 0 PROVE Listed(E)
    OBVIOUS
  <2>1. E = {}
    BY SlotsAre, FS_EmptySet
  <2> DEFINE q == [i \in 1..0 |-> i]
  <2>2. q \in [1..Cardinality(E) -> E] /\ Increasing(q, Cardinality(E))
    BY <2>1 DEF Increasing
  <2> QED
    BY <2>2
<1>2. ASSUME NEW n \in Nat, n \in S PROVE n + 1 \in S
  <2> SUFFICES ASSUME NEW E \in SUBSET Slots, Cardinality(E) = n + 1 PROVE Listed(E)
    OBVIOUS
  <2>1. E # {}
    BY FS_EmptySet
  <2>2. PICK x \in E : \A y \in E : y <= x
    BY <2>1, SlotsAre, Largest
  <2> DEFINE R == E \ {x}
  <2>3. R \in SUBSET Slots /\ Cardinality(R) = n
    <3>1. IsFiniteSet(E) /\ x \in E
      BY SlotsAre
    <3>2. Cardinality(R) = (n + 1) - 1
      BY <3>1, FS_RemoveElement
    <3> QED
      BY <3>2
  <2>4. PICK q \in [1..n -> R] : Increasing(q, n)
    BY <1>2, <2>3
  <2> DEFINE p == [i \in 1..(n + 1) |-> IF i = n + 1 THEN x ELSE q[i]]
  <2>5. \A i \in 1..n : p[i] = q[i] /\ q[i] \in R
    BY <2>4
  <2>6. p[n + 1] = x /\ p \in [1..(n + 1) -> E]
    BY <2>5
  <2>7. Increasing(p, n + 1)
    <3> SUFFICES ASSUME NEW i \in 1..(n + 1), NEW j \in 1..(n + 1), i < j PROVE p[i] < p[j]
      BY DEF Increasing
    <3>1. i \in 1..n /\ p[i] = q[i] /\ q[i] \in R
      BY <2>5
    <3>2. CASE j = n + 1
      <4>1. q[i] \in Nat /\ x \in Nat /\ q[i] <= x /\ q[i] # x
        BY <3>1, <2>2, SlotsAre
      <4> QED
        BY <4>1, <3>1, <3>2, <2>6
    <3>3. CASE j \in 1..n
      BY <3>1, <3>3, <2>4, <2>5 DEF Increasing
    <3> QED
      BY <3>2, <3>3
  <2> HIDE DEF p
  <2> QED
    BY <2>6, <2>7
<1> HIDE DEF S
<1>3. Cardinality(D) \in S
  BY <1>1, <1>2, SetInduction, SlotsAre, FS_CardinalityType
<1> QED
  BY <1>3 DEF S

\* The order of a descriptor lists each of its fields.
LEMMA OrderLists ==
  ASSUME NEW kinds, DOMAIN kinds \in SUBSET Slots
  PROVE  LET q == Order(kinds)
             n == Cardinality(DOMAIN kinds)
         IN  /\ n \in Nat /\ q \in [1..n -> DOMAIN kinds] /\ Len(q) = n
             /\ \A s \in DOMAIN kinds : \E i \in 1..n : q[i] = s
PROOF
<1> DEFINE D == DOMAIN kinds
           q == Order(kinds)
           n == Cardinality(D)
<1>1. n \in Nat
  BY SlotsAre, FS_CardinalityType
<1>2. \E p \in [1..n -> D] : \A i, j \in DOMAIN p : i < j => p[i] < p[j]
  <2>1. PICK p \in [1..n -> D] : Increasing(p, n)
    BY ListExists
  <2>2. DOMAIN p = 1..n
    OBVIOUS
  <2> QED
    BY <2>1, <2>2 DEF Increasing
<1>3. q \in [1..n -> D] /\ \A i, j \in DOMAIN q : i < j => q[i] < q[j]
  BY <1>2 DEF Order
<1> HIDE DEF q
<1>4. q \in Injection(1..n, D)
  <2> SUFFICES ASSUME NEW i \in 1..n, NEW j \in 1..n, q[i] = q[j] PROVE i = j
    BY <1>3 DEF Injection, IsInjective
  <2>1. q[i] \in Nat /\ q[j] \in Nat /\ DOMAIN q = 1..n
    BY <1>3, SlotsAre
  <2>2. (i < j => q[i] < q[j]) /\ (j < i => q[j] < q[i])
    BY <1>3, <2>1
  <2> QED
    BY <2>1, <2>2
<1>5. Cardinality(1..n) = n
  BY <1>1, FS_Interval
<1>6. q \in Surjection(1..n, D)
  BY <1>4, <1>5, FS_Injection, SlotsAre
<1>7. Len(q) = n
  BY <1>1, <1>3
<1> QED
  BY <1>1, <1>3, <1>6, <1>7 DEF Surjection, q

-----------------------------------------------------------------------------
(* Types. *)

Field == [kind : Kinds, value : Int]
FieldSets == UNION {[D -> Field] : D \in SUBSET Slots}
Descriptors == [revision : Nat, operator : BOOLEAN, fields : FieldSets]

Triples == Slots \X Kinds \X Int
Entry == [ack : Nat, value : Int, heeds : Nat]
Edit == [seq : Nat, revision : Nat, value : Int, stroke : Nat]

Begin == [op : {"DESC_BEGIN"}, revision : Nat, count : Nat, operator : BOOLEAN]
AField == [op : {"DESC_FIELD"}, index : Nat, id : Slots, kind : Kinds, value : Int]
End == [op : {"DESC_END"}, revision : Nat, count : Nat, crc : Seq(Triples)]
Values == [op : {"VALUES"}, revision : Nat, entries : UNION {[D -> Entry] : D \in SUBSET Slots}]
Reveal == [op : {"REVEAL"}, revision : Nat, id : Slots]
Plain == [op : {"DESC_ABORT", "CLEAR"}]
Message == Begin \union AField \union End \union Values \union Reveal \union Plain

Revisions == 1..Len(shows)

Screens == [revision : Nat, first : Int, count : Int]
Outbox == [edit : [Slots -> Edit \union {NoEdit}], request : BOOLEAN, screen : Screens]

TypePanel ==
  /\ arena \in [0..1 -> Descriptors] /\ live_ix \in 0..1
  /\ staging \in [open : BOOLEAN, revision : Nat, expect : Nat, next : Nat, crc : Seq(Triples)]
  /\ page \in Int /\ focused \in Occupied \union {Nobody}
  /\ edit_seq \in Nat /\ last_edit_seq \in [Slots -> Nat] /\ newest \in [Slots -> Nat]
  /\ strokes \in Nat

TypeHost ==
  /\ toHost \in Outbox
  /\ shows \in Seq(Layouts) /\ showing \in BOOLEAN /\ owing \in BOOLEAN
  /\ accounted \in [Slots -> Nat] /\ heeded \in [Slots -> Nat]

-----------------------------------------------------------------------------
(* The inductive invariant. *)

\* What is shown is what was described.
Shown ==
  /\ Live.revision = 0 => Occupied = {}
  /\ Live.revision # 0 =>
       /\ Live.revision \in Revisions
       /\ Live.operator = shows[Live.revision].operator
       /\ Occupied = DOMAIN shows[Live.revision].kinds
       /\ \A s \in Occupied : /\ fields[s].kind = shows[Live.revision].kinds[s]
                              /\ fields[s].value \in Readings(Live.revision)

\* What is received so far is what its check sum covers.
Received(f, crc) ==
  /\ DOMAIN f = {crc[i][1] : i \in DOMAIN crc}
  /\ \A i \in DOMAIN crc : f[crc[i][1]] = [kind |-> crc[i][2], value |-> crc[i][3]]

Staged ==
  staging.open =>
    /\ staging.revision \in Revisions
    /\ arena[Stage].operator = shows[staging.revision].operator
    /\ Received(arena[Stage].fields, staging.crc)

\* The check sum covers the whole of the layout.
Whole(crc, r) ==
  /\ {crc[i][1] : i \in DOMAIN crc} = DOMAIN shows[r].kinds
  /\ \A i \in DOMAIN crc : crc[i][2] = shows[r].kinds[crc[i][1]] /\ crc[i][3] \in Readings(r)

\* The host's values are of the layout it shows.
HostKnows ==
  /\ DOMAIN truth = IF revision = 0 THEN {} ELSE DOMAIN Described
  /\ \A s \in DOMAIN truth : truth[s] \in Readings(revision)
  /\ showing => revision # 0
  /\ owing => showing

\* Who has taken in edit seq of field s has taken in the hand's newest, or
\* lets it be known that it has not.
Heeds(seq, stroke, s) == last_edit_seq[s] <= seq => newest[s] <= stroke

\* What a message on its way to the panel says.
Carried(m) ==
  /\ m.op \in {"DESC_BEGIN", "DESC_END", "VALUES", "REVEAL"} => m.revision \in Revisions
  /\ m.op = "DESC_BEGIN" /\ m.count <= MaxFields => m.operator = shows[m.revision].operator
  /\ m.op = "DESC_END" => Whole(m.crc, m.revision) /\ Live.revision <= m.revision
  /\ m.op = "VALUES" =>
       \A s \in DOMAIN m.entries :
         /\ m.entries[s].value \in Readings(m.revision)
         /\ m.entries[s].ack <= edit_seq
         /\ Heeds(m.entries[s].ack, m.entries[s].heeds, s)

AllCarried == toPanel \in Seq(Message) /\ \A i \in DOMAIN toPanel : Carried(toPanel[i])

\* Only what belongs to a descriptor, a reveal or a CLEAR comes behind
\* something else.
Follows(a, b) ==
  \/ b \in {"REVEAL", "CLEAR"}
  \/ b \in {"DESC_FIELD", "DESC_END", "DESC_ABORT"} /\ a \in {"DESC_BEGIN", "DESC_FIELD"}

InOrder == \A i, j \in DOMAIN toPanel : i < j => Follows(toPanel[i].op, toPanel[j].op)

\* The numbers of edits only grow, and so do the strokes.
Numbered ==
  \A s \in Slots :
    /\ last_edit_seq[s] <= edit_seq /\ newest[s] <= strokes
    /\ last_edit_seq[s] = 0 => newest[s] = 0

\* What the host has taken in.
Heeded == \A s \in Slots : accounted[s] <= edit_seq /\ Heeds(accounted[s], heeded[s], s)

\* An edit on its way to the host.
Sent(s) ==
  LET e == toHost.edit[s]
  IN  e # NoEdit =>
        /\ e \in Edit /\ e.revision \in Revisions /\ e.value \in Readings(e.revision)
        /\ showing /\ e.revision = revision =>
             /\ e.seq <= edit_seq /\ Live.revision = revision
             /\ Heeds(e.seq, e.stroke, s)

AllSent == \A s \in Slots : Sent(s)

\* While a CLEAR is on its way, the host has taken in nothing, and nothing of
\* a layout it shows since is anywhere.
Clearing ==
  (\E i \in DOMAIN toPanel : toPanel[i].op = "CLEAR") =>
    /\ \A s \in Slots : accounted[s] = 0
    /\ showing =>
         /\ Live.revision # revision
         /\ staging.open => staging.revision # revision
         /\ \A i \in DOMAIN toPanel :
              toPanel[i].op \in {"DESC_BEGIN", "DESC_END"} => toPanel[i].revision # revision
         /\ \A s \in Slots : toHost.edit[s] # NoEdit => toHost.edit[s].revision # revision

IInv ==
  /\ TypePanel /\ TypeHost /\ Shown /\ Staged /\ HostKnows
  /\ AllCarried /\ InOrder /\ Numbered /\ Heeded /\ AllSent /\ Clearing


-----------------------------------------------------------------------------
(* What the types say. *)

\* A layout's fields are a function on some of the slots.
LEMMA FieldsAre ==
  ASSUME NEW f \in FieldSets
  PROVE  DOMAIN f \subseteq Slots /\ \A s \in DOMAIN f : f[s] \in Field
BY DEF FieldSets

\* And such a function is a layout's fields.
LEMMA FieldsMake ==
  ASSUME NEW D \in SUBSET Slots, NEW f \in [D -> Field]
  PROVE  f \in FieldSets
BY DEF FieldSets

\* The two descriptors: the live one and the one being received.
LEMMA TwoDescriptors ==
  ASSUME TypePanel
  PROVE  /\ Stage \in 0..1 /\ Stage # live_ix /\ 0..1 = {live_ix, Stage}
         /\ Live \in Descriptors /\ arena[Stage] \in Descriptors
         /\ Occupied \subseteq Slots /\ \A s \in Occupied : fields[s] \in Field
PROOF
<1>1. live_ix \in {0, 1} /\ arena \in [0..1 -> Descriptors]
  BY DEF TypePanel
<1>2. Stage \in 0..1 /\ Stage # live_ix /\ 0..1 = {live_ix, Stage}
  BY <1>1 DEF Stage
<1>3. Live \in Descriptors /\ arena[Stage] \in Descriptors
  BY <1>1, <1>2 DEF Live
<1>4. fields \in FieldSets
  BY <1>3 DEF Descriptors, fields
<1> QED
  BY <1>2, <1>3, <1>4, FieldsAre DEF Occupied

\* A message has the fields of its kind.
LEMMA MessageIs ==
  ASSUME NEW m \in Message
  PROVE  /\ m.op = "DESC_BEGIN" => m \in Begin
         /\ m.op = "DESC_FIELD" => m \in AField
         /\ m.op = "DESC_END" => m \in End
         /\ m.op = "VALUES" => m \in Values
         /\ m.op = "REVEAL" => m \in Reveal
         /\ m.op \in {"DESC_ABORT", "CLEAR"} => m \in Plain
BY DEF Message, Begin, AField, End, Values, Reveal, Plain

\* The entries of a VALUES are of slots.
LEMMA EntriesAre ==
  ASSUME NEW m \in Values
  PROVE  /\ m.op = "VALUES" /\ m.revision \in Nat /\ DOMAIN m.entries \subseteq Slots
         /\ \A s \in DOMAIN m.entries : m.entries[s] \in Entry
PROOF
<1>1. m.op = "VALUES" /\ m.revision \in Nat /\ m.entries \in UNION {[D -> Entry] : D \in SUBSET Slots}
  BY DEF Values
<1>2. PICK D \in SUBSET Slots : m.entries \in [D -> Entry]
  BY <1>1
<1> QED
  BY <1>1, <1>2

\* A layout that was shown describes some of the slots.
LEMMA LayoutsAre ==
  ASSUME shows \in Seq(Layouts), NEW r \in Revisions
  PROVE  /\ r \in Nat /\ r # 0 /\ r <= revision /\ shows[r].operator \in BOOLEAN
         /\ DOMAIN shows[r].kinds \subseteq Slots
         /\ \A s \in DOMAIN shows[r].kinds : shows[r].kinds[s] \in Kinds
PROOF
<1>1. shows[r] \in Layouts /\ Len(shows) \in Nat
  BY ElementOfSeq, LenProperties DEF Revisions
<1> QED
  BY <1>1, LayoutsAssumption DEF Revisions, revision

-----------------------------------------------------------------------------
(* What a step leaves alone. *)

\* The layouts shown stay what they are.
ShowsKept == Revisions \subseteq Revisions' /\ \A r \in Revisions : shows'[r] = shows[r]

\* Who has taken in an edit stays right about it.
HeedsKept ==
  \A s \in Slots, seq \in Nat, stroke \in Nat :
    seq <= edit_seq /\ Heeds(seq, stroke, s) => seq <= edit_seq' /\ Heeds(seq, stroke, s)'

\* Messages are taken off, and none is added.
Dropped ==
  /\ toPanel' \in Seq(Message)
  /\ \A i \in DOMAIN toPanel' : \E j \in DOMAIN toPanel : toPanel'[i] = toPanel[j]

\* The messages may also all stay.
LEMMA NoneDropped ==
  ASSUME AllCarried, UNCHANGED toPanel
  PROVE  Dropped
BY DEF AllCarried, Dropped

\* The layouts stay when none is added.
LEMMA ShowsStay ==
  ASSUME UNCHANGED shows
  PROVE  ShowsKept /\ revision' = revision /\ Revisions' = Revisions
BY DEF ShowsKept, Revisions, revision

\* Nothing changes in who has taken in what while no edit is numbered.
LEMMA HeedsStay ==
  ASSUME UNCHANGED editSeqs
  PROVE  HeedsKept
BY DEF HeedsKept, Heeds, editSeqs

\* What stays of the panel's types.
LEMMA TypePanelStays ==
  ASSUME TypePanel, UNCHANGED <<arena, live_ix, staging, page, focused, editSeqs, strokes>>
  PROVE  TypePanel'
BY DEF TypePanel, editSeqs, Occupied, fields, Live

\* What stays of the host's.
LEMMA TypeHostStays ==
  ASSUME TypeHost, UNCHANGED <<toHost, shows, showing, owing, accounted, heeded>>
  PROVE  TypeHost'
BY DEF TypeHost

\* What is shown stays what was described.
LEMMA ShownStays ==
  ASSUME Shown, Live' = Live, ShowsKept
  PROVE  Shown'
BY DEF Shown, ShowsKept, Occupied, fields, Readings, Least

\* What is received stays what its check sum covers.
LEMMA StagedStays ==
  ASSUME Staged, ShowsKept, arena'[Stage'] = arena[Stage],
         staging'.open => staging' = staging
  PROVE  Staged'
BY DEF Staged, ShowsKept, Received

\* What the host knows stays so.
LEMMA HostKnowsStays ==
  ASSUME HostKnows, UNCHANGED <<truth, shows, showing, owing>>
  PROVE  HostKnows'
BY DEF HostKnows, revision, Described, Readings, Least

\* The numbers of edits stay in line.
LEMMA NumberedStays ==
  ASSUME Numbered, UNCHANGED <<editSeqs, strokes>>
  PROVE  Numbered'
BY DEF Numbered, editSeqs

\* What the host has taken in stays heeded.
LEMMA HeededStays ==
  ASSUME TypeHost, Heeded, HeedsKept, UNCHANGED <<accounted, heeded>>
  PROVE  Heeded'
PROOF
<1> SUFFICES ASSUME NEW s \in Slots
             PROVE  accounted[s] <= edit_seq' /\ Heeds(accounted[s], heeded[s], s)'
  BY DEF Heeded
<1>1. accounted[s] \in Nat /\ heeded[s] \in Nat
  BY DEF TypeHost
<1>2. \A a, h \in Nat : a <= edit_seq /\ Heeds(a, h, s) => a <= edit_seq' /\ Heeds(a, h, s)'
  BY DEF HeedsKept
<1>3. accounted[s] <= edit_seq /\ Heeds(accounted[s], heeded[s], s)
  BY DEF Heeded
<1> QED
  BY <1>1, <1>2, <1>3 DEF Heeds

\* What one message says stays true.
LEMMA CarriedStays ==
  ASSUME NEW m \in Message, Carried(m), ShowsKept, HeedsKept,
         m.op = "DESC_END" => Live'.revision <= m.revision
  PROVE  Carried(m)'
PROOF
<1>1. m.op \in {"DESC_BEGIN", "DESC_END", "VALUES", "REVEAL"} => m.revision \in Revisions'
  BY DEF Carried, ShowsKept
<1>2. m.op = "DESC_BEGIN" /\ m.count <= MaxFields => m.operator = shows'[m.revision].operator
  BY DEF Carried, ShowsKept
<1>3. m.op = "DESC_END" => Whole(m.crc, m.revision)'
  BY DEF Carried, ShowsKept, Whole, Readings, Least
<1>4. ASSUME m.op = "VALUES", NEW s \in DOMAIN m.entries
      PROVE  /\ m.entries[s].value \in Readings(m.revision)
             /\ m.entries[s].ack <= edit_seq'
             /\ Heeds(m.entries[s].ack, m.entries[s].heeds, s)'
  <2>1. s \in Slots /\ m.entries[s].ack \in Nat /\ m.entries[s].heeds \in Nat
    BY <1>4, MessageIs, EntriesAre DEF Entry
  <2>2. /\ m.entries[s].value \in Readings(m.revision)
        /\ m.entries[s].ack <= edit_seq
        /\ Heeds(m.entries[s].ack, m.entries[s].heeds, s)
    BY <1>4 DEF Carried
  <2>3. \A a, h \in Nat : a <= edit_seq /\ Heeds(a, h, s) => a <= edit_seq' /\ Heeds(a, h, s)'
    BY <2>1 DEF HeedsKept
  <2> QED
    BY <2>1, <2>2, <2>3
<1>5. \A r : Readings(r)' = Readings(r)
  BY DEF Readings, Least
<1> QED
  BY <1>1, <1>2, <1>3, <1>4, <1>5 DEF Carried

\* What the messages that are left say stays true.
LEMMA AllCarriedStays ==
  ASSUME AllCarried, Dropped, ShowsKept, HeedsKept,
         \A i \in DOMAIN toPanel' :
           toPanel'[i].op = "DESC_END" => Live'.revision <= toPanel'[i].revision
  PROVE  AllCarried'
PROOF
<1>1. ASSUME NEW i \in DOMAIN toPanel' PROVE Carried(toPanel[i])'
  <2>1. PICK j \in DOMAIN toPanel : toPanel'[i] = toPanel[j]
    BY DEF Dropped
  <2>2. toPanel[j] \in Message /\ Carried(toPanel[j])
    BY ElementOfSeq, LenProperties DEF AllCarried
  <2>3. PICK m : m = toPanel'[i]
    OBVIOUS
  <2>4. m \in Message /\ Carried(m) /\ (m.op = "DESC_END" => Live'.revision <= m.revision)
    BY <2>1, <2>2, <2>3
  <2>5. Carried(m)'
    BY <2>4, CarriedStays
  <2> QED
    BY <2>3, <2>5 DEF Carried, Whole, Heeds, Readings, Least
<1> QED
  BY <1>1 DEF AllCarried, Dropped

\* The edits on their way stay what they are.
LEMMA AllSentStays ==
  ASSUME AllSent, UNCHANGED shows, HeedsKept, toHost'.edit = toHost.edit,
         Live'.revision = Live.revision, showing' => showing
  PROVE  AllSent'
PROOF
<1> SUFFICES ASSUME NEW s \in Slots, toHost.edit[s] # NoEdit PROVE Sent(s)'
  BY DEF AllSent, Sent
<1>0. PICK e : e = toHost.edit[s]
  OBVIOUS
<1>1. /\ e \in Edit /\ e.revision \in Revisions /\ e.value \in Readings(e.revision)
      /\ showing /\ e.revision = revision =>
           /\ e.seq <= edit_seq /\ Live.revision = revision
           /\ Heeds(e.seq, e.stroke, s)
  BY <1>0 DEF AllSent, Sent
<1>2. e.seq \in Nat /\ e.stroke \in Nat
  BY <1>1 DEF Edit
<1>3. showing' /\ e.revision = revision' =>
        /\ e.seq <= edit_seq' /\ Live'.revision = revision'
        /\ Heeds(e.seq, e.stroke, s)'
  BY <1>1, <1>2, ShowsStay DEF HeedsKept
<1>4. e.revision \in Revisions' /\ e.value \in Readings(e.revision)'
  BY <1>1, ShowsStay DEF Readings, Least
<1>5. toHost'.edit[s] = e
  BY <1>0
<1> QED
  BY <1>1, <1>3, <1>4, <1>5 DEF Sent, Heeds, Readings, Least

-----------------------------------------------------------------------------
(* Steps of the panel that number no edit and publish nothing. *)

\* The panel takes the message at the head.
Taken == toPanel # <<>> /\ toPanel' = Tail(toPanel)

\* The message taken says what messages say, and the rest stay in order.
LEMMA TakenIs ==
  ASSUME AllCarried, InOrder, Taken
  PROVE  /\ Head(toPanel) \in Message /\ Carried(Head(toPanel)) /\ Dropped /\ InOrder'
         /\ 1 \in DOMAIN toPanel /\ Head(toPanel) = toPanel[1]
         /\ \A i \in DOMAIN toPanel' : Follows(Head(toPanel).op, toPanel'[i].op)
PROOF
<1>1. /\ toPanel \in Seq(Message) /\ toPanel # <<>> /\ toPanel' = Tail(toPanel)
      /\ \A i \in DOMAIN toPanel : Carried(toPanel[i])
  BY DEF AllCarried, Taken
<1>2. /\ toPanel' \in Seq(Message) /\ Len(toPanel') = Len(toPanel) - 1
      /\ \A i \in 1..Len(toPanel') : toPanel'[i] = toPanel[i + 1]
      /\ DOMAIN toPanel = 1..Len(toPanel) /\ DOMAIN toPanel' = 1..Len(toPanel')
      /\ Len(toPanel) \in Nat /\ Len(toPanel') \in Nat
  BY <1>1, HeadTailProperties, LenProperties
<1>3. 1 \in DOMAIN toPanel /\ Head(toPanel) = toPanel[1]
  BY <1>1, <1>2
<1>4. Head(toPanel) \in Message /\ Carried(Head(toPanel))
  <2>1. PICK m : m = toPanel[1] /\ m = Head(toPanel)
    BY <1>3
  <2>2. m \in Message /\ Carried(m)
    BY <1>1, <1>2, <1>3, <2>1, ElementOfSeq
  <2> QED
    BY <2>1, <2>2
<1>5. \A i \in DOMAIN toPanel' : i + 1 \in DOMAIN toPanel /\ 1 < i + 1 /\ toPanel'[i] = toPanel[i + 1]
  BY <1>2
<1>6. Dropped
  BY <1>2, <1>5 DEF Dropped
<1>7. \A i, j \in DOMAIN toPanel' : i < j => Follows(toPanel'[i].op, toPanel'[j].op)
  <2> SUFFICES ASSUME NEW i \in DOMAIN toPanel', NEW j \in DOMAIN toPanel', i < j
               PROVE  Follows(toPanel'[i].op, toPanel'[j].op)
    OBVIOUS
  <2>1. i + 1 \in DOMAIN toPanel /\ j + 1 \in DOMAIN toPanel /\ i + 1 < j + 1
    BY <1>2, <1>5
  <2>2. Follows(toPanel[i + 1].op, toPanel[j + 1].op)
    BY <2>1 DEF InOrder
  <2> QED
    BY <1>5, <2>2
<1>8. \A i \in DOMAIN toPanel' : Follows(Head(toPanel).op, toPanel'[i].op)
  BY <1>3, <1>5 DEF InOrder
<1> QED
  BY <1>3, <1>4, <1>6, <1>7, <1>8 DEF InOrder, Follows

\* What is received after the step was being received before, or has begun.
Receiving ==
  staging'.open =>
    \/ staging.open /\ staging'.revision = staging.revision
    \/ \E i \in DOMAIN toPanel : /\ toPanel[i].op = "DESC_BEGIN"
                                 /\ staging'.revision = toPanel[i].revision

\* While a CLEAR is on its way nothing of a newer layout appears.
LEMMA ClearingStays ==
  ASSUME Clearing, Dropped, Receiving, UNCHANGED <<shows, showing, accounted>>,
         toHost'.edit = toHost.edit, Live'.revision = Live.revision
  PROVE  Clearing'
PROOF
<1> SUFFICES ASSUME NEW i \in DOMAIN toPanel', toPanel'[i].op = "CLEAR"
             PROVE  Clearing'
  BY DEF Clearing
<1>1. \E j \in DOMAIN toPanel : toPanel[j].op = "CLEAR"
  BY DEF Dropped
<1>2. /\ \A s \in Slots : accounted[s] = 0
      /\ showing =>
           /\ Live.revision # revision
           /\ staging.open => staging.revision # revision
           /\ \A j \in DOMAIN toPanel :
                toPanel[j].op \in {"DESC_BEGIN", "DESC_END"} => toPanel[j].revision # revision
           /\ \A s \in Slots : toHost.edit[s] # NoEdit => toHost.edit[s].revision # revision
  BY <1>1 DEF Clearing
<1>3. showing' =>
        /\ Live'.revision # revision'
        /\ staging'.open => staging'.revision # revision'
        /\ \A j \in DOMAIN toPanel' :
             toPanel'[j].op \in {"DESC_BEGIN", "DESC_END"} => toPanel'[j].revision # revision'
        /\ \A s \in Slots : toHost'.edit[s] # NoEdit => toHost'.edit[s].revision # revision'
  BY <1>2 DEF Dropped, Receiving, revision
<1> QED
  BY <1>2, <1>3 DEF Clearing

\* A step of the panel that numbers no edit and publishes nothing leaves all
\* that is not the panel's as it should be.
Minor ==
  /\ Dropped /\ InOrder' /\ Receiving
  /\ UNCHANGED <<host, editSeqs>>
  /\ strokes' \in Nat /\ strokes <= strokes'
  /\ toHost' \in Outbox /\ toHost'.edit = toHost.edit
  /\ Live'.revision = Live.revision

\* The steps that touch neither the host's view nor what is owed keep what is said of it.
LEMMA MinorKeeps ==
  ASSUME IInv, Minor
  PROVE  /\ TypeHost' /\ HostKnows' /\ AllCarried' /\ InOrder' /\ Numbered' /\ Heeded'
         /\ AllSent' /\ Clearing'
PROOF
<1>1. /\ UNCHANGED <<shows, showing, owing, truth, accounted, heeded>> /\ UNCHANGED editSeqs
      /\ ShowsKept /\ HeedsKept
  BY ShowsStay, HeedsStay DEF Minor, host
<1>2. TypeHost' /\ HostKnows'
  BY <1>1, HostKnowsStays DEF IInv, Minor, TypeHost
<1>3. AllCarried'
  <2>1. ASSUME NEW i \in DOMAIN toPanel', toPanel'[i].op = "DESC_END"
        PROVE  Live'.revision <= toPanel'[i].revision
    BY <2>1 DEF Minor, Dropped, IInv, AllCarried, Carried
  <2> QED
    BY <1>1, <2>1, AllCarriedStays DEF IInv, Minor
<1>4. Numbered'
  <2>1. strokes \in Nat /\ newest \in [Slots -> Nat]
    BY DEF IInv, TypePanel
  <2> QED
    BY <1>1, <2>1 DEF IInv, Minor, Numbered, editSeqs
<1>5. Heeded'
  BY <1>1, HeededStays DEF IInv
<1>6. AllSent'
  BY <1>1, AllSentStays DEF IInv, Minor
<1>7. Clearing'
  BY <1>1, ClearingStays DEF IInv, Minor
<1> QED
  BY <1>2, <1>3, <1>4, <1>5, <1>6, <1>7 DEF Minor

\* What the panel sends of itself is of its type and touches no edit.
LEMMA Replies ==
  ASSUME toHost \in Outbox
  PROVE  /\ Request(toHost) \in Outbox /\ Request(toHost).edit = toHost.edit
         /\ \A a \in Descriptors, first \in Int :
              /\ Screen(toHost, a, first) \in Outbox
              /\ Screen(toHost, a, first).edit = toHost.edit
PROOF
<1>1. Request(toHost) \in Outbox /\ Request(toHost).edit = toHost.edit
  BY DEF Request, Outbox
<1>2. ASSUME NEW a \in Descriptors, NEW first \in Int
      PROVE  /\ Screen(toHost, a, first) \in Outbox
             /\ Screen(toHost, a, first).edit = toHost.edit
  <2> DEFINE n == SpanOf(DOMAIN a.fields) - first
             x == [revision |-> a.revision, first |-> first, count |-> Sets!Min({n, Pots})]
  <2>1. a.revision \in Nat /\ DOMAIN a.fields \in SUBSET Slots
    BY FieldsAre DEF Descriptors
  <2>2. n \in Int /\ Pots \in Int
    BY <2>1, SpanIs, PotsAssumption
  <2> HIDE DEF n
  <2>3. Sets!Min({n, Pots}) \in Int
    BY <2>2, LeastOfTwo
  <2>4. x \in Screens
    BY <2>1, <2>3 DEF Screens
  <2>5. Screen(toHost, a, first) = [toHost EXCEPT !.screen = x]
    BY DEF Screen, n
  <2> HIDE DEF x
  <2> QED
    BY <2>4, <2>5 DEF Outbox
<1> QED
  BY <1>1, <1>2

\* So such a step keeps the invariant when the panel's own part holds.
LEMMA FromMinor ==
  ASSUME IInv, Minor, TypePanel', Shown', Staged'
  PROVE  IInv'
BY MinorKeeps DEF IInv

\* A step that changes nothing of the panel's keeps the panel's own part.
LEMMA PanelSame ==
  ASSUME IInv, UNCHANGED <<panel, strokes>>, ShowsKept
  PROVE  /\ TypePanel' /\ Shown' /\ Staged' /\ Numbered' /\ Receiving
         /\ Live' = Live /\ staging' = staging /\ UNCHANGED editSeqs
PROOF
<1>1. /\ UNCHANGED <<arena, live_ix, staging, page, focused, touched_mask, edit_seq,
                     last_edit_seq, newest, strokes>>
  BY DEF panel
<1>2. UNCHANGED editSeqs
  BY <1>1 DEF editSeqs
<1>3. TypePanel'
  BY <1>1, <1>2, TypePanelStays DEF IInv
<1>4. Live' = Live /\ Stage' = Stage
  BY <1>1 DEF Live, Stage
<1>5. Shown' /\ Staged'
  BY <1>1, <1>4, ShownStays, StagedStays DEF IInv
<1>6. Numbered'
  BY <1>1, <1>2, NumberedStays DEF IInv
<1> QED
  BY <1>1, <1>2, <1>3, <1>4, <1>5, <1>6 DEF Receiving

\* The frame of a step that takes a message.
Handling ==
  /\ Taken
  /\ UNCHANGED <<host, strokes>>

\* A message that is taken and changes nothing but what waits for the host.
LEMMA TakenIdly ==
  ASSUME IInv, Handling, UNCHANGED panel, toHost' \in Outbox, toHost'.edit = toHost.edit
  PROVE  IInv'
PROOF
<1>1. UNCHANGED <<host, strokes, shows>> /\ strokes \in Nat
  BY DEF Handling, host, IInv, TypePanel
<1>2. TypePanel' /\ Shown' /\ Staged' /\ Receiving /\ Live' = Live /\ UNCHANGED editSeqs
  BY <1>1, ShowsStay, PanelSame
<1>3. Dropped /\ InOrder'
  BY TakenIs DEF Handling, IInv
<1>4. Minor
  BY <1>1, <1>2, <1>3 DEF Minor
<1> QED
  BY <1>2, <1>4, FromMinor

\* A message that is ignored.
LEMMA IgnoreKeeps ==
  ASSUME IInv, Handling, Ignore
  PROVE  IInv'
BY TakenIdly DEF Ignore, IInv, TypeHost

\* A message lost on the link.
LEMMA LoseKeeps ==
  ASSUME IInv, Lose
  PROVE  IInv'
BY TakenIdly DEF Lose, Handling, Taken, IInv, TypeHost

\* A step of a transaction: the live descriptor and what hangs on it stay.
Receives ==
  /\ Handling
  /\ UNCHANGED <<live_ix, page, focused, editSeqs>>
  /\ toHost' \in Outbox /\ toHost'.edit = toHost.edit
  /\ staging' \in [open : BOOLEAN, revision : Nat, expect : Nat, next : Nat, crc : Seq(Triples)]
  /\ \E d \in Descriptors : arena' = [arena EXCEPT ![Stage] = d]

\* It shows nothing new, and keeps the invariant when what is received is
\* what was described.
LEMMA ReceivesKeeps ==
  ASSUME IInv, Receives, Receiving, Staged'
  PROVE  IInv'
PROOF
<1>1. /\ UNCHANGED <<live_ix, page, focused, edit_seq, last_edit_seq, newest, shows, strokes>>
      /\ UNCHANGED editSeqs
  BY DEF Receives, Handling, editSeqs, host
<1>2. TypePanel /\ Shown /\ AllCarried /\ InOrder
  BY DEF IInv
<1>3. PICK d \in Descriptors : arena' = [arena EXCEPT ![Stage] = d]
  BY DEF Receives
<1>4. Live' = Live /\ arena' \in [0..1 -> Descriptors]
  <2>1. arena \in [0..1 -> Descriptors] /\ live_ix \in 0..1 /\ Stage # live_ix
    BY <1>2, TwoDescriptors DEF TypePanel
  <2> QED
    BY <2>1, <1>1, <1>3 DEF Live
<1>5. TypePanel'
  <2>1. Occupied' = Occupied
    BY <1>4 DEF Occupied, fields
  <2> QED
    BY <1>1, <1>2, <1>4, <2>1 DEF Receives, TypePanel
<1>6. Shown'
  BY <1>1, <1>2, <1>4, ShowsStay, ShownStays
<1>7. Dropped /\ InOrder'
  BY <1>2, TakenIs DEF Receives, Handling
<1>8. strokes \in Nat
  BY <1>2 DEF TypePanel
<1>9. Minor
  BY <1>1, <1>4, <1>7, <1>8 DEF Minor, Receives, Handling
<1> QED
  BY <1>5, <1>6, <1>9, FromMinor

\* What is received stays while the transaction is closed.
LEMMA CloseKeeps ==
  ASSUME IInv, Handling, Close, toHost' \in Outbox, toHost'.edit = toHost.edit,
         UNCHANGED <<arena, live_ix, page, focused, editSeqs>>
  PROVE  IInv'
PROOF
<1>1. TypePanel
  BY DEF IInv
<1>2. staging' \in [open : BOOLEAN, revision : Nat, expect : Nat, next : Nat, crc : Seq(Triples)]
      /\ ~staging'.open
  BY <1>1 DEF Close, TypePanel
<1>3. \E d \in Descriptors : arena' = [arena EXCEPT ![Stage] = d]
  <2>1. arena[Stage] \in Descriptors
    BY <1>1, TwoDescriptors
  <2>2. arena' = [arena EXCEPT ![Stage] = arena[Stage]]
    BY <1>1 DEF TypePanel
  <2> QED
    BY <2>1, <2>2
<1>4. Receives
  BY <1>2, <1>3 DEF Receives
<1> QED
  BY <1>2, <1>4, ReceivesKeeps DEF Receiving, Staged

\* A transaction that is refused.
LEMMA RefuseKeeps ==
  ASSUME IInv, Handling, Refuse
  PROVE  IInv'
BY CloseKeeps, Replies DEF Refuse, IInv, TypeHost

\* A transaction that is aborted.
LEMMA AbortKeeps ==
  ASSUME IInv, Handling, NEW m, DescAbort(m)
  PROVE  IInv'
BY CloseKeeps DEF DescAbort, IInv, TypeHost

-----------------------------------------------------------------------------
(* The transaction. *)

\* The message taken, by name.
Takes(m) == m = Head(toPanel) /\ m \in Message /\ Carried(m)

\* A descriptor that begins has the operator flag of its layout and nothing
\* received yet.
LEMMA BeginKeeps ==
  ASSUME IInv, Handling, NEW m, Takes(m), DescBegin(m)
  PROVE  IInv'
PROOF
<1>1. TypePanel /\ TypeHost /\ Staged /\ shows' = shows /\ arena \in [0..1 -> Descriptors]
  BY DEF IInv, TypePanel, Handling, host
<1>2. m \in Begin /\ m.op = "DESC_BEGIN" /\ m.revision \in Revisions
  BY MessageIs DEF Takes, DescBegin, Carried
<1>3. UNCHANGED <<live_ix, page, focused, editSeqs>>
  BY DEF DescBegin
<1>4. Stage \in 0..1 /\ Stage' = Stage /\ arena[Stage] \in Descriptors
  BY <1>1, <1>3, TwoDescriptors DEF Stage
<1>5. ShowsKept /\ Revisions' = Revisions
  BY <1>1, ShowsStay
<1>6. CASE m.count > MaxFields
  <2>1. /\ staging' = [staging EXCEPT !.revision = m.revision, !.expect = m.count,
                                      !.open = FALSE]
        /\ toHost' = Request(toHost) /\ UNCHANGED arena
    BY <1>6 DEF DescBegin
  <2>2. staging' \in [open : BOOLEAN, revision : Nat, expect : Nat, next : Nat,
                      crc : Seq(Triples)] /\ ~staging'.open
    BY <1>1, <1>2, <2>1 DEF TypePanel, Begin
  <2>3. arena' = [arena EXCEPT ![Stage] = arena[Stage]]
    BY <1>1, <2>1
  <2>4. Receives
    BY <1>1, <1>3, <1>4, <2>1, <2>2, <2>3, Replies DEF Receives, TypeHost
  <2> QED
    BY <2>2, <2>4, ReceivesKeeps DEF Receiving, Staged
<1>7. CASE ~(m.count > MaxFields)
  <2>1. /\ staging' = [open |-> TRUE, revision |-> m.revision, expect |-> m.count,
                       next |-> 0, crc |-> <<>>]
        /\ arena' = [arena EXCEPT ![Stage].operator = m.operator, ![Stage].fields = NoFields]
        /\ UNCHANGED toHost
    BY <1>7 DEF DescBegin
  <2>2. staging' \in [open : BOOLEAN, revision : Nat, expect : Nat, next : Nat,
                      crc : Seq(Triples)]
    BY <1>2, <2>1, EmptySeq DEF Begin
  <2> DEFINE d == [arena[Stage] EXCEPT !.operator = m.operator, !.fields = NoFields]
  <2>3. arena' = [arena EXCEPT ![Stage] = d]
    BY <1>1, <1>4, <2>1
  <2>4. NoFields \in FieldSets /\ DOMAIN NoFields = {}
    <3>1. NoFields \in [{} -> Field] /\ DOMAIN NoFields = {}
      BY DEF NoFields
    <3> QED
      BY <3>1, FieldsMake
  <2>5. d \in Descriptors /\ d.operator = m.operator /\ d.fields = NoFields
    BY <1>2, <1>4, <2>4 DEF Descriptors, Begin
  <2>6. arena'[Stage'] = d
    BY <1>1, <1>4, <2>3
  <2> HIDE DEF d
  <2>7. Receives
    BY <1>1, <1>3, <2>1, <2>2, <2>3, <2>5 DEF Receives, TypeHost
  <2>8. m.count \in Nat /\ MaxFields \in Nat
    BY <1>2, FieldsAssumption DEF Begin
  <2>9. m.operator = shows[m.revision].operator
    BY <1>2, <1>7, <2>8 DEF Takes, Carried
  <2>10. Received(arena'[Stage'].fields, staging'.crc)
    BY <2>1, <2>4, <2>5, <2>6 DEF Received
  <2>11. Staged'
    BY <1>1, <1>2, <1>5, <2>1, <2>5, <2>6, <2>9, <2>10 DEF Staged, Received
  <2>12. Receiving
    <3>1. 1 \in DOMAIN toPanel /\ m = toPanel[1]
      BY TakenIs DEF IInv, Handling, Takes
    <3> QED
      BY <3>1, <1>2, <2>1 DEF Receiving
  <2> QED
    BY <2>7, <2>11, <2>12, ReceivesKeeps
<1> QED
  BY <1>6, <1>7

\* A field t is added to those received, and to those the check sum covers.
OneMore(f, g, old, new, t, n) ==
  /\ DOMAIN old = 1..n /\ DOMAIN new = 1..(n + 1)
  /\ \A i \in 1..n : new[i] = old[i]
  /\ new[n + 1] = t
  /\ DOMAIN g = DOMAIN f \union {t[1]} /\ g[t[1]] = [kind |-> t[2], value |-> t[3]]
  /\ \A s \in DOMAIN f : g[s] = f[s]

\* What is received covers one field more when the check sum does.
LEMMA ReceivesOne ==
  ASSUME NEW f, NEW g, NEW old, NEW new, NEW t, NEW n \in Nat,
         Received(f, old), OneMore(f, g, old, new, t, n)
  PROVE  Received(g, new)
PROOF
<1> USE DEF OneMore
<1>1. PICK k \in Nat : k = n + 1
  OBVIOUS
<1>2. DOMAIN new = 1..n \union {k} /\ new[k] = t
  BY <1>1
<1>3. DOMAIN f = {old[i][1] : i \in 1..n}
  BY DEF Received
<1>4. DOMAIN g = {new[i][1] : i \in DOMAIN new}
  <2>1. {new[i][1] : i \in DOMAIN new} = {new[i][1] : i \in 1..n} \union {new[k][1]}
    BY <1>2
  <2>2. {new[i][1] : i \in 1..n} = DOMAIN f
    BY <1>3
  <2> QED
    BY <2>1, <2>2, <1>2
<1>5. \A i \in 1..n : g[new[i][1]] = [kind |-> new[i][2], value |-> new[i][3]]
  <2> SUFFICES ASSUME NEW i \in 1..n
               PROVE  g[new[i][1]] = [kind |-> new[i][2], value |-> new[i][3]]
    OBVIOUS
  <2>1. new[i] = old[i] /\ old[i][1] \in DOMAIN f
    BY <1>3
  <2>2. f[old[i][1]] = [kind |-> old[i][2], value |-> old[i][3]]
    BY DEF Received
  <2> QED
    BY <2>1, <2>2
<1>6. g[new[k][1]] = [kind |-> new[k][2], value |-> new[k][3]]
  BY <1>2
<1> QED
  BY <1>2, <1>4, <1>5, <1>6 DEF Received

\* A field that is received is one the check sum covers.
LEMMA FieldKeeps ==
  ASSUME IInv, Handling, NEW m, Takes(m), DescField(m)
  PROVE  IInv'
PROOF
<1>1. CASE ~staging.open
  BY <1>1, IgnoreKeeps DEF DescField
<1>2. CASE staging.open /\ Refuse
  BY <1>2, RefuseKeeps
<1>3. CASE /\ staging.open /\ ~Refuse
  <2>1. /\ m.op = "DESC_FIELD" /\ m.index = staging.next /\ m.id \in Slots
        /\ m.id \notin DOMAIN arena[Stage].fields
        /\ staging' = [staging EXCEPT !.next = m.index + 1,
                                      !.crc = Append(@, <<m.id, m.kind, m.value>>)]
        /\ arena' = [arena EXCEPT ![Stage].fields =
             [s \in DOMAIN @ \union {m.id} |->
                IF s = m.id THEN [kind |-> m.kind, value |-> m.value] ELSE @[s]]]
        /\ UNCHANGED <<live_ix, page, focused, editSeqs, toHost>>
    BY <1>3 DEF DescField
  <2>2. TypePanel /\ TypeHost /\ Staged /\ shows' = shows /\ arena \in [0..1 -> Descriptors]
    BY DEF IInv, TypePanel, Handling, host
  <2>3. m.index \in Nat /\ m.kind \in Kinds /\ m.value \in Int
    BY <2>1, MessageIs DEF Takes, AField
  <2>4. Stage \in 0..1 /\ Stage' = Stage /\ arena[Stage] \in Descriptors
    BY <2>1, <2>2, TwoDescriptors DEF Stage
  <2> DEFINE f == arena[Stage].fields
             g == [s \in DOMAIN f \union {m.id} |->
                     IF s = m.id THEN [kind |-> m.kind, value |-> m.value] ELSE f[s]]
             d == [arena[Stage] EXCEPT !.fields = g]
             t == <<m.id, m.kind, m.value>>
             crc == Append(staging.crc, t)
  <2>5. f \in FieldSets /\ DOMAIN f \subseteq Slots /\ \A s \in DOMAIN f : f[s] \in Field
    BY <2>4, FieldsAre DEF Descriptors
  <2>6. g \in FieldSets
    <3>1. g \in [DOMAIN f \union {m.id} -> Field]
      BY <2>3, <2>5 DEF Field
    <3> QED
      BY <3>1, <2>1, <2>5, FieldsMake
  <2>7. DOMAIN g = DOMAIN f \union {m.id} /\ g[m.id] = [kind |-> m.kind, value |-> m.value]
        /\ \A s \in DOMAIN f : g[s] = f[s]
    BY <2>1
  <2>8. arena' = [arena EXCEPT ![Stage] = d]
    BY <2>1, <2>2, <2>4
  <2> HIDE DEF g
  <2>9. d \in Descriptors /\ d.fields = g /\ d.operator = arena[Stage].operator
    BY <2>4, <2>6 DEF Descriptors
  <2>10. arena'[Stage'] = d
    BY <2>2, <2>4, <2>8
  <2>11. staging.crc \in Seq(Triples) /\ t \in Triples
    BY <2>1, <2>2, <2>3 DEF TypePanel, Triples
  <2>12. /\ crc \in Seq(Triples) /\ Len(crc) = Len(staging.crc) + 1 /\ Len(staging.crc) \in Nat
         /\ \A i \in 1..Len(staging.crc) : crc[i] = staging.crc[i]
         /\ crc[Len(staging.crc) + 1] = t
         /\ DOMAIN crc = 1..Len(crc) /\ DOMAIN staging.crc = 1..Len(staging.crc)
    BY <2>11, AppendProperties, LenProperties
  <2>13. /\ staging' \in [open : BOOLEAN, revision : Nat, expect : Nat, next : Nat,
                          crc : Seq(Triples)]
         /\ staging'.open = staging.open /\ staging'.revision = staging.revision
         /\ staging'.crc = crc
    <3>0. PICK c \in Seq(Triples) : c = crc
      BY <2>12
    <3>1. staging' = [staging EXCEPT !.next = m.index + 1, !.crc = c]
      BY <2>1, <3>0
    <3>2. staging \in [open : BOOLEAN, revision : Nat, expect : Nat, next : Nat,
                       crc : Seq(Triples)]
      BY <2>2 DEF TypePanel
    <3>3. PICK n \in Nat : n = m.index + 1
      BY <2>3
    <3>4. staging' = [staging EXCEPT !.next = n, !.crc = c]
      BY <3>1, <3>3
    <3> HIDE DEF crc
    <3> QED
      BY <3>0, <3>2, <3>4
  <2>14. t[1] = m.id /\ t[2] = m.kind /\ t[3] = m.value
    OBVIOUS
  <2> HIDE DEF d, t, crc
  <2>15. Received(f, staging.crc) /\ staging.revision \in Revisions
         /\ arena[Stage].operator = shows[staging.revision].operator
    BY <1>3, <2>2 DEF Staged
  <2>16. Received(g, crc)
    <3>1. PICK n \in Nat : n = Len(staging.crc)
      BY <2>12
    <3>2. OneMore(f, g, staging.crc, crc, t, n)
      <4>1. DOMAIN staging.crc = 1..n /\ DOMAIN crc = 1..(n + 1) /\ crc[n + 1] = t
            /\ \A i \in 1..n : crc[i] = staging.crc[i]
        BY <2>12, <3>1
      <4>2. /\ DOMAIN g = DOMAIN f \union {t[1]} /\ g[t[1]] = [kind |-> t[2], value |-> t[3]]
            /\ \A s \in DOMAIN f : g[s] = f[s]
        BY <2>7, <2>14
      <4> HIDE DEF f
      <4> QED
        BY <4>1, <4>2 DEF OneMore
    <3> HIDE DEF f
    <3> QED
      BY <2>15, <3>2, ReceivesOne
  <2>17. Staged'
    <3>1. ShowsKept /\ Revisions' = Revisions
      BY <2>2, ShowsStay
    <3>2. Received(arena'[Stage'].fields, staging'.crc)
      BY <2>9, <2>10, <2>13, <2>16
    <3> QED
      BY <3>1, <3>2, <2>2, <2>9, <2>10, <2>13, <2>15 DEF Staged, Received
  <2>18. Receives
    BY <2>1, <2>2, <2>8, <2>9, <2>13 DEF Receives, TypeHost
  <2> QED
    BY <2>13, <2>17, <2>18, ReceivesKeeps DEF Receiving
<1> QED
  BY <1>1, <1>2, <1>3

\* Nothing of a field is behind an edit when its newest edit is none.
LEMMA NothingToHeed ==
  ASSUME newest' = [s \in Slots |-> 0], edit_seq' = edit_seq
  PROVE  HeedsKept /\ \A s \in Slots, seq, stroke \in Nat : Heeds(seq, stroke, s)'
BY DEF HeedsKept, Heeds

\* A layout that is published is the one its revision was given.
LEMMA PublishKeeps ==
  ASSUME IInv, Handling, NEW m, Takes(m), m.op = "DESC_END", staging.open, Verified(m),
         Publish(m)
  PROVE  IInv'
PROOF
<1> DEFINE fresh == [arena[Stage] EXCEPT !.revision = m.revision]
<1>1. /\ TypePanel /\ TypeHost /\ Staged /\ HostKnows /\ AllCarried /\ InOrder /\ Numbered
      /\ Heeded /\ AllSent /\ Clearing
      /\ arena \in [0..1 -> Descriptors] /\ strokes \in Nat /\ edit_seq \in Nat
  BY DEF IInv, TypePanel
<1>2. UNCHANGED <<shows, showing, owing, truth, accounted, heeded, strokes>>
  BY DEF Handling, host
<1>3. /\ arena' = [arena EXCEPT ![Stage] = fresh] /\ live_ix' = Stage /\ page' = 0
      /\ last_edit_seq' = [s \in Slots |-> 0] /\ newest' = [s \in Slots |-> 0]
      /\ focused' = Nobody /\ toHost' = Screen(toHost, fresh, 0)
      /\ staging' = [staging EXCEPT !.open = FALSE] /\ edit_seq' = edit_seq
  BY DEF Publish, Close
<1>4. m \in End /\ m.revision \in Revisions /\ Whole(m.crc, m.revision)
      /\ Live.revision <= m.revision /\ m.revision \in Nat
  BY MessageIs DEF Takes, Carried, End
<1>5. m.revision = staging.revision /\ m.crc = staging.crc
  BY DEF Verified
<1>6. Stage \in 0..1 /\ arena[Stage] \in Descriptors /\ Live \in Descriptors
  BY <1>1, TwoDescriptors
<1>7. /\ fresh \in Descriptors /\ fresh.revision = m.revision
      /\ fresh.operator = arena[Stage].operator /\ fresh.fields = arena[Stage].fields
  BY <1>4, <1>6 DEF Descriptors
<1> HIDE DEF fresh
<1>8. Live' = fresh /\ arena' \in [0..1 -> Descriptors]
  BY <1>1, <1>3, <1>6, <1>7 DEF Live
<1>9. Dropped /\ InOrder' /\ \A i \in DOMAIN toPanel' : toPanel'[i].op # "DESC_END"
  BY <1>1, TakenIs DEF Handling, Takes, Follows
<1>10. ShowsKept /\ revision' = revision /\ Revisions' = Revisions
  BY <1>2, ShowsStay
<1>11. TypePanel'
  <2>1. staging' \in [open : BOOLEAN, revision : Nat, expect : Nat, next : Nat,
                      crc : Seq(Triples)]
    BY <1>1, <1>3 DEF TypePanel
  <2> QED
    BY <2>1, <1>1, <1>2, <1>3, <1>6, <1>8 DEF TypePanel
<1>12. TypeHost' /\ toHost'.edit = toHost.edit
  BY <1>1, <1>2, <1>3, <1>7, Replies DEF TypeHost
<1>13. Shown'
  <2>1. /\ arena[Stage].operator = shows[m.revision].operator
        /\ Received(arena[Stage].fields, m.crc)
    BY <1>1, <1>5 DEF Staged
  <2>2. Occupied' = DOMAIN shows[m.revision].kinds
    BY <2>1, <1>4, <1>7, <1>8 DEF Received, Whole, Occupied, fields
  <2>3. ASSUME NEW s \in Occupied'
        PROVE  /\ fields'[s].kind = shows[m.revision].kinds[s]
               /\ fields'[s].value \in Readings(m.revision)
    <3>1. s \in DOMAIN arena[Stage].fields /\ fields'[s] = arena[Stage].fields[s]
      BY <1>7, <1>8 DEF Occupied, fields
    <3>2. PICK i \in DOMAIN m.crc : m.crc[i][1] = s
      BY <2>1, <3>1 DEF Received
    <3>3. arena[Stage].fields[s] = [kind |-> m.crc[i][2], value |-> m.crc[i][3]]
      BY <2>1, <3>2 DEF Received
    <3>4. m.crc[i][2] = shows[m.revision].kinds[s] /\ m.crc[i][3] \in Readings(m.revision)
      BY <1>4, <3>2 DEF Whole
    <3> QED
      BY <3>1, <3>3, <3>4
  <2>4. m.revision # 0
    BY <1>1, <1>4, LayoutsAre DEF TypeHost
  <2> QED
    BY <2>1, <2>2, <2>3, <2>4, <1>2, <1>4, <1>7, <1>8, <1>10 DEF Shown, Readings, Least
<1>14. Staged'
  BY <1>1, <1>3 DEF Staged, TypePanel
<1>15. HostKnows'
  BY <1>1, <1>2, HostKnowsStays
<1>16. HeedsKept /\ \A s \in Slots, seq, stroke \in Nat : Heeds(seq, stroke, s)'
  BY <1>3, NothingToHeed
<1>17. AllCarried'
  BY <1>1, <1>9, <1>10, <1>16, AllCarriedStays
<1>18. Numbered'
  BY <1>1, <1>2, <1>3 DEF Numbered
<1>19. Heeded'
  BY <1>1, <1>2, <1>16, HeededStays
<1>20. AllSent'
  <2> SUFFICES ASSUME NEW s \in Slots, toHost.edit[s] # NoEdit PROVE Sent(s)'
    BY <1>12 DEF AllSent, Sent
  <2>1. PICK e : e = toHost.edit[s]
    OBVIOUS
  <2>2. /\ e \in Edit /\ e.revision \in Revisions /\ e.value \in Readings(e.revision)
        /\ showing /\ e.revision = revision => e.seq <= edit_seq /\ Live.revision = revision
    BY <1>1, <2>1 DEF AllSent, Sent
  <2>3. Heeds(e.seq, e.stroke, s)'
    BY <2>2, <1>16 DEF Edit
  <2>4. Live.revision = revision => Live'.revision = revision
    <3>1. m.revision <= revision
      BY <1>1, <1>4, LayoutsAre DEF TypeHost
    <3>2. revision \in Nat
      BY <1>1, LenProperties DEF TypeHost, revision
    <3> QED
      BY <3>1, <3>2, <1>4, <1>7, <1>8
  <2> QED
    BY <2>1, <2>2, <2>3, <2>4, <1>2, <1>3, <1>10, <1>12 DEF Sent, Heeds, Readings, Least
<1>21. Clearing'
  <2> SUFFICES ASSUME NEW i \in DOMAIN toPanel', toPanel'[i].op = "CLEAR" PROVE Clearing'
    BY DEF Clearing
  <2>1. PICK j \in DOMAIN toPanel : toPanel[j].op = "CLEAR"
    BY <1>9 DEF Dropped
  <2>2. 1 \in DOMAIN toPanel /\ m = toPanel[1]
    BY <1>1, TakenIs DEF Handling, Takes
  <2>3. showing => m.revision # revision
    BY <2>1, <2>2, <1>1 DEF Clearing
  <2>4. ~staging'.open
    BY <1>1, <1>3 DEF TypePanel
  <2> QED
    BY <2>1, <2>3, <2>4, <1>1, <1>2, <1>7, <1>8, <1>9, <1>10, <1>12 DEF Clearing, Dropped
<1> QED
  BY <1>9, <1>11, <1>12, <1>13, <1>14, <1>15, <1>17, <1>18, <1>19, <1>20, <1>21 DEF IInv

\* A descriptor's end is ignored, or refused, or publishes.
LEMMA EndKeeps ==
  ASSUME IInv, Handling, NEW m, Takes(m), DescEnd(m)
  PROVE  IInv'
BY IgnoreKeeps, RefuseKeeps, PublishKeeps DEF DescEnd

-----------------------------------------------------------------------------
(* The other messages. *)

\* Values that pass the gate are of the layout shown.
LEMMA ValuesKeeps ==
  ASSUME IInv, Handling, NEW m, Takes(m), HandleValues(m)
  PROVE  IInv'
PROOF
<1>1. CASE ~Gate(m.revision)
  BY <1>1, TakenIdly, Replies DEF HandleValues, IInv, TypeHost
<1>2. CASE Gate(m.revision)
  <2> DEFINE f == [s \in DOMAIN fields |->
                     IF s \in DOMAIN m.entries /\ ~Withheld(s, m.entries[s].ack)
                       THEN [fields[s] EXCEPT !.value = m.entries[s].value]
                       ELSE fields[s]]
             d == [Live EXCEPT !.fields = f]
  <2>1. /\ TypePanel /\ TypeHost /\ Shown /\ Staged
        /\ arena \in [0..1 -> Descriptors] /\ live_ix \in 0..1 /\ strokes \in Nat
        /\ staging \in [open : BOOLEAN, revision : Nat, expect : Nat, next : Nat,
                        crc : Seq(Triples)]
    BY DEF IInv, TypePanel
  <2>2. /\ arena' = [arena EXCEPT ![live_ix] = d]
        /\ UNCHANGED <<live_ix, staging, page, focused, editSeqs, toHost>>
    BY <1>2, <2>1 DEF HandleValues, Live, fields
  <2>3. /\ Stage \in 0..1 /\ Stage # live_ix /\ Live \in Descriptors
        /\ Occupied \subseteq Slots /\ \A s \in Occupied : fields[s] \in Field
    BY <2>1, TwoDescriptors
  <2>4. /\ m.op = "VALUES" /\ m \in Values /\ m.revision \in Revisions
        /\ \A s \in DOMAIN m.entries : m.entries[s].value \in Readings(m.revision)
    BY MessageIs DEF Takes, HandleValues, Carried
  <2>5. m.revision = Live.revision /\ m.revision # 0
    BY <1>2, <2>1, <2>4, LayoutsAre DEF Gate, TypeHost
  <2>6. \A s \in DOMAIN m.entries : m.entries[s].value \in Int
    BY <2>4, EntriesAre DEF Entry
  <2>7. /\ DOMAIN f = Occupied
        /\ \A s \in Occupied :
             \/ f[s] = fields[s]
             \/ s \in DOMAIN m.entries /\ f[s] = [fields[s] EXCEPT !.value = m.entries[s].value]
    BY DEF Occupied
  <2> HIDE DEF f
  <2>8. f \in FieldSets
    <3>1. \A s \in Occupied : f[s] \in Field
      BY <2>3, <2>6, <2>7 DEF Field
    <3>2. f \in [Occupied -> Field]
      <4>1. f = [s \in Occupied |-> f[s]]
        BY <2>7 DEF f
      <4> QED
        BY <3>1, <4>1
    <3> QED
      BY <2>3, <3>2, FieldsMake
  <2>9. /\ d \in Descriptors /\ d.revision = Live.revision /\ d.operator = Live.operator
        /\ d.fields = f
    BY <2>3, <2>8 DEF Descriptors
  <2> HIDE DEF d
  <2>10. /\ Live' = d /\ arena' \in [0..1 -> Descriptors] /\ Stage' = Stage
         /\ arena'[Stage'] = arena[Stage]
    BY <2>1, <2>2, <2>3, <2>9 DEF Live, Stage
  <2>11. Occupied' = Occupied /\ fields' = f
    BY <2>7, <2>9, <2>10 DEF Occupied, fields
  <2>12. UNCHANGED <<edit_seq, last_edit_seq, newest, shows, strokes>>
    BY <2>2 DEF editSeqs, Handling, host
  <2>13. TypePanel'
    BY <2>1, <2>2, <2>10, <2>11, <2>12 DEF TypePanel
  <2>14. Shown'
    <3>1. \A s \in Occupied : f[s].kind = fields[s].kind /\ f[s].value \in Readings(Live.revision)
      <4> SUFFICES ASSUME NEW s \in Occupied
                   PROVE  f[s].kind = fields[s].kind /\ f[s].value \in Readings(Live.revision)
        OBVIOUS
      <4>1. fields[s] \in Field /\ fields[s].value \in Readings(Live.revision)
        BY <2>1, <2>3, <2>5 DEF Shown
      <4>2. CASE f[s] = fields[s]
        BY <4>1, <4>2
      <4>3. CASE s \in DOMAIN m.entries /\ f[s] = [fields[s] EXCEPT !.value = m.entries[s].value]
        BY <4>1, <4>3, <2>4, <2>5 DEF Field
      <4> QED
        BY <4>2, <4>3, <2>7
    <3>2. ShowsKept /\ Revisions' = Revisions
      BY <2>12, ShowsStay
    <3> QED
      BY <3>1, <3>2, <2>1, <2>5, <2>9, <2>10, <2>11, <2>12 DEF Shown, Readings, Least
  <2>15. Staged'
    BY <2>1, <2>2, <2>10, <2>12, ShowsStay, StagedStays
  <2>16. Receiving
    BY <2>2 DEF Receiving
  <2>17. Minor
    <3>1. Dropped /\ InOrder'
      BY TakenIs DEF Handling, IInv
    <3>2. toHost' \in Outbox /\ toHost'.edit = toHost.edit
      BY <2>1, <2>2 DEF TypeHost
    <3> QED
      BY <3>1, <3>2, <2>1, <2>2, <2>9, <2>10, <2>12, <2>16 DEF Minor, Handling
  <2> QED
    BY <2>13, <2>14, <2>15, <2>17, FromMinor
<1> QED
  BY <1>1, <1>2

\* A step that only turns the page, drills, or notes a touch.
Turns ==
  /\ Dropped /\ InOrder'
  /\ UNCHANGED <<arena, live_ix, staging, editSeqs, host>>
  /\ page' \in Int /\ focused' \in Occupied \union {Nobody}
  /\ toHost' \in Outbox /\ toHost'.edit = toHost.edit
  /\ strokes' \in Nat /\ strokes <= strokes'

\* It keeps the invariant.
LEMMA TurnsKeeps ==
  ASSUME IInv, Turns
  PROVE  IInv'
PROOF
<1>1. /\ UNCHANGED <<arena, live_ix, staging, edit_seq, last_edit_seq, newest, shows>>
      /\ UNCHANGED editSeqs
  BY DEF Turns, editSeqs, host
<1>2. TypePanel /\ Shown /\ Staged
  BY DEF IInv
<1>3. Live' = Live /\ Stage' = Stage /\ Occupied' = Occupied
  BY <1>1 DEF Live, Stage, Occupied, fields
<1>4. TypePanel'
  BY <1>1, <1>2, <1>3 DEF Turns, TypePanel
<1>5. Shown' /\ Staged'
  BY <1>1, <1>2, <1>3, ShowsStay, ShownStays, StagedStays
<1>6. Receiving
  BY <1>1 DEF Receiving
<1>7. Minor
  BY <1>1, <1>3, <1>6 DEF Minor, Turns
<1> QED
  BY <1>4, <1>5, <1>7, FromMinor

\* What turning to a page sends.
LEMMA GoToIs ==
  ASSUME IInv, NEW first \in Int, GoTo(first)
  PROVE  /\ page' \in Int /\ focused' \in Occupied \union {Nobody}
         /\ toHost' \in Outbox /\ toHost'.edit = toHost.edit
BY Replies, TwoDescriptors DEF GoTo, IInv, TypeHost

\* A page is a number.
LEMMA PageIs ==
  ASSUME NEW s \in Nat
  PROVE  PageOf(s) \in Int
BY PotsAssumption DEF PageOf

\* The host reveals a field.
LEMMA RevealKeeps ==
  ASSUME IInv, Handling, NEW m, Takes(m), HandleReveal(m)
  PROVE  IInv'
PROOF
<1>1. CASE ~Gate(m.revision)
  BY <1>1, TakenIdly, Replies DEF HandleReveal, IInv, TypeHost
<1>2. CASE Ignore
  BY <1>2, IgnoreKeeps
<1>3. CASE Gate(m.revision) /\ ~Ignore
  <2>1. m.id \in Occupied /\ GoTo(PageOf(m.id)) /\ UNCHANGED <<arena, live_ix, staging, editSeqs>>
    BY <1>3 DEF HandleReveal
  <2>2. PageOf(m.id) \in Int
    <3>1. Occupied \subseteq Slots
      BY TwoDescriptors DEF IInv
    <3> QED
      BY <2>1, <3>1, SlotsAre, PageIs
  <2>3. Dropped /\ InOrder' /\ strokes \in Nat /\ UNCHANGED <<host, strokes>>
    BY TakenIs DEF IInv, TypePanel, Handling
  <2>4. Turns
    BY <2>1, <2>2, <2>3, GoToIs DEF Turns
  <2> QED
    BY <2>4, TurnsKeeps
<1> QED
  BY <1>1, <1>2, <1>3

\* When the host has cleared, it has taken in no edit, and no value is on its
\* way behind the CLEAR.
LEMMA ClearKeeps ==
  ASSUME IInv, Handling, NEW m, Takes(m), HandleClear(m)
  PROVE  IInv'
PROOF
<1>1. /\ TypePanel /\ TypeHost /\ HostKnows /\ AllCarried /\ InOrder /\ Heeded /\ AllSent
      /\ Clearing /\ strokes \in Nat
  BY DEF IInv, TypePanel
<1>2. UNCHANGED <<shows, showing, owing, truth, accounted, heeded, strokes>>
  BY DEF Handling, host
<1>3. /\ m.op = "CLEAR" /\ arena' = [i \in 0..1 |-> Empty] /\ live_ix' = 0 /\ page' = 0
      /\ focused' = Nobody /\ edit_seq' = 0
      /\ last_edit_seq' = [s \in Slots |-> 0] /\ newest' = [s \in Slots |-> 0]
      /\ toHost' = Screen(toHost, Empty, 0)
      /\ staging' = [staging EXCEPT !.open = FALSE]
  BY DEF HandleClear, Close
<1>4. NoFields \in FieldSets /\ DOMAIN NoFields = {}
  <2>1. NoFields \in [{} -> Field] /\ DOMAIN NoFields = {}
    BY DEF NoFields
  <2> QED
    BY <2>1, FieldsMake
<1>5. Empty \in Descriptors /\ Empty.revision = 0 /\ Empty.fields = NoFields
  BY <1>4 DEF Empty, Descriptors
<1>6. Live' = Empty /\ arena' \in [0..1 -> Descriptors] /\ Occupied' = {}
  BY <1>3, <1>4, <1>5 DEF Live, Occupied, fields
<1>7. staging' \in [open : BOOLEAN, revision : Nat, expect : Nat, next : Nat,
                    crc : Seq(Triples)] /\ ~staging'.open
  BY <1>1, <1>3 DEF TypePanel
<1>8. TypePanel'
  BY <1>1, <1>2, <1>3, <1>6, <1>7 DEF TypePanel
<1>9. TypeHost' /\ toHost'.edit = toHost.edit
  BY <1>1, <1>2, <1>3, <1>5, Replies DEF TypeHost
<1>10. Shown'
  BY <1>5, <1>6 DEF Shown
<1>11. Staged'
  BY <1>7 DEF Staged
<1>12. HostKnows'
  BY <1>1, <1>2, HostKnowsStays
<1>13. ShowsKept /\ revision' = revision /\ Revisions' = Revisions
  BY <1>2, ShowsStay
<1>14. /\ Dropped /\ InOrder' /\ \A i \in DOMAIN toPanel' : toPanel'[i].op \in {"REVEAL", "CLEAR"}
       /\ 1 \in DOMAIN toPanel /\ m = toPanel[1]
  BY <1>1, <1>3, TakenIs DEF Handling, Takes, Follows
<1>15. AllCarried'
  <2>1. ASSUME NEW i \in DOMAIN toPanel'
        PROVE  toPanel'[i].op = "REVEAL" => toPanel'[i].revision \in Revisions'
    BY <1>1, <1>13, <1>14 DEF Dropped, AllCarried, Carried
  <2> QED
    BY <2>1, <1>14 DEF AllCarried, Carried, Dropped
<1>16. /\ \A s \in Slots : accounted[s] = 0
       /\ showing => \A s \in Slots : toHost.edit[s] # NoEdit => toHost.edit[s].revision # revision
  BY <1>1, <1>3, <1>14 DEF Clearing
<1>17. Numbered'
  BY <1>1, <1>2, <1>3 DEF Numbered
<1>18. Heeded'
  BY <1>1, <1>2, <1>3, <1>16 DEF Heeded, Heeds, TypeHost
<1>19. AllSent'
  <2> SUFFICES ASSUME NEW s \in Slots, toHost.edit[s] # NoEdit PROVE Sent(s)'
    BY <1>9 DEF AllSent, Sent
  <2>1. PICK e : e = toHost.edit[s]
    OBVIOUS
  <2>2. e \in Edit /\ e.revision \in Revisions /\ e.value \in Readings(e.revision)
    BY <1>1, <2>1 DEF AllSent, Sent
  <2>3. ~(showing' /\ e.revision = revision')
    BY <1>2, <1>13, <1>16, <2>1
  <2> QED
    BY <2>1, <2>2, <2>3, <1>9, <1>13 DEF Sent, Readings, Least
<1>20. Clearing'
  <2>1. showing' => revision # 0 /\ revision' = revision
    BY <1>1, <1>2, <1>13 DEF HostKnows
  <2> QED
    BY <2>1, <1>2, <1>5, <1>6, <1>7, <1>9, <1>14, <1>16 DEF Clearing
<1> QED
  BY <1>8, <1>9, <1>10, <1>11, <1>12, <1>14, <1>15, <1>17, <1>18, <1>19, <1>20 DEF IInv

\* Whatever message is taken.
LEMMA HandleKeeps ==
  ASSUME IInv, Handle
  PROVE  IInv'
PROOF
<1>1. Handling
  BY DEF Handle, Handling, Taken, bounds
<1>2. PICK m : m = Head(toPanel)
  OBVIOUS
<1>3. Takes(m)
  BY <1>1, <1>2, TakenIs DEF IInv, Handling, Takes, Carried
<1>4. \/ DescBegin(m) \/ DescField(m) \/ DescEnd(m) \/ DescAbort(m)
      \/ HandleValues(m) \/ HandleReveal(m) \/ HandleClear(m)
  BY <1>2 DEF Handle
<1> QED
  BY <1>1, <1>3, <1>4, BeginKeeps, FieldKeeps, EndKeeps, AbortKeeps, ValuesKeeps, RevealKeeps,
     ClearKeeps

\* A field that cannot be read.
LEMMA UnreadKeeps ==
  ASSUME IInv, HandleUnread
  PROVE  IInv'
BY RefuseKeeps DEF HandleUnread, DescFieldUnread, Handling, Taken

-----------------------------------------------------------------------------
(* The hand. *)

\* What every step without a message leaves.
LEMMA NoMessage ==
  ASSUME IInv, UNCHANGED toPanel
  PROVE  Dropped /\ InOrder' /\ strokes \in Nat /\ edit_seq \in Nat /\ toHost \in Outbox
BY NoneDropped DEF IInv, InOrder, TypePanel, TypeHost

\* A finger comes or goes.
LEMMA TouchKeeps ==
  ASSUME IInv, NEW k \in Knobs, Touch(k)
  PROVE  IInv'
PROOF
<1>1. /\ UNCHANGED <<arena, live_ix, staging, editSeqs, host, page, focused, toHost, toPanel, strokes>>
  BY DEF Touch, editing, bounds
<1>2. page \in Int /\ focused \in Occupied \union {Nobody}
  BY DEF IInv, TypePanel
<1>3. Turns
  BY <1>1, <1>2, NoMessage DEF Turns
<1> QED
  BY <1>3, TurnsKeeps

\* A push turns the page of the operator layout, or drills.
LEMMA PushKeeps ==
  ASSUME IInv, NEW k \in Knobs, Push(k)
  PROVE  IInv'
PROOF
<1>1. /\ UNCHANGED <<arena, live_ix, staging, editSeqs, host, toPanel>>
      /\ strokes' = strokes + 1
  BY DEF Push, Stroke, editing
<1>2. page \in Int /\ focused \in Occupied \union {Nobody} /\ Occupied \subseteq Slots
      /\ Pots \in Int
  BY TwoDescriptors, PotsAssumption DEF IInv, TypePanel
<1>3. /\ page' \in Int /\ focused' \in Occupied \union {Nobody}
      /\ toHost' \in Outbox /\ toHost'.edit = toHost.edit
  <2>1. CASE Live.operator
    BY <2>1, <1>2, GoToIs DEF Push
  <2>2. CASE ~Live.operator
    BY <2>2, <1>1, <1>2, EditsAField, NoMessage DEF Push
  <2> QED
    BY <2>1, <2>2
<1>4. Turns
  BY <1>1, <1>3, NoMessage DEF Turns
<1> QED
  BY <1>4, TurnsKeeps

\* A button leaves a drilled field, or turns the page back.
LEMMA BackKeeps ==
  ASSUME IInv, Back
  PROVE  IInv'
PROOF
<1>1. /\ UNCHANGED <<arena, live_ix, staging, editSeqs, host, toPanel>>
      /\ strokes' = strokes + 1
  BY DEF Back, Stroke, editing
<1>2. page \in Int /\ page - Pots \in Int
  BY PotsAssumption DEF IInv, TypePanel
<1>3. /\ page' \in Int /\ focused' \in Occupied \union {Nobody}
      /\ toHost' \in Outbox /\ toHost'.edit = toHost.edit
  BY <1>1, <1>2, GoToIs, NoMessage DEF Back
<1>4. Turns
  BY <1>1, <1>3, NoMessage DEF Turns
<1> QED
  BY <1>4, TurnsKeeps

\* Or turns it on.
LEMMA PageNextKeeps ==
  ASSUME IInv, PageNext
  PROVE  IInv'
PROOF
<1>1. /\ UNCHANGED <<arena, live_ix, staging, editSeqs, host, toPanel>>
      /\ strokes' = strokes + 1
  BY DEF PageNext, Stroke, editing
<1>2. page + Pots \in Int
  BY PotsAssumption DEF IInv, TypePanel
<1>3. /\ page' \in Int /\ focused' \in Occupied \union {Nobody}
      /\ toHost' \in Outbox /\ toHost'.edit = toHost.edit
  BY <1>2, GoToIs DEF PageNext
<1>4. Turns
  BY <1>1, <1>3, NoMessage DEF Turns
<1> QED
  BY <1>4, TurnsKeeps

\* An edit has a number and a stroke of its own, both the newest, and a
\* value of the layout that is shown.
LEMMA RotateKeeps ==
  ASSUME IInv, NEW k \in Knobs, NEW d \in {-1, 1}, Rotate(k, d)
  PROVE  IInv'
PROOF
<1>1. /\ TypePanel /\ TypeHost /\ Shown /\ Staged /\ HostKnows /\ AllCarried /\ Numbered
      /\ Heeded /\ AllSent /\ Clearing
      /\ arena \in [0..1 -> Descriptors] /\ live_ix \in 0..1 /\ strokes \in Nat /\ edit_seq \in Nat
      /\ last_edit_seq \in [Slots -> Nat] /\ newest \in [Slots -> Nat]
      /\ shows \in Seq(Layouts)
  BY DEF IInv, TypePanel, TypeHost
<1>2. UNCHANGED <<live_ix, staging, toPanel, shows, showing, owing, truth, accounted, heeded,
                  page, focused>>
  BY DEF Rotate, Stroke, host
<1>3. PICK s : s = Edits(k)
  OBVIOUS
<1>4. PICK v : v = Clamped(fields[s].value + d)
  OBVIOUS
<1>5. s # Nobody /\ SetNumber(s, v) /\ strokes' = strokes + 1
  BY <1>3, <1>4 DEF Rotate, Stroke
<1>6. /\ Stage \in 0..1 /\ Stage # live_ix /\ Stage' = Stage /\ Live \in Descriptors
      /\ Occupied \subseteq Slots /\ \A t \in Occupied : fields[t] \in Field
  BY <1>1, <1>2, TwoDescriptors DEF Stage
<1>7. s \in Occupied /\ s \in Slots
  BY <1>1, <1>3, <1>5, <1>6, EditsAField DEF TypePanel
<1>8. Live.revision \in Nat /\ Live.revision # 0 /\ Live.revision \in Revisions
  BY <1>1, <1>6, <1>7 DEF Shown, Descriptors
<1>9. v \in Readings(Live.revision) /\ v \in Int
  <2>1. fields[s].value + d \in Int
    BY <1>6, <1>7 DEF Field
  <2> QED
    BY <2>1, <1>4, <1>8, ClampedReads, ReadingsAre
<1> DEFINE f == [fields EXCEPT ![s].value = v]
           a == [Live EXCEPT !.fields = f]
<1>10. PICK q \in Nat : q = edit_seq + 1
  BY <1>1
<1>11. PICK w \in Nat : w = strokes + 1
  BY <1>1
<1> DEFINE new == [seq |-> q, revision |-> Live.revision, value |-> v, stroke |-> w]
<1>12. /\ arena' = [arena EXCEPT ![live_ix] = a] /\ edit_seq' = q /\ strokes' = w
       /\ last_edit_seq' = [last_edit_seq EXCEPT ![s] = q]
       /\ newest' = [newest EXCEPT ![s] = w]
       /\ toHost' = [toHost EXCEPT !.edit[s] = new]
  BY <1>5, <1>10, <1>11 DEF SetNumber, SendEdit, Live, fields
<1>13. /\ DOMAIN f = Occupied /\ f \in FieldSets
       /\ \A t \in Occupied : /\ f[t].kind = fields[t].kind
                              /\ f[t].value \in {v, fields[t].value}
  <2>1. fields = [t \in Occupied |-> fields[t]]
    <3>1. fields \in FieldSets
      BY <1>6 DEF fields, Descriptors
    <3> QED
      BY <3>1 DEF FieldSets, Occupied
  <2>2. \A t \in Occupied : f[t] \in Field /\ f[t].kind = fields[t].kind
                            /\ f[t].value \in {v, fields[t].value}
    <3> SUFFICES ASSUME NEW t \in Occupied
                 PROVE  f[t] \in Field /\ f[t].kind = fields[t].kind
                        /\ f[t].value \in {v, fields[t].value}
      OBVIOUS
    <3>1. f[t] = IF t = s THEN [fields[s] EXCEPT !.value = v] ELSE fields[t]
      BY <2>1
    <3> HIDE DEF f
    <3> QED
      BY <3>1, <1>6, <1>9 DEF Field
  <2>3. f \in [Occupied -> Field]
    <3>1. DOMAIN f = Occupied /\ f = [t \in Occupied |-> f[t]]
      BY <2>1
    <3> HIDE DEF f
    <3> QED
      BY <2>2, <3>1
  <2>4. f \in FieldSets
    <3> HIDE DEF f
    <3> QED
      BY <2>3, <1>6, FieldsMake
  <2> QED
    BY <2>2, <2>3, <2>4
<1> HIDE DEF f
<1>14. a \in Descriptors /\ a.revision = Live.revision /\ a.operator = Live.operator /\ a.fields = f
  BY <1>6, <1>13 DEF Descriptors
<1> HIDE DEF a
<1>15. /\ Live' = a /\ arena' \in [0..1 -> Descriptors] /\ arena'[Stage'] = arena[Stage]
       /\ Occupied' = Occupied /\ fields' = f
  BY <1>1, <1>2, <1>6, <1>12, <1>13, <1>14 DEF Live, Occupied, fields
<1>16. new \in Edit
  BY <1>8, <1>9 DEF Edit
<1>17. ShowsKept /\ revision' = revision /\ Revisions' = Revisions
  BY <1>2, ShowsStay
<1>18. HeedsKept
  BY <1>1, <1>7, <1>10, <1>12 DEF HeedsKept, Heeds
<1>19. TypePanel'
  <2>1. last_edit_seq' \in [Slots -> Nat] /\ newest' \in [Slots -> Nat]
    BY <1>1, <1>12
  <2> QED
    BY <2>1, <1>1, <1>2, <1>12, <1>15 DEF TypePanel
<1>20. /\ toHost' \in Outbox /\ toHost'.edit[s] = new
       /\ \A t \in Slots : t # s => toHost'.edit[t] = toHost.edit[t]
  <2>1. toHost \in Outbox
    BY <1>1 DEF TypeHost
  <2> HIDE DEF new
  <2> QED
    BY <2>1, <1>7, <1>12, <1>16 DEF Outbox
<1>21. TypeHost'
  BY <1>1, <1>2, <1>20 DEF TypeHost
<1>22. Shown'
  <2>1. \A t \in Occupied : f[t].kind = fields[t].kind /\ f[t].value \in Readings(Live.revision)
    BY <1>1, <1>8, <1>9, <1>13 DEF Shown
  <2> QED
    BY <2>1, <1>1, <1>2, <1>8, <1>14, <1>15, <1>17 DEF Shown, Readings, Least
<1>23. Staged'
  BY <1>1, <1>2, <1>15, <1>17, StagedStays
<1>24. HostKnows'
  BY <1>1, <1>2, HostKnowsStays
<1>25. AllCarried'
  <2>1. Dropped
    BY <1>1, <1>2, NoneDropped
  <2>2. ASSUME NEW i \in DOMAIN toPanel', toPanel'[i].op = "DESC_END"
        PROVE  Live'.revision <= toPanel'[i].revision
    BY <2>2, <1>1, <1>2, <1>14, <1>15 DEF AllCarried, Carried
  <2> QED
    BY <2>1, <2>2, <1>1, <1>17, <1>18, AllCarriedStays
<1>26. InOrder'
  BY <1>2 DEF IInv, InOrder
<1>27. Numbered'
  BY <1>1, <1>7, <1>10, <1>11, <1>12 DEF Numbered
<1>28. Heeded'
  BY <1>1, <1>2, <1>18, HeededStays
<1>29. AllSent'
  <2>1. Sent(s)'
    <3>1. Heeds(new.seq, new.stroke, s)'
      BY <1>1, <1>7, <1>12 DEF Heeds
    <3>2. PICK n : n = new
      OBVIOUS
    <3>3. n \in Edit /\ n.revision = Live.revision /\ n.value = v /\ n.seq = q
          /\ Heeds(n.seq, n.stroke, s)' /\ toHost'.edit[s] = n
      BY <3>1, <3>2, <1>16, <1>20 DEF Heeds
    <3> HIDE DEF new
    <3> QED
      BY <3>3, <1>8, <1>9, <1>12, <1>14, <1>15, <1>17 DEF Sent, Heeds, Readings, Least
  <2>2. ASSUME NEW t \in Slots, t # s PROVE Sent(t)'
    <3>1. PICK e : e = toHost.edit[t] /\ e = toHost'.edit[t]
      BY <2>2, <1>20
    <3>2. e # NoEdit =>
            /\ e \in Edit /\ e.revision \in Revisions /\ e.value \in Readings(e.revision)
            /\ showing /\ e.revision = revision =>
                 e.seq <= edit_seq /\ Live.revision = revision /\ Heeds(e.seq, e.stroke, t)
      BY <1>1, <3>1 DEF AllSent, Sent
    <3>3. e \in Edit => e.seq \in Nat /\ e.stroke \in Nat
      BY DEF Edit
    <3>4. e # NoEdit /\ showing /\ e.revision = revision =>
            e.seq <= edit_seq' /\ Heeds(e.seq, e.stroke, t)'
      BY <3>2, <3>3, <1>18 DEF HeedsKept
    <3> QED
      BY <3>1, <3>2, <3>4, <1>2, <1>14, <1>15, <1>17 DEF Sent, Heeds, Readings, Least
  <2> QED
    BY <2>1, <2>2 DEF AllSent
<1>30. Clearing'
  <2> HIDE DEF new
  <2>1. new.revision = Live.revision
    BY DEF new
  <2> SUFFICES ASSUME NEW i \in DOMAIN toPanel, toPanel[i].op = "CLEAR" PROVE Clearing'
    BY <1>2 DEF Clearing
  <2>2. showing' => \A t \in Slots : toHost'.edit[t] # NoEdit => toHost'.edit[t].revision # revision'
    BY <2>1, <1>1, <1>2, <1>17, <1>20 DEF Clearing
  <2> QED
    BY <2>2, <1>1, <1>2, <1>14, <1>15, <1>17 DEF Clearing
<1> QED
  BY <1>19, <1>21, <1>22, <1>23, <1>24, <1>25, <1>26, <1>27, <1>28, <1>29, <1>30 DEF IInv

\* Whatever the hand does.
LEMMA HandKeeps ==
  ASSUME IInv, Hand
  PROVE  IInv'
BY TouchKeeps, PushKeeps, RotateKeeps, BackKeeps, PageNextKeeps DEF Hand

-----------------------------------------------------------------------------
(* The host. *)

\* The messages on their way say what they should when each of them does now.
LEMMA AllCarriedNow ==
  ASSUME toPanel' \in Seq(Message), ShowsKept, HeedsKept, Live' = Live,
         \A i \in DOMAIN toPanel' : \A m \in Message : m = toPanel'[i] => Carried(m)
  PROVE  AllCarried'
PROOF
<1> SUFFICES ASSUME NEW i \in DOMAIN toPanel' PROVE Carried(toPanel[i])'
  BY DEF AllCarried
<1>1. PICK m \in Message : m = toPanel'[i]
  BY ElementOfSeq, LenProperties
<1>2. Carried(m)
  BY <1>1
<1>3. Carried(m)'
  BY <1>2, CarriedStays DEF Carried
<1> QED
  BY <1>1, <1>3 DEF Carried, Whole, Heeds, Readings, Least

\* A step of the host that takes in no edit.
Hosts ==
  /\ UNCHANGED <<panel, strokes, shows, showing, truth, accounted, heeded>>
  /\ toHost' \in Outbox /\ toHost'.edit = toHost.edit
  /\ owing' \in BOOLEAN /\ (owing' => showing)
  /\ toPanel' \in Seq(Message)
  /\ \A i \in DOMAIN toPanel' : \A m \in Message : m = toPanel'[i] => Carried(m)
  /\ InOrder'
  /\ \/ \A i \in DOMAIN toPanel' : toPanel'[i].op # "CLEAR"
     \/ \A i \in DOMAIN toPanel' :
          \/ toPanel'[i].op \in {"REVEAL", "DESC_ABORT"}
          \/ \E j \in DOMAIN toPanel : toPanel'[i] = toPanel[j]

\* It keeps the invariant.
LEMMA HostsKeeps ==
  ASSUME IInv, Hosts
  PROVE  IInv'
PROOF
<1>1. UNCHANGED <<panel, strokes, shows, showing, truth, accounted, heeded>>
  BY DEF Hosts
<1>2. ShowsKept /\ revision' = revision /\ Revisions' = Revisions
  BY <1>1, ShowsStay
<1>3. /\ TypePanel' /\ Shown' /\ Staged' /\ Numbered'
      /\ Live' = Live /\ staging' = staging /\ UNCHANGED editSeqs
  BY <1>1, <1>2, PanelSame
<1>4. HeedsKept
  BY <1>3, HeedsStay
<1>5. TypeHost' /\ HostKnows'
  BY <1>1, <1>2 DEF IInv, Hosts, TypeHost, HostKnows, Described, Readings, Least
<1>6. AllCarried'
  BY <1>2, <1>3, <1>4, AllCarriedNow DEF Hosts
<1>7. Heeded'
  BY <1>1, <1>4, HeededStays DEF IInv
<1>8. AllSent'
  BY <1>1, <1>3, <1>4, AllSentStays DEF IInv, Hosts
<1>9. Clearing'
  <2> SUFFICES ASSUME NEW i \in DOMAIN toPanel', toPanel'[i].op = "CLEAR" PROVE Clearing'
    BY DEF Clearing
  <2>1. \A k \in DOMAIN toPanel' :
          \/ toPanel'[k].op \in {"REVEAL", "DESC_ABORT"}
          \/ \E j \in DOMAIN toPanel : toPanel'[k] = toPanel[j]
    BY DEF Hosts
  <2>2. \E j \in DOMAIN toPanel : toPanel[j].op = "CLEAR"
    BY <2>1
  <2> QED
    BY <2>1, <2>2, <1>1, <1>2, <1>3 DEF IInv, Hosts, Clearing
<1> QED
  BY <1>3, <1>5, <1>6, <1>7, <1>8, <1>9 DEF IInv, Hosts

\* The host hears that its layout is asked for.
LEMMA HearRequestKeeps ==
  ASSUME IInv, HearRequest
  PROVE  IInv'
PROOF
<1>1. TypeHost /\ AllCarried /\ InOrder
  BY DEF IInv
<1>2. toHost' \in Outbox /\ toHost'.edit = toHost.edit
  BY <1>1 DEF HearRequest, TypeHost, Outbox
<1>3. Hosts
  BY <1>1, <1>2 DEF HearRequest, Hosts, TypeHost, AllCarried, InOrder, bounds
<1> QED
  BY <1>3, HostsKeeps

\* The host hears which slots are shown.
LEMMA HearScreenKeeps ==
  ASSUME IInv, HearScreen
  PROVE  IInv'
PROOF
<1>1. TypeHost /\ AllCarried /\ InOrder /\ HostKnows
  BY DEF IInv
<1>2. Hosts
  BY <1>1 DEF HearScreen, Hosts, TypeHost, AllCarried, InOrder, HostKnows, bounds
<1> QED
  BY <1>2, HostsKeeps

\* One message on its way.
LEMMA OneMessage ==
  ASSUME NEW x \in Message, toPanel' = <<x>>
  PROVE  /\ toPanel' \in Seq(Message) /\ DOMAIN toPanel' = {1} /\ toPanel'[1] = x
         /\ InOrder'
BY DEF InOrder

\* A host that shows a layout has one to show.
LEMMA ShowingIs ==
  ASSUME IInv, showing
  PROVE  /\ revision \in Revisions /\ revision \in Nat /\ DOMAIN truth = DOMAIN Described
         /\ DOMAIN Described \subseteq Slots /\ shows[revision].operator \in BOOLEAN
         /\ \A s \in DOMAIN Described : /\ truth[s] \in Readings(revision) /\ truth[s] \in Int
                                        /\ Described[s] \in Kinds
         /\ Live.revision <= revision
PROOF
<1>1. shows \in Seq(Layouts) /\ HostKnows /\ Shown
  BY DEF IInv, TypeHost
<1>2. revision \in Nat
  BY <1>1, LenProperties DEF revision
<1>3. revision \in Revisions /\ DOMAIN truth = DOMAIN Described
  BY <1>1, <1>2 DEF HostKnows, Revisions, revision
<1>4. Live.revision <= revision
  <2>1. Live.revision = 0 \/ Live.revision \in Revisions
    BY <1>1 DEF Shown
  <2> QED
    BY <2>1, <1>1, <1>2, LayoutsAre
<1> QED
  BY <1>1, <1>2, <1>3, <1>4, LayoutsAre, ReadingsAre DEF HostKnows, Described

\* The host starts on too large a descriptor.
LEMMA OverreachKeeps ==
  ASSUME IInv, Overreach
  PROVE  IInv'
PROOF
<1> DEFINE b(n) == [op |-> "DESC_BEGIN", revision |-> revision, count |-> n, operator |-> FALSE]
<1>1. PICK n \in Nat : n = MaxFields + 1
  BY FieldsAssumption
<1>2. showing /\ TypeHost /\ toPanel' = <<b(n)>> /\ revision \in Revisions /\ revision \in Nat
  BY <1>1, ShowingIs DEF Overreach, IInv
<1>3. PICK x : x = b(n)
  OBVIOUS
<1>4. x \in Message /\ x.op = "DESC_BEGIN" /\ x.revision = revision /\ x.count = n
  BY <1>2, <1>3 DEF Message, Begin
<1>5. /\ toPanel' \in Seq(Message) /\ DOMAIN toPanel' = {1} /\ toPanel'[1] = x /\ InOrder'
  BY <1>2, <1>3, <1>4, OneMessage
<1>6. Carried(x)
  <2>1. ~(n <= MaxFields)
    BY <1>1, FieldsAssumption
  <2> QED
    BY <2>1, <1>2, <1>4 DEF Carried
<1>7. Hosts
  <2>1. /\ UNCHANGED <<panel, strokes, shows, showing, truth, accounted, heeded, toHost, owing>>
        /\ toHost \in Outbox /\ owing \in BOOLEAN /\ (owing => showing)
    BY <1>2 DEF Overreach, host, TypeHost
  <2> QED
    BY <2>1, <1>4, <1>5, <1>6 DEF Hosts
<1> QED
  BY <1>7, HostsKeeps

\* The values sent are of the layout shown, and say what the host has taken in.
LEMMA SendValuesKeeps ==
  ASSUME IInv, SendValues
  PROVE  IInv'
PROOF
<1> DEFINE en == [s \in Watched |-> [ack |-> accounted[s], value |-> truth[s],
                                     heeds |-> heeded[s]]]
<1>1. showing /\ toPanel' = <<[op |-> "VALUES", revision |-> revision, entries |-> en]>>
  BY DEF SendValues
<1>2. TypeHost /\ Heeded /\ HostKnows
  BY DEF IInv
<1>3. /\ revision \in Revisions /\ revision \in Nat /\ DOMAIN Described \subseteq Slots
      /\ \A s \in DOMAIN Described : truth[s] \in Readings(revision) /\ truth[s] \in Int
  BY <1>1, ShowingIs
<1>4. Watched \subseteq DOMAIN Described
  BY DEF Watched
<1>5. \A s \in Watched : /\ en[s] \in Entry /\ en[s].ack = accounted[s]
                         /\ en[s].value = truth[s] /\ en[s].heeds = heeded[s]
  BY <1>2, <1>3, <1>4 DEF TypeHost, Entry
<1>6. PICK e : e = en
  OBVIOUS
<1>7. e \in [Watched -> Entry] /\ DOMAIN e = Watched
  BY <1>5, <1>6
<1>8. \A s \in Watched : e[s].ack = accounted[s] /\ e[s].value = truth[s] /\ e[s].heeds = heeded[s]
  BY <1>5, <1>6
<1> HIDE DEF en
<1>9. PICK x : x = [op |-> "VALUES", revision |-> revision, entries |-> e]
  OBVIOUS
<1>10. x.op = "VALUES" /\ x.revision = revision /\ x.entries = e /\ x \in Message
  <2>1. e \in UNION {[D -> Entry] : D \in SUBSET Slots}
    BY <1>3, <1>4, <1>7
  <2> QED
    BY <2>1, <1>3, <1>9 DEF Message, Values
<1>11. /\ toPanel' \in Seq(Message) /\ DOMAIN toPanel' = {1} /\ toPanel'[1] = x /\ InOrder'
  BY <1>1, <1>6, <1>9, <1>10, OneMessage
<1>12. Carried(x)
  <2>1. ASSUME NEW s \in DOMAIN x.entries
        PROVE  /\ x.entries[s].value \in Readings(x.revision)
               /\ x.entries[s].ack <= edit_seq
               /\ Heeds(x.entries[s].ack, x.entries[s].heeds, s)
    BY <1>2, <1>3, <1>4, <1>7, <1>8, <1>10 DEF Heeded
  <2> QED
    BY <2>1, <1>3, <1>10 DEF Carried
<1>13. Hosts
  <2>1. /\ UNCHANGED <<panel, strokes, shows, showing, truth, accounted, heeded, toHost, owing>>
        /\ toHost \in Outbox /\ owing \in BOOLEAN /\ (owing => showing)
    BY <1>1, <1>2 DEF SendValues, host, bounds, TypeHost
  <2> QED
    BY <2>1, <1>10, <1>11, <1>12 DEF Hosts
<1> QED
  BY <1>13, HostsKeeps

\* A message put behind the others.
LEMMA Appended ==
  ASSUME toPanel \in Seq(Message), InOrder, NEW x \in Message, toPanel' = Append(toPanel, x),
         x.op \in {"REVEAL", "CLEAR"}
  PROVE  /\ toPanel' \in Seq(Message) /\ InOrder'
         /\ \A i \in DOMAIN toPanel' :
              toPanel'[i] = x \/ \E j \in DOMAIN toPanel : toPanel'[i] = toPanel[j]
PROOF
<1>1. PICK n \in Nat : n = Len(toPanel)
  BY LenProperties
<1>2. /\ toPanel' \in Seq(Message) /\ DOMAIN toPanel' = 1..(n + 1) /\ DOMAIN toPanel = 1..n
      /\ \A i \in 1..n : toPanel'[i] = toPanel[i]
      /\ toPanel'[n + 1] = x
  BY <1>1, AppendProperties, LenProperties
<1>3. PICK k \in Nat : k = n + 1
  OBVIOUS
<1>4. \A i \in DOMAIN toPanel' : i \in 1..n \/ (i = k /\ toPanel'[k] = x)
  BY <1>2, <1>3
<1>5. ASSUME NEW i \in DOMAIN toPanel', NEW j \in DOMAIN toPanel', i < j
      PROVE  Follows(toPanel'[i].op, toPanel'[j].op)
  <2>1. CASE j = k
    BY <2>1, <1>4, <1>2, <1>3 DEF Follows
  <2>2. CASE j \in 1..n
    <3>1. i \in 1..n
      BY <2>2, <1>5, <1>2
    <3> QED
      BY <3>1, <2>2, <1>2, <1>5 DEF InOrder
  <2> QED
    BY <2>1, <2>2, <1>4
<1> QED
  BY <1>2, <1>4, <1>5 DEF InOrder, Follows

\* The host reveals a field.
LEMMA SendRevealKeeps ==
  ASSUME IInv, SendReveal
  PROVE  IInv'
PROOF
<1>1. TypeHost /\ AllCarried /\ InOrder /\ HostKnows
  BY DEF IInv
<1>2. PICK s \in DOMAIN Described :
        toPanel' = Append(toPanel, [op |-> "REVEAL", revision |-> revision, id |-> s])
  BY DEF SendReveal
<1>3. PICK x : x = [op |-> "REVEAL", revision |-> revision, id |-> s]
  OBVIOUS
<1>4. revision \in Revisions /\ revision \in Nat /\ s \in Slots /\ showing
  BY <1>2, ShowingIs DEF SendReveal
<1>5. x \in Message /\ x.op = "REVEAL" /\ x.revision = revision
  BY <1>3, <1>4 DEF Message, Reveal
<1>6. /\ toPanel' \in Seq(Message) /\ InOrder'
      /\ \A i \in DOMAIN toPanel' :
           toPanel'[i] = x \/ \E j \in DOMAIN toPanel : toPanel'[i] = toPanel[j]
  BY <1>1, <1>2, <1>3, <1>5, Appended DEF AllCarried
<1>7. Carried(x)
  BY <1>4, <1>5 DEF Carried
<1>8. \A i \in DOMAIN toPanel' : \A m \in Message : m = toPanel'[i] => Carried(m)
  BY <1>1, <1>6, <1>7 DEF AllCarried, Carried
<1>9. Hosts
  <2>1. /\ UNCHANGED <<panel, strokes, shows, showing, truth, accounted, heeded, toHost, owing>>
        /\ toHost \in Outbox /\ owing \in BOOLEAN /\ (owing => showing)
    BY <1>1 DEF SendReveal, host, TypeHost, HostKnows
  <2> QED
    BY <2>1, <1>5, <1>6, <1>8 DEF Hosts
<1> QED
  BY <1>9, HostsKeeps

\* A host that clears starts its acknowledgements over.
LEMMA SendClearKeeps ==
  ASSUME IInv, SendClear
  PROVE  IInv'
PROOF
<1>1. TypePanel /\ TypeHost /\ AllCarried /\ InOrder /\ HostKnows /\ Heeded /\ AllSent /\ Numbered
  BY DEF IInv
<1>2. /\ UNCHANGED <<panel, strokes, toHost, shows, truth, heeded>>
      /\ showing' = FALSE /\ owing' = FALSE /\ accounted' = [s \in Slots |-> 0]
  BY DEF SendClear
<1>3. PICK x : x = [op |-> "CLEAR"]
  OBVIOUS
<1>4. x \in Message /\ x.op = "CLEAR" /\ toPanel' = Append(toPanel, x)
  BY <1>3 DEF Message, Plain, SendClear
<1>5. /\ toPanel' \in Seq(Message) /\ InOrder'
      /\ \A i \in DOMAIN toPanel' :
           toPanel'[i] = x \/ \E j \in DOMAIN toPanel : toPanel'[i] = toPanel[j]
  BY <1>1, <1>4, Appended DEF AllCarried
<1>6. Carried(x)
  BY <1>4 DEF Carried
<1>7. \A i \in DOMAIN toPanel' : \A m \in Message : m = toPanel'[i] => Carried(m)
  BY <1>1, <1>5, <1>6 DEF AllCarried, Carried
<1>8. ShowsKept /\ revision' = revision /\ Revisions' = Revisions
  BY <1>2, ShowsStay
<1>9. /\ TypePanel' /\ Shown' /\ Staged' /\ Numbered'
      /\ Live' = Live /\ staging' = staging /\ UNCHANGED editSeqs
  BY <1>2, <1>8, PanelSame
<1>10. HeedsKept
  BY <1>9, HeedsStay
<1>11. AllCarried'
  BY <1>5, <1>7, <1>8, <1>9, <1>10, AllCarriedNow
<1>12. TypeHost'
  BY <1>1, <1>2 DEF TypeHost
<1>13. HostKnows'
  BY <1>1, <1>2, <1>8 DEF HostKnows, Described, Readings, Least
<1>14. Heeded'
  <2> SUFFICES ASSUME NEW s \in Slots
               PROVE  /\ accounted'[s] <= edit_seq'
                      /\ last_edit_seq'[s] <= accounted'[s] => newest'[s] <= heeded'[s]
    BY DEF Heeded, Heeds
  <2>1. edit_seq \in Nat /\ last_edit_seq[s] \in Nat /\ heeded[s] \in Nat
    BY <1>1 DEF TypePanel, TypeHost
  <2>2. last_edit_seq[s] <= 0 => newest[s] <= heeded[s]
    BY <1>1, <2>1 DEF Numbered
  <2>3. accounted'[s] = 0
    BY <1>2
  <2> QED
    BY <2>1, <2>2, <2>3, <1>2, <1>9 DEF editSeqs
<1>15. AllSent'
  BY <1>1, <1>2, <1>9, <1>10, AllSentStays
<1>16. Clearing'
  BY <1>2 DEF Clearing
<1> QED
  BY <1>5, <1>9, <1>11, <1>12, <1>13, <1>14, <1>15, <1>16 DEF IInv

\* The rest of a descriptor is left out, and its abort is sent.
LEMMA AbandonKeeps ==
  ASSUME IInv, Abandon
  PROVE  IInv'
PROOF
<1>1. TypeHost /\ AllCarried /\ InOrder /\ toPanel \in Seq(Message)
  BY DEF IInv, AllCarried
<1>2. PICK i \in DOMAIN toPanel :
        /\ \A j \in i..Len(toPanel) : toPanel[j].op \in {"DESC_FIELD", "DESC_END"}
        /\ toPanel' = SubSeq(toPanel, 1, i - 1) \o <<[op |-> "DESC_ABORT"]>>
  BY DEF Abandon
<1>3. DOMAIN toPanel = 1..Len(toPanel) /\ Len(toPanel) \in Nat /\ i \in 1..Len(toPanel)
  BY <1>1, <1>2, LenProperties
<1>4. PICK n \in Nat : n = i - 1
  BY <1>3
<1>5. PICK x : x = [op |-> "DESC_ABORT"]
  OBVIOUS
<1>6. x \in Message /\ x.op = "DESC_ABORT"
  BY <1>5 DEF Message, Plain
<1>7. PICK c : c = SubSeq(toPanel, 1, n)
  OBVIOUS
<1>8. /\ c \in Seq(Message) /\ Len(c) = n
      /\ \A j \in 1..n : c[j] = toPanel[j] /\ j \in DOMAIN toPanel /\ j < i
  <2>1. \A j \in 1..n : toPanel[j] \in Message /\ j \in DOMAIN toPanel /\ j < i
    BY <1>1, <1>3, <1>4, ElementOfSeq
  <2>2. n - 1 + 1 = n /\ (1 <= n => n - 1 + 1 = n) /\ 1 \in Int /\ n \in Int /\ (~(1 <= n) => n = 0)
    OBVIOUS
  <2>3. /\ c \in Seq(Message) /\ Len(c) = IF 1 <= n THEN n - 1 + 1 ELSE 0
        /\ \A j \in 1..(n - 1 + 1) : c[j] = toPanel[1 + j - 1]
    BY <1>7, <2>1, <2>2, SubSeqProperties
  <2>4. \A j \in 1..n : c[j] = toPanel[j]
    BY <2>3
  <2> QED
    BY <2>1, <2>2, <2>3, <2>4
<1>9. toPanel' = c \o <<x>>
  BY <1>2, <1>4, <1>5, <1>7
<1>10. <<x>> \in Seq(Message) /\ Len(<<x>>) = 1 /\ <<x>>[1] = x
  BY <1>6
<1>11. PICK k \in Nat : k = n + 1
  OBVIOUS
<1>12. /\ toPanel' \in Seq(Message) /\ Len(toPanel') = k /\ DOMAIN toPanel' = 1..k
       /\ \A j \in 1..n : toPanel'[j] = c[j]
       /\ toPanel'[k] = x
  <2>1. PICK y : y = <<x>>
    OBVIOUS
  <2>2. y \in Seq(Message) /\ Len(y) = 1 /\ y[1] = x
    BY <2>1, <1>10
  <2>3. toPanel' = c \o y
    BY <1>9, <2>1
  <2>4. /\ toPanel' \in Seq(Message) /\ Len(toPanel') = n + 1
        /\ \A j \in 1..(n + 1) : toPanel'[j] = IF j <= n THEN c[j] ELSE y[j - n]
    <3>1. /\ toPanel' \in Seq(Message) /\ Len(toPanel') = Len(c) + Len(y)
          /\ \A j \in 1..Len(c) + Len(y) :
               toPanel'[j] = IF j <= Len(c) THEN c[j] ELSE y[j - Len(c)]
      BY <1>8, <2>2, <2>3, ConcatProperties
    <3> QED
      BY <3>1, <1>8, <2>2
  <2>5. k - n = 1 /\ ~(k <= n) /\ k \in 1..(n + 1) /\ \A j \in 1..n : j <= n /\ j \in 1..(n + 1)
    BY <1>11
  <2>6. toPanel'[k] = y[k - n] /\ \A j \in 1..n : toPanel'[j] = c[j]
    BY <2>4, <2>5
  <2>7. DOMAIN toPanel' = 1..Len(toPanel')
    BY <2>4, LenProperties
  <2> QED
    BY <2>2, <2>4, <2>5, <2>6, <2>7, <1>11
<1>13. \A j \in 1..k : \/ j = k /\ toPanel'[j] = x
                       \/ j \in 1..n /\ j \in DOMAIN toPanel /\ j < i /\ toPanel'[j] = toPanel[j]
  BY <1>8, <1>11, <1>12
<1>14. \A j \in DOMAIN toPanel : j < i => toPanel[j].op \in {"DESC_BEGIN", "DESC_FIELD"}
  <2>1. toPanel[i].op \in {"DESC_FIELD", "DESC_END"}
    BY <1>2, <1>3
  <2> QED
    BY <2>1, <1>1 DEF InOrder, Follows
<1>15. InOrder'
  <2> SUFFICES ASSUME NEW a \in 1..k, NEW b \in 1..k, a < b
               PROVE  Follows(toPanel'[a].op, toPanel'[b].op)
    BY <1>12 DEF InOrder, Follows
  <2>1. a \in 1..n /\ a \in DOMAIN toPanel /\ a < i /\ toPanel'[a] = toPanel[a]
    BY <1>11, <1>13
  <2>2. CASE b = k
    BY <2>1, <2>2, <1>6, <1>12, <1>14 DEF Follows
  <2>3. CASE b \in 1..n /\ b \in DOMAIN toPanel /\ toPanel'[b] = toPanel[b]
    BY <2>1, <2>3, <1>1 DEF InOrder
  <2> QED
    BY <2>2, <2>3, <1>13
<1>16. Carried(x)
  BY <1>6 DEF Carried
<1>17. \A j \in DOMAIN toPanel' : \A m \in Message : m = toPanel'[j] => Carried(m)
  BY <1>1, <1>12, <1>13, <1>16 DEF AllCarried, Carried
<1>18. Hosts
  <2>1. /\ UNCHANGED <<panel, strokes, shows, showing, truth, accounted, heeded, toHost>>
        /\ toHost \in Outbox /\ owing' \in BOOLEAN /\ (owing' => showing)
    BY <1>1 DEF Abandon, TypeHost
  <2> QED
    BY <2>1, <1>6, <1>12, <1>13, <1>15, <1>17 DEF Hosts
<1> QED
  BY <1>18, HostsKeeps

\* One message, several, and one more.
LEMMA Between ==
  ASSUME NEW S, NEW b \in S, NEW e \in S, NEW n \in Nat, NEW f \in [1..n -> S]
  PROVE  LET t == <<b>> \o f \o <<e>>
         IN  /\ t \in Seq(S) /\ DOMAIN t = 1..(n + 2)
             /\ t[1] = b /\ t[n + 2] = e
             /\ \A i \in 1..n : t[i + 1] = f[i]
PROOF
<1>1. PICK x : x = <<b>>
  OBVIOUS
<1>2. PICK y : y = <<e>>
  OBVIOUS
<1>3. x \in Seq(S) /\ Len(x) = 1 /\ x[1] = b /\ y \in Seq(S) /\ Len(y) = 1 /\ y[1] = e
  BY <1>1, <1>2
<1>4. f \in Seq(S) /\ Len(f) = n
  OBVIOUS
<1>5. PICK u : u = x \o f
  OBVIOUS
<1>6. /\ u \in Seq(S) /\ Len(u) = n + 1 /\ u[1] = b
      /\ \A i \in 1..n : u[i + 1] = f[i]
  <2>1. /\ u \in Seq(S) /\ Len(u) = Len(x) + Len(f)
        /\ \A i \in 1..Len(x) + Len(f) : u[i] = IF i <= Len(x) THEN x[i] ELSE f[i - Len(x)]
    BY <1>3, <1>4, <1>5, ConcatProperties
  <2>2. Len(u) = n + 1 /\ \A i \in 1..(n + 1) : u[i] = IF i <= 1 THEN x[i] ELSE f[i - 1]
    BY <2>1, <1>3, <1>4
  <2>3. u[1] = x[1]
    BY <2>2
  <2>4. ASSUME NEW i \in 1..n PROVE u[i + 1] = f[i]
    <3>1. PICK k \in Nat : k = i + 1
      OBVIOUS
    <3>2. u[k] = f[k - 1] /\ k - 1 = i
      BY <3>1, <2>2
    <3> QED
      BY <3>1, <3>2
  <2> QED
    BY <2>1, <2>2, <2>3, <2>4, <1>3
<1>7. PICK t : t = u \o y
  OBVIOUS
<1>8. PICK m \in Nat : m = n + 1
  OBVIOUS
<1>9. /\ t \in Seq(S) /\ Len(t) = m + 1 /\ t[m + 1] = e
      /\ \A i \in 1..m : t[i] = u[i]
  <2>1. /\ t \in Seq(S) /\ Len(t) = Len(u) + Len(y)
        /\ \A i \in 1..Len(u) + Len(y) : t[i] = IF i <= Len(u) THEN u[i] ELSE y[i - Len(u)]
    BY <1>3, <1>6, <1>7, ConcatProperties
  <2>2. Len(t) = m + 1 /\ \A i \in 1..(m + 1) : t[i] = IF i <= m THEN u[i] ELSE y[i - m]
    BY <2>1, <1>3, <1>6, <1>8
  <2>3. PICK k \in Nat : k = m + 1
    OBVIOUS
  <2>4. t[k] = y[1]
    <3>1. k - m = 1 /\ ~(k <= m) /\ k \in 1..(m + 1)
      BY <2>3
    <3>2. t[k] = y[k - m]
      BY <3>1, <2>2
    <3> QED
      BY <3>1, <3>2
  <2> QED
    BY <2>1, <2>2, <2>3, <2>4, <1>3
<1>10. DOMAIN t = 1..(n + 2) /\ t[n + 2] = e
  <2>1. DOMAIN t = 1..Len(t)
    BY <1>9, LenProperties
  <2>2. PICK k \in Nat : k = n + 2 /\ k = m + 1
    BY <1>8
  <2> QED
    BY <2>1, <2>2, <1>9
<1>11. t[1] = b
  <2>1. 1 \in 1..m
    BY <1>8
  <2> QED
    BY <2>1, <1>6, <1>9
<1>12. ASSUME NEW i \in 1..n PROVE t[i + 1] = f[i]
  <2>1. PICK k \in 1..m : k = i + 1
    BY <1>8
  <2>2. t[k] = u[k] /\ u[k] = f[i]
    BY <2>1, <1>6, <1>9
  <2> QED
    BY <2>1, <2>2
<1>13. t = <<b>> \o f \o <<e>>
  BY <1>1, <1>2, <1>5, <1>7
<1> QED
  BY <1>9, <1>10, <1>11, <1>12, <1>13

\* A descriptor describes the layout the host shows, and its check sum
\* covers all of it.
LEMMA SendDescriptorKeeps ==
  ASSUME IInv, SendDescriptor
  PROVE  IInv'
PROOF
<1>1. TypeHost /\ HostKnows /\ owing /\ showing
  BY DEF IInv, SendDescriptor, HostKnows
<1>2. /\ revision \in Revisions /\ revision \in Nat /\ DOMAIN truth = DOMAIN Described
      /\ DOMAIN Described \in SUBSET Slots /\ shows[revision].operator \in BOOLEAN
      /\ \A s \in DOMAIN Described : /\ truth[s] \in Readings(revision) /\ truth[s] \in Int
                                     /\ Described[s] \in Kinds
      /\ Live.revision <= revision
  BY <1>1, ShowingIs
<1>3. PICK q : q = Order(Described)
  OBVIOUS
<1>4. PICK n \in Nat : /\ n = Len(q) /\ q \in [1..n -> DOMAIN Described]
                       /\ \A s \in DOMAIN Described : \E i \in 1..n : q[i] = s
  BY <1>2, <1>3, OrderLists
<1>5. PICK crc : crc = [i \in 1..n |-> <<q[i], Described[q[i]], truth[q[i]]>>]
  OBVIOUS
<1>6. PICK b : b = [op |-> "DESC_BEGIN", revision |-> revision, count |-> n,
                    operator |-> shows[revision].operator]
  OBVIOUS
<1>7. PICK f : f = [i \in 1..n |-> [op |-> "DESC_FIELD", index |-> i - 1, id |-> q[i],
                                    kind |-> Described[q[i]], value |-> truth[q[i]]]]
  OBVIOUS
<1>8. PICK e : e = [op |-> "DESC_END", revision |-> revision, count |-> n, crc |-> crc]
  OBVIOUS
<1>9. toPanel' = <<b>> \o f \o <<e>>
  BY <1>3, <1>4, <1>5, <1>6, <1>7, <1>8 DEF SendDescriptor
<1>10. /\ DOMAIN crc = 1..n /\ crc \in Seq(Triples)
       /\ \A i \in 1..n : /\ crc[i][1] = q[i] /\ q[i] \in DOMAIN Described
                          /\ crc[i][2] = Described[q[i]] /\ crc[i][3] = truth[q[i]]
  <2>1. \A i \in 1..n : /\ q[i] \in DOMAIN Described /\ q[i] \in Slots
                        /\ Described[q[i]] \in Kinds /\ truth[q[i]] \in Int
    BY <1>2, <1>4
  <2>2. crc \in [1..n -> Triples]
    BY <2>1, <1>5 DEF Triples
  <2> QED
    BY <2>1, <2>2, <1>5
<1>11. b \in Message /\ b.op = "DESC_BEGIN" /\ b.revision = revision
       /\ b.operator = shows[revision].operator
  BY <1>2, <1>6 DEF Message, Begin
<1>12. \A i \in 1..n : f[i] \in Message /\ f[i].op = "DESC_FIELD"
  <2> SUFFICES ASSUME NEW i \in 1..n PROVE f[i] \in AField
    BY DEF Message, AField
  <2>1. /\ q[i] \in Slots /\ Described[q[i]] \in Kinds /\ truth[q[i]] \in Int /\ i - 1 \in Nat
    BY <1>2, <1>4
  <2>2. PICK k \in Nat : k = i - 1
    BY <2>1
  <2>3. f[i] = [op |-> "DESC_FIELD", index |-> k, id |-> q[i], kind |-> Described[q[i]],
                value |-> truth[q[i]]]
    BY <1>7, <2>2
  <2> QED
    BY <2>1, <2>3 DEF AField
<1>13. e \in Message /\ e.op = "DESC_END" /\ e.revision = revision /\ e.crc = crc
  BY <1>2, <1>8, <1>10 DEF Message, End
<1>14. f \in [1..n -> Message]
  BY <1>7, <1>12
<1>15. PICK last \in Nat : last = n + 2
  OBVIOUS
<1>16. /\ toPanel' \in Seq(Message) /\ DOMAIN toPanel' = 1..last
       /\ toPanel'[1] = b /\ toPanel'[last] = e
       /\ \A i \in 1..n : toPanel'[i + 1] = f[i]
  BY <1>9, <1>11, <1>13, <1>14, <1>15, Between
<1>17. \A i \in 1..last : \/ i = 1 /\ toPanel'[i] = b
                          \/ i = last /\ toPanel'[i] = e
                          \/ i # last /\ \E j \in 1..n : toPanel'[i] = f[j]
  <2> SUFFICES ASSUME NEW i \in 1..last, i # 1, i # last
               PROVE  \E j \in 1..n : toPanel'[i] = f[j]
    BY <1>16
  <2>1. PICK j \in 1..n : j + 1 = i
    <3>1. i - 1 \in 1..n /\ (i - 1) + 1 = i
      BY <1>15
    <3> QED
      BY <3>1
  <2> QED
    BY <2>1, <1>16
<1>18. InOrder'
  <2> SUFFICES ASSUME NEW i \in 1..last, NEW j \in 1..last, i < j
               PROVE  Follows(toPanel'[i].op, toPanel'[j].op)
    BY <1>16 DEF InOrder, Follows
  <2>1. toPanel'[i].op \in {"DESC_BEGIN", "DESC_FIELD"}
    BY <1>11, <1>12, <1>17
  <2>2. toPanel'[j].op \in {"DESC_FIELD", "DESC_END"}
    BY <1>12, <1>13, <1>17
  <2> QED
    BY <2>1, <2>2 DEF Follows
<1>19. Carried(b)
  BY <1>2, <1>11 DEF Carried
<1>20. Carried(e)
  <2>1. {crc[i][1] : i \in DOMAIN crc} = DOMAIN Described
    <3>1. \A i \in DOMAIN crc : crc[i][1] \in DOMAIN Described
      BY <1>10
    <3>2. ASSUME NEW s \in DOMAIN Described PROVE \E i \in DOMAIN crc : crc[i][1] = s
      <4>1. PICK i \in 1..n : q[i] = s
        BY <1>4
      <4> QED
        BY <4>1, <1>10
    <3> QED
      BY <3>1, <3>2
  <2>2. \A i \in DOMAIN crc : crc[i][2] = Described[crc[i][1]] /\ crc[i][3] \in Readings(revision)
    BY <1>2, <1>10
  <2>3. Whole(crc, revision)
    BY <2>1, <2>2 DEF Whole, Described
  <2> QED
    BY <2>3, <1>2, <1>13 DEF Carried
<1>21. \A i \in DOMAIN toPanel' : \A m \in Message : m = toPanel'[i] => Carried(m)
  <2> SUFFICES ASSUME NEW i \in 1..last, NEW m \in Message, m = toPanel'[i] PROVE Carried(m)
    BY <1>16
  <2>1. CASE m.op = "DESC_FIELD"
    BY <2>1 DEF Carried
  <2>2. CASE m = b
    BY <2>2, <1>19
  <2>3. CASE m = e
    BY <2>3, <1>20
  <2> QED
    BY <2>1, <2>2, <2>3, <1>12, <1>17
<1>22. \A i \in DOMAIN toPanel' : toPanel'[i].op # "CLEAR"
  BY <1>11, <1>12, <1>13, <1>16, <1>17
<1>23. Hosts
  <2>1. /\ UNCHANGED <<panel, strokes, shows, showing, truth, accounted, heeded, toHost>>
        /\ toHost \in Outbox /\ owing' \in BOOLEAN /\ (owing' => showing)
    BY <1>1 DEF SendDescriptor, TypeHost, bounds
  <2> QED
    BY <2>1, <1>16, <1>18, <1>21, <1>22 DEF Hosts
<1> QED
  BY <1>23, HostsKeeps

\* Something else moves a value.
LEMMA MoveKeeps ==
  ASSUME IInv, NEW s \in DOMAIN truth, Move(s)
  PROVE  IInv'
PROOF
<1>1. TypeHost /\ AllCarried /\ InOrder /\ HostKnows /\ Heeded /\ AllSent /\ Clearing
  BY DEF IInv
<1>2. /\ UNCHANGED <<panel, strokes, toPanel, toHost, shows, showing, owing, accounted, heeded>>
      /\ \E v \in Readings(revision) : truth' = [truth EXCEPT ![s] = v]
  BY DEF Move
<1>3. ShowsKept /\ revision' = revision
  BY <1>2, ShowsStay
<1>4. /\ TypePanel' /\ Shown' /\ Staged' /\ Numbered' /\ Receiving
      /\ Live' = Live /\ UNCHANGED editSeqs
  BY <1>2, <1>3, PanelSame
<1>5. HeedsKept /\ Dropped
  BY <1>1, <1>2, <1>4, HeedsStay, NoneDropped
<1>6. HostKnows'
  BY <1>1, <1>2, <1>3 DEF HostKnows, Described, Readings, Least
<1>7. AllCarried'
  <2>1. \A i \in DOMAIN toPanel' : toPanel'[i].op = "DESC_END" => Live'.revision <= toPanel'[i].revision
    BY <1>1, <1>2, <1>4 DEF AllCarried, Carried
  <2> QED
    BY <2>1, <1>1, <1>3, <1>5, AllCarriedStays
<1>8. TypeHost' /\ InOrder'
  BY <1>1, <1>2 DEF TypeHost, InOrder
<1>9. Heeded' /\ AllSent' /\ Clearing'
  BY <1>1, <1>2, <1>4, <1>5, HeededStays, AllSentStays, ClearingStays
<1> QED
  BY <1>4, <1>6, <1>7, <1>8, <1>9 DEF IInv

\* A new layout: nothing of it is anywhere yet.
LEMMA ShowKeeps ==
  ASSUME IInv, NEW l \in Layouts, Show(l)
  PROVE  IInv'
PROOF
<1>1. TypePanel /\ TypeHost /\ AllCarried /\ InOrder /\ Heeded /\ AllSent /\ Clearing /\ Shown /\ Staged
  BY DEF IInv
<1>2. /\ UNCHANGED <<panel, strokes, toPanel, toHost, accounted, heeded>>
      /\ shows' = Append(shows, l) /\ showing' = TRUE /\ owing' = TRUE
  BY DEF Show, bounds
<1>3. PICK r \in Nat : r = revision
  BY <1>1, LenProperties DEF TypeHost, revision
<1>4. PICK n \in Nat : n = r + 1
  OBVIOUS
<1>5. truth' = [s \in DOMAIN l.kinds |-> Least(n)]
  BY <1>3, <1>4 DEF Show
<1>6. /\ shows' \in Seq(Layouts) /\ revision' = n /\ Revisions = 1..r /\ Revisions' = 1..n
      /\ shows'[n] = l /\ \A i \in Revisions : shows'[i] = shows[i]
  BY <1>1, <1>2, <1>3, <1>4, AppendProperties DEF TypeHost, revision, Revisions
<1>7. ShowsKept /\ n \notin Revisions /\ n # 0
  BY <1>4, <1>6 DEF ShowsKept
<1>8. /\ TypePanel' /\ Shown' /\ Staged' /\ Numbered' /\ Receiving
      /\ Live' = Live /\ staging' = staging /\ UNCHANGED editSeqs
  BY <1>2, <1>7, PanelSame
<1>9. HeedsKept /\ Dropped
  BY <1>1, <1>2, <1>8, HeedsStay, NoneDropped
<1>10. TypeHost'
  BY <1>1, <1>2, <1>6 DEF TypeHost
<1>11. HostKnows'
  <2>1. Described' = l.kinds
    BY <1>6 DEF Described
  <2>2. DOMAIN truth' = DOMAIN l.kinds /\ \A s \in DOMAIN truth' : truth'[s] = Least(n)
    BY <1>5
  <2>3. Least(n) \in Readings(n)
    BY ReadingsAre
  <2> QED
    BY <2>1, <2>2, <2>3, <1>2, <1>6, <1>7 DEF HostKnows, Readings, Least
<1>12. AllCarried'
  <2>1. \A i \in DOMAIN toPanel' : toPanel'[i].op = "DESC_END" => Live'.revision <= toPanel'[i].revision
    BY <1>1, <1>2, <1>8 DEF AllCarried, Carried
  <2> QED
    BY <2>1, <1>1, <1>7, <1>9, AllCarriedStays
<1>13. InOrder' /\ Heeded'
  BY <1>1, <1>2, <1>9, HeededStays DEF InOrder
<1>14. \A s \in Slots : toHost.edit[s] # NoEdit =>
         /\ toHost.edit[s] \in Edit /\ toHost.edit[s].revision \in Revisions
         /\ toHost.edit[s].value \in Readings(toHost.edit[s].revision)
  BY <1>1 DEF AllSent, Sent
<1>15. AllSent'
  BY <1>2, <1>6, <1>7, <1>14 DEF AllSent, Sent, ShowsKept, Readings, Least
<1>16. Clearing'
  <2>1. Live'.revision # n
    BY <1>1, <1>7, <1>8 DEF Shown
  <2>2. staging'.open => staging'.revision # n
    BY <1>1, <1>7, <1>8 DEF Staged
  <2>3. \A i \in DOMAIN toPanel' :
          toPanel'[i].op \in {"DESC_BEGIN", "DESC_END"} => toPanel'[i].revision # n
    BY <1>1, <1>2, <1>7 DEF AllCarried, Carried
  <2>4. \A s \in Slots : toHost'.edit[s] # NoEdit => toHost'.edit[s].revision # n
    BY <1>2, <1>7, <1>14
  <2> QED
    BY <2>1, <2>2, <2>3, <2>4, <1>1, <1>2, <1>6 DEF Clearing
<1> QED
  BY <1>8, <1>10, <1>11, <1>12, <1>13, <1>15, <1>16 DEF IInv

\* An edit the host takes in is of the layout shown there and here.
LEMMA HearEditKeeps ==
  ASSUME IInv, NEW s \in Slots, HearEdit(s)
  PROVE  IInv'
PROOF
<1>1. TypePanel /\ TypeHost /\ AllCarried /\ InOrder /\ HostKnows /\ Heeded /\ AllSent /\ Clearing
  BY DEF IInv
<1>2. PICK e : e = toHost.edit[s]
  OBVIOUS
<1>3. /\ UNCHANGED <<panel, strokes, toPanel, shows, showing, owing>>
      /\ e # NoEdit /\ toHost' = [toHost EXCEPT !.edit[s] = NoEdit]
      /\ \/ /\ showing /\ e.revision = revision
            /\ truth' = [truth EXCEPT ![s] = e.value]
            /\ accounted' = [accounted EXCEPT ![s] = e.seq]
            /\ heeded' = [heeded EXCEPT ![s] = e.stroke]
         \/ UNCHANGED <<truth, accounted, heeded>>
  BY <1>2 DEF HearEdit, bounds
<1>4. /\ e \in Edit /\ e.value \in Readings(e.revision) /\ e.seq \in Nat /\ e.stroke \in Nat
      /\ showing /\ e.revision = revision =>
           e.seq <= edit_seq /\ Live.revision = revision /\ Heeds(e.seq, e.stroke, s)
  BY <1>1, <1>2, <1>3 DEF AllSent, Sent, Edit
<1>5. ShowsKept /\ revision' = revision /\ Revisions' = Revisions
  BY <1>3, ShowsStay
<1>6. /\ TypePanel' /\ Shown' /\ Staged' /\ Numbered' /\ Receiving
      /\ Live' = Live /\ staging' = staging /\ UNCHANGED editSeqs
  BY <1>3, <1>5, PanelSame
<1>7. HeedsKept /\ Dropped
  BY <1>1, <1>3, <1>6, HeedsStay, NoneDropped
<1>8. /\ toHost' \in Outbox /\ toHost'.edit[s] = NoEdit
      /\ \A t \in Slots : t # s => toHost'.edit[t] = toHost.edit[t]
  BY <1>1, <1>3 DEF TypeHost, Outbox
<1>9. accounted' \in [Slots -> Nat] /\ heeded' \in [Slots -> Nat]
  BY <1>1, <1>3, <1>4 DEF TypeHost
<1>10. TypeHost'
  BY <1>1, <1>3, <1>8, <1>9 DEF TypeHost
<1>11. HostKnows'
  BY <1>1, <1>3, <1>4, <1>5 DEF HostKnows, Described, Readings, Least
<1>12. AllCarried'
  <2>1. \A i \in DOMAIN toPanel' : toPanel'[i].op = "DESC_END" => Live'.revision <= toPanel'[i].revision
    BY <1>1, <1>3, <1>6 DEF AllCarried, Carried
  <2> QED
    BY <2>1, <1>1, <1>5, <1>7, AllCarriedStays
<1>13. InOrder'
  BY <1>1, <1>3 DEF InOrder
<1>14. Heeded'
  <2>1. edit_seq' = edit_seq /\ last_edit_seq' = last_edit_seq /\ newest' = newest
    BY <1>6 DEF editSeqs
  <2>2. \A t \in Slots : /\ accounted'[t] <= edit_seq
                         /\ last_edit_seq[t] <= accounted'[t] => newest[t] <= heeded'[t]
    BY <1>1, <1>3, <1>4 DEF Heeded, Heeds, TypeHost
  <2> QED
    BY <2>1, <2>2 DEF Heeded, Heeds
<1>15. AllSent'
  <2> SUFFICES ASSUME NEW t \in Slots, t # s PROVE Sent(t)'
    BY <1>8 DEF AllSent, Sent
  <2>1. PICK d : d = toHost.edit[t] /\ d = toHost'.edit[t]
    BY <1>8
  <2>2. d # NoEdit =>
          /\ d \in Edit /\ d.revision \in Revisions /\ d.value \in Readings(d.revision)
          /\ showing /\ d.revision = revision =>
               d.seq <= edit_seq /\ Live.revision = revision /\ Heeds(d.seq, d.stroke, t)
    BY <1>1, <2>1 DEF AllSent, Sent
  <2> QED
    BY <2>1, <2>2, <1>3, <1>5, <1>6 DEF Sent, Heeds, Readings, Least, editSeqs
<1>16. Clearing'
  <2> SUFFICES ASSUME NEW i \in DOMAIN toPanel, toPanel[i].op = "CLEAR" PROVE Clearing'
    BY <1>3 DEF Clearing
  <2>1. ~(showing /\ e.revision = revision)
    BY <1>1, <1>2, <1>3 DEF Clearing
  <2>2. accounted' = accounted
    BY <1>3, <2>1
  <2>3. showing' => \A t \in Slots : toHost'.edit[t] # NoEdit => toHost'.edit[t].revision # revision'
    BY <1>1, <1>3, <1>5, <1>8 DEF Clearing
  <2> QED
    BY <2>2, <2>3, <1>1, <1>3, <1>5, <1>6 DEF Clearing
<1> QED
  BY <1>6, <1>10, <1>11, <1>12, <1>13, <1>14, <1>15, <1>16 DEF IInv

-----------------------------------------------------------------------------
(* The theorems. *)

\* At first nothing is shown, on its way or known.
LEMMA InitEstablishes ==
  ASSUME Init
  PROVE  IInv
PROOF
<1>1. NoFields \in FieldSets /\ DOMAIN NoFields = {}
  <2>1. NoFields \in [{} -> Field] /\ DOMAIN NoFields = {}
    BY DEF NoFields
  <2> QED
    BY <2>1, FieldsMake
<1>2. Empty \in Descriptors /\ Empty.revision = 0 /\ Empty.fields = NoFields
  BY <1>1 DEF Empty, Descriptors
<1>3. /\ arena = [i \in 0..1 |-> Empty] /\ live_ix = 0 /\ page = 0 /\ focused = Nobody
      /\ staging = [open |-> FALSE, revision |-> 0, expect |-> 0, next |-> 0, crc |-> <<>>]
      /\ edit_seq = 0 /\ last_edit_seq = [s \in Slots |-> 0] /\ newest = [s \in Slots |-> 0]
      /\ toPanel = <<>> /\ shows = <<>> /\ showing = FALSE /\ owing = FALSE
      /\ toHost = [edit |-> [s \in Slots |-> NoEdit], request |-> FALSE, screen |-> NoScreen]
      /\ truth = NoFields /\ accounted = [s \in Slots |-> 0] /\ heeded = [s \in Slots |-> 0]
      /\ strokes = 0
  BY DEF Init
<1>4. Live = Empty /\ Occupied = {}
  BY <1>1, <1>2, <1>3 DEF Live, Occupied, fields
<1>5. TypePanel
  <2>1. staging \in [open : BOOLEAN, revision : Nat, expect : Nat, next : Nat, crc : Seq(Triples)]
    BY <1>3, EmptySeq
  <2>2. arena \in [0..1 -> Descriptors] /\ live_ix \in 0..1
    BY <1>2, <1>3
  <2> QED
    BY <2>1, <2>2, <1>3 DEF TypePanel
<1>6. TypeHost
  <2>1. NoScreen \in Screens
    BY DEF NoScreen, Screens
  <2>2. toHost \in Outbox
    BY <2>1, <1>3 DEF Outbox
  <2> QED
    BY <2>2, <1>3, EmptySeq DEF TypeHost
<1>7. Shown /\ Staged
  BY <1>2, <1>3, <1>4 DEF Shown, Staged
<1>8. HostKnows
  <2>1. revision = 0
    BY <1>3 DEF revision
  <2> QED
    BY <2>1, <1>1, <1>3 DEF HostKnows
<1>9. AllCarried /\ InOrder /\ Clearing
  <2>1. toPanel \in Seq(Message) /\ DOMAIN toPanel = {}
    BY <1>3, EmptySeq
  <2> QED
    BY <2>1 DEF AllCarried, InOrder, Clearing
<1>10. Numbered /\ Heeded
  BY <1>3 DEF Numbered, Heeded, Heeds
<1>11. AllSent
  BY <1>3 DEF AllSent, Sent
<1> QED
  BY <1>5, <1>6, <1>7, <1>8, <1>9, <1>10, <1>11 DEF IInv

\* A step that changes nothing keeps it.
LEMMA StutterKeeps ==
  ASSUME IInv, UNCHANGED vars
  PROVE  IInv'
PROOF
<1>1. TypeHost /\ AllCarried /\ InOrder /\ HostKnows
  BY DEF IInv
<1>2. Hosts
  BY <1>1 DEF vars, host, bounds, Hosts, TypeHost, AllCarried, InOrder, HostKnows
<1> QED
  BY <1>2, HostsKeeps

\* The invariant holds whatever is lost, refused, abandoned or cleared.
THEOREM IInvHolds == Spec => []IInv
PROOF
<1>1. Init => IInv
  BY InitEstablishes
<1>2. ASSUME IInv, [Next]_vars PROVE IInv'
  <2>1. CASE Handle
    BY <1>2, <2>1, HandleKeeps
  <2>2. CASE HandleUnread
    BY <1>2, <2>2, UnreadKeeps
  <2>3. CASE Lose
    BY <1>2, <2>3, LoseKeeps
  <2>4. CASE Hand
    BY <1>2, <2>4, HandKeeps
  <2>5. CASE \E l \in Layouts : Show(l)
    BY <1>2, <2>5, ShowKeeps
  <2>6. CASE SendDescriptor
    BY <1>2, <2>6, SendDescriptorKeeps
  <2>7. CASE SendValues
    BY <1>2, <2>7, SendValuesKeeps
  <2>8. CASE SendClear
    BY <1>2, <2>8, SendClearKeeps
  <2>9. CASE SendReveal
    BY <1>2, <2>9, SendRevealKeeps
  <2>10. CASE Abandon
    BY <1>2, <2>10, AbandonKeeps
  <2>11. CASE Overreach
    BY <1>2, <2>11, OverreachKeeps
  <2>12. CASE \E s \in DOMAIN truth : Move(s)
    BY <1>2, <2>12, MoveKeeps
  <2>13. CASE Hear
    BY <1>2, <2>13, HearRequestKeeps, HearScreenKeeps, HearEditKeeps DEF Hear
  <2>14. CASE UNCHANGED vars
    BY <1>2, <2>14, StutterKeeps
  <2> QED
    BY <1>2, <2>1, <2>2, <2>3, <2>4, <2>5, <2>6, <2>7, <2>8, <2>9, <2>10, <2>11, <2>12,
       <2>13, <2>14 DEF Next
<1> QED
  BY <1>1, <1>2, PTL DEF Spec

\* The panel shows nothing, or one whole layout the host gave.
THEOREM PublishedWholeHolds == Spec => []PublishedWhole
PROOF
<1>1. IInv => PublishedWhole
  BY DEF IInv, Shown, PublishedWhole
<1> QED
  BY <1>1, IInvHolds, PTL

\* No value ends up in another layout.
THEOREM ValuesKeepTheirLayoutHolds == Spec => []ValuesKeepTheirLayout
PROOF
<1>1. IInv => ValuesKeepTheirLayout
  BY DEF IInv, Shown, HostKnows, AllSent, Sent, ValuesKeepTheirLayout
<1> QED
  BY <1>1, IInvHolds, PTL

\* A stale value moves no field under a hand.
LEMMA NotFought ==
  ASSUME IInv, [Next]_vars, NEW s \in Occupied, s % Pots \in touched_mask
  PROVE  ~StaleValue(s)
PROOF
<1> SUFFICES ASSUME StaleValue(s) PROVE FALSE
  OBVIOUS
<1>1. PICK m : m = Head(toPanel)
  OBVIOUS
<1>2. /\ Taken /\ surprises' = surprises /\ m.op = "VALUES" /\ s \in DOMAIN m.entries
      /\ m.entries[s].heeds < newest[s] /\ fields'[s].value # fields[s].value
  BY <1>1 DEF StaleValue, Taken
<1>3. AllCarried /\ InOrder /\ TypePanel /\ arena \in [0..1 -> Descriptors] /\ live_ix \in 0..1
  BY DEF IInv, TypePanel
<1>4. m \in Message /\ Carried(m)
  BY <1>1, <1>2, <1>3, TakenIs DEF Carried
<1>5. toPanel' # toPanel
  BY <1>2, <1>3, HeadTailProperties, LenProperties DEF Taken, AllCarried
<1>6. ~UNCHANGED panel
  BY <1>2 DEF panel, fields, Live
<1>7. Handle
  <2>1. CASE HandleUnread
    BY <2>1, <1>1, <1>2 DEF HandleUnread, DescFieldUnread
  <2>2. CASE Hand
    BY <2>2, <1>5 DEF Hand, Touch, Push, Rotate, Back, PageNext, Stroke
  <2>3. CASE \/ Lose \/ SendDescriptor \/ SendValues \/ SendClear \/ SendReveal
             \/ Abandon \/ Overreach
    BY <2>3, <1>6
    DEF Lose, SendDescriptor, SendValues, SendClear, SendReveal, Abandon, Overreach
  <2>4. CASE \E l \in Layouts : Show(l)
    BY <2>4, <1>6 DEF Show
  <2>5. CASE \E t \in DOMAIN truth : Move(t)
    BY <2>5, <1>6 DEF Move
  <2>6. CASE Hear
    BY <2>6, <1>6 DEF Hear, HearRequest, HearScreen, HearEdit
  <2>7. CASE UNCHANGED vars
    BY <2>7, <1>6 DEF vars
  <2> QED
    BY <2>1, <2>2, <2>3, <2>4, <2>5, <2>6, <2>7 DEF Next
<1>8. HandleValues(m)
  BY <1>1, <1>2, <1>7
  DEF Handle, DescBegin, DescField, DescEnd, DescAbort, HandleReveal, HandleClear
<1>9. /\ Gate(m.revision)
      /\ arena' = [arena EXCEPT ![live_ix].fields =
           [t \in DOMAIN @ |->
              IF t \in DOMAIN m.entries /\ ~Withheld(t, m.entries[t].ack)
                THEN [@[t] EXCEPT !.value = m.entries[t].value]
                ELSE @[t]]]
      /\ live_ix' = live_ix
  BY <1>6, <1>8 DEF HandleValues
<1>10. ~Withheld(s, m.entries[s].ack)
  <2> DEFINE f == [t \in DOMAIN fields |->
                     IF t \in DOMAIN m.entries /\ ~Withheld(t, m.entries[t].ack)
                       THEN [fields[t] EXCEPT !.value = m.entries[t].value]
                       ELSE fields[t]]
  <2>1. arena' = [arena EXCEPT ![live_ix].fields = f]
    BY <1>9 DEF fields, Live
  <2>2. arena[live_ix] \in Descriptors
    BY <1>3
  <2>3. fields' = f
    <3> HIDE DEF f
    <3> QED
      BY <2>1, <2>2, <1>3, <1>9 DEF fields, Live, Descriptors
  <2>4. f[s] = fields[s] \/ ~Withheld(s, m.entries[s].ack)
    BY DEF Occupied
  <2> QED
    BY <2>3, <2>4, <1>2
<1>11. last_edit_seq[s] <= m.entries[s].ack
  <2>1. s \in Slots /\ last_edit_seq[s] \in Nat
    BY <1>3, TwoDescriptors DEF TypePanel
  <2>2. m.entries[s].ack \in Nat
    BY <1>2, <1>4, MessageIs, EntriesAre DEF Entry
  <2>3. ~(m.entries[s].ack < last_edit_seq[s])
    BY <1>10 DEF Withheld, UnderHand
  <2> QED
    BY <2>1, <2>2, <2>3
<1>12. newest[s] <= m.entries[s].heeds
  BY <1>2, <1>4, <1>11 DEF Carried, Heeds
<1> QED
  <2>1. newest[s] \in Nat /\ m.entries[s].heeds \in Nat
    BY <1>2, <1>3, <1>4, TwoDescriptors, MessageIs, EntriesAre DEF TypePanel, Entry
  <2> QED
    BY <2>1, <1>2, <1>12

\* The knob is never fought.
THEOREM KnobNotFoughtHolds == Spec => KnobNotFought
PROOF
<1>1. IInv /\ [Next]_vars => [\A s \in Occupied : s % Pots \in touched_mask => ~StaleValue(s)]_vars
  BY NotFought
<1> QED
  BY <1>1, IInvHolds, PTL DEF Spec, KnobNotFought
=============================================================================
