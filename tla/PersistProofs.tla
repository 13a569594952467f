---------------------------- MODULE PersistProofs ---------------------------
(***************************************************************************)
(* Proofs about the settings journal, for a block of any size above three  *)
(* units, any images, and any number of writes, errors and power cuts.     *)
(***************************************************************************)
EXTENDS Persist, FiniteSetTheorems, TLAPS

USE SlotsAssumption, ImagesAssumption, NoneAssumption, BoundsAssumption, RemnantsAssumption
DEF SlotsAssumption, ImagesAssumption, NoneAssumption, BoundsAssumption, RemnantsAssumption

Unit == Record \union {Erased, Torn}

\* Between calls nothing is held in RAM.
RestsEmpty == incoming = None => saved = {} /\ ~erasing

\* A compaction holds one copy of a kind, the newest, until the erasure at least.
OneCopyEach == \A r, s \in saved : r.kind = s.kind => r = s
SavedAreNewest == erasing => saved = Survivors

\* The unit to be programmed is the first erased one, and during the copies the last
\* ones are all erased; the copies still to come fit below the fifth unit.
AtFirstBlank ==
  incoming # None /\ ~erasing =>
    at \in Slot /\ journal[at] = Erased /\ \A i \in Slot : i < at => journal[i] # Erased
RoomForCopies ==
  ~erasing => \A r \in saved :
    /\ \A i \in Slot : i >= at => journal[i] = Erased
    /\ r.kind = "boot" => at <= 1
    /\ r.kind = "cal" => at <= 2
    /\ at <= 3

\* Until a compaction is cut short, no record lies beyond an erased unit.
NothingBeyond ==
  ~lossy => \A i, j \in Slot : i < j /\ journal[i] = Erased => journal[j] \notin Record

\* Everything in flash and RAM was once handed to append_record.
AllOffered ==
  /\ \A i \in Slot : journal[i] \in Record => journal[i] \in ever
  /\ saved \subseteq ever
  /\ incoming # None => incoming \in ever

\* A record that says proven is a boot record for the installed image.
ProvenNames ==
  incoming # None /\ incoming.proven => incoming.kind = "boot" /\ incoming.image = image
BootIsNews == incoming # None /\ incoming.kind = "boot" => ~vouched \/ lossy

IInv ==
  /\ TypeOK
  /\ RestsEmpty /\ OneCopyEach /\ SavedAreNewest
  /\ AtFirstBlank /\ RoomForCopies
  /\ NothingBeyond
  /\ AllOffered
  /\ ProvenNames /\ BootIsNews /\ VouchedIsTrusted

-----------------------------------------------------------------------------
(* The journal as registers *)

\* A unit holds a record exactly when it is of one of the three kinds.
LEMMA UnitKinds ==
  /\ Erased \notin Record /\ Torn \notin Record /\ Erased # Torn
  /\ Erased.kind \notin Kinds /\ Torn.kind \notin Kinds
  /\ \A r \in Record : r.kind \in Kinds
  BY DEF Erased, Torn, Record, Kinds

\* The record read for a kind is a unit of the journal of that kind, and there is one at most.
LEMMA NewestIsOne ==
  ASSUME TypeOK, NEW k \in Kinds
  PROVE  /\ \A r \in Newest(k) : r \in Record /\ r.kind = k /\ \E i \in Slot : journal[i] = r
         /\ \A r, s \in Newest(k) : r = s
<1>1. \A i \in Holding(k) : i \in Slot /\ journal[i] \in Record /\ journal[i].kind = k
  BY UnitKinds DEF TypeOK, Holding
<1>2. \A i, j \in Holding(k) : i <= j /\ j <= i => i = j
  BY <1>1 DEF Slot
<1>3. \A r \in Newest(k) : r \in Record /\ r.kind = k /\ \E i \in Slot : journal[i] = r
  BY <1>1 DEF Newest
<1>4. ASSUME NEW r \in Newest(k), NEW s \in Newest(k)
      PROVE  r = s
  <2>1. PICK i \in Holding(k) : journal[i] = r /\ \A j \in Holding(k) : j <= i
    BY DEF Newest
  <2>2. PICK j \in Holding(k) : journal[j] = s /\ \A n \in Holding(k) : n <= j
    BY DEF Newest
  <2> QED
    BY <1>2, <2>1, <2>2
<1> QED
  BY <1>3, <1>4

\* Programming an erased unit with nothing of the record's kind beyond it makes that record the
\* one read for its kind, and changes what is read for no other.
LEMMA NewestProgrammed ==
  ASSUME TypeOK, at \in Slot, journal[at] = Erased,
         NEW r \in Record, journal' = [journal EXCEPT ![at] = r],
         \A i \in Slot : i > at => journal[i].kind # r.kind
  PROVE  /\ Newest(r.kind)' = {r}
         /\ \A k \in Kinds : k # r.kind => Newest(k)' = Newest(k)
<1>1. r.kind \in Kinds /\ journal[at].kind \notin Kinds
  BY UnitKinds
<1>2. journal'[at] = r /\ \A i \in Slot : i # at => journal'[i] = journal[i]
  BY DEF TypeOK
<1>3. Holding(r.kind)' = Holding(r.kind) \union {at}
  BY <1>1, <1>2 DEF Holding
<1>4. \A i \in Holding(r.kind)' : i <= at
  BY <1>3 DEF Holding, Slot
<1>5. \A i \in Holding(r.kind)' : at <= i => i = at
  BY <1>4 DEF Holding, Slot
<1>6. at \in Holding(r.kind)'
  BY <1>3
<1>7. Newest(r.kind)' = {r}
  BY <1>2, <1>4, <1>5, <1>6 DEF Newest
<1>8. ASSUME NEW k \in Kinds, k # r.kind
      PROVE  Newest(k)' = Newest(k)
  <2>1. Holding(k)' = Holding(k) /\ at \notin Holding(k)
    BY <1>1, <1>2, <1>8 DEF Holding
  <2>2. \A i \in Holding(k) : journal'[i] = journal[i]
    BY <1>2, <2>1 DEF Holding
  <2> QED
    BY <2>1, <2>2 DEF Newest
<1> QED
  BY <1>7, <1>8

\* A unit without a record changes nothing that is read.
LEMMA NewestSpoiled ==
  ASSUME TypeOK, at \in Slot, journal[at] = Erased,
         NEW u \in {Erased, Torn}, journal' = [journal EXCEPT ![at] = u], NEW k \in Kinds
  PROVE  Newest(k)' = Newest(k)
<1>1. journal'[at] = u /\ \A i \in Slot : i # at => journal'[i] = journal[i]
  BY DEF TypeOK
<1>2. Holding(k)' = Holding(k) /\ at \notin Holding(k)
  BY <1>1, UnitKinds DEF Holding
<1>3. \A i \in Holding(k) : journal'[i] = journal[i]
  BY <1>1, <1>2 DEF Holding
<1> QED
  BY <1>2, <1>3 DEF Newest

\* With nothing in RAM, a register is read from the journal.
LEMMA ViewOfFlash ==
  ASSUME saved = {}
  PROVE  \A k \in Kinds : View(k) = Newest(k)
  BY DEF View

-----------------------------------------------------------------------------
(* What each action does to the registers *)

\* Reading the newest records into RAM changes none of them.
LEMMA AppendView ==
  ASSUME IInv, NEW r, Append(r), NEW k \in Kinds
  PROVE  View(k)' = View(k)
<1>1. saved = {} /\ Newest(k)' = Newest(k)
  BY DEF IInv, RestsEmpty, Append, Newest, Holding
<1>2. CASE saved' = saved
  BY <1>1, <1>2 DEF View
<1>3. CASE saved' = Survivors
  <2>1. \A j \in Kinds : \A s \in Newest(j) : s.kind = j
    BY NewestIsOne DEF IInv
  <2>2. {s \in saved' : s.kind = k} = Newest(k)
    BY <1>3, <2>1 DEF Survivors, Kinds
  <2>3. CASE \E s \in saved' : s.kind = k
    BY <1>1, <2>2, <2>3 DEF View
  <2>4. CASE ~ \E s \in saved' : s.kind = k
    BY <1>1, <2>4 DEF View
  <2> QED
    BY <2>3, <2>4
<1> QED
  BY <1>2, <1>3 DEF Append

\* Erasing the block loses nothing that is not in RAM.
LEMMA EraseView ==
  ASSUME IInv, Erase, NEW k \in Kinds
  PROVE  View(k)' = View(k)
<1>1. saved = Survivors /\ saved' = saved
  BY DEF IInv, SavedAreNewest, Erase
<1>2. CASE \E r \in saved : r.kind = k
  BY <1>1, <1>2 DEF View
<1>3. CASE ~ \E r \in saved : r.kind = k
  <2>1. \A r \in Newest(k) : r.kind = k /\ r \in saved
    BY <1>1, NewestIsOne DEF IInv, Survivors, Kinds
  <2>2. Newest(k) = {}
    BY <1>3, <2>1
  <2>3. Holding(k)' = {}
    BY UnitKinds DEF Erase, Holding
  <2>4. Newest(k)' = {}
    BY <2>3 DEF Newest
  <2> QED
    BY <1>1, <1>3, <2>2, <2>4 DEF View
<1> QED
  BY <1>2, <1>3

\* The copy about to be programmed: where it goes, and that it will be found there.
LEMMA CopyPlace ==
  ASSUME IInv, ~erasing, NEW r \in saved
  PROVE  /\ incoming # None /\ at \in Slot /\ journal[at] = Erased
         /\ r \in Record /\ r.kind \in Kinds
         /\ \A i \in Slot : i >= at => journal[i] = Erased
         /\ \A i \in Slot : i > at => journal[i].kind # r.kind
<1>1. incoming # None
  BY DEF IInv, RestsEmpty
<1>2. at \in Slot /\ journal[at] = Erased
  BY <1>1 DEF IInv, AtFirstBlank
<1>3. r \in Record /\ r.kind \in Kinds
  BY UnitKinds DEF IInv, TypeOK
<1>4. \A i \in Slot : i >= at => journal[i] = Erased
  BY DEF IInv, RoomForCopies
<1>5. \A i \in Slot : i > at => i >= at
  BY <1>2 DEF Slot
<1>6. \A i \in Slot : i > at => journal[i].kind # r.kind
  BY <1>3, <1>4, <1>5, UnitKinds
<1> QED
  BY <1>1, <1>2, <1>3, <1>4, <1>6

\* A copy moves a record from RAM to flash.
LEMMA CopyView ==
  ASSUME IInv, Copy, NEW k \in Kinds
  PROVE  View(k)' = View(k)
<1>1. PICK r \in saved : journal' = [journal EXCEPT ![at] = r] /\ saved' = saved \ {r}
  BY DEF Copy
<1>2. r \in Record /\ r.kind \in Kinds /\ \A s \in saved : s.kind = r.kind => s = r
  BY CopyPlace DEF IInv, OneCopyEach, Copy
<1>3. Newest(r.kind)' = {r} /\ (k # r.kind => Newest(k)' = Newest(k))
  BY <1>1, CopyPlace, NewestProgrammed DEF IInv, Copy
<1>4. CASE k = r.kind
  <2>1. View(k) = {r}
    BY <1>2, <1>4 DEF View
  <2>2. View(k)' = Newest(k)'
    BY <1>1, <1>2, <1>4 DEF View
  <2> QED
    BY <1>3, <1>4, <2>1, <2>2
<1>5. CASE k # r.kind
  <2>1. {s \in saved' : s.kind = k} = {s \in saved : s.kind = k}
    BY <1>1, <1>5
  <2> QED
    BY <1>3, <1>5, <2>1 DEF View
<1> QED
  BY <1>4, <1>5

\* The last unit of a write is programmed with nothing of any kind beyond it.
LEMMA ProgramPlace ==
  ASSUME IInv, incoming # None, ~erasing, ~lossy
  PROVE  /\ incoming \in Record /\ incoming.kind \in Kinds
         /\ at \in Slot /\ journal[at] = Erased
         /\ \A i \in Slot : i > at => journal[i].kind # incoming.kind
<1>1. incoming \in Record /\ incoming.kind \in Kinds
  BY UnitKinds DEF IInv, TypeOK
<1>2. at \in Slot /\ journal[at] = Erased
  BY DEF IInv, AtFirstBlank
<1>3. \A i \in Slot : at < i => journal[i] \notin Record
  BY <1>2 DEF IInv, NothingBeyond
<1>4. \A i \in Slot : i > at => at < i
  BY <1>2 DEF Slot
<1>5. \A i \in Slot : i > at => journal[i].kind \notin Kinds
  BY <1>3, <1>4, UnitKinds DEF IInv, TypeOK
<1> QED
  BY <1>1, <1>2, <1>5

\* A write that ends takes effect on its own register and on no other.
LEMMA ProgramView ==
  ASSUME IInv, incoming # None, ~erasing, saved = {}, saved' = {}, ~lossy,
         journal' = [journal EXCEPT ![at] = incoming], NEW k \in Kinds
  PROVE  View(k)' = IF k = incoming.kind THEN {incoming} ELSE View(k)
<1>1. Newest(k)' = IF k = incoming.kind THEN {incoming} ELSE Newest(k)
  BY ProgramPlace, NewestProgrammed DEF IInv
<1> QED
  BY <1>1 DEF View

\* Whatever happened, a register holds one offered record or none.
RegistersOffered ==
  \A k \in Kinds : View(k) = {} \/ \E r \in ever : r.kind = k /\ View(k) = {r}

\* What a start reads of a kind is nothing, or one record that was offered for that kind.
LEMMA ViewOffered == IInv => RegistersOffered
<1> SUFFICES ASSUME IInv, NEW k \in Kinds
             PROVE  View(k) = {} \/ \E r \in ever : r.kind = k /\ View(k) = {r}
  BY DEF RegistersOffered
<1>1. \A r \in View(k) : r \in ever /\ r.kind = k
  BY NewestIsOne DEF IInv, View, AllOffered
<1>2. \A r, s \in View(k) : r = s
  BY NewestIsOne DEF IInv, View, OneCopyEach
<1> QED
  BY <1>1, <1>2

\* The same after a step.
LEMMA ViewOfferedNext == IInv' => RegistersOffered'
  BY ViewOffered, PTL

-----------------------------------------------------------------------------
(* The invariant *)

\* A new block, with whatever the stock firmware left in it.
LEMMA InitIInv == Init => IInv
<1> SUFFICES ASSUME Init PROVE IInv
  OBVIOUS
<1>1. \A i \in Slot : journal[i] \in {Erased, Torn} /\ journal[i] \notin Record
  BY UnitKinds DEF Init
<1>2. TypeOK
  BY <1>1 DEF Init, TypeOK
<1> QED
  BY <1>1, <1>2 DEF Init, IInv, RestsEmpty, OneCopyEach, SavedAreNewest, AtFirstBlank,
     RoomForCopies, NothingBeyond, AllOffered, ProvenNames, BootIsNews, VouchedIsTrusted

\* The registers an action leaves alone stay trusted.
LEMMA StillTrusted ==
  ASSUME VouchedIsTrusted, View("boot")' = View("boot"), image' = image,
         vouched' = vouched, lossy' = lossy
  PROVE  VouchedIsTrusted'
  BY DEF VouchedIsTrusted, Matches

\* A call of append_record, whatever the record.
LEMMA AppendIInv ==
  ASSUME IInv, NEW r \in Record, Append(r),
         r.proven => r.kind = "boot" /\ r.image = image,
         r.kind = "boot" => ~Trusted
  PROVE  IInv'
<1>1. incoming = None /\ saved = {} /\ ~erasing /\ incoming' = r /\ journal' = journal
      /\ UNCHANGED <<image, lossy, vouched>> /\ ever' = ever \union {r}
  BY DEF IInv, RestsEmpty, Append
<1>2. Survivors \subseteq Record /\ Survivors' = Survivors
      /\ \A s \in Survivors : \E i \in Slot : journal[i] = s
  BY <1>1, NewestIsOne DEF IInv, Survivors, Newest, Holding, Kinds
<1>3. \A s, t \in Survivors : s.kind = t.kind => s = t
  BY NewestIsOne DEF IInv, Survivors, Kinds
<1>4. saved' \in {saved, Survivors} /\ (erasing' => saved' = Survivors)
      /\ (~erasing' => saved' = {} /\ at' \in Slot /\ FirstBlank(at'))
  BY <1>1 DEF Append, FirstBlank, Blank
<1>5. TypeOK'
  <2>1. at' \in Slot \union {at} /\ erasing' \in {erasing, TRUE}
    BY DEF Append, FirstBlank, Blank
  <2>2. saved' \subseteq Record
    BY <1>1, <1>2, <1>4
  <2>3. writes' \in Nat /\ ever' \subseteq Record /\ UNCHANGED <<erases, faults, flashes>>
    <3>1. writes' = writes + 1 /\ UNCHANGED <<erases, faults, flashes>>
      BY DEF Append
    <3>2. writes' \in Nat
      BY <3>1 DEF IInv, TypeOK
    <3>3. ever \subseteq Record
      BY DEF IInv, TypeOK
    <3> QED
      BY <1>1, <3>1, <3>2, <3>3
  <2>4. at' \in Nat /\ erasing' \in BOOLEAN
    <3>1. at \in Nat /\ erasing \in BOOLEAN /\ \A i \in Slot : i \in Nat
      BY DEF IInv, TypeOK, Slot
    <3> QED
      BY <2>1, <3>1
  <2>5. journal' \in [Slot -> Record \union {Erased, Torn}] /\ incoming' \in Record \union {None}
    BY <1>1 DEF IInv, TypeOK
  <2> QED
    BY <1>1, <2>2, <2>3, <2>4, <2>5 DEF IInv, TypeOK
<1>6. AtFirstBlank'
  BY <1>1, <1>4 DEF AtFirstBlank, FirstBlank, Blank, Slot
<1>7. RestsEmpty' /\ OneCopyEach' /\ SavedAreNewest' /\ RoomForCopies'
  BY <1>1, <1>2, <1>3, <1>4 DEF RestsEmpty, OneCopyEach, SavedAreNewest, RoomForCopies
<1>8. NothingBeyond'
  BY <1>1 DEF IInv, NothingBeyond
<1>9. AllOffered'
  BY <1>1, <1>2, <1>4 DEF IInv, AllOffered
<1>10. ProvenNames'
  BY <1>1 DEF ProvenNames
<1>11. BootIsNews'
  BY <1>1, ViewOfFlash DEF IInv, BootIsNews, VouchedIsTrusted, Trusted, Kinds
<1>12. VouchedIsTrusted'
  BY <1>1, AppendView, StillTrusted DEF IInv, Kinds
<1> QED
  BY <1>5, <1>6, <1>7, <1>8, <1>9, <1>10, <1>11, <1>12 DEF IInv

\* The three callers hand append_record well-formed records.
LEMMA CallerIInv ==
  ASSUME IInv, WriteSetting \/ NoteLaunch \/ MarkProven
  PROVE  IInv'
<1>1. CASE WriteSetting
  <2>1. PICK k \in {"cal", "pref"} : Append(Setting(k))
    BY <1>1 DEF WriteSetting
  <2>2. Setting(k) \in Record /\ ~Setting(k).proven /\ Setting(k).kind # "boot"
    BY DEF IInv, TypeOK, Setting, Record, Kinds
  <2> QED
    BY <2>1, <2>2, AppendIInv
<1>2. ASSUME NEW p \in BOOLEAN, ~Trusted, Append(Boot(p))
      PROVE  IInv'
  <2>1. Boot(p) \in Record /\ Boot(p).kind = "boot" /\ Boot(p).image = image
    BY DEF IInv, TypeOK, Boot, Record, Kinds
  <2> QED
    BY <1>2, <2>1, AppendIInv
<1>3. CASE MarkAlreadyProven
  <2>1. View("boot") = Newest("boot") /\ UNCHANGED <<log, image, lossy, ever>>
    BY <1>3, ViewOfFlash DEF IInv, RestsEmpty, MarkAlreadyProven, Kinds
  <2>2. View("boot")' = View("boot")
    BY <2>1 DEF log, View, Newest, Holding
  <2>3. VouchedIsTrusted'
    BY <1>3, <2>1, <2>2 DEF MarkAlreadyProven, Trusted, VouchedIsTrusted, Matches
  <2>4. TypeOK' /\ BootIsNews'
    BY <1>3 DEF IInv, TypeOK, BootIsNews, MarkAlreadyProven, log
  <2> QED
    BY <2>1, <2>3, <2>4 DEF IInv, log, RestsEmpty, OneCopyEach, SavedAreNewest, Survivors,
       Newest, Holding, AtFirstBlank, RoomForCopies, NothingBeyond, AllOffered, ProvenNames
<1> QED
  BY <1>1, <1>2, <1>3 DEF NoteLaunch, MarkProven

\* The erasure leaves room for every copy from the first unit on.
LEMMA EraseIInv ==
  ASSUME IInv, Erase
  PROVE  IInv'
<1>1. journal' = [i \in Slot |-> Erased] /\ erasing' = FALSE /\ at' = 1
      /\ UNCHANGED <<incoming, saved, image, ever, lossy, vouched>>
  BY DEF Erase
<1>2. 1 \in Slot /\ \A i \in Slot : journal'[i] = Erased /\ ~(i < 1)
  BY <1>1 DEF Slot
<1>3. TypeOK'
  <2>1. journal' \in [Slot -> Record \union {Erased, Torn}]
    BY <1>1
  <2>2. UNCHANGED <<writes, faults, flashes>> /\ erases' = erases + 1
    BY DEF Erase
  <2>3. erases' \in Nat
    BY <2>2 DEF IInv, TypeOK
  <2>4. at' \in Nat /\ erasing' \in BOOLEAN
    BY <1>1
  <2> QED
    BY <1>1, <2>1, <2>2, <2>3, <2>4 DEF IInv, TypeOK
<1>4. RestsEmpty' /\ OneCopyEach' /\ SavedAreNewest' /\ ProvenNames' /\ BootIsNews'
  BY <1>1 DEF IInv, RestsEmpty, OneCopyEach, SavedAreNewest, ProvenNames, BootIsNews
<1>5. AtFirstBlank' /\ RoomForCopies' /\ NothingBeyond'
  BY <1>1, <1>2, UnitKinds DEF AtFirstBlank, RoomForCopies, NothingBeyond
<1>6. AllOffered'
  BY <1>1, <1>2, UnitKinds DEF IInv, AllOffered
<1>7. VouchedIsTrusted'
  BY <1>1, EraseView, StillTrusted DEF IInv, Kinds
<1> QED
  BY <1>3, <1>4, <1>5, <1>6, <1>7 DEF IInv

\* A copy leaves the next unit erased for the next one.
LEMMA CopyIInv ==
  ASSUME IInv, Copy
  PROVE  IInv'
<1>1. PICK r \in saved : /\ Copied(r)
                         /\ journal' = [journal EXCEPT ![at] = r] /\ saved' = saved \ {r}
  BY DEF Copy
<1>2. ~erasing /\ erasing' = erasing /\ at' = at + 1 /\ UNCHANGED <<incoming, image, history>>
  BY DEF Copy
<1>3. /\ incoming # None /\ at \in Slot /\ r \in Record /\ r.kind \in Kinds
      /\ \A i \in Slot : i >= at => journal[i] = Erased
      /\ \A i \in Slot : i < at => journal[i] # Erased
  BY <1>2, CopyPlace DEF IInv, AtFirstBlank
<1>4. journal'[at] = r /\ \A i \in Slot : i # at => journal'[i] = journal[i]
  BY <1>1, <1>3 DEF IInv, TypeOK
<1>5. at <= 3 /\ (r.kind = "boot" => at <= 1) /\ (r.kind = "cal" => at <= 2)
  BY <1>2 DEF IInv, RoomForCopies
<1>6. at + 1 \in Slot /\ \A i \in Slot : i >= at + 1 => i >= at /\ i # at
  BY <1>3, <1>5 DEF Slot
<1>7. \A i \in Slot : i >= at + 1 => journal'[i] = Erased
  BY <1>3, <1>4, <1>6
<1>8. \A i \in Slot : i < at + 1 => journal'[i] # Erased
  <2>1. \A i \in Slot : i < at + 1 => i < at \/ i = at
    BY <1>3 DEF Slot
  <2> QED
    BY <1>3, <1>4, <2>1, UnitKinds
<1>9. TypeOK'
  <2>1. journal' \in [Slot -> Record \union {Erased, Torn}]
    BY <1>1, <1>3 DEF IInv, TypeOK
  <2>2. saved' \subseteq Record /\ at' \in Nat
    BY <1>1, <1>2, <1>3 DEF IInv, TypeOK, Slot
  <2> QED
    BY <1>2, <2>1, <2>2 DEF IInv, TypeOK, history
<1>10. AtFirstBlank'
  BY <1>2, <1>6, <1>7, <1>8 DEF AtFirstBlank
<1>11. RoomForCopies'
  <2>1. ASSUME NEW s \in saved'
        PROVE  /\ s.kind = "boot" => at + 1 <= 1
               /\ s.kind = "cal" => at + 1 <= 2
               /\ at + 1 <= 3
    <3>1. s \in saved /\ s # r /\ s.kind # r.kind /\ s.kind \in Kinds
      BY <1>1, <2>1, UnitKinds DEF IInv, OneCopyEach, TypeOK
    <3>2. r.kind # "pref" /\ s.kind # "boot" /\ (s.kind = "cal" => r.kind = "boot")
      BY <1>1, <1>3, <3>1 DEF Copied, Kinds
    <3>3. r.kind = "boot" \/ r.kind = "cal"
      BY <1>3, <3>2 DEF Kinds
    <3> QED
      BY <1>3, <1>5, <3>2, <3>3 DEF Slot
  <2> QED
    BY <1>2, <1>7, <2>1 DEF RoomForCopies
<1>12. RestsEmpty' /\ OneCopyEach' /\ SavedAreNewest' /\ ProvenNames' /\ BootIsNews'
  BY <1>1, <1>2, <1>3 DEF IInv, RestsEmpty, OneCopyEach, SavedAreNewest, ProvenNames,
     BootIsNews, history
<1>13. NothingBeyond'
  <2>1. \A i, j \in Slot : i < j /\ journal'[i] = Erased => j >= at + 1
    BY <1>3, <1>8 DEF Slot
  <2> QED
    BY <1>7, <2>1, UnitKinds DEF NothingBeyond
<1>14. AllOffered'
  BY <1>1, <1>2, <1>3, <1>4 DEF IInv, AllOffered, history
<1>15. VouchedIsTrusted'
  BY <1>2, CopyView, StillTrusted DEF IInv, history, Kinds
<1> QED
  BY <1>9, <1>10, <1>11, <1>12, <1>13, <1>14, <1>15 DEF IInv

\* The end of a write, which makes an image trusted if the record says so.
LEMMA ProgramIInv ==
  ASSUME IInv, Program
  PROVE  IInv'
<1>1. /\ incoming # None /\ ~erasing /\ saved = {} /\ saved' = saved
      /\ journal' = [journal EXCEPT ![at] = incoming] /\ incoming' = None
      /\ at' = at + 1 /\ erasing' = erasing /\ vouched' = (vouched \/ incoming.proven)
      /\ UNCHANGED <<image, ever, lossy>>
  BY DEF Program
<1>2. incoming \in Record /\ at \in Slot /\ journal[at] = Erased
      /\ \A i \in Slot : i < at => journal[i] # Erased
  BY <1>1 DEF IInv, TypeOK, AtFirstBlank
<1>3. journal'[at] = incoming /\ \A i \in Slot : i # at => journal'[i] = journal[i]
  BY <1>1, <1>2 DEF IInv, TypeOK
<1>4. TypeOK'
  <2>1. journal' \in [Slot -> Record \union {Erased, Torn}]
    BY <1>1, <1>2 DEF IInv, TypeOK
  <2>2. at' \in Nat
    BY <1>1, <1>2 DEF Slot
  <2>3. vouched \in BOOLEAN /\ incoming.proven \in BOOLEAN
    BY <1>2 DEF IInv, TypeOK, Record
  <2>4. vouched' \in BOOLEAN
    BY <1>1, <2>3
  <2>5. UNCHANGED <<writes, erases, faults, flashes>>
    BY DEF Program
  <2> QED
    BY <1>1, <2>1, <2>2, <2>4, <2>5 DEF IInv, TypeOK
<1>5. RestsEmpty' /\ OneCopyEach' /\ SavedAreNewest' /\ AtFirstBlank' /\ RoomForCopies'
      /\ ProvenNames' /\ BootIsNews'
  BY <1>1 DEF RestsEmpty, OneCopyEach, SavedAreNewest, AtFirstBlank, RoomForCopies,
     ProvenNames, BootIsNews
<1>6. NothingBeyond'
  <2>1. SUFFICES ASSUME ~lossy, NEW i \in Slot, NEW j \in Slot, i < j, journal'[i] = Erased
                 PROVE  journal'[j] \notin Record
    BY <1>1 DEF NothingBeyond
  <2>2. i # at /\ journal[i] = Erased
    BY <1>2, <1>3, <2>1, UnitKinds
  <2>3. j # at
    BY <1>2, <2>1, <2>2
  <2> QED
    BY <1>3, <2>1, <2>2, <2>3 DEF IInv, NothingBeyond
<1>7. AllOffered'
  BY <1>1, <1>2, <1>3 DEF IInv, AllOffered
<1>8. VouchedIsTrusted'
  <2>1. CASE lossy
    BY <1>1, <2>1 DEF VouchedIsTrusted
  <2>2. CASE ~lossy /\ incoming.kind = "boot"
    <3>1. View("boot")' = {incoming}
      BY <1>1, <2>2, ProgramView DEF Kinds
    <3>2. vouched' = incoming.proven
      BY <1>1, <1>2, <2>2 DEF IInv, BootIsNews, TypeOK, Record
    <3>3. incoming.proven => incoming.image = image'
      BY <1>1 DEF IInv, ProvenNames
    <3> QED
      BY <3>1, <3>2, <3>3 DEF VouchedIsTrusted, Matches
  <2>3. CASE ~lossy /\ incoming.kind # "boot"
    <3>1. View("boot")' = View("boot")
      BY <1>1, <2>3, ProgramView DEF Kinds
    <3>2. ~incoming.proven
      BY <1>1, <2>3 DEF IInv, ProvenNames
    <3> QED
      BY <1>1, <3>1, <3>2 DEF IInv, VouchedIsTrusted, Matches
  <2> QED
    BY <2>1, <2>2, <2>3
<1> QED
  BY <1>4, <1>5, <1>6, <1>7, <1>8 DEF IInv

\* What giving up leaves behind, whichever operation failed.
LEMMA GiveUpFacts ==
  ASSUME IInv, GiveUp, journal' \in [Slot -> Record \union {Erased, Torn}],
         erases' \in Nat, lossy' \in BOOLEAN,
         \A i \in Slot : journal'[i] \in Record => journal'[i] \in ever
  PROVE  /\ TypeOK' /\ RestsEmpty' /\ OneCopyEach' /\ SavedAreNewest' /\ AtFirstBlank'
         /\ RoomForCopies' /\ AllOffered' /\ ProvenNames' /\ BootIsNews'
<1>1. /\ incoming' = None /\ saved' = {} /\ erasing' = FALSE
      /\ faults' = faults + 1 /\ UNCHANGED <<at, image, writes, flashes, ever, vouched>>
  BY DEF GiveUp
<1>2. faults' \in Nat
  BY <1>1 DEF IInv, TypeOK
<1>3. TypeOK'
  BY <1>1, <1>2 DEF IInv, TypeOK
<1>4. AllOffered'
  BY <1>1 DEF AllOffered
<1> QED
  BY <1>1, <1>3, <1>4 DEF RestsEmpty, OneCopyEach, SavedAreNewest, AtFirstBlank, RoomForCopies,
     ProvenNames, BootIsNews

\* An erasure cut short.
LEMMA EraseCutIInv ==
  ASSUME IInv, EraseCut
  PROVE  IInv'
<1>1. PICK kept \in SUBSET Slot, torn \in SUBSET Slot :
        journal' = [i \in Slot |-> IF i \in kept THEN journal[i]
                                   ELSE IF i \in torn THEN Torn ELSE Erased]
  BY DEF EraseCut
<1>2. \A i \in Slot : journal'[i] \in {journal[i], Torn, Erased}
  BY <1>1
<1>3. journal' \in [Slot -> Record \union {Erased, Torn}]
  BY <1>1 DEF IInv, TypeOK
<1>4. GiveUp /\ lossy' = TRUE /\ erases' = erases + 1
  BY DEF EraseCut
<1>5. erases' \in Nat
  BY <1>4 DEF IInv, TypeOK
<1>6. \A i \in Slot : journal'[i] \in Record => journal'[i] \in ever
  BY <1>2, UnitKinds DEF IInv, AllOffered
<1>7. NothingBeyond' /\ VouchedIsTrusted'
  BY <1>4 DEF NothingBeyond, VouchedIsTrusted
<1> QED
  BY <1>3, <1>4, <1>5, <1>6, <1>7, GiveUpFacts DEF IInv

\* The record a failing program operation was writing.
LEMMA CutRecord ==
  ASSUME IInv, ProgramCut
  PROVE  \E r \in Record :
           /\ r \in ever /\ (saved = {} => r = incoming)
           /\ \E u \in {Erased, Torn, r} : journal' = [journal EXCEPT ![at] = u]
<1>1. PICK r \in {s \in saved : Copied(s)} \union (IF saved = {} THEN {incoming} ELSE {}) :
        \E u \in {Erased, Torn, r} : journal' = [journal EXCEPT ![at] = u]
  BY DEF ProgramCut
<1>2. incoming # None
  BY DEF ProgramCut
<1>3. r \in saved \/ (saved = {} /\ r = incoming)
  BY <1>1
<1>4. r \in Record /\ r \in ever /\ (saved = {} => r = incoming)
  BY <1>2, <1>3 DEF IInv, TypeOK, AllOffered
<1> QED
  BY <1>1, <1>4

\* A program operation cut short: the other registers are as they were, unless it was a copy's.
LEMMA ProgramCutView ==
  ASSUME IInv, ProgramCut, ~lossy', NEW k \in Kinds
  PROVE  /\ saved = {} /\ ~lossy
         /\ \/ \A j \in Kinds : View(j)' = View(j)
            \/ \A j \in Kinds : View(j)' = IF j = incoming.kind THEN {incoming} ELSE View(j)
<1>1. saved = {} /\ saved' = {} /\ ~lossy /\ incoming # None /\ ~erasing
  BY DEF ProgramCut, GiveUp
<1>2. PICK u \in {Erased, Torn, incoming} : journal' = [journal EXCEPT ![at] = u]
  BY <1>1, CutRecord
<1>3. at \in Slot /\ journal[at] = Erased
  BY <1>1 DEF IInv, AtFirstBlank
<1>4. CASE u \in {Erased, Torn}
  <2>1. \A j \in Kinds : Newest(j)' = Newest(j)
    BY <1>2, <1>3, <1>4, NewestSpoiled DEF IInv
  <2> QED
    BY <1>1, <2>1 DEF View
<1>5. CASE u = incoming
  BY <1>1, <1>2, <1>5, ProgramView
<1> QED
  BY <1>1, <1>2, <1>4, <1>5

\* A program operation cut short.
LEMMA ProgramCutIInv ==
  ASSUME IInv, ProgramCut
  PROVE  IInv'
<1>1. PICK r \in Record :
        /\ r \in ever /\ (saved = {} => r = incoming)
        /\ \E u \in {Erased, Torn, r} : journal' = [journal EXCEPT ![at] = u]
  BY CutRecord
<1>2. PICK u \in {Erased, Torn, r} : journal' = [journal EXCEPT ![at] = u]
  BY <1>1
<1>3. at \in Slot /\ journal[at] = Erased /\ \A i \in Slot : i < at => journal[i] # Erased
  BY DEF IInv, AtFirstBlank, ProgramCut
<1>4. journal'[at] = u /\ \A i \in Slot : i # at => journal'[i] = journal[i]
  <2>1. journal \in [Slot -> Record \union {Erased, Torn}]
    BY DEF IInv, TypeOK
  <2> QED
    BY <1>2, <1>3, <2>1
<1>5. journal' \in [Slot -> Record \union {Erased, Torn}]
  <2>1. journal \in [Slot -> Record \union {Erased, Torn}] /\ u \in Record \union {Erased, Torn}
    BY <1>1 DEF IInv, TypeOK
  <2> QED
    BY <1>2, <2>1
<1>6. GiveUp /\ lossy' = (lossy \/ saved # {}) /\ UNCHANGED erases
  BY DEF ProgramCut
<1>7. erases' \in Nat /\ lossy' \in BOOLEAN
  BY <1>6 DEF IInv, TypeOK
<1>8. \A i \in Slot : journal'[i] \in Record => journal'[i] \in ever
  BY <1>1, <1>2, <1>4, UnitKinds DEF IInv, AllOffered
<1>9. NothingBeyond'
  <2>1. SUFFICES ASSUME ~lossy', NEW i \in Slot, NEW j \in Slot, i < j, journal'[i] = Erased
                 PROVE  journal'[j] \notin Record
    BY DEF NothingBeyond
  <2>2. ~lossy
    BY <1>6, <2>1
  <2>3. journal[i] = Erased
    BY <1>3, <1>4, <2>1
  <2>4. j # at
    BY <1>3, <2>1, <2>3
  <2> QED
    BY <1>4, <2>1, <2>2, <2>3, <2>4 DEF IInv, NothingBeyond
<1>10. VouchedIsTrusted'
  <2>1. SUFFICES ASSUME ~lossy', vouched'
                 PROVE  \E s \in View("boot")' : s.proven /\ s.image = image'
    BY DEF VouchedIsTrusted, Matches
  <2>2. ~lossy /\ incoming # None
    BY <1>6, <2>1 DEF ProgramCut
  <2>3. vouched' = vouched /\ image' = image
    BY <1>6 DEF GiveUp
  <2>4. incoming.kind # "boot"
    BY <2>1, <2>2, <2>3 DEF IInv, BootIsNews
  <2>5. View("boot")' = View("boot")
    BY <2>1, <2>4, ProgramCutView DEF Kinds
  <2> QED
    BY <2>1, <2>2, <2>3, <2>5 DEF IInv, VouchedIsTrusted, Matches
<1> QED
  BY <1>5, <1>6, <1>7, <1>8, <1>9, <1>10, GiveUpFacts DEF IInv

\* A new application starts unproven and leaves the journal alone.
LEMMA FlashIInv ==
  ASSUME IInv, Flash
  PROVE  IInv'
<1>1. /\ incoming = None /\ image' \in Images /\ vouched' = FALSE /\ flashes' = flashes + 1
      /\ UNCHANGED <<log, writes, erases, faults, ever, lossy>>
  BY DEF Flash
<1>2. flashes' \in Nat
  BY <1>1 DEF IInv, TypeOK
<1>3. TypeOK'
  BY <1>1, <1>2 DEF IInv, TypeOK, log
<1>4. ProvenNames' /\ BootIsNews' /\ VouchedIsTrusted'
  BY <1>1 DEF ProvenNames, BootIsNews, VouchedIsTrusted, log
<1> QED
  BY <1>1, <1>3, <1>4 DEF IInv, log, RestsEmpty, OneCopyEach, SavedAreNewest, Survivors,
     Newest, Holding, AtFirstBlank, RoomForCopies, NothingBeyond, AllOffered

\* A step that changes no variable.
LEMMA StutterIInv ==
  ASSUME IInv, UNCHANGED vars
  PROVE  IInv'
  BY DEF vars, log, history, IInv, TypeOK, RestsEmpty, OneCopyEach, SavedAreNewest, Survivors,
     Newest, Holding, AtFirstBlank, RoomForCopies, NothingBeyond, AllOffered, ProvenNames,
     BootIsNews, VouchedIsTrusted, View, Matches

\* No step of the journal, its callers or the supply breaks the invariant.
LEMMA NextIInv == IInv /\ [Next]_vars => IInv'
  BY CallerIInv, EraseIInv, CopyIInv, ProgramIInv, EraseCutIInv, ProgramCutIInv, FlashIInv,
     StutterIInv DEF Next

\* The invariant holds in every reachable state.
THEOREM Inductive == Spec => []IInv
  BY InitIInv, NextIInv, PTL DEF Spec

\* Every variable keeps its type: a record once written is a record when it is read.
THEOREM TypeCorrect == Spec => []TypeOK
<1>1. IInv => TypeOK
  BY DEF IInv
<1> QED
  BY <1>1, Inductive, PTL

\* append_record programs no unit that is not erased, whether the index came from its search or
\* from the copies it made.
THEOREM ProgramsErased == Spec => []OnlyErasedProgrammed
<1>1. IInv => OnlyErasedProgrammed
  BY DEF IInv, AtFirstBlank, OnlyErasedProgrammed
<1> QED
  BY <1>1, Inductive, PTL

\* What persist_mark_proven has reported stays so until another image is flashed, as long as no
\* compaction is cut short.
THEOREM StaysTrusted == Spec => []VouchedIsTrusted
<1>1. IInv => VouchedIsTrusted
  BY DEF IInv
<1> QED
  BY <1>1, Inductive, PTL

-----------------------------------------------------------------------------
(* The journal implements the registers *)

Values == [k \in Kinds |-> View(k)]

\* An action that changes no view, no record offered and no fault is a stutter.
LEMMA StutterMaps ==
  ASSUME \A k \in Kinds : View(k)' = View(k), UNCHANGED <<incoming, ever, faults, lossy>>
  PROVE  UNCHANGED Registers!vars
<1>1. Values' = Values
  BY DEF Values
<1> QED
  BY <1>1 DEF Values, Registers!vars

\* The erased block reads as three empty registers.
LEMMA InitMaps == Init => Registers!Init
<1> SUFFICES ASSUME Init PROVE Registers!Init
  OBVIOUS
<1>1. \A k \in Kinds : Holding(k) = {} /\ saved = {}
  BY UnitKinds DEF Init, Holding
<1>2. \A k \in Kinds : View(k) = {}
  BY <1>1 DEF View, Newest
<1>3. Values = [k \in Kinds |-> {}]
  BY <1>2 DEF Values
<1> QED
  BY <1>3 DEF Values, Init, Registers!Init

\* A call of append_record offers a record.
LEMMA AppendMaps ==
  ASSUME IInv, NEW r \in Record, Append(r)
  PROVE  Registers!Next
<1>1. incoming = None /\ incoming' = r /\ ever' = ever \union {r} /\ UNCHANGED <<faults, lossy>>
  BY DEF Append
<1>2. Values' = Values
  BY AppendView DEF Values
<1>3. Registers!Offer
  BY <1>1, <1>2 DEF Registers!Offer, Values
<1> QED
  BY <1>3 DEF Registers!Next

\* After a cut compaction, or from then on, the registers hold offered records or nothing.
LEMMA UnsureMaps ==
  ASSUME IInv', lossy', incoming' = None, ever' = ever,
         faults' \in {faults, faults + 1}, ~lossy => faults' = faults + 1, faults \in Nat
  PROVE  Registers!Next
<1>1. \A k \in Kinds : View(k)' = {} \/ \E r \in ever : r.kind = k /\ View(k)' = {r}
  BY ViewOfferedNext DEF RegistersOffered
<1>2. DOMAIN Values' = Kinds /\ \A k \in Kinds : Values'[k] = View(k)'
  BY DEF Values
<1>3. Registers!Unsure
  BY <1>1, <1>2 DEF Registers!Unsure, Registers!OfKind, Values
<1> QED
  BY <1>3 DEF Registers!Next

\* The end of a write commits it.
LEMMA WrittenMaps ==
  ASSUME incoming.kind \in Kinds,
         \A j \in Kinds : View(j)' = IF j = incoming.kind THEN {incoming} ELSE View(j)
  PROVE  Values' = [Values EXCEPT ![incoming.kind] = {incoming}]
  BY DEF Values

\* A record programmed whole is a write of its register, or of an unsure journal a step
\* the registers allow anyway.
LEMMA ProgramMaps ==
  ASSUME IInv, IInv', Program
  PROVE  Registers!Next
<1>1. /\ incoming # None /\ ~erasing /\ saved = {} /\ saved' = {} /\ incoming' = None
      /\ journal' = [journal EXCEPT ![at] = incoming] /\ UNCHANGED <<ever, faults, lossy>>
  BY DEF Program
<1>2. CASE lossy
  BY <1>1, <1>2, UnsureMaps DEF IInv, TypeOK
<1>3. CASE ~lossy
  <2>1. incoming.kind \in Kinds
    BY <1>1, <1>3, ProgramPlace
  <2>2. \A j \in Kinds : View(j)' = IF j = incoming.kind THEN {incoming} ELSE View(j)
    BY <1>1, <1>3, ProgramView
  <2>3. Values' = [Values EXCEPT ![incoming.kind] = {incoming}]
    BY <2>1, <2>2, WrittenMaps
  <2>4. Registers!Commit
    BY <1>1, <2>3 DEF Registers!Commit, Registers!Written, Values
  <2> QED
    BY <2>4 DEF Registers!Next
<1> QED
  BY <1>2, <1>3

\* A record cut short while it is programmed leaves its register as it was or unsure.
LEMMA ProgramCutMaps ==
  ASSUME IInv, IInv', ProgramCut
  PROVE  Registers!Next
<1>1. /\ incoming # None /\ ~erasing /\ incoming' = None /\ faults' = faults + 1
      /\ UNCHANGED ever /\ lossy' = (lossy \/ saved # {})
  BY DEF ProgramCut, GiveUp
<1>2. CASE lossy'
  BY <1>1, <1>2, UnsureMaps DEF IInv, TypeOK
<1>3. CASE ~lossy'
  <2>1. ~lossy /\ UNCHANGED lossy
    BY <1>1, <1>3 DEF IInv, TypeOK
  <2>2. incoming.kind \in Kinds
    BY <1>1, <2>1, ProgramPlace
  <2>3. \/ \A j \in Kinds : View(j)' = View(j)
        \/ \A j \in Kinds : View(j)' = IF j = incoming.kind THEN {incoming} ELSE View(j)
    BY <1>3, ProgramCutView DEF Kinds
  <2>4. Values' = Values \/ Values' = [Values EXCEPT ![incoming.kind] = {incoming}]
    BY <2>2, <2>3, WrittenMaps DEF Values
  <2>5. Registers!Fail
    BY <1>1, <2>1, <2>4 DEF Registers!Fail, Registers!Written, Values
  <2> QED
    BY <2>5 DEF Registers!Next
<1> QED
  BY <1>2, <1>3

\* Every step of the journal is a step of the registers, or changes nothing they show.
LEMMA NextMaps ==
  ASSUME IInv, IInv', [Next]_vars
  PROVE  [Registers!Next]_(Registers!vars)
<1>1. ASSUME NEW r \in Record, Append(r)
      PROVE  Registers!Next
  BY <1>1, AppendMaps
<1>2. CASE WriteSetting
  <2>1. \A k \in {"cal", "pref"} : Setting(k) \in Record
    BY DEF IInv, TypeOK, Setting, Record, Kinds
  <2> QED
    BY <1>1, <1>2, <2>1 DEF WriteSetting
<1>3. CASE NoteLaunch \/ (~Trusted /\ Append(Boot(TRUE)))
  <2>1. \A p \in BOOLEAN : Boot(p) \in Record
    BY DEF IInv, TypeOK, Boot, Record, Kinds
  <2> QED
    BY <1>1, <1>3, <2>1 DEF NoteLaunch
<1>4. CASE Erase
  BY <1>4, EraseView, StutterMaps DEF Erase
<1>5. CASE Copy
  BY <1>5, CopyView, StutterMaps DEF Copy, history
<1>6. CASE Program
  BY <1>6, ProgramMaps
<1>7. CASE EraseCut
  BY <1>7, UnsureMaps DEF EraseCut, GiveUp, IInv, TypeOK
<1>8. CASE ProgramCut
  BY <1>8, ProgramCutMaps
<1>9. CASE MarkAlreadyProven \/ Flash \/ UNCHANGED vars
  <2>1. UNCHANGED <<log, faults, ever, lossy>>
    BY <1>9 DEF MarkAlreadyProven, Flash, vars, history
  <2>2. \A k \in Kinds : View(k)' = View(k)
    BY <2>1 DEF log, View, Newest, Holding
  <2> QED
    BY <2>1, <2>2, StutterMaps DEF log
<1> QED
  BY <1>2, <1>3, <1>4, <1>5, <1>6, <1>7, <1>8, <1>9 DEF Next, MarkProven

\* The journal is three atomic registers: a torn append leaves the old value or the new one, a
\* compaction that runs to its end changes nothing, and one that is cut short invents nothing.
THEOREM JournalIsRegisters == Spec => ImplementsSettings
<1>1. Init => Registers!Init
  BY InitMaps
<1>2. IInv /\ IInv' /\ [Next]_vars => [Registers!Next]_(Registers!vars)
  BY NextMaps
<1> QED
  BY <1>1, <1>2, Inductive, PTL DEF Spec, ImplementsSettings, Registers!Spec

-----------------------------------------------------------------------------
(* An erasure pays for Slots - 3 appends *)

\* What the erasures before the last, and all of them, should have been paid with.
Paid == (erases - 1) * (Slots - 3)
Due == erases * (Slots - 3)

\* The units in use, and what is still to be copied.
InUse == {i \in Slot : journal[i] # Erased}
Load == Cardinality(InUse) + Cardinality(saved)
Owing == IF incoming = None THEN 0 ELSE 1

\* Each unit in use beyond the three copies was an append, and a block is erased full.
Budget ==
  ~lossy =>
    /\ erasing => Due + 1 <= writes
    /\ erases # 0 => Paid + 1 <= writes
    /\ erases # 0 /\ ~erasing => Paid + (Load - 3) + Owing <= writes

\* One more erasure is due one more block.
LEMMA DueIsPaid ==
  ASSUME erases \in Nat
  PROVE  /\ Due \in Nat /\ Paid \in Int /\ Due = Paid + (Slots - 3)
         /\ erases = 0 => Due = 0
         /\ erases' = erases + 1 => Paid' = Due /\ Due' = Due + (Slots - 3)
         /\ erases' = erases => Paid' = Paid /\ Due' = Due
  BY DEF Due, Paid

\* The block and what is held of it are finite.
LEMMA Counts ==
  ASSUME IInv
  PROVE  /\ IsFiniteSet(InUse) /\ Cardinality(InUse) \in Nat
         /\ IsFiniteSet(saved) /\ Cardinality(saved) \in 0..3
PROOF
<1>1. IsFiniteSet(Slot) /\ InUse \subseteq Slot
  BY FS_Interval DEF InUse, Slot
<1>2. IsFiniteSet(InUse) /\ Cardinality(InUse) \in Nat
  BY <1>1, FS_Subset, FS_CardinalityType
<1> DEFINE Of(k) == {r \in saved : r.kind = k}
<1>3. ASSUME NEW k \in Kinds PROVE IsFiniteSet(Of(k)) /\ Cardinality(Of(k)) \in {0, 1}
  <2>1. CASE Of(k) = {}
    BY <2>1, FS_EmptySet
  <2>2. CASE Of(k) # {}
    <3>1. PICK r : Of(k) = {r}
      BY <2>2 DEF IInv, OneCopyEach
    <3> QED
      BY <3>1, FS_Singleton
  <2> QED
    BY <2>1, <2>2
<1>4. saved = Of("boot") \union (Of("cal") \union Of("pref"))
  BY UnitKinds DEF IInv, TypeOK, Kinds
<1>5. /\ IsFiniteSet(Of("boot")) /\ Cardinality(Of("boot")) \in {0, 1}
      /\ IsFiniteSet(Of("cal")) /\ Cardinality(Of("cal")) \in {0, 1}
      /\ IsFiniteSet(Of("pref")) /\ Cardinality(Of("pref")) \in {0, 1}
  BY <1>3 DEF Kinds
<1> HIDE DEF Of
<1>6. IsFiniteSet(Of("cal") \union Of("pref")) /\ Cardinality(Of("cal") \union Of("pref")) \in 0..2
  <2>1. IsFiniteSet(Of("cal") \union Of("pref")) /\ IsFiniteSet(Of("cal") \cap Of("pref"))
    BY <1>5, FS_Union, FS_Intersection
  <2>2. Cardinality(Of("cal") \union Of("pref"))
          = Cardinality(Of("cal")) + Cardinality(Of("pref")) - Cardinality(Of("cal") \cap Of("pref"))
    BY <1>5, FS_Union
  <2>3. /\ Cardinality(Of("cal") \union Of("pref")) \in Nat
        /\ Cardinality(Of("cal") \cap Of("pref")) \in Nat
    BY <2>1, FS_CardinalityType
  <2> QED
    BY <1>5, <2>1, <2>2, <2>3
<1>7. IsFiniteSet(saved) /\ Cardinality(saved) \in 0..3
  <2> DEFINE rest == Of("cal") \union Of("pref")
  <2>1. IsFiniteSet(rest) /\ Cardinality(rest) \in 0..2
    BY <1>6
  <2> HIDE DEF rest
  <2>2. IsFiniteSet(saved) /\ IsFiniteSet(Of("boot") \cap rest)
    BY <1>4, <1>5, <2>1, FS_Union, FS_Intersection DEF rest
  <2>3. Cardinality(saved) = Cardinality(Of("boot")) + Cardinality(rest) - Cardinality(Of("boot") \cap rest)
    BY <1>4, <1>5, <2>1, FS_Union DEF rest
  <2>4. Cardinality(saved) \in Nat /\ Cardinality(Of("boot") \cap rest) \in Nat
    BY <2>2, FS_CardinalityType
  <2> QED
    BY <1>5, <2>1, <2>2, <2>3, <2>4
<1> QED
  BY <1>2, <1>7

\* Programming an erased unit takes one more into use.
LEMMA UseOne ==
  ASSUME IInv, at \in Slot, journal[at] = Erased, NEW u \in Unit,
         journal' = [journal EXCEPT ![at] = u]
  PROVE  /\ u # Erased => Cardinality(InUse') = Cardinality(InUse) + 1
         /\ u = Erased => Cardinality(InUse') = Cardinality(InUse)
PROOF
<1>1. journal'[at] = u /\ \A i \in Slot : i # at => journal'[i] = journal[i]
  BY DEF IInv, TypeOK
<1>2. CASE u = Erased
  BY <1>1, <1>2 DEF InUse
<1>3. CASE u # Erased
  <2>1. InUse' = InUse \union {at} /\ at \notin InUse
    BY <1>1, <1>3 DEF InUse
  <2> QED
    BY <1>3, <2>1, Counts, FS_AddElement
<1> QED
  BY <1>2, <1>3

\* What is left to copy after an erasure is covered by the append that filled the block.
LEMMA AfterErase ==
  ASSUME NEW p \in Int, NEW l \in Int, NEW o \in Int, NEW w \in Int, l <= 3, o <= 1, p + 1 <= w
  PROVE  p + (l - 3) + o <= w
  OBVIOUS

\* A step that makes no more of the load leaves it paid.
LEMMA StillPaid ==
  ASSUME NEW p \in Int, NEW l \in Int, NEW m \in Int, NEW o \in Int, NEW q \in Int, NEW w \in Int,
         m + q <= l + o, p + (l - 3) + o <= w
  PROVE  p + (m - 3) + q <= w
  OBVIOUS

\* A full block has been paid for when its erasure begins.
LEMMA AppendBudget ==
  ASSUME IInv, Budget, NEW r \in Record, Append(r)
  PROVE  Budget'
PROOF
<1>1. /\ incoming = None /\ saved = {} /\ ~erasing /\ incoming' = r /\ r # None
      /\ UNCHANGED <<journal, erases, lossy>> /\ writes' = writes + 1
  BY DEF IInv, RestsEmpty, Append
<1>2. erases \in Nat /\ writes \in Nat
  BY DEF IInv, TypeOK
<1>3. InUse' = InUse /\ Cardinality(InUse) \in Nat
  BY <1>1, Counts DEF InUse
<1>4. /\ Paid' = Paid /\ Due' = Due /\ Due \in Nat /\ Paid \in Int /\ Due = Paid + (Slots - 3)
      /\ erases = 0 => Due = 0
  BY <1>1, <1>2, DueIsPaid
<1>5. Cardinality(saved) = 0
  BY <1>1, FS_EmptySet
<1>6. SUFFICES ASSUME ~lossy PROVE Budget'
  BY <1>1 DEF Budget
<1>7. erases # 0 => Paid + (Cardinality(InUse) - 3) <= writes /\ Paid + 1 <= writes
  BY <1>1, <1>3, <1>4, <1>5, <1>6 DEF Budget, Load, Owing
<1>8. CASE Blank = {}
  <2>1. InUse = 1..Slots
    BY <1>8 DEF InUse, Blank, Slot
  <2>2. Cardinality(InUse) = Slots
    BY <2>1, FS_Interval
  <2>3. erasing' = TRUE
    BY <1>8 DEF Append
  <2> QED
    BY <1>1, <1>2, <1>4, <1>7, <2>2, <2>3 DEF Budget
<1>9. CASE Blank # {}
  <2>1. erasing' = FALSE /\ saved' = {}
    BY <1>1, <1>9 DEF Append
  <2>2. Load' = Cardinality(InUse) /\ Owing' = 1
    BY <1>1, <1>3, <1>5, <2>1 DEF Load, Owing
  <2> QED
    BY <1>1, <1>2, <1>3, <1>4, <1>7, <2>1, <2>2 DEF Budget
<1> QED
  BY <1>8, <1>9

\* The erasure leaves three copies to be made at most.
LEMMA EraseBudget ==
  ASSUME IInv, Budget, Erase
  PROVE  Budget'
PROOF
<1>1. /\ erasing /\ ~erasing' /\ erases' = erases + 1
      /\ UNCHANGED <<incoming, saved, lossy, writes>>
      /\ \A i \in Slot : journal'[i] = Erased
  BY DEF Erase
<1>2. erases \in Nat /\ writes \in Nat
  BY DEF IInv, TypeOK
<1>3. Paid' = Due /\ Due \in Nat
  BY <1>1, <1>2, DueIsPaid
<1>4. Load' \in 0..3 /\ Owing' \in {0, 1}
  <2>1. InUse' = {}
    BY <1>1 DEF InUse
  <2>2. Cardinality(InUse') = 0
    BY <2>1, FS_EmptySet
  <2> QED
    BY <1>1, <2>2, Counts DEF Load, Owing
<1>5. ~lossy => Due + 1 <= writes
  BY <1>1 DEF Budget
<1>6. writes' = writes /\ lossy' = lossy
  BY <1>1
<1>7. ~lossy => Paid' + 1 <= writes' /\ Paid' + (Load' - 3) + Owing' <= writes'
  <2> SUFFICES ASSUME ~lossy PROVE Paid' + 1 <= writes' /\ Paid' + (Load' - 3) + Owing' <= writes'
    OBVIOUS
  <2> HIDE DEF Paid, Due, Load, Owing
  <2>1. Paid' + 1 <= writes'
    BY <1>3, <1>5, <1>6
  <2>2. /\ Load' \in Int /\ Load' <= 3 /\ Owing' \in Int /\ Owing' <= 1
        /\ Paid' \in Int /\ writes' \in Int
    BY <1>2, <1>3, <1>4, <1>6
  <2>3. Paid' + (Load' - 3) + Owing' <= writes'
    BY <2>1, <2>2, AfterErase, Zenon
  <2> QED
    BY <2>1, <2>3
<1> QED
  BY <1>1, <1>6, <1>7 DEF Budget

\* A copy takes a unit and leaves RAM.
LEMMA CopyBudget ==
  ASSUME IInv, Budget, Copy
  PROVE  Budget'
PROOF
<1>1. PICK r \in saved : journal' = [journal EXCEPT ![at] = r] /\ saved' = saved \ {r}
  BY DEF Copy
<1>2. ~erasing /\ UNCHANGED <<erasing, incoming, erases, writes, lossy>>
  BY DEF Copy, history
<1>3. Cardinality(InUse') = Cardinality(InUse) + 1
  <2>1. at \in Slot /\ journal[at] = Erased /\ r \in Unit /\ r # Erased
    BY <1>2, CopyPlace, UnitKinds DEF Unit
  <2> QED
    BY <1>1, <2>1, UseOne
<1>4. Cardinality(saved') = Cardinality(saved) - 1
  BY <1>1, Counts, FS_RemoveElement
<1>5. Load' = Load
  BY <1>3, <1>4, Counts DEF Load
<1>6. Paid' = Paid /\ Due' = Due /\ Owing' = Owing
  BY <1>2 DEF Paid, Due, Owing
<1> QED
  BY <1>2, <1>5, <1>6 DEF Budget

\* The new record takes a unit for its append, or a cut leaves it out.
LEMMA ProgramBudget ==
  ASSUME IInv, Budget, incoming # None, incoming' = None, ~erasing, saved = {}, saved' = {},
         NEW u \in Unit, journal' = [journal EXCEPT ![at] = u],
         UNCHANGED <<erasing, erases, writes, lossy>>
  PROVE  Budget'
PROOF
<1>1. at \in Slot /\ journal[at] = Erased
  BY DEF IInv, AtFirstBlank
<1>2. Cardinality(InUse') <= Cardinality(InUse) + 1 /\ Cardinality(InUse') \in Nat
      /\ Cardinality(InUse) \in Nat
  <2>1. Cardinality(InUse) \in Nat
    BY Counts
  <2>2. CASE u = Erased
    <3>1. Cardinality(InUse') = Cardinality(InUse)
      BY <1>1, <2>2, UseOne
    <3> QED
      BY <2>1, <3>1
  <2>3. CASE u # Erased
    <3>1. Cardinality(InUse') = Cardinality(InUse) + 1
      BY <1>1, <2>3, UseOne
    <3> QED
      BY <2>1, <3>1
  <2> QED
    BY <2>1, <2>2, <2>3
<1>3. Load' + Owing' <= Load + Owing /\ Load' \in Int /\ Load \in Int /\ Owing' = 0 /\ Owing = 1
  <2>1. Cardinality(saved) = 0 /\ Cardinality(saved') = 0
    BY FS_EmptySet
  <2> QED
    BY <1>2, <2>1 DEF Load, Owing
<1>4. Paid' = Paid /\ Due' = Due /\ Paid \in Int /\ Due \in Nat /\ writes \in Nat
      /\ writes' = writes /\ erases' = erases /\ lossy' = lossy /\ ~erasing'
  BY DueIsPaid DEF IInv, TypeOK
<1>5. ASSUME ~lossy
      PROVE  /\ erases # 0 => Paid + 1 <= writes
             /\ erases # 0 => Paid + (Load - 3) + Owing <= writes
  BY <1>5 DEF Budget
<1> HIDE DEF Load, Owing, Paid, Due
<1>6. Paid + (Load - 3) + Owing <= writes => Paid' + (Load' - 3) + Owing' <= writes'
  <2>1. Load' + Owing' <= Load + Owing
    BY <1>3
  <2>2. /\ Load' \in Int /\ Load \in Int /\ Owing' \in Int /\ Owing \in Int
        /\ Paid \in Int /\ writes \in Int
    BY <1>3, <1>4
  <2>3. ASSUME Paid + (Load - 3) + Owing <= writes
        PROVE  Paid + (Load' - 3) + Owing' <= writes
    BY <2>1, <2>2, <2>3, StillPaid, Zenon
  <2> QED
    BY <1>4, <2>3
<1> QED
  BY <1>4, <1>5, <1>6 DEF Budget

\* Every step keeps the account.
LEMMA NextBudget == IInv /\ Budget /\ [Next]_vars => Budget'
PROOF
<1> SUFFICES ASSUME IInv, Budget, [Next]_vars PROVE Budget'
  OBVIOUS
<1>1. CASE WriteSetting
  <2>1. PICK k \in {"cal", "pref"} : Append(Setting(k))
    BY <1>1 DEF WriteSetting
  <2>2. Setting(k) \in Record
    BY DEF IInv, TypeOK, Setting, Record, Kinds
  <2> QED
    BY <2>1, <2>2, AppendBudget
<1>2. ASSUME NEW p \in BOOLEAN, Append(Boot(p)) PROVE Budget'
  <2>1. Boot(p) \in Record
    BY DEF IInv, TypeOK, Boot, Record, Kinds
  <2> QED
    BY <1>2, <2>1, AppendBudget
<1>3. ASSUME UNCHANGED <<journal, saved, erasing, incoming, erases, writes, lossy>> PROVE Budget'
  BY <1>3 DEF Budget, Paid, Due, Load, InUse, Owing
<1>4. CASE NoteLaunch
  BY <1>2, <1>4 DEF NoteLaunch
<1>5. CASE MarkProven
  BY <1>2, <1>3, <1>5 DEF MarkProven, MarkAlreadyProven, log
<1>6. CASE Program
  <2>1. incoming \in Unit /\ saved' = {}
    BY <1>6 DEF Program, IInv, TypeOK, Unit
  <2> QED
    BY <1>6, <2>1, ProgramBudget DEF Program
<1>7. CASE EraseCut
  BY <1>7 DEF EraseCut, Budget
<1>8. CASE ProgramCut
  <2>1. CASE saved = {}
    <3>1. PICK u \in {Erased, Torn, incoming} : journal' = [journal EXCEPT ![at] = u]
      BY <1>8, <2>1 DEF ProgramCut
    <3>2. u \in Unit
      BY <1>8 DEF ProgramCut, IInv, TypeOK, Unit
    <3>3. /\ incoming # None /\ incoming' = None /\ ~erasing /\ erasing' = FALSE /\ saved' = {}
          /\ UNCHANGED <<erases, writes>>
      BY <1>8 DEF ProgramCut, GiveUp
    <3>4. lossy' = lossy /\ erasing' = erasing
      <4>1. lossy \in BOOLEAN /\ lossy' = (lossy \/ saved # {})
        BY <1>8 DEF ProgramCut, IInv, TypeOK
      <4> QED
        BY <2>1, <3>3, <4>1 DEF IInv, TypeOK
    <3> QED
      BY <2>1, <3>1, <3>2, <3>3, <3>4, ProgramBudget
  <2>2. CASE saved # {}
    BY <1>8, <2>2 DEF ProgramCut, Budget
  <2> QED
    BY <2>1, <2>2
<1>9. CASE Flash
  BY <1>3, <1>9 DEF Flash, log
<1>10. CASE UNCHANGED vars
  BY <1>3, <1>10 DEF vars, log, history
<1> QED
  BY <1>1, <1>4, <1>5, <1>6, <1>7, <1>8, <1>9, <1>10, EraseBudget, CopyBudget DEF Next

\* Code flash is not worn out (src/common/persist.c): an erasure pays for Slots - 3
\* appends, in a block of any size, whatever was in it and whatever append is torn, as
\* long as no compaction is cut short.
THEOREM ErasuresAreRare == Spec => []ErasesAreRare
PROOF
<1>1. Init => Budget
  BY DEF Init, Budget
<1>2. IInv /\ Budget => ErasesAreRare
  BY DueIsPaid DEF Budget, ErasesAreRare, Paid, IInv, TypeOK
<1> QED
  BY <1>1, <1>2, NextBudget, Inductive, PTL DEF Spec
=============================================================================
