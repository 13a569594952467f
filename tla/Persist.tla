------------------------------ MODULE Persist -------------------------------
(***************************************************************************)
(* The settings journal of src/common/persist.c in one erase block of code *)
(* flash (src/boot/flash_faci.c).  Three kinds of record share it: boot    *)
(* trust, touch calibration and the brightness preference.  A record is    *)
(* appended to the first erased unit, the last valid one of its kind is    *)
(* the one read, and a full block is compacted: the newest of each kind    *)
(* are read into RAM, the block is erased and they are programmed again.   *)
(*                                                                         *)
(* Each flash operation is an action, because the power can go during any  *)
(* of them.  To the flash a failed operation and a power cut look alike,   *)
(* and both make append_record return without finishing: one action stands *)
(* for either.  Of a boot record the model keeps the image it names and    *)
(* whether it says proven; of the others, which write made them.           *)
(***************************************************************************)
EXTENDS Integers, FiniteSets

CONSTANTS
  Slots,       \* FLASH_RECORD_SLOTS
  Images,      \* application images, by CRC and length
  None,        \* no record; also the image of a record that names none
  Remnants,    \* sets of units a new device may find written by the stock firmware
  MaxWrites,   \* bound on records appended
  MaxFaults,   \* bound on flash errors and power cuts
  MaxFlashes   \* bound on application updates

Kinds == {"boot", "cal", "pref"}

ASSUME SlotsAssumption == Slots \in Nat /\ Slots > 3
ASSUME ImagesAssumption == Images # {} /\ None \notin Images
ASSUME BoundsAssumption == MaxWrites \in Nat /\ MaxFaults \in Nat /\ MaxFlashes \in Nat

Slot == 1..Slots

ASSUME RemnantsAssumption == Remnants \subseteq SUBSET Slot

Record == [kind: Kinds, seq: Nat, image: Images \union {None}, proven: BOOLEAN]
Erased == [kind |-> "erased", seq |-> 0, image |-> None, proven |-> FALSE]
Torn == [kind |-> "torn", seq |-> 0, image |-> None, proven |-> FALSE]

ASSUME NoneAssumption == None \notin Record

VARIABLES
  journal,     \* the program units of the block
  incoming,    \* the record append_record was called with, None between calls
  saved,       \* the newest records read into RAM and not programmed again yet
  erasing,     \* the block is about to be erased
  at,          \* the unit to be programmed next
  image,       \* the application in flash
  \* History:
  writes,      \* records appended so far
  erases,      \* erasures so far
  faults,      \* errors and power cuts so far
  flashes,     \* application updates so far
  ever,        \* every record append_record was ever called with
  lossy,       \* a compaction has been cut short
  vouched      \* persist_mark_proven has returned FLASH_OK for the image now installed

log == <<journal, incoming, saved, erasing, at>>
history == <<writes, erases, faults, flashes, ever, lossy, vouched>>
vars == <<log, image, history>>

Holding(k) == {i \in Slot : journal[i].kind = k}

\* Variant: the scan stops at the first unit that holds no record.
NewestUpToGap(k) ==
  {journal[i] : i \in {i \in Holding(k) :
    /\ \A j \in Slot : j < i => journal[j] \in Record
    /\ \A j \in Holding(k) : j <= i \/ \E g \in Slot : g < j /\ journal[g] \notin Record}}

\* The last valid record of a kind: a set of one, or of none.
Newest(k) == {journal[i] : i \in {i \in Holding(k) : \A j \in Holding(k) : j <= i}}

\* Variant: the last units are kept free for the copies of a compaction.
BlankWithReserve == {i \in Slot : journal[i] = Erased /\ i <= Slots - 3}

Blank == {i \in Slot : journal[i] = Erased}
FirstBlank(i) == i \in Blank /\ \A j \in Blank : i <= j

-----------------------------------------------------------------------------
(* append_record, up to its first flash operation *)

Survivors == Newest("boot") \union Newest("cal") \union Newest("pref")

Append(r) ==
  /\ incoming = None /\ writes < MaxWrites
  /\ incoming' = r
  /\ \/ /\ Blank = {}
        /\ erasing' = TRUE
        /\ saved' = Survivors
        /\ at' = at
     \/ /\ \E i \in Blank : FirstBlank(i) /\ at' = i
        /\ UNCHANGED <<erasing, saved>>
  /\ writes' = writes + 1
  /\ ever' = ever \union {r}
  /\ UNCHANGED <<journal, image, erases, faults, flashes, lossy, vouched>>

Setting(k) == [kind |-> k, seq |-> writes + 1, image |-> None, proven |-> FALSE]
Boot(p) == [kind |-> "boot", seq |-> writes + 1, image |-> image, proven |-> p]

Matches(r) == r.image = image
Trusted == \E r \in Newest("boot") : Matches(r) /\ r.proven

WriteSetting == \E k \in {"cal", "pref"} : Append(Setting(k))

\* Variant: a launch is noted whatever the record says.
NoteEveryLaunch == Append(Boot(FALSE))

\* An image already trusted costs nothing; any other starts unproven.
NoteLaunch == ~Trusted /\ Append(Boot(FALSE))

MarkAlreadyProven ==
  /\ incoming = None /\ Trusted
  /\ vouched' = TRUE
  /\ UNCHANGED <<log, image, writes, erases, faults, flashes, ever, lossy>>

MarkProven == MarkAlreadyProven \/ (~Trusted /\ Append(Boot(TRUE)))

-----------------------------------------------------------------------------
(* append_record, one flash operation at a time *)

\* Variant: the index is left where the search ended.
EraseInPlace ==
  /\ erasing
  /\ journal' = [i \in Slot |-> Erased]
  /\ erasing' = FALSE
  /\ erases' = erases + 1
  /\ UNCHANGED <<incoming, saved, at, image, writes, faults, flashes, ever, lossy, vouched>>

Erase ==
  /\ erasing
  /\ journal' = [i \in Slot |-> Erased]
  /\ erasing' = FALSE
  /\ at' = 1
  /\ erases' = erases + 1
  /\ UNCHANGED <<incoming, saved, image, writes, faults, flashes, ever, lossy, vouched>>

\* The copies go first, boot trust before calibration before preference.
Copied(r) ==
  /\ r \in saved
  /\ r.kind = "cal" => \A s \in saved : s.kind # "boot"
  /\ r.kind = "pref" => saved = {r}

Copy ==
  /\ ~erasing
  /\ \E r \in saved :
       /\ Copied(r)
       /\ journal' = [journal EXCEPT ![at] = r]
       /\ saved' = saved \ {r}
  /\ at' = at + 1
  /\ UNCHANGED <<incoming, erasing, image, history>>

Program ==
  /\ incoming # None /\ ~erasing /\ saved = {}
  /\ journal' = [journal EXCEPT ![at] = incoming]
  /\ at' = at + 1
  /\ incoming' = None
  /\ vouched' = (vouched \/ incoming.proven)
  /\ UNCHANGED <<saved, erasing, image, writes, erases, faults, flashes, ever, lossy>>

GiveUp ==
  /\ faults < MaxFaults /\ faults' = faults + 1
  /\ incoming' = None /\ saved' = {} /\ erasing' = FALSE
  /\ UNCHANGED <<at, image, writes, flashes, ever, vouched>>

\* An erasure cut short leaves each unit as it was, erased, or neither.
EraseCut ==
  /\ erasing /\ GiveUp
  /\ \E kept \in SUBSET Slot : \E torn \in SUBSET (Slot \ kept) :
       journal' = [i \in Slot |-> IF i \in kept THEN journal[i]
                                  ELSE IF i \in torn THEN Torn ELSE Erased]
  /\ erases' = erases + 1
  /\ lossy' = TRUE

\* So does a unit's programming, or it is complete and the error came afterwards.
ProgramCut ==
  /\ incoming # None /\ ~erasing /\ GiveUp
  /\ \E r \in {s \in saved : Copied(s)} \union (IF saved = {} THEN {incoming} ELSE {}) :
       \E u \in {Erased, Torn, r} : journal' = [journal EXCEPT ![at] = u]
  /\ lossy' = (lossy \/ saved # {})
  /\ UNCHANGED erases

\* The bootloader replaces the application; the journal is not in its region.
Flash ==
  /\ incoming = None
  /\ flashes < MaxFlashes /\ flashes' = flashes + 1
  /\ image' \in Images \ {image}
  /\ vouched' = FALSE
  /\ UNCHANGED <<log, writes, erases, faults, ever, lossy>>

-----------------------------------------------------------------------------
\* The block may hold remnants of the stock firmware, which are no records.
Init ==
  /\ \E R \in Remnants : journal = [i \in Slot |-> IF i \in R THEN Torn ELSE Erased]
  /\ incoming = None /\ saved = {} /\ erasing = FALSE /\ at = 1
  /\ image \in Images
  /\ writes = 0 /\ erases = 0 /\ faults = 0 /\ flashes = 0
  /\ ever = {} /\ lossy = FALSE /\ vouched = FALSE

Next ==
  \/ WriteSetting \/ NoteLaunch \/ MarkProven
  \/ Erase \/ Copy \/ Program \/ EraseCut \/ ProgramCut
  \/ Flash

Spec == Init /\ [][Next]_vars

-----------------------------------------------------------------------------
(* Properties *)

\* What a register holds: in RAM during a compaction, in flash otherwise.
View(k) ==
  IF \E r \in saved : r.kind = k THEN {r \in saved : r.kind = k} ELSE Newest(k)

TypeOK ==
  /\ journal \in [Slot -> Record \union {Erased, Torn}]
  /\ incoming \in Record \union {None}
  /\ saved \subseteq Record
  /\ erasing \in BOOLEAN /\ lossy \in BOOLEAN /\ vouched \in BOOLEAN
  /\ at \in Nat /\ image \in Images
  /\ writes \in Nat /\ erases \in Nat /\ faults \in Nat /\ flashes \in Nat
  /\ ever \subseteq Record

\* The unit about to be programmed is an erased one.  Flash cannot be written twice, and the
\* index comes from a search in one case and from a count of copies in the other.
OnlyErasedProgrammed ==
  incoming # None /\ ~erasing => at \in Slot /\ journal[at] = Erased

\* An erasure pays for Slots - 3 appends, which is what makes code flash bearable as a store:
\* the copies of a compaction, torn units and foreign remnants never bring it on sooner.
ErasesAreRare ==
  ~lossy => erases = 0 \/ (erases - 1) * (Slots - 3) < writes

\* Once persist_mark_proven has reported success, the installed image stays trusted through any
\* number of other writes, launches and compactions, until another image is flashed.
VouchedIsTrusted ==
  vouched /\ ~lossy => \E r \in View("boot") : r.proven /\ Matches(r)

Registers == INSTANCE Settings WITH
  Records <- Record,
  value <- [k \in Kinds |-> View(k)],
  offered <- incoming,
  sure <- ~lossy

\* The journal is three independent registers, written atomically: an append torn at any byte
\* leaves the old value or the new one, and a compaction that runs to its end changes nothing.
\* After one that was cut short a register is empty or holds something once written to it.
ImplementsSettings == Registers!Spec
=============================================================================
