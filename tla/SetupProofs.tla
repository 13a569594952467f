---------------------------- MODULE SetupProofs ----------------------------
(***************************************************************************)
(* Proofs about the settings views and the touch calibration, for every    *)
(* even number of pots, every number of gains and gestures, every length   *)
(* of their intervals, and any number of failing transfers and saves,      *)
(* power cuts and strokes.                                                 *)
(***************************************************************************)
EXTENDS Setup, FiniteSetTheorems, WellFoundedInduction, TLAPS

-----------------------------------------------------------------------------
(* The inductive invariant. *)

Phases == {"IDLE", "COMPLETE", "FAILED"} \union Running
Measurement == [phase : Phases, pot : Knobs, selected_mask : SUBSET Knobs, cycle : Nat,
                noise : Nat, min_touch : Nat, peak : Nat, gain_step : Nat, saw_move : BOOLEAN,
                validating : BOOLEAN, left : Int, held : Int]
Configs == [Knobs -> Setting]
Sensors == [chip : Configs, pot_config : Configs]
Records == [valid : SUBSET Knobs, config : Configs]

\* A pot that is set up otherwise than the panel believes is one the
\* calibration is at or has still to come to.
Ahead(run, s, c, u) ==
  \A p \in Knobs \ u :
    s.chip[p] # c[p] =>
      /\ p = run.pot \/ (p \in run.selected_mask /\ run.pot < p)
      /\ run.phase \in Running \/ (run.phase = "FAILED" /\ p # run.pot)

FlashIsKept ==
  kept # None => /\ OnRecord.valid = kept.valid
                 /\ \A p \in kept.valid : OnRecord.config[p] = kept.config[p]

MeasureTyped ==
  /\ cal \in Measurement /\ sensor \in Sensors
  /\ valid_mask \in SUBSET Knobs /\ config \in Configs
  /\ unsure \in SUBSET Knobs

SavesTyped ==
  /\ record \in Records \union {None} /\ kept \in Records \union {None}
  /\ missing \in SUBSET Knobs

TrialsAreAhead == Ahead(cal, sensor, config, unsure)

CyclesLeft == cal.validating \/ cal.cycle < Cycles

\* What the calibration, the part and the flash keep.
Measured ==
  /\ MeasureTyped /\ SavesTyped
  /\ TrialsAreAhead /\ CheckedIsSaved /\ CyclesLeft
  /\ CompleteIsSaved /\ FlashIsKept /\ KeptIsRun

Asked(kind) == pending_action.kind = kind
CalKinds == {"CALIBRATE", "CAL_RETRY", "CAL_DONE", "CAL_CANCEL", "RESTORE_DEFAULTS"}
Kinds == {"NONE", "REBOOT", "BRIGHTNESS_PREVIEW", "BRIGHTNESS_CANCEL", "BRIGHTNESS_SAVE"}
         \union CalKinds

\* What the interface asks for is still what the calibration can do: it is
\* started for one pot only while none is being measured.
ActionsAreFresh ==
  /\ mode \in Modes /\ handled \in Nat /\ pending_action.kind \in Kinds
  /\ system_selection \in 0..2
  /\ handled = Rest => Asked("NONE")
  /\ Asked("CALIBRATE") =>
       /\ mode = "CAL_RUN"
       /\ \/ pending_action.arg = Knobs /\ system_down /\ handled >= SystemOf
          \/ cal.phase = "IDLE" /\ \E k \in Knobs : pending_action.arg = {k}
  /\ Asked("CAL_CANCEL") => mode = "CAL_SELECT" /\ handled >= BackOf
  /\ Asked("CAL_DONE") =>
       mode = "CAL_SELECT" /\ handled >= SystemOf /\ cal.phase \in {"COMPLETE", "IDLE"}
  /\ mode # "CAL_RUN" => cal.phase = "IDLE" \/ Asked("CAL_CANCEL") \/ Asked("CAL_DONE")
  /\ mode = "CAL_RUN" /\ cal_phase = "COMPLETE" /\ ~system_down /\ handled < SystemOf =>
       cal.phase \in {"COMPLETE", "IDLE"}

\* While no brightness is tried the display has the saved one, or is about
\* to be given it.
LightIsKnown ==
  /\ brightness_saved \in {g_brightness_saved, BrightnessDefault}
  /\ Asked("BRIGHTNESS_PREVIEW") => mode = "BRIGHTNESS"
  /\ Asked("BRIGHTNESS_SAVE") => /\ mode = "BRIGHTNESS" /\ handled >= SystemOf
                                 /\ pending_action.arg = brightness_preview
  /\ Asked("BRIGHTNESS_CANCEL") =>
       /\ pending_action.arg = brightness_saved
       /\ \/ mode = "SYSTEM" /\ handled >= BackOf
          \/ mode = "REBOOT_WAIT" /\ handled >= SystemOf
  /\ mode # "BRIGHTNESS" /\ brightness_saved = g_brightness_saved =>
       backlight = g_brightness_saved \/ Asked("BRIGHTNESS_CANCEL")

IInv == Measured /\ ActionsAreFresh /\ LightIsKnown

-----------------------------------------------------------------------------
(* Numbers, pots and records. *)

\* The lesser and the greater of two numbers.
LEMMA OfTwo ==
  ASSUME NEW a \in Int, NEW b \in Int
  PROVE  /\ Min({a, b}) \in {a, b} /\ Min({a, b}) <= a /\ Min({a, b}) <= b
         /\ Max({a, b}) \in {a, b} /\ a <= Max({a, b}) /\ b <= Max({a, b})
PROOF
<1>1. \E x \in {a, b} : \A y \in {a, b} : x <= y
  OBVIOUS
<1>2. \E x \in {a, b} : \A y \in {a, b} : x >= y
  OBVIOUS
<1> QED
  BY <1>1, <1>2 DEF Min, Max

\* Of two naturals, both are naturals.
LEMMA OfTwoNaturals ==
  ASSUME NEW a \in Nat, NEW b \in Nat
  PROVE  Min({a, b}) \in Nat /\ Max({a, b}) \in Nat
BY OfTwo

\* A set of numbers that is not empty has a least one.
LEMMA Least ==
  ASSUME NEW S \in SUBSET Nat, S # {}
  PROVE  Min(S) \in S /\ \A y \in S : Min(S) <= y
PROOF
<1>1. PICK x \in S : \A y \in S : ~(<<y, x>> \in OpToRel(<, Nat))
  BY NatLessThanWellFounded, WFMin
<1>2. ASSUME NEW y \in S PROVE x <= y
  <2>1. x \in Nat /\ y \in Nat
    OBVIOUS
  <2>2. ~(y < x)
    BY <1>1, <2>1 DEF OpToRel
  <2> QED
    BY <2>1, <2>2
<1> QED
  BY <1>2 DEF Min

\* There is a pot.
LEMMA APot == 0 \in Knobs /\ Knobs \in SUBSET Nat /\ Pots \in Nat \ {0} /\ SystemOf \in Nat
              /\ BackOf < SystemOf /\ BackOf \in Nat
  BY KnobsAssumption DEF Knobs, SystemOf, BackOf

\* The rows change places, twice for nothing.
LEMMA SwappedTwice ==
  ASSUME NEW p \in Knobs
  PROVE  Swapped(p) \in Knobs /\ Swapped(Swapped(p)) = p
PROOF
<1>1. PICK h \in Nat \ {0} : Pots = 2 * h /\ Pots \div 2 = h
  BY KnobsAssumption
<1>2. ASSUME NEW a \in 0..(2 * Pots - 1) PROVE a % Pots = IF a < Pots THEN a ELSE a - Pots
  BY KnobsAssumption
<1>3. ASSUME NEW a \in Knobs
      PROVE  /\ Swapped(a) = IF a < h THEN a + h ELSE a - h
             /\ Swapped(a) \in Knobs
  <2>1. a \in Nat /\ a < 2 * h /\ a + h \in 0..(2 * Pots - 1)
    BY <1>1 DEF Knobs
  <2>2. PICK x \in 0..(2 * Pots - 1) : x = a + h
    BY <2>1
  <2>3. x % Pots = IF x < Pots THEN x ELSE x - Pots
    BY <1>2
  <2>4. Swapped(a) = x % Pots
    BY <1>1, <2>2 DEF Swapped
  <2> QED
    BY <1>1, <2>1, <2>2, <2>3, <2>4 DEF Knobs
<1> QED
  BY <1>1, <1>3 DEF Knobs

\* A record is turned the other way into a record, and back into itself.
LEMMA OtherWayTwice ==
  ASSUME NEW v \in SUBSET Knobs, NEW c \in Configs
  PROVE  /\ OtherWay(v, c) \in Records
         /\ OtherWay(OtherWay(v, c).valid, OtherWay(v, c).config) = [valid |-> v, config |-> c]
PROOF
<1>1. {Swapped(p) : p \in v} \in SUBSET Knobs
  BY SwappedTwice
<1>2. [p \in Knobs |-> c[Swapped(p)]] \in Configs
  BY SwappedTwice DEF Configs
<1>3. {Swapped(p) : p \in {Swapped(q) : q \in v}} = v
  BY SwappedTwice
<1>4. [p \in Knobs |-> [q \in Knobs |-> c[Swapped(q)]][Swapped(p)]] = c
  BY SwappedTwice DEF Configs
<1> QED
  BY <1>1, <1>2, <1>3, <1>4 DEF OtherWay, Records

\* What is stored is read back as it was, and is a record.
LEMMA StoredReads ==
  ASSUME NEW v \in SUBSET Knobs, NEW c \in Configs
  PROVE  /\ Stored(v, c) \in Records /\ Stored(v, c) # None
         /\ record' = Stored(v, c) => OnRecord' = [valid |-> v, config |-> c]
PROOF
<1>1. Stored(v, c) \in Records /\ None \notin Records
  BY OtherWayTwice, SettingsAssumption DEF Stored, Records, Configs
<1> QED
  BY <1>1, OtherWayTwice DEF OnRecord, Stored

\* What is on record is typed, whether there is a record or not.
LEMMA OnRecordTyped ==
  ASSUME SavesTyped
  PROVE  OnRecord \in Records
PROOF
<1>1. Factory \in Setting
  BY DEF Factory, Setting
<1>2. CASE record = None
  BY <1>1, <1>2 DEF OnRecord, Records, Configs
<1>3. CASE record # None
  <2>1. record.valid \in SUBSET Knobs /\ record.config \in Configs
    BY <1>3 DEF SavesTyped, Records
  <2> QED
    BY <1>3, <2>1, OtherWayTwice DEF OnRecord
<1> QED
  BY <1>2, <1>3

-----------------------------------------------------------------------------
(* The part. *)

\* Setting one pot up leaves the others; if it takes, the part and the driver
\* have what was asked.
LEMMA AppliedSays ==
  ASSUME NEW s \in Sensors, NEW p \in Knobs, NEW c \in Setting, NEW b
  PROVE  /\ Applied(s, p, c, b) \in Sensors
         /\ Taken(b, p) => /\ Applied(s, p, c, b).chip[p] = c
                          /\ Applied(s, p, c, b).pot_config[p] = c
         /\ \A q \in Knobs \ {p} : /\ Applied(s, p, c, b).chip[q] = s.chip[q]
                                   /\ Applied(s, p, c, b).pot_config[q] = s.pot_config[q]
PROOF
<1>1. s.chip \in Configs /\ s.pot_config \in Configs /\ s.chip[p] \in Setting
  BY DEF Sensors, Configs
<1>2. [s.chip[p] EXCEPT !.gain = c.gain] \in Setting
  BY <1>1 DEF Setting
<1> DEFINE chip == [s.chip EXCEPT ![p] = IF Taken(b, p) THEN c
                                         ELSE IF <<"gain", p>> \in b THEN @
                                         ELSE [@ EXCEPT !.gain = c.gain]]
           pot_config == IF Taken(b, p) THEN [s.pot_config EXCEPT ![p] = c] ELSE s.pot_config
<1>3. Applied(s, p, c, b) = [chip |-> chip, pot_config |-> pot_config]
  BY DEF Applied
<1>4. chip \in Configs /\ pot_config \in Configs
  BY <1>1, <1>2 DEF Configs
<1>5. /\ Taken(b, p) => chip[p] = c /\ pot_config[p] = c
      /\ \A q \in Knobs \ {p} : chip[q] = s.chip[q] /\ pot_config[q] = s.pot_config[q]
  BY <1>1 DEF Configs
<1> HIDE DEF chip, pot_config
<1> QED
  BY <1>3, <1>4, <1>5 DEF Sensors

\* The same of several pots.
LEMMA AppliedAllSays ==
  ASSUME NEW s \in Sensors, NEW ps \in SUBSET Knobs, NEW c \in Configs, NEW b
  PROVE  /\ AppliedAll(s, ps, c, b) \in Sensors
         /\ \A p \in ps : Taken(b, p) => AppliedAll(s, ps, c, b).chip[p] = c[p]
         /\ \A p \in Knobs \ ps : AppliedAll(s, ps, c, b).chip[p] = s.chip[p]
PROOF
<1> DEFINE chip == [p \in Knobs |-> IF p \in ps THEN Applied(s, p, c[p], b).chip[p] ELSE s.chip[p]]
           pot_config == [p \in Knobs |-> IF p \in ps /\ Taken(b, p) THEN c[p] ELSE s.pot_config[p]]
<1>1. AppliedAll(s, ps, c, b) = [chip |-> chip, pot_config |-> pot_config]
  BY DEF AppliedAll
<1>2. \A p \in Knobs : /\ c[p] \in Setting /\ s.chip[p] \in Setting /\ s.pot_config[p] \in Setting
                      /\ Applied(s, p, c[p], b).chip[p] \in Setting
  BY AppliedSays DEF Sensors, Configs
<1>3. chip \in Configs /\ pot_config \in Configs
  BY <1>2 DEF Configs
<1>4. \A p \in ps : Taken(b, p) => chip[p] = c[p]
  <2> SUFFICES ASSUME NEW p \in ps, Taken(b, p) PROVE chip[p] = c[p]
    OBVIOUS
  <2>1. p \in Knobs /\ c[p] \in Setting
    BY <1>2
  <2> QED
    BY <2>1, AppliedSays
<1>5. \A p \in Knobs \ ps : chip[p] = s.chip[p]
  OBVIOUS
<1> HIDE DEF chip, pot_config
<1> QED
  BY <1>1, <1>3, <1>4, <1>5 DEF Sensors

-----------------------------------------------------------------------------
(* What the calibration's steps do to the part. *)

\* Only pots the calibration has still to come to, or the one it is at, are
\* set up otherwise than the panel believes.
OthersAhead(run, s, c) ==
  \A p \in Knobs \ (unsure \union {run.pot}) :
    s.chip[p] # c[p] => p \in run.selected_mask /\ run.pot < p

\* Doubt is about pots.
LEMMA DoubtedSays ==
  ASSUME unsure \in SUBSET Knobs, NEW ps \in SUBSET Knobs, NEW b
  PROVE  /\ Doubted(ps, b) \in SUBSET Knobs
         /\ \A p \in Knobs : p \in Doubted(ps, b) <=> IF p \in ps THEN ~Taken(b, p) ELSE p \in unsure
BY DEF Doubted

\* A calibration that is not running.
LEMMA IdleSays ==
  /\ Idle \in Measurement /\ Idle.phase = "IDLE" /\ ~Idle.validating /\ Idle.cycle = 0
  /\ Idle.selected_mask = {}
BY APot DEF Idle, Measurement, NoPeak, Phases

\* What a calibration that is over keeps of its run.
LEMMA EndedSays ==
  ASSUME NEW run \in Measurement, NEW phase \in Phases
  PROVE  /\ Ended(run, phase) \in Measurement
         /\ Ended(run, phase).phase = phase /\ Ended(run, phase).pot = run.pot
         /\ Ended(run, phase).selected_mask = run.selected_mask
         /\ ~Ended(run, phase).validating /\ Ended(run, phase).cycle = 0
PROOF
<1>1. Idle \in Measurement /\ ~Idle.validating /\ Idle.cycle = 0
  BY IdleSays
<1> QED
  BY <1>1 DEF Ended, Measurement

\* What a measurement that starts over keeps of its run.
LEMMA FreshSays ==
  ASSUME NEW run \in Measurement
  PROVE  /\ Fresh(run) \in Measurement
         /\ Fresh(run).phase = "BASELINE" /\ Fresh(run).pot = run.pot
         /\ Fresh(run).selected_mask = run.selected_mask
         /\ ~Fresh(run).validating /\ Fresh(run).cycle = 0
PROOF
<1>1. Idle \in Measurement /\ ~Idle.validating /\ Idle.cycle = 0
  BY IdleSays
<1>2. ClearTicks \in Int /\ "BASELINE" \in Phases
  BY CalibrationAssumption DEF Phases, Running
<1> QED
  BY <1>1, <1>2 DEF Fresh, Measurement

\* A failure puts the pot back that was measured.
LEMMA FailRestores ==
  ASSUME NEW run \in Measurement, NEW s \in Sensors, NEW c \in Configs, NEW b,
         unsure \in SUBSET Knobs, OthersAhead(run, s, c),
         Fail(run, s, c, b)
  PROVE  /\ cal' \in Measurement /\ cal'.phase = "FAILED" /\ ~cal'.validating /\ cal'.cycle = 0
         /\ sensor' \in Sensors /\ unsure' \in SUBSET Knobs
         /\ Ahead(cal', sensor', c, unsure')
PROOF
<1>1. run.pot \in Knobs /\ c[run.pot] \in Setting
  BY DEF Measurement, Configs
<1>2. /\ cal' = Ended(run, "FAILED") /\ sensor' = Applied(s, run.pot, c[run.pot], b)
      /\ unsure' = Doubted({run.pot}, b)
  BY DEF Fail
<1>3. /\ cal' \in Measurement /\ cal'.phase = "FAILED" /\ cal'.pot = run.pot
      /\ cal'.selected_mask = run.selected_mask /\ ~cal'.validating /\ cal'.cycle = 0
  BY <1>2, EndedSays DEF Phases
<1>4. unsure' \in SUBSET Knobs
  BY <1>1, <1>2, DoubtedSays
<1>5. Ahead(cal', sensor', c, unsure')
  <2> SUFFICES ASSUME NEW p \in Knobs \ unsure', sensor'.chip[p] # c[p]
               PROVE  p \in run.selected_mask /\ run.pot < p /\ p # run.pot
    BY <1>3 DEF Ahead
  <2>1. p # run.pot
    BY <1>1, <1>2, AppliedSays, DoubtedSays
  <2>2. p \notin unsure /\ s.chip[p] # c[p]
    BY <1>1, <1>2, <2>1, AppliedSays, DoubtedSays
  <2> QED
    BY <2>1, <2>2 DEF OthersAhead
<1> QED
  BY <1>1, <1>2, <1>3, <1>4, <1>5, AppliedSays

\* A measurement starts with the part's trial setting, or fails.
LEMMA BeginTries ==
  ASSUME NEW run \in Measurement, NEW s \in Sensors, NEW c \in Configs, NEW b,
         unsure \in SUBSET Knobs, OthersAhead(run, s, c),
         BeginBaseline(run, s, c, b)
  PROVE  /\ cal' \in Measurement /\ cal'.phase \in {"BASELINE", "FAILED"}
         /\ ~cal'.validating /\ cal'.cycle = 0
         /\ sensor' \in Sensors /\ unsure' \in SUBSET Knobs
         /\ Ahead(cal', sensor', c, unsure')
PROOF
<1> DEFINE setting == [Factory EXCEPT !.gain = run.gain_step]
           trial == Applied(s, run.pot, setting, b)
<1>1. run.pot \in Knobs /\ setting \in Setting
  BY DEF Measurement, Factory, Setting
<1> HIDE DEF setting
<1>2. /\ trial \in Sensors
      /\ \A q \in Knobs \ {run.pot} : trial.chip[q] = s.chip[q]
  BY <1>1, AppliedSays
<1>3. OthersAhead(Fresh(run), trial, c)
  BY <1>2, FreshSays DEF OthersAhead
<1>4. IF Answers(b, "calibrate")
        THEN cal' = Fresh(run) /\ sensor' = trial /\ unsure' = Doubted({run.pot}, b)
        ELSE Fail(Fresh(run), trial, c, b)
  BY DEF BeginBaseline, setting
<1> HIDE DEF trial
<1>5. CASE Answers(b, "calibrate")
  <2>1. Ahead(cal', sensor', c, unsure')
    <3> SUFFICES ASSUME NEW p \in Knobs \ unsure', sensor'.chip[p] # c[p]
                 PROVE  p = run.pot \/ (p \in run.selected_mask /\ run.pot < p)
      BY <1>4, <1>5, FreshSays DEF Ahead, Running
    <3>1. CASE p = run.pot
      BY <3>1
    <3>2. CASE p # run.pot
      <4>1. p \notin unsure /\ s.chip[p] # c[p]
        BY <1>1, <1>2, <1>4, <1>5, <3>2, DoubtedSays
      <4> QED
        BY <3>2, <4>1 DEF OthersAhead
    <3> QED
      BY <3>1, <3>2
  <2> QED
    BY <1>1, <1>2, <1>4, <1>5, <2>1, FreshSays, DoubtedSays
<1>6. CASE ~Answers(b, "calibrate")
  BY <1>2, <1>3, <1>4, <1>6, FreshSays, FailRestores
<1> QED
  BY <1>5, <1>6

-----------------------------------------------------------------------------
(* A tick of the calibration. *)

\* A step that only measures keeps what was saved and what is kept of it.
LEMMA MeasuringKeeps ==
  ASSUME Measured, OnlyMeasures,
         cal' \in Measurement, sensor' \in Sensors, unsure' \in SUBSET Knobs,
         Ahead(cal', sensor', config, unsure'),
         cal'.phase # "COMPLETE", cal'.validating \/ cal'.cycle < Cycles, CheckedIsSaved'
  PROVE  Measured'
BY DEF Measured, MeasureTyped, SavesTyped, OnlyMeasures, saves, TrialsAreAhead, Ahead, CyclesLeft,
       CompleteIsSaved, FlashIsKept, KeptIsRun, OnRecord

\* While it runs, the others are ahead of the pot it is at.
LEMMA OthersAreAhead ==
  ASSUME Measured, NEW run, run.pot = cal.pot, run.selected_mask = cal.selected_mask
  PROVE  OthersAhead(run, sensor, config)
BY DEF Measured, TrialsAreAhead, Ahead, OthersAhead

\* A step that leaves the part alone and only counts or measures.
LEMMA GoesKeeps ==
  ASSUME Measured, cal.phase \in Running,
         NEW run \in Measurement, run.pot = cal.pot, run.selected_mask = cal.selected_mask,
         run.validating = cal.validating, run.phase \in Running,
         run.cycle = cal.cycle \/ (~cal.validating /\ run.cycle < Cycles),
         Goes(run)
  PROVE  Measured'
PROOF
<1>1. /\ cal' = run /\ UNCHANGED <<sensor, unsure>> /\ OnlyMeasures
  BY DEF Goes, device
<1>2. /\ cal' \in Measurement /\ sensor' \in Sensors /\ unsure' \in SUBSET Knobs
      /\ cal'.phase # "COMPLETE"
  BY <1>1 DEF Measured, MeasureTyped, Running, Gesture
<1>3. Ahead(cal', sensor', config, unsure')
  BY <1>1 DEF Measured, TrialsAreAhead, Ahead
<1>4. CheckedIsSaved' /\ (cal'.validating \/ cal'.cycle < Cycles)
  BY <1>1 DEF Measured, CheckedIsSaved, CyclesLeft
<1> QED
  BY <1>1, <1>2, <1>3, <1>4, MeasuringKeeps

\* A failure while measuring.
LEMMA FailKeeps ==
  ASSUME Measured, NEW b, NEW run \in Measurement,
         run.pot = cal.pot, run.selected_mask = cal.selected_mask,
         NEW s \in Sensors, OthersAhead(run, s, config),
         Fail(run, s, config, b), OnlyMeasures
  PROVE  Measured'
PROOF
<1>1. unsure \in SUBSET Knobs /\ config \in Configs
  BY DEF Measured, MeasureTyped
<1>2. /\ cal' \in Measurement /\ cal'.phase = "FAILED" /\ ~cal'.validating /\ cal'.cycle = 0
      /\ sensor' \in Sensors /\ unsure' \in SUBSET Knobs
      /\ Ahead(cal', sensor', config, unsure')
  BY <1>1, FailRestores
<1>3. CheckedIsSaved' /\ 0 < Cycles
  BY <1>2, CalibrationAssumption DEF CheckedIsSaved
<1> QED
  BY <1>2, <1>3, MeasuringKeeps

\* A gesture that was not good enough.
LEMMA FailsKeeps ==
  ASSUME Measured, NEW run \in Measurement,
         run.pot = cal.pot, run.selected_mask = cal.selected_mask, Fails(run)
  PROVE  Measured'
BY FailKeeps, OthersAreAhead DEF Fails, Measured, MeasureTyped

\* The sensor does not answer.
LEMMA ReadFailsKeeps ==
  ASSUME Measured, ReadFails
  PROVE  Measured'
BY FailKeeps, OthersAreAhead DEF ReadFails, Measured, MeasureTyped

\* What the finger does.
LEMMA ClearingKeeps ==
  ASSUME Measured, Clearing
  PROVE  Measured'
PROOF
<1>0. cal.phase \in {"BASELINE", "VALIDATE"}
  BY DEF Clearing
<1>1. cal \in Measurement /\ cal.phase \in Running /\ ClearTicks \in Int
  BY <1>0, CalibrationAssumption DEF Measured, MeasureTyped, Running
<1>2. CASE Goes([cal EXCEPT !.left = ClearTicks, !.noise = 0])
  <2>1. [cal EXCEPT !.left = ClearTicks, !.noise = 0] \in Measurement
    BY <1>1 DEF Measurement
  <2> QED
    BY <1>1, <1>2, <2>1, GoesKeeps DEF Measurement
<1>3. ASSUME NEW delta \in Deltas,
             Goes([cal EXCEPT !.left = @ - 1, !.noise = Max({@, delta}),
                              !.phase = IF cal.left = 1 THEN "TOUCH" ELSE @])
      PROVE  Measured'
  <2>0. cal.noise \in Nat /\ delta \in Nat /\ cal.left \in Int
    BY <1>1, CalibrationAssumption DEF Measurement
  <2>5. PICK before \in Nat : before = cal.noise
    BY <2>0
  <2>6. Max({before, delta}) \in Nat
    BY <2>0, OfTwoNaturals
  <2>1. Max({cal.noise, delta}) \in Nat /\ cal.left - 1 \in Int
    BY <2>0, <2>5, <2>6
  <2> DEFINE run == [cal EXCEPT !.left = @ - 1, !.noise = Max({@, delta}),
                                !.phase = IF cal.left = 1 THEN "TOUCH" ELSE @]
  <2>2. run \in Measurement /\ run.phase \in Running
    BY <1>1, <2>1 DEF Measurement, Phases, Running, Gesture
  <2>3. /\ run.pot = cal.pot /\ run.selected_mask = cal.selected_mask
        /\ run.validating = cal.validating /\ run.cycle = cal.cycle
    BY <1>1 DEF Measurement
  <2>4. Goes(run)
    BY <1>3
  <2> HIDE DEF run
  <2> QED
    BY <1>1, <2>2, <2>3, <2>4, GoesKeeps
<1> QED
  BY <1>2, <1>3 DEF Clearing

\* The pot is touched, or held too long.
LEMMA TouchingKeeps ==
  ASSUME Measured, Touching
  PROVE  Measured'
PROOF
<1>1. cal \in Measurement /\ cal.phase \in Running
  BY DEF Measured, MeasureTyped, Touching, Running, Gesture
<1>2. PICK turned \in BOOLEAN, delta \in Deltas :
        LET held == IF cal.phase = "TOUCH" THEN 0 ELSE Min({cal.held + 1, MaxHold})
            run == [cal EXCEPT !.phase = "HOLD", !.held = held,
                              !.saw_move = (cal.phase = "HOLD" /\ @) \/ turned,
                              !.peak = Max({delta, IF cal.phase = "HOLD" THEN @ ELSE 0})]
        IN IF HeldTooLong(run) THEN Fails(run) ELSE Goes(run)
  BY DEF Touching
<1> DEFINE held == IF cal.phase = "TOUCH" THEN 0 ELSE Min({cal.held + 1, MaxHold})
           peak == Max({delta, IF cal.phase = "HOLD" THEN cal.peak ELSE 0})
           moved == (cal.phase = "HOLD" /\ cal.saw_move) \/ turned
           run == [cal EXCEPT !.phase = "HOLD", !.held = held, !.saw_move = moved, !.peak = peak]
<1>3. held \in Int /\ peak \in Nat /\ moved \in BOOLEAN
  <2>1. cal.held + 1 \in Int /\ MaxHold \in Int /\ delta \in Nat /\ cal.peak \in Nat
    BY <1>1, CalibrationAssumption DEF Measurement
  <2>2. PICK longer \in Int : longer = cal.held + 1
    BY <2>1
  <2>3. Min({longer, MaxHold}) \in Int
    BY <2>1, <2>2, OfTwo
  <2>4. PICK before \in Nat : before = IF cal.phase = "HOLD" THEN cal.peak ELSE 0
    BY <2>1
  <2>5. Max({delta, before}) \in Nat
    BY <2>1, <2>4, OfTwoNaturals
  <2> QED
    BY <2>2, <2>3, <2>4, <2>5, <1>1, <1>2 DEF Measurement
<1>4. IF HeldTooLong(run) THEN Fails(run) ELSE Goes(run)
  BY <1>2
<1> HIDE DEF held, peak, moved
<1>5. /\ run \in Measurement /\ run.phase \in Running
      /\ run.pot = cal.pot /\ run.selected_mask = cal.selected_mask
      /\ run.validating = cal.validating /\ run.cycle = cal.cycle
  BY <1>1, <1>3 DEF Measurement, Phases, Running, Gesture
<1> HIDE DEF run
<1> QED
  BY <1>1, <1>4, <1>5, FailsKeeps, GoesKeeps

\* The pot is let go of, too early, too weak or well.
LEMMA LettingGoKeeps ==
  ASSUME Measured, LettingGo
  PROVE  Measured'
PROOF
<1>0. cal.phase = "HOLD"
  BY DEF LettingGo
<1>1. cal \in Measurement /\ cal.phase \in Running /\ ReleaseTicks \in Int
  BY <1>0, CalibrationAssumption DEF Measured, MeasureTyped, Running, Gesture
<1>2. PICK turned \in BOOLEAN, delta \in Deltas :
        LET peak == Max({cal.peak, delta})
        IN IF cal.held + 1 < MinHold \/ ~(cal.saw_move \/ turned) \/ peak <= cal.noise + 8
             THEN Fails(cal)
             ELSE Goes([cal EXCEPT !.phase = "RELEASE", !.peak = 0, !.saw_move = FALSE,
                                   !.held = 0, !.left = ReleaseTicks,
                                   !.min_touch = Min({@, peak})])
  BY DEF LettingGo
<1> DEFINE low == Min({cal.min_touch, Max({cal.peak, delta})})
           run == [cal EXCEPT !.phase = "RELEASE", !.peak = 0, !.saw_move = FALSE,
                              !.held = 0, !.left = ReleaseTicks, !.min_touch = low]
<1>3. low \in Nat
  <2>1. PICK before \in Nat, least \in Nat : before = cal.peak /\ least = cal.min_touch
    BY <1>1 DEF Measurement
  <2>2. delta \in Nat
    BY CalibrationAssumption
  <2>3. PICK peak \in Nat : peak = Max({before, delta})
    BY <2>2, OfTwoNaturals
  <2>4. Min({least, peak}) \in Nat
    BY OfTwoNaturals
  <2> QED
    BY <2>1, <2>3, <2>4
<1>4. Fails(cal) \/ Goes(run)
  BY <1>1, <1>2 DEF Measurement
<1> HIDE DEF low
<1>5. run \in Measurement /\ run.phase = "RELEASE"
  <2> DEFINE now == [cal EXCEPT !.phase = "RELEASE", !.left = ReleaseTicks, !.min_touch = low,
                                !.peak = 0, !.saw_move = FALSE]
  <2>1. now \in Measurement /\ now.phase = "RELEASE"
    BY <1>1, <1>3 DEF Measurement, Phases, Running, Gesture
  <2>2. run = [now EXCEPT !.held = 0]
    BY <1>1 DEF Measurement
  <2> HIDE DEF run, now
  <2> QED
    BY <2>1, <2>2 DEF Measurement
<1>6. /\ run.pot = cal.pot /\ run.selected_mask = cal.selected_mask
      /\ run.validating = cal.validating /\ run.cycle = cal.cycle
  BY <1>1 DEF Measurement
<1> HIDE DEF run
<1> QED
  BY <1>1, <1>4, <1>5, <1>6, FailsKeeps, GoesKeeps DEF Running, Gesture

\* The pot is touched while it should be clear.
LEMMA TouchedAgainKeeps ==
  ASSUME Measured, TouchedAgain
  PROVE  Measured'
PROOF
<1> DEFINE run == [cal EXCEPT !.held = @ + 1, !.left = ReleaseTicks]
<1>0. cal.phase = "RELEASE" /\ (Fails(cal) \/ Goes(run))
  BY DEF TouchedAgain
<1>1. cal \in Measurement /\ cal.phase \in Running /\ ReleaseTicks \in Int
  BY <1>0, CalibrationAssumption DEF Measured, MeasureTyped, Running, Gesture
<1>2. /\ run \in Measurement
      /\ run.phase = cal.phase /\ run.pot = cal.pot /\ run.selected_mask = cal.selected_mask
      /\ run.validating = cal.validating /\ run.cycle = cal.cycle
  <2>1. PICK held \in Int : held = cal.held + 1
    BY <1>1 DEF Measurement
  <2>2. run = [cal EXCEPT !.held = held, !.left = ReleaseTicks]
    BY <1>1, <2>1
  <2> QED
    BY <1>1, <2>2 DEF Measurement
<1> HIDE DEF run
<1> QED
  BY <1>0, <1>1, <1>2, FailsKeeps, GoesKeeps

\* Another pot is touched, or none.
LEMMA OthersKeep ==
  ASSUME Measured, AnotherPot \/ Untouched
  PROVE  Measured'
PROOF
<1>1. cal \in Measurement
  BY DEF Measured, MeasureTyped
<1>2. CASE AnotherPot
  BY <1>1, <1>2, FailsKeeps DEF AnotherPot
<1>3. CASE Untouched
  BY <1>1, <1>3, GoesKeeps DEF Untouched, Running, Gesture
<1> QED
  BY <1>2, <1>3

\* The final check starts with the trial in place, or the pot is put back.
LEMMA ValidateKeeps ==
  ASSUME Measured, cal.phase = "RELEASE", ~cal.validating, cal.cycle + 1 >= Cycles,
         NEW b, Validate(b), OnlyMeasures
  PROVE  Measured'
PROOF
<1> DEFINE setting == [threshold |-> Threshold, gain |-> cal.gain_step]
           trial == Applied(sensor, cal.pot, setting, b)
           last == [cal EXCEPT !.cycle = @ + 1, !.phase = "VALIDATE", !.validating = TRUE,
                               !.noise = 0, !.left = ClearTicks, !.held = 0]
<1>1. /\ cal \in Measurement /\ cal.pot \in Knobs /\ cal.cycle \in Nat /\ ClearTicks \in Int
      /\ sensor \in Sensors /\ unsure \in SUBSET Knobs /\ config \in Configs
  BY CalibrationAssumption DEF Measured, MeasureTyped, Measurement
<1>2. cal.cycle + 1 = Cycles
  BY <1>1, CalibrationAssumption DEF Measured, CyclesLeft
<1>3. setting \in Setting
  <2>1. cal.min_touch \div 8 \in Nat /\ Margin \in Nat
    BY <1>1 DEF Measurement, Margin
  <2>2. PICK most \in Nat : most = Max({cal.min_touch \div 8, Margin})
    <3>1. PICK eighth \in Nat, margin \in Nat : eighth = cal.min_touch \div 8 /\ margin = Margin
      BY <2>1
    <3>2. Max({eighth, margin}) \in Nat
      BY OfTwoNaturals
    <3> QED
      BY <3>1, <3>2
  <2>3. Min({255, most}) \in Nat /\ Min({255, most}) <= 255
    BY OfTwoNaturals, OfTwo
  <2>4. Threshold \in 0..255
    BY <2>2, <2>3 DEF Threshold
  <2> QED
    BY <1>1, <2>4 DEF Setting, Measurement
<1>4. IF Taken(b, cal.pot) /\ Answers(b, "calibrate")
        THEN cal' = last /\ sensor' = trial /\ unsure' = Doubted({cal.pot}, b)
        ELSE Fail(last, trial, config, b)
  BY DEF Validate
<1> HIDE DEF setting
<1>5. /\ last \in Measurement /\ last.phase = "VALIDATE" /\ last.pot = cal.pot
      /\ last.selected_mask = cal.selected_mask /\ last.validating /\ last.cycle = Cycles
  <2> DEFINE now == [cal EXCEPT !.noise = 0, !.left = ClearTicks]
  <2>1. now \in Measurement /\ now.pot = cal.pot /\ now.selected_mask = cal.selected_mask
    BY <1>1 DEF Measurement
  <2>2. Cycles \in Nat /\ "VALIDATE" \in Phases
    BY CalibrationAssumption DEF Phases, Running
  <2> DEFINE next == [now EXCEPT !.cycle = Cycles, !.phase = "VALIDATE", !.validating = TRUE]
  <2>3. last = [next EXCEPT !.held = 0]
    BY <1>1, <1>2 DEF Measurement
  <2> HIDE DEF last, now
  <2>4. next \in Measurement
    BY <2>1, <2>2 DEF Measurement
  <2>5. /\ last \in Measurement
        /\ last.phase = "VALIDATE" /\ last.pot = cal.pot
        /\ last.selected_mask = cal.selected_mask /\ last.validating /\ last.cycle = Cycles
    <3>1. /\ next.phase = "VALIDATE" /\ next.pot = cal.pot
          /\ next.selected_mask = cal.selected_mask /\ next.validating /\ next.cycle = Cycles
      BY <2>1 DEF Measurement
    <3> HIDE DEF next
    <3> QED
      BY <2>3, <2>4, <3>1 DEF Measurement
  <2> QED
    BY <2>5
<1> HIDE DEF last
<1>6. /\ trial \in Sensors
      /\ Taken(b, cal.pot) => trial.chip[cal.pot] = setting /\ trial.pot_config[cal.pot] = setting
      /\ \A q \in Knobs \ {cal.pot} : trial.chip[q] = sensor.chip[q]
  BY <1>1, <1>3, AppliedSays
<1> HIDE DEF trial
<1>7. OthersAhead(last, trial, config)
  BY <1>5, <1>6, OthersAreAhead DEF OthersAhead
<1>8. CASE Taken(b, cal.pot) /\ Answers(b, "calibrate")
  <2>1. unsure' \in SUBSET Knobs /\ cal.pot \notin unsure'
    BY <1>1, <1>4, <1>8, DoubtedSays
  <2>2. Ahead(cal', sensor', config, unsure')
    <3> SUFFICES ASSUME NEW p \in Knobs \ unsure', sensor'.chip[p] # config[p], p # cal.pot
                 PROVE  p \in cal.selected_mask /\ cal.pot < p
      BY <1>4, <1>5, <1>8 DEF Ahead, Running
    <3>1. p \notin unsure
      BY <1>1, <1>4, <1>8, DoubtedSays
    <3> QED
      BY <1>4, <1>5, <1>7, <1>8, <3>1 DEF OthersAhead
  <2>3. CheckedIsSaved'
    BY <1>4, <1>5, <1>6, <1>8, <2>1 DEF CheckedIsSaved
  <2> QED
    BY <1>4, <1>5, <1>6, <1>8, <2>1, <2>2, <2>3, MeasuringKeeps
<1>9. CASE ~(Taken(b, cal.pot) /\ Answers(b, "calibrate"))
  BY <1>4, <1>5, <1>6, <1>7, <1>9, FailKeeps
<1> QED
  BY <1>8, <1>9

\* A pot whose check passed is saved as the part and the driver have it.
LEMMA CommitKeeps ==
  ASSUME Measured, cal.validating, NEW b, CommitPot(b)
  PROVE  Measured'
PROOF
<1> DEFINE p == cal.pot
           v == valid_mask \union {p}
           c == [config EXCEPT ![p] = sensor.pot_config[p]]
<1>1. /\ cal \in Measurement /\ p \in Knobs /\ sensor \in Sensors /\ unsure \in SUBSET Knobs
      /\ config \in Configs /\ valid_mask \in SUBSET Knobs /\ SavesTyped
  BY DEF Measured, MeasureTyped, Measurement
<1>2. v \in SUBSET Knobs /\ c \in Configs
  BY <1>1 DEF Sensors, Configs
<1>3. /\ sensor.chip[p] = c[p] /\ p \notin unsure
      /\ \A q \in Knobs \ {p} : c[q] = config[q]
  BY <1>1 DEF Measured, CheckedIsSaved, Configs
<1>4. /\ valid_mask' = v /\ config' = c
      /\ \/ b = {} /\ NotSaved(v, c) /\ Fail(cal, sensor, c, b)
         \/ /\ Saved(v, c)
            /\ IF NextSelected(cal) = {}
                 THEN cal' = Ended(cal, "COMPLETE") /\ UNCHANGED device
                 ELSE BeginBaseline([cal EXCEPT !.pot = Min(NextSelected(cal)), !.gain_step = 0],
                                    sensor, c, b)
  BY DEF CommitPot
<1> HIDE DEF v, c
<1>5. \A q \in Knobs \ unsure :
        sensor.chip[q] # c[q] => q # p /\ q \in cal.selected_mask /\ p < q
  BY <1>3 DEF Measured, TrialsAreAhead, Ahead
<1>6. ASSUME cal' \in Measurement, ~cal'.validating, cal'.cycle = 0,
             sensor' \in Sensors, unsure' \in SUBSET Knobs, Ahead(cal', sensor', c, unsure')
      PROVE  MeasureTyped' /\ TrialsAreAhead' /\ CheckedIsSaved' /\ CyclesLeft'
  BY <1>2, <1>4, <1>6, CalibrationAssumption
     DEF MeasureTyped, TrialsAreAhead, Ahead, CheckedIsSaved, CyclesLeft
<1>7. CASE b = {} /\ NotSaved(v, c) /\ Fail(cal, sensor, c, b)
  <2>1. /\ cal' \in Measurement /\ cal'.phase = "FAILED" /\ ~cal'.validating /\ cal'.cycle = 0
        /\ sensor' \in Sensors /\ unsure' \in SUBSET Knobs
        /\ Ahead(cal', sensor', c, unsure')
    <3>1. OthersAhead(cal, sensor, c)
      BY <1>5 DEF OthersAhead
    <3> QED
      BY <1>1, <1>2, <1>7, <3>1, FailRestores
  <2>2. SavesTyped' /\ kept' = None
    BY <1>1, <1>2, <1>7, StoredReads DEF NotSaved, SavesTyped
  <2> QED
    BY <1>6, <2>1, <2>2 DEF Measured, CompleteIsSaved, FlashIsKept, KeptIsRun
<1>8. CASE /\ Saved(v, c)
           /\ IF NextSelected(cal) = {}
                THEN cal' = Ended(cal, "COMPLETE") /\ UNCHANGED device
                ELSE BeginBaseline([cal EXCEPT !.pot = Min(NextSelected(cal)), !.gain_step = 0],
                                   sensor, c, b)
  <2>1. /\ OnRecord' = [valid |-> v, config |-> c] /\ kept' = [valid |-> v, config |-> c]
        /\ missing' = {} /\ record' \in Records
    BY <1>2, <1>8, StoredReads DEF Saved
  <2>2. SavesTyped' /\ FlashIsKept' /\ KeptIsRun' /\ CompleteIsSaved'
    BY <1>2, <1>4, <2>1 DEF SavesTyped, Records, FlashIsKept, KeptIsRun, CompleteIsSaved
  <2>3. /\ cal' \in Measurement /\ ~cal'.validating /\ cal'.cycle = 0
        /\ sensor' \in Sensors /\ unsure' \in SUBSET Knobs /\ Ahead(cal', sensor', c, unsure')
    <3>1. CASE NextSelected(cal) = {}
      <4>1. cal' = Ended(cal, "COMPLETE") /\ sensor' = sensor /\ unsure' = unsure
        BY <1>8, <3>1 DEF device
      <4>2. \A q \in Knobs \ unsure : sensor.chip[q] = c[q]
        BY <1>5, <3>1 DEF NextSelected
      <4> QED
        BY <1>1, <4>1, <4>2, EndedSays DEF Ahead, Phases
    <3>2. CASE NextSelected(cal) # {}
      <4> DEFINE run == [cal EXCEPT !.pot = Min(NextSelected(cal)), !.gain_step = 0]
      <4>1. NextSelected(cal) \in SUBSET Knobs
        BY <1>1 DEF NextSelected, Measurement
      <4>2. /\ Min(NextSelected(cal)) \in NextSelected(cal)
            /\ \A q \in NextSelected(cal) : Min(NextSelected(cal)) <= q
        BY <3>2, <4>1, Least, APot
      <4>3. /\ run \in Measurement /\ run.pot = Min(NextSelected(cal))
            /\ run.selected_mask = cal.selected_mask
        BY <1>1, <4>1, <4>2 DEF Measurement
      <4>4. BeginBaseline(run, sensor, c, b)
        BY <1>8, <3>2
      <4> HIDE DEF run
      <4>5. OthersAhead(run, sensor, c)
        <5> SUFFICES ASSUME NEW q \in Knobs \ (unsure \union {run.pot}), sensor.chip[q] # c[q]
                     PROVE  q \in run.selected_mask /\ run.pot < q
          BY DEF OthersAhead
        <5>1. q \in NextSelected(cal)
          BY <1>5 DEF NextSelected
        <5>2. run.pot <= q /\ run.pot # q /\ run.pot \in Nat /\ q \in Nat
          BY <4>1, <4>2, <4>3, <5>1, APot
        <5> QED
          BY <1>5, <4>3, <5>2
      <4> QED
        BY <1>1, <1>2, <4>3, <4>4, <4>5, BeginTries
    <3> QED
      BY <3>1, <3>2
  <2> QED
    BY <1>6, <2>2, <2>3 DEF Measured
<1> QED
  BY <1>4, <1>7, <1>8

\* A gesture is over: every way it can go on.
LEMMA ReleasedKeeps ==
  ASSUME Measured, Released
  PROVE  Measured'
PROOF
<1>0. cal.phase = "RELEASE"
  BY DEF Released
<1>1. cal \in Measurement /\ cal.phase \in Running /\ sensor \in Sensors /\ config \in Configs
      /\ unsure \in SUBSET Knobs
  BY <1>0 DEF Measured, MeasureTyped, Running, Gesture
<1> DEFINE waits == [cal EXCEPT !.held = @ + 1, !.left = @ - 1]
           again == [cal EXCEPT !.phase = "TOUCH", !.cycle = @ + 1, !.left = 0, !.held = 0]
           more == [cal EXCEPT !.gain_step = @ + 1]
<1>2. \/ Goes(waits)
      \/ cal.validating /\ \E b \in Buses : Answers(b, "read") /\ CommitPot(b)
      \/ ~cal.validating /\ cal.cycle + 1 < Cycles /\ Goes(again)
      \/ \E b \in Buses : BeginBaseline(more, sensor, config, b) /\ OnlyMeasures
      \/ Fails(cal)
      \/ ~cal.validating /\ ~(cal.cycle + 1 < Cycles) /\ \E b \in Buses : Validate(b) /\ OnlyMeasures
  BY DEF Released
<1>3. CASE Goes(waits)
  <2>1. PICK held \in Int, left \in Int : held = cal.held + 1 /\ left = cal.left - 1
    BY <1>1 DEF Measurement
  <2> DEFINE now == [cal EXCEPT !.left = left]
  <2>2. now \in Measurement /\ waits = [now EXCEPT !.held = held]
    BY <1>1, <2>1 DEF Measurement
  <2>3. /\ now.phase = cal.phase /\ now.pot = cal.pot /\ now.selected_mask = cal.selected_mask
        /\ now.validating = cal.validating /\ now.cycle = cal.cycle
    BY <1>1 DEF Measurement
  <2> HIDE DEF now, waits
  <2>4. /\ waits \in Measurement /\ waits.phase = cal.phase /\ waits.pot = cal.pot
        /\ waits.selected_mask = cal.selected_mask
        /\ waits.validating = cal.validating /\ waits.cycle = cal.cycle
    BY <2>2, <2>3 DEF Measurement
  <2> QED
    BY <1>1, <1>3, <2>4, GoesKeeps
<1>4. CASE cal.validating /\ \E b \in Buses : Answers(b, "read") /\ CommitPot(b)
  BY <1>4, CommitKeeps
<1>5. CASE ~cal.validating /\ cal.cycle + 1 < Cycles /\ Goes(again)
  <2>1. PICK cycle \in Nat : cycle = cal.cycle + 1 /\ cycle < Cycles
    BY <1>1, <1>5 DEF Measurement
  <2> DEFINE now == [cal EXCEPT !.phase = "TOUCH", !.cycle = cycle, !.left = 0]
  <2>5. again = [now EXCEPT !.held = 0]
    BY <1>1, <2>1 DEF Measurement
  <2>6. "TOUCH" \in Phases
    BY DEF Phases, Running, Gesture
  <2>7. [cal EXCEPT !.phase = "TOUCH", !.cycle = cycle] \in Measurement
    BY <1>1, <2>6 DEF Measurement
  <2>8. now = [[cal EXCEPT !.phase = "TOUCH", !.cycle = cycle] EXCEPT !.left = 0]
    OBVIOUS
  <2>2. now \in Measurement /\ again = [now EXCEPT !.held = 0]
    <3> HIDE DEF now, again
    <3> DEFINE first == [cal EXCEPT !.phase = "TOUCH", !.cycle = cycle]
    <3>1. first \in Measurement /\ now = [first EXCEPT !.left = 0]
      BY <2>7, <2>8
    <3> HIDE DEF first
    <3> QED
      BY <2>5, <3>1 DEF Measurement
  <2>3. /\ now.phase = "TOUCH" /\ now.pot = cal.pot /\ now.selected_mask = cal.selected_mask
        /\ now.validating = cal.validating /\ now.cycle = cycle
    BY <1>1 DEF Measurement
  <2> HIDE DEF now, again
  <2>4. /\ again \in Measurement /\ again.phase = "TOUCH" /\ again.pot = cal.pot
        /\ again.selected_mask = cal.selected_mask
        /\ again.validating = cal.validating /\ again.cycle = cycle
    BY <2>2, <2>3 DEF Measurement
  <2> QED
    BY <1>1, <1>5, <2>1, <2>4, GoesKeeps DEF Running, Gesture
<1>6. CASE \E b \in Buses : BeginBaseline(more, sensor, config, b) /\ OnlyMeasures
  <2>1. PICK step \in Nat : step = cal.gain_step + 1
    BY <1>1 DEF Measurement
  <2>2. more \in Measurement /\ more.pot = cal.pot /\ more.selected_mask = cal.selected_mask
    BY <1>1, <2>1 DEF Measurement
  <2>3. PICK b : BeginBaseline(more, sensor, config, b) /\ OnlyMeasures
    BY <1>6
  <2> HIDE DEF more
  <2>4. OthersAhead(more, sensor, config)
    BY <2>2, OthersAreAhead
  <2>5. /\ cal' \in Measurement /\ cal'.phase \in {"BASELINE", "FAILED"}
        /\ ~cal'.validating /\ cal'.cycle = 0
        /\ sensor' \in Sensors /\ unsure' \in SUBSET Knobs
        /\ Ahead(cal', sensor', config, unsure')
    BY <1>1, <2>2, <2>3, <2>4, BeginTries
  <2>6. CheckedIsSaved' /\ 0 < Cycles
    BY <2>5, CalibrationAssumption DEF CheckedIsSaved
  <2> QED
    BY <2>3, <2>5, <2>6, MeasuringKeeps
<1>7. CASE Fails(cal)
  BY <1>1, <1>7, FailsKeeps
<1>8. CASE /\ ~cal.validating /\ ~(cal.cycle + 1 < Cycles)
           /\ \E b \in Buses : Validate(b) /\ OnlyMeasures
  <2>1. cal.cycle + 1 >= Cycles
    BY <1>1, <1>8, CalibrationAssumption DEF Measurement
  <2> QED
    BY <1>0, <1>8, <2>1, ValidateKeeps
<1> QED
  BY <1>2, <1>3, <1>4, <1>5, <1>6, <1>7, <1>8

\* A step that changes nothing of them.
LEMMA UnmeasuredKeeps ==
  ASSUME Measured, UNCHANGED <<calibration, device, saves>>
  PROVE  Measured'
BY DEF Measured, MeasureTyped, SavesTyped, calibration, device, saves, TrialsAreAhead, Ahead,
       CheckedIsSaved, CyclesLeft, CompleteIsSaved, FlashIsKept, KeptIsRun, OnRecord

\* A tick, whatever the finger and the bus do.
LEMMA TickKeeps ==
  ASSUME Measured, TouchCalTick
  PROVE  Measured'
PROOF
<1>1. \/ UNCHANGED <<calibration, device, saves>>
      \/ ReadFails \/ Clearing \/ AnotherPot \/ Untouched \/ Touching \/ LettingGo
      \/ TouchedAgain \/ Released
  BY DEF TouchCalTick
<1> QED
  BY <1>1, UnmeasuredKeeps, ReadFailsKeeps, ClearingKeeps, OthersKeep, TouchingKeeps,
     LettingGoKeeps, TouchedAgainKeeps, ReleasedKeeps

-----------------------------------------------------------------------------
(* What the interface asks of the calibration. *)

\* Starting a measurement, again or for the first time.
LEMMA BeginKeeps ==
  ASSUME Measured, NoFlash, NEW run \in Measurement, NEW b,
         OthersAhead(run, sensor, config), BeginBaseline(run, sensor, config, b)
  PROVE  Measured'
PROOF
<1>1. unsure \in SUBSET Knobs /\ config \in Configs /\ sensor \in Sensors
  BY DEF Measured, MeasureTyped
<1>2. /\ cal' \in Measurement /\ cal'.phase \in {"BASELINE", "FAILED"}
      /\ ~cal'.validating /\ cal'.cycle = 0
      /\ sensor' \in Sensors /\ unsure' \in SUBSET Knobs
      /\ Ahead(cal', sensor', config, unsure')
  BY <1>1, BeginTries
<1>3. CheckedIsSaved' /\ 0 < Cycles
  BY <1>2, CalibrationAssumption DEF CheckedIsSaved
<1>4. OnlyMeasures
  BY DEF NoFlash, OnlyMeasures, saves
<1> QED
  BY <1>2, <1>3, <1>4, MeasuringKeeps

\* A calibration starts for all pots, or for one while none runs.
LEMMA StartKeeps ==
  ASSUME Measured, NEW pots, NEW b, Start(pots, b),
         pots = Knobs \/ (cal.phase = "IDLE" /\ \E k \in Knobs : pots = {k})
  PROVE  Measured'
PROOF
<1> DEFINE run == [cal EXCEPT !.pot = Min(pots), !.selected_mask = pots, !.gain_step = 0]
<1>1. cal \in Measurement
  BY DEF Measured, MeasureTyped
<1>2. pots \in SUBSET Nat /\ pots \in SUBSET Knobs /\ pots # {}
  BY APot
<1>3. Min(pots) \in pots /\ \A q \in pots : Min(pots) <= q
  BY <1>2, Least
<1>4. run \in Measurement /\ run.pot = Min(pots) /\ run.selected_mask = pots
  BY <1>1, <1>2, <1>3 DEF Measurement
<1>5. BeginBaseline(run, sensor, config, b) /\ NoFlash
  BY DEF Start
<1> HIDE DEF run
<1>6. OthersAhead(run, sensor, config)
  <2>1. CASE cal.phase = "IDLE"
    BY <2>1 DEF Measured, TrialsAreAhead, Ahead, OthersAhead, Running, Gesture
  <2>2. CASE pots = Knobs
    <3> SUFFICES ASSUME NEW p \in Knobs \ (unsure \union {run.pot})
                 PROVE  p \in run.selected_mask /\ run.pot < p
      BY DEF OthersAhead
    <3>1. run.pot <= p /\ run.pot \in Nat /\ p \in Nat
      BY <1>2, <1>3, <1>4, <2>2
    <3> QED
      BY <1>4, <2>2, <3>1
  <2> QED
    BY <2>1, <2>2
<1> QED
  BY <1>4, <1>5, <1>6, BeginKeeps

\* A calibration that failed starts over where it failed.
LEMMA RetryKeeps ==
  ASSUME Measured, NEW b, Retry(b)
  PROVE  Measured'
PROOF
<1> DEFINE run == [cal EXCEPT !.gain_step = 0]
<1>1. CASE cal.phase = "FAILED"
  <2>1. BeginBaseline(run, sensor, config, b) /\ NoFlash
    BY <1>1 DEF Retry
  <2>2. run \in Measurement /\ run.pot = cal.pot /\ run.selected_mask = cal.selected_mask
    BY DEF Measured, MeasureTyped, Measurement
  <2> HIDE DEF run
  <2> QED
    BY <2>1, <2>2, OthersAreAhead, BeginKeeps
<1>2. CASE cal.phase # "FAILED"
  BY <1>2, UnmeasuredKeeps DEF Retry, NoFlash, calibration
<1> QED
  BY <1>1, <1>2

\* Once it is over, every pot is as the panel believes or in doubt.
LEMMA OverKeeps ==
  ASSUME MeasureTyped', SavesTyped', FlashIsKept', KeptIsRun', cal' = Idle,
         \A p \in Knobs \ unsure' : sensor'.chip[p] = config'[p]
  PROVE  Measured'
BY IdleSays, CalibrationAssumption
   DEF Measured, TrialsAreAhead, Ahead, CheckedIsSaved, CyclesLeft, CompleteIsSaved

\* A calibration that is complete is put away.
LEMMA DoneKeeps ==
  ASSUME Measured, NEW b, Done(b)
  PROVE  Measured'
PROOF
<1>1. CASE cal.phase = "COMPLETE"
  <2>1. cal' = Idle /\ UNCHANGED <<sensor, unsure, saves, valid_mask, config>>
    BY <1>1 DEF Done, NoFlash, device
  <2>2. \A p \in Knobs \ unsure' : sensor'.chip[p] = config'[p]
    BY <1>1, <2>1 DEF Measured, TrialsAreAhead, Ahead, Running, Gesture
  <2>3. MeasureTyped' /\ SavesTyped' /\ FlashIsKept' /\ KeptIsRun'
    BY <2>1, IdleSays DEF Measured, MeasureTyped, SavesTyped, FlashIsKept, KeptIsRun, OnRecord, saves
  <2> QED
    BY <2>1, <2>2, <2>3, OverKeeps
<1>2. CASE cal.phase # "COMPLETE"
  BY <1>2, UnmeasuredKeeps DEF Done, NoFlash, calibration
<1> QED
  BY <1>1, <1>2

\* Cancelling puts every pot back that takes its setting.
LEMMA CancelKeeps ==
  ASSUME Measured, NEW b, Cancel(b)
  PROVE  Measured'
PROOF
<1>1. /\ cal' = Idle /\ sensor' = AppliedAll(sensor, Knobs, config, b)
      /\ unsure' = Doubted(Knobs, b) /\ UNCHANGED <<saves, valid_mask, config>>
  BY DEF Cancel, NoFlash
<1>2. sensor \in Sensors /\ config \in Configs /\ unsure \in SUBSET Knobs
  BY DEF Measured, MeasureTyped
<1>3. sensor' \in Sensors /\ unsure' \in SUBSET Knobs
  BY <1>1, <1>2, AppliedAllSays, DoubtedSays
<1>4. \A p \in Knobs \ unsure' : sensor'.chip[p] = config'[p]
  <2> TAKE p \in Knobs \ unsure'
  <2>1. Taken(b, p)
    BY <1>1, <1>2, DoubtedSays
  <2> QED
    BY <1>1, <1>2, <2>1, AppliedAllSays
<1>5. MeasureTyped' /\ SavesTyped' /\ FlashIsKept' /\ KeptIsRun'
  BY <1>1, <1>3, IdleSays DEF Measured, MeasureTyped, SavesTyped, FlashIsKept, KeptIsRun, OnRecord, saves
<1> QED
  BY <1>1, <1>4, <1>5, OverKeeps

\* Restoring the defaults sets every pot up, whatever the save does.
LEMMA RestoreKeeps ==
  ASSUME Measured, NEW b, RestoreDefaults(b)
  PROVE  Measured'
PROOF
<1> DEFINE c == [p \in Knobs |-> Factory]
<1>1. /\ cal' = Idle /\ valid_mask' = {} /\ config' = c
      /\ sensor' = AppliedAll(sensor, Knobs, c, b) /\ unsure' = Doubted(Knobs, b)
      /\ Saved({}, c) \/ NotSaved({}, c)
  BY DEF RestoreDefaults
<1>2. c \in Configs /\ {} \in SUBSET Knobs
  BY DEF Configs, Factory, Setting
<1> HIDE DEF c
<1>3. sensor \in Sensors /\ unsure \in SUBSET Knobs /\ SavesTyped
  BY DEF Measured, MeasureTyped
<1>4. sensor' \in Sensors /\ unsure' \in SUBSET Knobs
  BY <1>1, <1>2, <1>3, AppliedAllSays, DoubtedSays
<1>5. \A p \in Knobs \ unsure' : sensor'.chip[p] = config'[p]
  <2> TAKE p \in Knobs \ unsure'
  <2>1. Taken(b, p)
    BY <1>1, <1>3, DoubtedSays
  <2> QED
    BY <1>1, <1>2, <1>3, <2>1, AppliedAllSays
<1>6. MeasureTyped'
  BY <1>1, <1>2, <1>4, IdleSays DEF MeasureTyped
<1>7. SavesTyped' /\ FlashIsKept' /\ KeptIsRun'
  <2>1. CASE Saved({}, c)
    <3>1. OnRecord' = [valid |-> {}, config |-> c] /\ record' \in Records
      BY <1>2, <2>1, StoredReads DEF Saved
    <3> QED
      BY <1>1, <1>2, <2>1, <3>1 DEF Saved, SavesTyped, Records, FlashIsKept, KeptIsRun
  <2>2. CASE NotSaved({}, c)
    BY <1>2, <1>3, <2>2, StoredReads DEF NotSaved, SavesTyped, FlashIsKept, KeptIsRun
  <2> QED
    BY <1>1, <2>1, <2>2
<1> QED
  BY <1>1, <1>5, <1>6, <1>7, OverKeeps

-----------------------------------------------------------------------------
(* Power on. *)

\* At power on the panel runs with what is on record, where the part takes
\* it.
LEMMA BootKeeps ==
  ASSUME Measured, NEW b, NEW answered, Boot(b, answered)
  PROVE  Measured'
PROOF
<1> DEFINE reset == [chip |-> [p \in Knobs |-> Factory], pot_config |-> [p \in Knobs |-> Factory]]
           v == OnRecord.valid
           c == OnRecord.config
<1>1. /\ sensor' = AppliedAll(reset, v, c, b)
      /\ unsure' = {p \in v : ~Taken(b, p)} \union (IF answered THEN {} ELSE Knobs)
      /\ valid_mask' = {p \in v : Taken(b, p)}
      /\ config' = [p \in Knobs |-> IF p \in valid_mask' THEN c[p] ELSE Factory]
      /\ missing' = v \ valid_mask'
      /\ cal' = Idle /\ UNCHANGED <<record, pref, kept>>
  BY DEF Boot
<1>2. v \in SUBSET Knobs /\ c \in Configs /\ SavesTyped
  BY OnRecordTyped DEF Measured, Records
<1>3. reset \in Sensors /\ Factory \in Setting
  BY DEF Sensors, Configs, Factory, Setting
<1>4. OnRecord' = OnRecord
  BY <1>1 DEF OnRecord
<1>5. \A p \in Knobs : reset.chip[p] = Factory
  OBVIOUS
<1> HIDE DEF reset, v, c
<1>6. /\ sensor' \in Sensors
      /\ \A p \in v : Taken(b, p) => sensor'.chip[p] = c[p]
      /\ \A p \in Knobs \ v : sensor'.chip[p] = reset.chip[p]
  BY <1>1, <1>2, <1>3, AppliedAllSays
<1>7. unsure' \in SUBSET Knobs /\ valid_mask' \in SUBSET Knobs /\ missing' \in SUBSET Knobs
  BY <1>1, <1>2
<1>8. config' \in Configs
  BY <1>1, <1>2, <1>3 DEF Configs
<1>9. \A p \in Knobs \ unsure' : sensor'.chip[p] = config'[p]
  BY <1>1, <1>5, <1>6
<1>10. MeasureTyped' /\ SavesTyped'
  BY <1>1, <1>2, <1>6, <1>7, <1>8, IdleSays DEF MeasureTyped, SavesTyped
<1>11. FlashIsKept'
  BY <1>1, <1>4 DEF Measured, FlashIsKept
<1>12. KeptIsRun'
  <2> SUFFICES ASSUME kept # None
               PROVE  /\ valid_mask' = kept.valid \ missing'
                      /\ \A p \in valid_mask' : config'[p] = kept.config[p]
    BY <1>1 DEF KeptIsRun
  <2>1. kept.valid = v /\ \A p \in v : c[p] = kept.config[p]
    BY DEF Measured, FlashIsKept, v, c
  <2>2. valid_mask' \subseteq v
    BY <1>1
  <2>3. valid_mask' = kept.valid \ missing'
    BY <1>1, <2>1, <2>2
  <2>4. \A p \in valid_mask' : config'[p] = kept.config[p]
    BY <1>1, <1>7, <2>1, <2>2
  <2> QED
    BY <2>3, <2>4
<1> QED
  BY <1>1, <1>9, <1>10, <1>11, <1>12, OverKeeps

\* A power cut, with every transfer taken, none, or one pot left out.
LEMMA PowerCutKeeps ==
  ASSUME Measured, PowerCut
  PROVE  Measured'
BY BootKeeps DEF PowerCut

-----------------------------------------------------------------------------
(* Every step, for the part and the flash. *)

\* Whatever action waits.
LEMMA EndOfSampleKeeps ==
  ASSUME Measured, ActionsAreFresh, EndOfSample
  PROVE  Measured'
PROOF
<1>1. CASE Asked("REBOOT")
  BY <1>1, BootKeeps DEF EndOfSample, Asked
<1>2. CASE pending_action.kind \in {"NONE", "BRIGHTNESS_PREVIEW", "BRIGHTNESS_CANCEL", "BRIGHTNESS_SAVE"}
  <2>1. UNCHANGED <<calibration, device, saves>>
    BY <1>2 DEF EndOfSample
  <2> QED
    BY <2>1, UnmeasuredKeeps
<1>3. CASE pending_action.kind \in CalKinds
  <2>1. PICK b \in Buses : CalAction(pending_action.kind, b)
    BY <1>3 DEF EndOfSample, CalKinds
  <2>2. \/ Asked("CALIBRATE") /\ Start(pending_action.arg, b)
        \/ Retry(b) \/ Done(b) \/ Cancel(b) \/ RestoreDefaults(b)
    BY <1>3, <2>1 DEF CalAction, CalKinds, Asked
  <2>3. CASE Asked("CALIBRATE") /\ Start(pending_action.arg, b)
    <3>1. pending_action.arg = Knobs \/ (cal.phase = "IDLE" /\ \E k \in Knobs : pending_action.arg = {k})
      BY <2>3 DEF ActionsAreFresh
    <3> QED
      BY <2>3, <3>1, StartKeeps
  <2> QED
    BY <2>2, <2>3, RetryKeeps, DoneKeeps, CancelKeeps, RestoreKeeps
<1> QED
  BY <1>1, <1>2, <1>3 DEF ActionsAreFresh, Kinds, Asked

\* The interface does not touch the calibration itself.
LEMMA HandKeeps ==
  ASSUME Measured, Hand
  PROVE  Measured'
PROOF
<1>1. \E i : Edge(i)
  BY DEF Hand, Rotate, Push, Back, System, SystemUp
<1>2. UNCHANGED <<calibration, device, saves>>
  BY <1>1 DEF Edge
<1> QED
  BY <1>2, UnmeasuredKeeps

\* Nor does a CLEAR.
LEMMA ClearKeeps ==
  ASSUME Measured, Clear
  PROVE  Measured'
PROOF
<1>1. UNCHANGED <<calibration, device, saves>>
  BY DEF Clear
<1> QED
  BY <1>1, UnmeasuredKeeps

\* Nor does a step of nothing.
LEMMA StillKeeps ==
  ASSUME Measured, UNCHANGED vars
  PROVE  Measured'
PROOF
<1>1. UNCHANGED <<calibration, device, saves>>
  BY DEF vars
<1> QED
  BY <1>1, UnmeasuredKeeps

\* Every step keeps what the calibration, the part and the flash keep.
LEMMA NextKeepsMeasured ==
  ASSUME Measured, ActionsAreFresh, [Next]_vars
  PROVE  Measured'
BY TickKeeps, EndOfSampleKeeps, HandKeeps, ClearKeeps, PowerCutKeeps, StillKeeps DEF Next, Sample

-----------------------------------------------------------------------------
(* Every step, for the interface. *)

\* The calibration only moves while it runs.
LEMMA TickMoves ==
  ASSUME TouchCalTick
  PROVE  cal' = cal \/ cal.phase \in Running
BY DEF TouchCalTick, calibration

\* At a tick no action waits.
LEMMA FreshTick ==
  ASSUME ActionsAreFresh, TouchCalTick
  PROVE  ActionsAreFresh'
PROOF
<1>1. /\ handled = 0 /\ handled' = 1 /\ UNCHANGED <<mode, cal_phase, pending_action, system_down, system_selection>>
  BY DEF TouchCalTick, ui, Rest
<1>2. Asked("NONE")
  BY <1>1 DEF ActionsAreFresh, Rest
<1>3. cal.phase \in {"IDLE", "COMPLETE"} => cal' = cal
  BY TickMoves DEF Running, Gesture
<1>4. 0 < SystemOf
  BY APot
<1> QED
  BY <1>1, <1>2, <1>3, <1>4 DEF ActionsAreFresh, Asked, Rest

\* At power on nothing is asked.
LEMMA FreshBoot ==
  ASSUME NEW b, NEW answered, Boot(b, answered)
  PROVE  ActionsAreFresh'
PROOF
<1>1. /\ cal' = Idle /\ mode' = "SURFACE" /\ cal_phase' = "IDLE"
      /\ pending_action' = NoAction /\ handled' = Rest /\ system_selection' = 0
  BY DEF Boot
<1> QED
  BY <1>1, IdleSays DEF ActionsAreFresh, Asked, NoAction, Modes, Kinds, Rest

\* A CLEAR asks nothing.
LEMMA FreshClear ==
  ASSUME ActionsAreFresh, Clear
  PROVE  ActionsAreFresh'
BY DEF Clear, calibration, ActionsAreFresh, Asked

\* After the action is carried out none waits.
LEMMA FreshEnd ==
  ASSUME Measured, ActionsAreFresh, LightIsKnown, EndOfSample
  PROVE  ActionsAreFresh'
PROOF
<1>1. CASE Asked("REBOOT")
  BY <1>1, FreshBoot DEF EndOfSample, Asked
<1>2. CASE ~Asked("REBOOT")
  <2>1. /\ handled' = Rest /\ cal_phase' = cal.phase /\ pending_action' = NoAction
        /\ UNCHANGED <<system_down, system_selection>>
    BY <1>2 DEF EndOfSample, Asked
  <2>2. mode' \in Modes /\ handled' \in Nat /\ pending_action'.kind \in Kinds /\ Asked("NONE")'
        /\ system_selection' \in 0..2
    <3>1. mode' = mode \/ mode' = "SYSTEM"
      BY <1>2 DEF EndOfSample, SaveBrightness, ActionsAreFresh, Kinds, CalKinds, Asked
    <3> QED
      BY <2>1, <3>1 DEF ActionsAreFresh, Modes, NoAction, Kinds, Asked, Rest
  <2>3. CASE pending_action.kind \in {"NONE", "BRIGHTNESS_PREVIEW", "BRIGHTNESS_CANCEL", "BRIGHTNESS_SAVE"}
    <3>1. cal' = cal
      BY <2>3 DEF EndOfSample, calibration
    <3>2. mode' = mode \/ (mode = "BRIGHTNESS" /\ mode' = "SYSTEM")
      BY <2>3 DEF EndOfSample, SaveBrightness
    <3> QED
      BY <2>1, <2>2, <2>3, <3>1, <3>2 DEF ActionsAreFresh, Asked, NoAction
  <2>4. CASE pending_action.kind \in CalKinds
    <3>1. PICK b \in Buses : CalAction(pending_action.kind, b)
      BY <2>4 DEF EndOfSample, CalKinds
    <3>2. mode' = mode
      BY <2>4 DEF EndOfSample, CalKinds
    <3>3. mode # "CAL_RUN" => cal'.phase = "IDLE"
      <4> SUFFICES ASSUME mode # "CAL_RUN" PROVE cal'.phase = "IDLE"
        OBVIOUS
      <4>1. CASE Asked("CAL_CANCEL") \/ Asked("RESTORE_DEFAULTS")
        BY <3>1, <4>1, IdleSays DEF CalAction, Cancel, RestoreDefaults, Asked
      <4>2. CASE Asked("CAL_DONE")
        BY <3>1, <4>2, IdleSays DEF CalAction, Done, ActionsAreFresh, Asked
      <4>3. CASE Asked("CAL_RETRY")
        <5>1. cal.phase = "IDLE"
          BY <4>3 DEF ActionsAreFresh, Asked
        <5>2. Retry(b)
          BY <3>1, <4>3 DEF CalAction, Asked
        <5> QED
          BY <5>1, <5>2 DEF Retry
      <4>4. ~Asked("CALIBRATE")
        BY DEF ActionsAreFresh
      <4> QED
        BY <2>4, <4>1, <4>2, <4>3, <4>4 DEF CalKinds, Asked
    <3>4. ASSUME mode = "CAL_RUN", cal.phase = "COMPLETE", ~system_down
          PROVE  cal'.phase \in {"COMPLETE", "IDLE"}
      <4>1. ~Asked("CALIBRATE")
        BY <3>4 DEF ActionsAreFresh
      <4>2. CASE Asked("CAL_RETRY")
        <5>1. Retry(b)
          BY <3>1, <4>2 DEF CalAction, Asked
        <5> QED
          BY <3>4, <5>1 DEF Retry
      <4>3. CASE ~Asked("CAL_RETRY")
        BY <2>4, <3>1, <3>4, <4>1, <4>3, IdleSays
           DEF CalAction, CalKinds, Done, Cancel, RestoreDefaults, Asked
      <4> QED
        BY <4>2, <4>3
    <3> QED
      BY <2>1, <2>2, <3>2, <3>3, <3>4 DEF ActionsAreFresh, Asked, NoAction
  <2> QED
    BY <1>2, <2>3, <2>4 DEF ActionsAreFresh, Kinds, Asked
<1> QED
  BY <1>1, <1>2

\* What every edge of an input has in common.
LEMMA EdgeSays ==
  ASSUME ActionsAreFresh, NEW i \in Nat, Edge(i)
  PROVE  /\ handled # Rest /\ handled < i /\ handled' = i /\ i # Rest
         /\ UNCHANGED <<cal, cal_phase, g_brightness_saved, backlight>>
BY DEF Edge, calibration, light, Rest, ActionsAreFresh

\* Where the knobs and the buttons come in a sample.
LEMMA Places ==
  /\ BackOf \in Nat /\ SystemOf \in Nat /\ BackOf < SystemOf
  /\ \A k \in Knobs : /\ TurnOf(k) \in Nat /\ PressOf(k) \in Nat
                      /\ TurnOf(k) < BackOf /\ PressOf(k) < BackOf
BY KnobsAssumption DEF Knobs, TurnOf, PressOf, BackOf, SystemOf

\* What is bounded stays between its bounds.
LEMMA BetweenIs ==
  ASSUME NEW low \in Int, NEW x \in Int, NEW high \in Int, low <= high
  PROVE  Between(low, x, high) \in low..high
PROOF
<1>1. PICK y \in Int : y = Min({x, high}) /\ y <= high
  BY OfTwo
<1>2. PICK z \in Int : z = Max({low, y}) /\ (z = low \/ z = y) /\ low <= z
  BY OfTwo
<1> QED
  BY <1>1, <1>2 DEF Between

\* The selection stays in the menu.
LEMMA InTheMenu ==
  ASSUME NEW x \in 0..2
  PROVE  Between(0, x + 1, 2) \in 0..2 /\ Between(0, x + -1, 2) \in 0..2
PROOF
<1>1. PICK up \in Int, down \in Int, none \in Int, most \in Int :
        up = x + 1 /\ down = x + -1 /\ none = 0 /\ most = 2
  OBVIOUS
<1>2. none <= most
  BY <1>1
<1>3. Between(none, up, most) \in none..most
  BY <1>2, BetweenIs
<1>4. Between(none, down, most) \in none..most
  BY <1>2, BetweenIs
<1> QED
  BY <1>1, <1>3, <1>4

\* A knob is turned before the buttons are looked at: the calibration is
\* not in its way out.
LEMMA FreshRotate ==
  ASSUME ActionsAreFresh, NEW k \in Knobs, NEW d \in Detents, Rotate(k, d)
  PROVE  ActionsAreFresh'
PROOF
<1> DEFINE i == TurnOf(k)
<1>1. /\ i \in Nat /\ i < BackOf /\ BackOf < SystemOf /\ SystemOf \in Nat /\ BackOf \in Nat
      /\ Edge(i)
  BY Places DEF Rotate
<1>2. /\ handled < i /\ handled' = i /\ i # Rest /\ UNCHANGED <<cal, cal_phase>>
  BY <1>1, EdgeSays
<1> HIDE DEF i
<1>3. mode \in {"SYSTEM", "BRIGHTNESS"} /\ mode' = mode /\ UNCHANGED system_down
  BY DEF Rotate
<1>4. pending_action' = pending_action \/ pending_action'.kind = "BRIGHTNESS_PREVIEW"
  BY DEF Rotate, Act
<1>5. system_selection' \in 0..2
  <2>1. system_selection \in 0..2
    BY DEF ActionsAreFresh
  <2>2. \/ system_selection' = system_selection
        \/ system_selection' = Between(0, system_selection + 1, 2)
        \/ system_selection' = Between(0, system_selection + -1, 2)
    BY DEF Rotate
  <2> QED
    BY <2>1, <2>2, InTheMenu
<1>6. ~Asked("CAL_CANCEL") /\ ~Asked("CAL_DONE") /\ ~Asked("CALIBRATE")
  BY <1>1, <1>2, <1>3 DEF ActionsAreFresh
<1> QED
  BY <1>1, <1>2, <1>3, <1>4, <1>5, <1>6 DEF ActionsAreFresh, Asked, Kinds

\* One pot is asked for only while the calibration is idle.
LEMMA FreshPush ==
  ASSUME ActionsAreFresh, NEW k \in Knobs, Push(k)
  PROVE  ActionsAreFresh'
PROOF
<1> DEFINE i == PressOf(k)
<1>1. /\ i \in Nat /\ i < BackOf /\ BackOf < SystemOf /\ SystemOf \in Nat /\ BackOf \in Nat
      /\ Edge(i)
  BY Places DEF Push
<1>2. /\ handled < i /\ handled' = i /\ i # Rest /\ UNCHANGED <<cal, cal_phase>>
  BY <1>1, EdgeSays
<1> HIDE DEF i
<1>3. ~Asked("CAL_CANCEL") /\ ~Asked("CAL_DONE") /\ UNCHANGED <<system_selection, system_down>>
  BY <1>1, <1>2 DEF ActionsAreFresh, Push
<1>4. CASE mode = "SYSTEM"
  <2>1. mode' \in Modes \ {"CAL_RUN"} /\ pending_action' = pending_action
    BY <1>4 DEF Push, Selected, ActionsAreFresh, Modes
  <2> QED
    BY <1>1, <1>2, <1>3, <1>4, <2>1 DEF ActionsAreFresh, Asked
<1>5. CASE mode # "SYSTEM"
  <2>1. /\ mode = "CAL_SELECT" /\ mode' = "CAL_RUN"
        /\ pending_action' = [kind |-> "CALIBRATE", arg |-> {k}]
    BY <1>5 DEF Push, Act
  <2>2. cal.phase = "IDLE"
    BY <1>3, <2>1 DEF ActionsAreFresh
  <2> QED
    BY <1>1, <1>2, <1>3, <2>1, <2>2 DEF ActionsAreFresh, Asked, Modes, Kinds, CalKinds
<1> QED
  BY <1>4, <1>5

\* Leaving the calibration asks that it be cancelled.
LEMMA FreshBack ==
  ASSUME ActionsAreFresh, Back
  PROVE  ActionsAreFresh'
PROOF
<1>1. BackOf < SystemOf /\ SystemOf \in Nat /\ BackOf \in Nat /\ Edge(BackOf)
  BY Places DEF Back
<1>2. /\ handled < BackOf /\ handled' = BackOf /\ BackOf # Rest /\ UNCHANGED <<cal, cal_phase>>
  BY <1>1, EdgeSays
<1>3. ~Asked("CAL_CANCEL") /\ ~Asked("CAL_DONE") /\ UNCHANGED <<system_selection, system_down>>
  BY <1>1, <1>2 DEF ActionsAreFresh, Back
<1>4. \/ /\ mode \in {"SYSTEM", "CAL_SELECT", "RESTORE_CONFIRM"} /\ mode' \in {"SURFACE", "SYSTEM"}
         /\ pending_action' = pending_action
      \/ /\ mode = "BRIGHTNESS" /\ mode' = "SYSTEM"
         /\ pending_action' = [kind |-> "BRIGHTNESS_CANCEL", arg |-> brightness_saved]
      \/ /\ mode = "CAL_RUN" /\ mode' = "CAL_SELECT"
         /\ pending_action' = [kind |-> "CAL_CANCEL", arg |-> None]
  BY DEF Back, PutBack, LeaveCal, Act
<1> QED
  BY <1>1, <1>2, <1>3, <1>4 DEF ActionsAreFresh, Asked, Modes, Kinds, CalKinds

\* SYSTEM after BACK in the same sample asks for every pot; a calibration
\* that is complete is put away only while it is.
LEMMA FreshSystem ==
  ASSUME ActionsAreFresh, System
  PROVE  ActionsAreFresh'
PROOF
<1>1. SystemOf \in Nat /\ BackOf \in Nat /\ BackOf < SystemOf /\ Edge(SystemOf)
  BY Places DEF System
<1>2. /\ handled < SystemOf /\ handled' = SystemOf /\ SystemOf # Rest
      /\ UNCHANGED <<cal, cal_phase>>
  BY <1>1, EdgeSays
<1>3. ~Asked("CAL_DONE") /\ ~system_down /\ system_down' /\ UNCHANGED system_selection
  BY <1>1, <1>2 DEF ActionsAreFresh, System
<1>4. CASE mode \in {"SURFACE", "SYSTEM"}
  <2>1. mode' \in {"SYSTEM", "REBOOT_WAIT"} /\ pending_action' = pending_action
    BY <1>4 DEF System
  <2> QED
    BY <1>1, <1>2, <1>3, <1>4, <2>1 DEF ActionsAreFresh, Asked, Modes
<1>5. CASE mode = "CAL_SELECT"
  <2>1. mode' = "CAL_RUN" /\ pending_action' = [kind |-> "CALIBRATE", arg |-> Knobs]
    BY <1>5 DEF System, Act
  <2> QED
    BY <1>1, <1>2, <1>3, <2>1 DEF ActionsAreFresh, Asked, Modes, Kinds, CalKinds
<1>6. CASE mode \in {"RESTORE_CONFIRM", "BRIGHTNESS"}
  <2>1. /\ mode' \in {"SYSTEM", "BRIGHTNESS"}
        /\ pending_action'.kind \in {"RESTORE_DEFAULTS", "BRIGHTNESS_SAVE"}
    BY <1>6 DEF System, Act
  <2>2. cal.phase = "IDLE"
    BY <1>6 DEF ActionsAreFresh
  <2> QED
    BY <1>1, <1>2, <1>3, <2>1, <2>2 DEF ActionsAreFresh, Asked, Modes, Kinds, CalKinds
<1>7. CASE mode = "CAL_RUN"
  <2>1. \/ mode' = mode /\ pending_action'.kind = "CAL_RETRY"
        \/ /\ cal_phase = "COMPLETE" /\ mode' = "CAL_SELECT"
           /\ pending_action'.kind = "CAL_DONE"
    BY <1>7 DEF System, Act
  <2>2. cal_phase = "COMPLETE" => cal.phase \in {"COMPLETE", "IDLE"}
    BY <1>2, <1>3, <1>7 DEF ActionsAreFresh
  <2> QED
    BY <1>1, <1>2, <1>3, <1>7, <2>1, <2>2 DEF ActionsAreFresh, Asked, Modes, Kinds, CalKinds
<1> QED
  BY <1>4, <1>5, <1>6, <1>7 DEF System

\* Letting go of SYSTEM asks at most for a restart.
LEMMA FreshSystemUp ==
  ASSUME ActionsAreFresh, SystemUp
  PROVE  ActionsAreFresh'
PROOF
<1>1. SystemOf \in Nat /\ BackOf \in Nat /\ BackOf < SystemOf /\ Edge(SystemOf)
  BY Places DEF SystemUp
<1>2. /\ handled < SystemOf /\ handled' = SystemOf /\ SystemOf # Rest
      /\ UNCHANGED <<cal, cal_phase>>
  BY <1>1, EdgeSays
<1>3. ~Asked("CAL_DONE") /\ UNCHANGED <<mode, system_selection>>
  BY <1>1, <1>2 DEF ActionsAreFresh, SystemUp
<1>4. CASE mode = "REBOOT_WAIT"
  <2>1. pending_action'.kind = "REBOOT"
    BY <1>4 DEF SystemUp, Act
  <2>2. cal.phase = "IDLE"
    BY <1>3, <1>4 DEF ActionsAreFresh
  <2> QED
    BY <1>1, <1>2, <1>3, <1>4, <2>1, <2>2 DEF ActionsAreFresh, Asked, Modes, Kinds
<1>5. CASE mode # "REBOOT_WAIT"
  <2>1. pending_action' = pending_action
    BY <1>5 DEF SystemUp
  <2>2. ~Asked("CALIBRATE") \/ cal.phase = "IDLE"
    BY <1>1, <1>2 DEF ActionsAreFresh
  <2> QED
    BY <1>1, <1>2, <1>3, <2>1, <2>2 DEF ActionsAreFresh, Asked
<1> QED
  BY <1>4, <1>5

\* Every step keeps the requests fresh.
LEMMA NextKeepsFresh ==
  ASSUME Measured, ActionsAreFresh, LightIsKnown, [Next]_vars
  PROVE  ActionsAreFresh'
PROOF
<1>1. CASE UNCHANGED vars
  BY <1>1 DEF vars, ui, calibration, ActionsAreFresh, Asked
<1>2. CASE PowerCut
  BY <1>2, FreshBoot DEF PowerCut
<1> QED
  BY <1>1, <1>2, FreshTick, FreshEnd, FreshClear, FreshRotate, FreshPush, FreshBack, FreshSystem,
     FreshSystemUp DEF Next, Sample, Hand

-----------------------------------------------------------------------------
(* Every step, for the light. *)

\* At power on the display has the brightness on record.
LEMMA LightBoot ==
  ASSUME NEW b, NEW answered, Boot(b, answered)
  PROVE  LightIsKnown'
PROOF
<1>1. /\ brightness_saved' = g_brightness_saved' /\ backlight' = g_brightness_saved'
      /\ pending_action' = NoAction
  BY DEF Boot
<1> QED
  BY <1>1 DEF LightIsKnown, Asked, NoAction

\* A tick leaves the light alone.
LEMMA LightTick ==
  ASSUME ActionsAreFresh, LightIsKnown, TouchCalTick
  PROVE  LightIsKnown'
PROOF
<1>1. handled = Rest /\ UNCHANGED <<mode, brightness_saved, brightness_preview, pending_action,
                                   g_brightness_saved, backlight>>
  BY DEF TouchCalTick, ui, light
<1> QED
  BY <1>1 DEF ActionsAreFresh, LightIsKnown, Asked

\* What the interface thinks saved is, from then on, the brightness of a
\* display that has been cleared.
LEMMA LightClear ==
  ASSUME ActionsAreFresh, LightIsKnown, Clear
  PROVE  LightIsKnown'
PROOF
<1>1. /\ Asked("NONE") /\ mode = "SURFACE" /\ brightness_saved' = BrightnessDefault
      /\ UNCHANGED <<mode, pending_action, g_brightness_saved, backlight>>
  BY DEF Clear, ActionsAreFresh, light
<1> QED
  BY <1>1 DEF LightIsKnown, Asked

\* A brightness that is saved or put back is the display's.
LEMMA LightEnd ==
  ASSUME ActionsAreFresh, LightIsKnown, EndOfSample
  PROVE  LightIsKnown'
PROOF
<1>1. CASE Asked("REBOOT")
  BY <1>1, LightBoot DEF EndOfSample, Asked
<1>2. CASE ~Asked("REBOOT")
  <2>1. pending_action' = NoAction /\ brightness_preview' = brightness_preview
    BY <1>2 DEF EndOfSample, Asked
  <2>2. CASE pending_action.kind \in {"NONE"} \union CalKinds
    <3>1. UNCHANGED <<mode, brightness_saved, g_brightness_saved, backlight>>
      BY <2>2 DEF EndOfSample, CalKinds, light
    <3> QED
      BY <2>1, <2>2, <3>1 DEF LightIsKnown, Asked, NoAction, CalKinds
  <2>3. CASE pending_action.kind \in {"BRIGHTNESS_PREVIEW", "BRIGHTNESS_CANCEL"}
    <3>1. /\ backlight' = pending_action.arg
          /\ UNCHANGED <<mode, brightness_saved, g_brightness_saved>>
      BY <2>3 DEF EndOfSample
    <3> QED
      BY <2>1, <2>3, <3>1 DEF LightIsKnown, Asked, NoAction
  <2>4. CASE Asked("BRIGHTNESS_SAVE")
    <3>1. SaveBrightness(pending_action.arg)
      BY <2>4 DEF EndOfSample, Asked
    <3>2. mode = "BRIGHTNESS" /\ pending_action.arg = brightness_preview
      BY <2>4 DEF LightIsKnown
    <3>3. \/ /\ g_brightness_saved' = pending_action.arg /\ backlight' = pending_action.arg
             /\ brightness_saved' = brightness_preview
          \/ UNCHANGED <<g_brightness_saved, backlight, brightness_saved, mode>>
      BY <3>1, <3>2 DEF SaveBrightness
    <3> QED
      BY <2>1, <2>4, <3>2, <3>3 DEF LightIsKnown, Asked, NoAction
  <2> QED
    BY <1>2, <2>2, <2>3, <2>4 DEF ActionsAreFresh, Kinds, Asked
<1> QED
  BY <1>1, <1>2

\* Leaving the view asks that the saved brightness be put back, and nothing
\* replaces that request but the end of the sample.
LEMMA LightHand ==
  ASSUME ActionsAreFresh, LightIsKnown, Hand
  PROVE  LightIsKnown'
PROOF
<1>1. PICK i \in Nat : Edge(i)
  BY Places DEF Hand, Rotate, Push, Back, System, SystemUp
<1>2. /\ handled < i /\ handled' = i /\ handled \in Nat
      /\ UNCHANGED <<g_brightness_saved, backlight>>
  BY <1>1, EdgeSays DEF ActionsAreFresh
<1>3. brightness_saved' = brightness_saved
  BY DEF Hand, Rotate, Push, Back, System, SystemUp
<1>4. BackOf \in Nat /\ SystemOf \in Nat /\ BackOf < SystemOf
  BY Places
<1>5. ASSUME NEW k \in Knobs, NEW d \in Detents, Rotate(k, d) PROVE LightIsKnown'
  <2>1. /\ handled' = TurnOf(k) /\ TurnOf(k) < BackOf
        /\ mode' = mode
        /\ \/ mode = "SYSTEM" /\ UNCHANGED <<brightness_preview, pending_action>>
           \/ mode = "BRIGHTNESS" /\ (UNCHANGED pending_action \/ pending_action'.kind = "BRIGHTNESS_PREVIEW")
    BY <1>5, Places DEF Rotate, Edge, Act
  <2>2. ~Asked("BRIGHTNESS_SAVE") /\ ~Asked("BRIGHTNESS_CANCEL")
    BY <1>2, <1>4, <2>1 DEF LightIsKnown
  <2> QED
    BY <1>2, <1>3, <1>4, <2>1, <2>2 DEF LightIsKnown, Asked
<1>6. ASSUME NEW k \in Knobs, Push(k) PROVE LightIsKnown'
  <2>1. /\ handled' = PressOf(k) /\ PressOf(k) < BackOf
        /\ mode \in {"SYSTEM", "CAL_SELECT"}
        /\ \/ UNCHANGED pending_action
           \/ mode' # "BRIGHTNESS" /\ pending_action'.kind = "CALIBRATE"
    BY <1>6, Places DEF Push, Edge, Act
  <2>2. ~Asked("BRIGHTNESS_SAVE") /\ ~Asked("BRIGHTNESS_CANCEL") /\ ~Asked("BRIGHTNESS_PREVIEW")
    BY <1>2, <1>4, <2>1 DEF LightIsKnown
  <2> QED
    BY <1>2, <1>3, <1>4, <2>1, <2>2 DEF LightIsKnown, Asked
<1>7. CASE Back
  <2>1. handled' = BackOf
    BY <1>7 DEF Back, Edge
  <2>2. ~Asked("BRIGHTNESS_SAVE") /\ ~Asked("BRIGHTNESS_CANCEL")
    BY <1>2, <1>4, <2>1 DEF LightIsKnown
  <2>3. CASE mode = "BRIGHTNESS"
    <3>1. /\ mode' = "SYSTEM"
          /\ pending_action' = [kind |-> "BRIGHTNESS_CANCEL", arg |-> brightness_saved]
      BY <1>7, <2>3 DEF Back, PutBack, Act
    <3> QED
      BY <1>2, <1>3, <1>4, <2>1, <3>1 DEF LightIsKnown, Asked
  <2>4. CASE mode # "BRIGHTNESS"
    <3>1. /\ mode' # "BRIGHTNESS"
          /\ UNCHANGED pending_action \/ pending_action'.kind = "CAL_CANCEL"
      BY <1>7, <2>4 DEF Back, LeaveCal, Act
    <3> QED
      BY <1>2, <1>3, <2>2, <2>4, <3>1 DEF LightIsKnown, Asked
  <2> QED
    BY <2>3, <2>4
<1>8. CASE System
  <2>1. handled' = SystemOf /\ brightness_preview' = brightness_preview
    BY <1>8 DEF System, Edge
  <2>2. ~Asked("BRIGHTNESS_SAVE") /\ (Asked("BRIGHTNESS_CANCEL") => mode = "SYSTEM")
    BY <1>2, <1>4, <2>1 DEF LightIsKnown
  <2>3. CASE mode = "SYSTEM"
    <3>1. mode' = "REBOOT_WAIT" /\ UNCHANGED pending_action
      BY <1>8, <2>3 DEF System
    <3> QED
      BY <1>2, <1>3, <1>4, <2>1, <2>2, <2>3, <3>1 DEF LightIsKnown, Asked
  <2>4. CASE mode = "BRIGHTNESS"
    <3>1. /\ mode' = mode
          /\ pending_action' = [kind |-> "BRIGHTNESS_SAVE", arg |-> brightness_preview]
      BY <1>8, <2>4 DEF System, Act
    <3> QED
      BY <1>2, <1>3, <1>4, <2>1, <2>4, <3>1 DEF LightIsKnown, Asked
  <2>5. CASE mode \notin {"SYSTEM", "BRIGHTNESS"}
    <3>1. /\ mode' # "BRIGHTNESS"
          /\ \/ UNCHANGED pending_action
             \/ pending_action'.kind \in CalKinds
      BY <1>8, <2>5 DEF System, Act, CalKinds
    <3> QED
      BY <1>2, <1>3, <2>2, <2>5, <3>1 DEF LightIsKnown, Asked, CalKinds
  <2> QED
    BY <2>3, <2>4, <2>5
<1>9. CASE SystemUp
  <2>1. /\ handled' = SystemOf /\ mode' = mode /\ brightness_preview' = brightness_preview
        /\ IF mode = "REBOOT_WAIT" THEN pending_action'.kind = "REBOOT" ELSE UNCHANGED pending_action
    BY <1>9 DEF SystemUp, Edge, Act
  <2>2. ~Asked("BRIGHTNESS_SAVE") /\ (Asked("BRIGHTNESS_CANCEL") => mode = "SYSTEM")
    BY <1>2, <1>4, <2>1 DEF LightIsKnown
  <2> QED
    BY <1>2, <1>3, <1>4, <2>1, <2>2 DEF LightIsKnown, Asked
<1> QED
  BY <1>5, <1>6, <1>7, <1>8, <1>9 DEF Hand

\* Every step keeps the light known.
LEMMA NextKeepsLight ==
  ASSUME ActionsAreFresh, LightIsKnown, [Next]_vars
  PROVE  LightIsKnown'
PROOF
<1>1. CASE UNCHANGED vars
  BY <1>1 DEF vars, ui, light, LightIsKnown, Asked
<1>2. CASE PowerCut
  BY <1>2, LightBoot DEF PowerCut
<1> QED
  BY <1>1, <1>2, LightTick, LightEnd, LightHand, LightClear DEF Next, Sample

-----------------------------------------------------------------------------
(* The theorems. *)

\* The program starts in the invariant.
LEMMA InitIInv == Init => IInv
PROOF
<1> SUFFICES ASSUME Init PROVE IInv
  OBVIOUS
<1>1. PICK d \in Calibrations :
        /\ valid_mask = d.valid /\ config = d.config
        /\ record = IF d.valid = {} THEN None ELSE Stored(d.valid, d.config)
  BY DEF Init
<1>2. valid_mask \in SUBSET Knobs /\ config \in Configs /\ None \notin Records
  BY <1>1, SettingsAssumption DEF Configs, Records
<1>3. /\ cal = Idle /\ sensor = [chip |-> config, pot_config |-> config]
      /\ unsure = {} /\ missing = {} /\ kept = [valid |-> valid_mask, config |-> config]
  BY DEF Init
<1>4. MeasureTyped /\ TrialsAreAhead
  BY <1>2, <1>3, IdleSays DEF MeasureTyped, TrialsAreAhead, Ahead, Sensors
<1>5. SavesTyped
  BY <1>1, <1>2, <1>3, StoredReads DEF SavesTyped, Records
<1>6. OnRecord.valid = valid_mask /\ \A p \in valid_mask : OnRecord.config[p] = config[p]
  <2>1. CASE valid_mask = {}
    BY <1>1, <2>1 DEF OnRecord
  <2>2. CASE valid_mask # {}
    <3>1. record = Stored(valid_mask, config) /\ record # None
      BY <1>1, <1>2, <2>2, StoredReads
    <3>2. OnRecord = [valid |-> valid_mask, config |-> config]
      BY <1>2, <3>1, OtherWayTwice DEF OnRecord, Stored
    <3> QED
      BY <3>2
  <2> QED
    BY <2>1, <2>2
<1>7. FlashIsKept /\ KeptIsRun
  BY <1>3, <1>6 DEF FlashIsKept, KeptIsRun
<1>8. CheckedIsSaved /\ CyclesLeft /\ CompleteIsSaved
  BY <1>3, IdleSays, CalibrationAssumption DEF CheckedIsSaved, CyclesLeft, CompleteIsSaved
<1>9. ActionsAreFresh
  <2>1. /\ mode = "SURFACE" /\ system_selection = 0 /\ pending_action = NoAction
        /\ handled = Rest
    BY DEF Init
  <2> QED
    BY <1>3, <2>1, IdleSays DEF ActionsAreFresh, Asked, NoAction, Modes, Kinds, Rest
<1>10. LightIsKnown
  BY DEF Init, LightIsKnown, Asked, NoAction
<1> QED
  BY <1>4, <1>5, <1>7, <1>8, <1>9, <1>10 DEF IInv, Measured

\* Every step keeps the invariant.
LEMMA NextKeeps == IInv /\ [Next]_vars => IInv'
BY NextKeepsMeasured, NextKeepsFresh, NextKeepsLight DEF IInv

\* The invariant holds in every state.
THEOREM IInvHolds == Spec => []IInv
BY InitIInv, NextKeeps, PTL DEF Spec

\* No trial setting stays in the part once the calibration is over, for any
\* number of pots, gains and gestures (touch_cal.c:27-56 and 146-174).
THEOREM NoTrialStaysBehindHolds == Spec => []NoTrialStaysBehind
PROOF
<1>1. IInv => NoTrialStaysBehind
  BY DEF IInv, Measured, TrialsAreAhead, Ahead, NoTrialStaysBehind, Running, Gesture
<1> QED
  BY <1>1, IInvHolds, PTL

\* What is checked, what is saved and what is in force agree, through any
\* number of failing transfers and saves and power cuts (touch_cal.c:64-118
\* and 249-307, ui_state.c:896-913).
THEOREM SavedIsInForceHolds == Spec => []SavedIsInForce
PROOF
<1>1. IInv => SavedIsInForce
  BY DEF IInv, Measured, ActionsAreFresh, LightIsKnown, BrightnessAgrees, Asked, SavedIsInForce
<1> QED
  BY <1>1, IInvHolds, PTL
=============================================================================
