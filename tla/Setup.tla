------------------------------- MODULE Setup --------------------------------
(***************************************************************************)
(* The settings views of src/app/ui_state.c, the touch calibration they    *)
(* run (src/app/touch_cal.c), the touch sensor's configuration             *)
(* (src/hal/qt2120.c) and what main.c does with an action.                 *)
(*                                                                         *)
(* A sample of the inputs is taken apart in a fixed order (main.c,         *)
(* consume_input): the calibration's tick, each knob's turn and press, the *)
(* buttons; then the interface is told of the calibration's phase and the  *)
(* one action that waits is carried out.  Every sample is one tick of      *)
(* time.                                                                   *)
(*                                                                         *)
(* What a write does to the flash is Settings': one that fails may have    *)
(* taken effect.  The surface mode is Panel's.  Messages, countdowns and   *)
(* generation numbers are left out.                                        *)
(***************************************************************************)
EXTENDS Integers, FiniteSets, FiniteSetsExt

CONSTANTS
  Pots,            \* the knobs, in two rows
  GainSteps,       \* how many gains there are to try
  Cycles,          \* gestures before a threshold is chosen
  ClearTicks,      \* the clear interval
  MinHold, MaxHold,        \* a gesture's shortest and longest touch
  ReleaseTicks, MaxRelease,\* the clear interval after it, and how long it may take
  Deltas,          \* what the sensor may measure
  Detents,         \* how far a knob turns
  Prefs,           \* the brightness that may be in flash at first
  Calibrations,    \* and the calibrations: [valid, config]
  None,            \* no record
  MaxSurprises,    \* bound on failing transfers, power cuts and CLEARs
  MaxStrokes       \* bound on presses

Knobs == 0..(Pots - 1)
Dimmest == 10
Brightest == 100
BrightnessDefault == 100
Factory == [threshold |-> 12, gain |-> 0]
NoPeak == 65535

Modes == {"SURFACE", "SYSTEM", "CAL_SELECT", "CAL_RUN", "RESTORE_CONFIRM", "BRIGHTNESS",
          "REBOOT_WAIT"}
Gesture == {"TOUCH", "HOLD", "RELEASE"}
Running == {"BASELINE", "VALIDATE"} \union Gesture

\* What a pot's record holds: the threshold is a byte.
Setting == [threshold : 0..255, gain : Nat]

ASSUME KnobsAssumption == Pots \in Nat \ {0} /\ Pots % 2 = 0
ASSUME CalibrationAssumption ==
  /\ GainSteps \in Nat \ {0} /\ Cycles \in Nat \ {0}
  /\ ClearTicks \in Nat \ {0} /\ ReleaseTicks \in Nat \ {0}
  /\ MinHold \in Nat /\ MaxHold \in Nat /\ MinHold < MaxHold
  /\ MaxRelease \in Nat /\ ReleaseTicks < MaxRelease
  /\ Deltas \subseteq 0..(NoPeak - 1)
ASSUME SettingsAssumption ==
  /\ Detents \subseteq Int \ {0} /\ Prefs \subseteq Dimmest..Brightest
  /\ MaxSurprises \in Nat /\ MaxStrokes \in Nat
  /\ Calibrations \subseteq [valid : SUBSET Knobs, config : [Knobs -> Setting]]
  /\ None \notin [valid : SUBSET Knobs, config : [Knobs -> Setting]]

VARIABLES
  \* ui_state.c:
  mode,
  system_selection,
  brightness_saved, brightness_preview,
  cal_phase,       \* what it was last told of the calibration
  pending_action,  \* [kind, arg]
  \* touch_cal.c:
  cal,             \* the measurement: phase, pot, selected_mask and what it
                   \* has seen; left is the time to deadline, held the time
                   \* since the touch or its release began
  valid_mask, config,      \* the pots calibrated, and every pot's threshold and gain
  \* qt2120.c:
  sensor,          \* [chip, pot_config]: the part, and what the driver believes
  fitted,          \* g_qt_init_rc is 0
  \* main.c:
  g_brightness_saved, backlight,
  system_down,     \* the SYSTEM button is down
  handled,         \* how far the sample at hand has been taken apart
  \* Flash:
  record,          \* the calibration record: [valid, config], bottom row first
  pref,            \* the brightness record
  surprises, strokes,      \* for the bounds
  \* History, not in the code:
  unsure,          \* pots the part may be set up otherwise than asked
  kept,            \* [valid, config] as last saved, None once a save fails
  missing          \* pots whose record could not be applied at boot

ui == <<mode, system_selection, brightness_saved, brightness_preview, cal_phase>>
calibration == <<cal, valid_mask, config>>
device == <<sensor, unsure>>
light == <<g_brightness_saved, backlight, pref>>
saves == <<record, kept, missing>>
vars == <<ui, pending_action, calibration, device, fitted, light, system_down, handled, saves,
          surprises, strokes>>

NoAction == [kind |-> "NONE", arg |-> None]
Idle == [phase |-> "IDLE", pot |-> 0, selected_mask |-> {}, cycle |-> 0, noise |-> 0,
         min_touch |-> NoPeak, peak |-> 0, gain_step |-> 0, saw_move |-> FALSE,
         validating |-> FALSE, left |-> 0, held |-> 0]

-----------------------------------------------------------------------------
(* The sensor.  b is what fails on the bus: reads, calibrations, or one of *)
(* the two writes that set a pot up.                                       *)

Transfers == {<<"read", 0>>, <<"calibrate", 0>>}
             \union ({"gain", "threshold"} \X Knobs)

\* Nothing fails, one transfer, or all of them.
Buses == {{}, Transfers} \union {{t} : t \in Transfers}

Bus(b) == IF b = {} THEN UNCHANGED surprises
          ELSE surprises < MaxSurprises /\ surprises' = surprises + 1

Answers(b, what) == <<what, 0>> \notin b
Taken(b, p) == {<<"gain", p>>, <<"threshold", p>>} \intersect b = {}

\* qt2120_apply_pot_config: the gain first; the driver believes what took both.
Applied(s, p, c, b) ==
  [chip |-> [s.chip EXCEPT ![p] =
               IF Taken(b, p) THEN c
               ELSE IF <<"gain", p>> \in b THEN @
               ELSE [@ EXCEPT !.gain = c.gain]],
   pot_config |-> IF Taken(b, p) THEN [s.pot_config EXCEPT ![p] = c] ELSE s.pot_config]

AppliedAll(s, ps, c, b) ==
  [chip |-> [p \in Knobs |-> IF p \in ps THEN Applied(s, p, c[p], b).chip[p] ELSE s.chip[p]],
   pot_config |-> [p \in Knobs |-> IF p \in ps /\ Taken(b, p) THEN c[p] ELSE s.pot_config[p]]]

Doubted(ps, b) == (unsure \ ps) \union {p \in ps : ~Taken(b, p)}

-----------------------------------------------------------------------------
(* The calibration record.  Flash keeps the bottom row first.              *)

Swapped(p) == (p + Pots \div 2) % Pots

OtherWay(v, c) == [valid |-> {Swapped(p) : p \in v}, config |-> [p \in Knobs |-> c[Swapped(p)]]]

\* Variant: the mask is stored in the order of the panel.
StoredMaskAsIs(v, c) == [OtherWay(v, c) EXCEPT !.valid = v]

Stored(v, c) == OtherWay(v, c)

\* The record as the panel numbers its pots.
OnRecord == IF record = None THEN [valid |-> {}, config |-> [p \in Knobs |-> Factory]]
            ELSE OtherWay(record.valid, record.config)

Saved(v, c) ==
  record' = Stored(v, c) /\ kept' = [valid |-> v, config |-> c] /\ missing' = {}

\* An error: the record may be there all the same.
NotSaved(v, c) ==
  /\ surprises < MaxSurprises /\ surprises' = surprises + 1
  /\ record' \in {record, Stored(v, c)}
  /\ kept' = None /\ UNCHANGED missing

-----------------------------------------------------------------------------
(* The calibration: fail, begin_baseline, commit_pot.                      *)

\* What was measured is not looked at again.
Ended(run, phase) ==
  [Idle EXCEPT !.phase = phase, !.pot = run.pot, !.selected_mask = run.selected_mask]

\* Variant: a failure leaves the part as it was being measured.
FailUnrestored(run, s, c, b) ==
  /\ cal' = Ended(run, "FAILED")
  /\ sensor' = s
  /\ unsure' = Doubted({run.pot}, b)

Fail(run, s, c, b) ==
  /\ cal' = Ended(run, "FAILED")
  /\ sensor' = Applied(s, run.pot, c[run.pot], b)
  /\ unsure' = Doubted({run.pot}, b)

Fresh(run) ==
  [Idle EXCEPT !.phase = "BASELINE", !.pot = run.pot, !.selected_mask = run.selected_mask,
               !.gain_step = run.gain_step, !.left = ClearTicks]

BeginBaseline(run, s, c, b) ==
  LET trial == Applied(s, run.pot, [Factory EXCEPT !.gain = run.gain_step], b)
  IN IF Answers(b, "calibrate")
       THEN /\ cal' = Fresh(run) /\ sensor' = trial
            /\ unsure' = Doubted({run.pot}, b)
       ELSE Fail(Fresh(run), trial, c, b)

NextSelected(run) == {p \in run.selected_mask : p > run.pot}

CommitPot(b) ==
  LET p == cal.pot
      v == valid_mask \union {p}
      c == [config EXCEPT ![p] = sensor.pot_config[p]]
  IN /\ valid_mask' = v /\ config' = c
     /\ \/ /\ b = {} /\ NotSaved(v, c)
           /\ Fail(cal, sensor, c, b)
        \/ /\ Bus(b) /\ Saved(v, c)
           /\ IF NextSelected(cal) = {}
                THEN cal' = Ended(cal, "COMPLETE") /\ UNCHANGED device
                ELSE BeginBaseline([cal EXCEPT !.pot = Min(NextSelected(cal)), !.gain_step = 0],
                                   sensor, c, b)

-----------------------------------------------------------------------------
(* touch_cal_tick, first in every sample: the sensor is read, and the pot  *)
(* being measured or another one may be touched.                           *)

\* touch_cal_choose_config.
Margin == cal.noise + 4
MoreGain == cal.min_touch < 4 * Margin /\ cal.gain_step + 1 < GainSteps
NoThreshold == cal.min_touch < 3 * Margin
Threshold == Min({255, Max({cal.min_touch \div 8, Margin})})

OnlyMeasures == UNCHANGED <<valid_mask, config, saves>>

Goes(run) == cal' = run /\ UNCHANGED <<device, surprises>> /\ OnlyMeasures

Fails(run) ==
  \E b \in Buses : /\ Answers(b, "read") /\ Bus(b)
                   /\ Fail(run, sensor, config, b)
                   /\ OnlyMeasures

ReadFails ==
  \E b \in Buses : /\ ~Answers(b, "read") /\ Bus(b)
                   /\ Fail(cal, sensor, config, b)
                   /\ OnlyMeasures

\* Any touch starts the clear interval over.
Clearing ==
  /\ cal.phase \in {"BASELINE", "VALIDATE"}
  /\ \/ Goes([cal EXCEPT !.left = ClearTicks, !.noise = 0])
     \/ \E delta \in Deltas :
          Goes([cal EXCEPT !.left = @ - 1, !.noise = Max({@, delta}),
                           !.phase = IF cal.left = 1 THEN "TOUCH" ELSE @])

AnotherPot == cal.phase \in Gesture /\ Fails(cal)

Untouched == cal.phase = "TOUCH" /\ Goes(cal)

\* Variant: a touch may last for ever.
HeldForever(run) == FALSE

HeldTooLong(run) == run.held >= MaxHold

\* The first sample of a touch already counts.
Touching ==
  /\ cal.phase \in {"TOUCH", "HOLD"}
  /\ \E turned \in BOOLEAN, delta \in Deltas :
       LET held == IF cal.phase = "TOUCH" THEN 0 ELSE Min({cal.held + 1, MaxHold})
           run == [cal EXCEPT !.phase = "HOLD", !.held = held,
                              !.saw_move = (cal.phase = "HOLD" /\ @) \/ turned,
                              !.peak = Max({delta, IF cal.phase = "HOLD" THEN @ ELSE 0})]
       IN IF HeldTooLong(run) THEN Fails(run) ELSE Goes(run)

LettingGo ==
  /\ cal.phase = "HOLD"
  /\ \E turned \in BOOLEAN, delta \in Deltas :
       LET peak == Max({cal.peak, delta})
       IN IF cal.held + 1 < MinHold \/ ~(cal.saw_move \/ turned) \/ peak <= cal.noise + 8
            THEN Fails(cal)
            ELSE Goes([cal EXCEPT !.phase = "RELEASE", !.peak = 0, !.saw_move = FALSE,
                                  !.held = 0, !.left = ReleaseTicks,
                                  !.min_touch = Min({@, peak})])

TouchedAgain ==
  /\ cal.phase = "RELEASE"
  /\ IF cal.held + 1 >= MaxRelease THEN Fails(cal)
     ELSE Goes([cal EXCEPT !.held = @ + 1, !.left = ReleaseTicks])

\* Variant: the trial is not applied before the final check.
ValidateUntried(b) ==
  /\ Answers(b, "read") /\ Bus(b)
  /\ cal' = [cal EXCEPT !.cycle = @ + 1, !.phase = "VALIDATE", !.validating = TRUE,
                        !.noise = 0, !.left = ClearTicks, !.held = 0]
  /\ UNCHANGED device

\* The trial setting, and its final check.
Validate(b) ==
  LET trial == Applied(sensor, cal.pot, [threshold |-> Threshold, gain |-> cal.gain_step], b)
      last == [cal EXCEPT !.cycle = @ + 1, !.phase = "VALIDATE", !.validating = TRUE,
                          !.noise = 0, !.left = ClearTicks, !.held = 0]
  IN /\ Answers(b, "read") /\ Bus(b)
     /\ IF Taken(b, cal.pot) /\ Answers(b, "calibrate")
          THEN cal' = last /\ sensor' = trial /\ unsure' = Doubted({cal.pot}, b)
          ELSE Fail(last, trial, config, b)

\* A gesture is over: another, a stronger gain, or a threshold to check.
Released ==
  /\ cal.phase = "RELEASE"
  /\ IF cal.left > 1 THEN Goes([cal EXCEPT !.held = @ + 1, !.left = @ - 1])
     ELSE IF cal.validating
       THEN \E b \in Buses : Answers(b, "read") /\ CommitPot(b)
     ELSE IF cal.cycle + 1 < Cycles
       THEN Goes([cal EXCEPT !.phase = "TOUCH", !.cycle = @ + 1, !.left = 0, !.held = 0])
     ELSE IF MoreGain
       THEN \E b \in Buses :
              /\ Answers(b, "read") /\ Bus(b)
              /\ BeginBaseline([cal EXCEPT !.gain_step = @ + 1], sensor, config, b)
              /\ OnlyMeasures
     ELSE IF NoThreshold THEN Fails(cal)
     ELSE \E b \in Buses : Validate(b) /\ OnlyMeasures

Rest == 0
TurnOf(k) == 2 * k + 2
PressOf(k) == 2 * k + 3
BackOf == 2 * Pots + 2
SystemOf == 2 * Pots + 3

TouchCalTick ==
  /\ handled = Rest /\ handled' = 1
  /\ IF ~fitted \/ cal.phase \notin Running
       THEN UNCHANGED <<calibration, device, saves, surprises>>
       ELSE \/ ReadFails \/ Clearing \/ AnotherPot \/ Untouched \/ Touching \/ LettingGo
            \/ TouchedAgain \/ Released
  /\ UNCHANGED <<ui, pending_action, fitted, light, system_down, strokes>>

-----------------------------------------------------------------------------
(* The interface.  An action that has not been carried out is replaced by  *)
(* the next.                                                               *)

Act(kind, arg) == pending_action' = [kind |-> kind, arg |-> arg]

Between(low, v, high) == Max({low, Min({v, high})})

Edge(i) ==
  /\ handled # Rest /\ handled < i /\ handled' = i
  /\ UNCHANGED <<cal_phase, calibration, device, fitted, light, saves, surprises>>

Pressed == strokes < MaxStrokes /\ strokes' = strokes + 1

\* ui_state_rotate.
Rotate(k, d) ==
  /\ Edge(TurnOf(k))
  /\ \/ /\ mode = "SYSTEM"
        /\ system_selection' = Between(0, system_selection + (IF d > 0 THEN 1 ELSE -1), 2)
        /\ UNCHANGED <<brightness_preview, pending_action>>
     \/ /\ mode = "BRIGHTNESS"
        /\ brightness_preview' = Between(Dimmest, brightness_preview + d, Brightest)
        /\ IF brightness_preview' = brightness_preview THEN UNCHANGED pending_action
           ELSE Act("BRIGHTNESS_PREVIEW", brightness_preview')
        /\ UNCHANGED system_selection
  /\ UNCHANGED <<mode, brightness_saved, system_down, strokes>>

Selected == CASE system_selection = 0 -> "CAL_SELECT"
              [] system_selection = 1 -> "RESTORE_CONFIRM"
              [] system_selection = 2 -> "BRIGHTNESS"

\* ui_state_push.
Push(k) ==
  /\ Edge(PressOf(k)) /\ Pressed
  /\ \/ /\ mode = "SYSTEM" /\ mode' = Selected
        /\ brightness_preview' = IF mode' = "BRIGHTNESS" THEN brightness_saved
                                 ELSE brightness_preview
        /\ UNCHANGED pending_action
     \/ /\ mode = "CAL_SELECT" /\ mode' = "CAL_RUN"
        /\ Act("CALIBRATE", {k})
        /\ UNCHANGED brightness_preview
  /\ UNCHANGED <<system_selection, brightness_saved, system_down>>

LeaveCal == Act("CAL_CANCEL", None)

PutBack == brightness_preview' = brightness_saved /\ Act("BRIGHTNESS_CANCEL", brightness_saved)

\* ui_state_button: BACK.
Back ==
  /\ Edge(BackOf) /\ Pressed
  /\ \/ /\ mode = "SYSTEM" /\ mode' = "SURFACE"
        /\ UNCHANGED <<brightness_preview, pending_action>>
     \/ /\ mode \in {"CAL_SELECT", "RESTORE_CONFIRM"} /\ mode' = "SYSTEM"
        /\ UNCHANGED <<brightness_preview, pending_action>>
     \/ /\ mode = "BRIGHTNESS" /\ mode' = "SYSTEM"
        /\ PutBack
     \/ /\ mode = "CAL_RUN" /\ cal_phase # "COMPLETE" /\ mode' = "CAL_SELECT"
        /\ LeaveCal
        /\ UNCHANGED brightness_preview
  /\ UNCHANGED <<system_selection, brightness_saved, system_down>>

\* ui_state_button: SYSTEM, which in the surface mode opens the settings.
System ==
  /\ Edge(SystemOf) /\ Pressed
  /\ ~system_down /\ system_down' = TRUE
  /\ \/ mode = "SURFACE" /\ mode' = "SYSTEM" /\ UNCHANGED pending_action
     \/ mode = "SYSTEM" /\ mode' = "REBOOT_WAIT" /\ UNCHANGED pending_action
     \/ mode = "CAL_SELECT" /\ mode' = "CAL_RUN" /\ Act("CALIBRATE", Knobs)
     \/ mode = "RESTORE_CONFIRM" /\ mode' = "SYSTEM" /\ Act("RESTORE_DEFAULTS", None)
     \/ mode = "BRIGHTNESS" /\ Act("BRIGHTNESS_SAVE", brightness_preview) /\ UNCHANGED mode
     \/ /\ mode = "CAL_RUN" /\ cal_phase = "FAILED"
        /\ Act("CAL_RETRY", None) /\ UNCHANGED mode
     \/ /\ mode = "CAL_RUN" /\ cal_phase = "COMPLETE" /\ mode' = "CAL_SELECT"
        /\ Act("CAL_DONE", None)
  /\ UNCHANGED <<system_selection, brightness_saved, brightness_preview>>

\* What the other buttons and the knobs do when they are let go of changes
\* nothing here.
SystemUp ==
  /\ Edge(SystemOf)
  /\ system_down /\ system_down' = FALSE
  /\ IF mode = "REBOOT_WAIT" THEN Act("REBOOT", None) ELSE UNCHANGED pending_action
  /\ UNCHANGED <<mode, system_selection, brightness_saved, brightness_preview, strokes>>

-----------------------------------------------------------------------------
(* The end of a sample: the action that waits.                             *)

NoFlash == UNCHANGED <<saves, valid_mask, config>>

\* touch_cal_start, whatever the calibration is doing.
Start(pots, b) ==
  /\ BeginBaseline([cal EXCEPT !.pot = Min(pots), !.selected_mask = pots, !.gain_step = 0],
                   sensor, config, b)
  /\ Bus(b) /\ NoFlash

Retry(b) ==
  /\ IF cal.phase = "FAILED"
       THEN BeginBaseline([cal EXCEPT !.gain_step = 0], sensor, config, b)
       ELSE b = {} /\ UNCHANGED <<cal, device>>
  /\ Bus(b) /\ NoFlash

Done(b) ==
  /\ b = {} /\ Bus(b)
  /\ cal' = IF cal.phase = "COMPLETE" THEN Idle ELSE cal
  /\ UNCHANGED device /\ NoFlash

Cancel(b) ==
  /\ Bus(b) /\ cal' = Idle
  /\ sensor' = AppliedAll(sensor, Knobs, config, b)
  /\ unsure' = Doubted(Knobs, b)
  /\ NoFlash

\* The result of the write is not looked at.
RestoreDefaults(b) ==
  LET c == [p \in Knobs |-> Factory]
  IN /\ cal' = Idle
     /\ valid_mask' = {} /\ config' = c
     /\ sensor' = AppliedAll(sensor, Knobs, c, b)
     /\ unsure' = Doubted(Knobs, b)
     /\ \/ Bus(b) /\ Saved({}, c)
        \/ b = {} /\ NotSaved({}, c)

SaveBrightness(percent) ==
  \/ /\ pref' = percent /\ g_brightness_saved' = percent /\ backlight' = percent
     /\ IF mode = "BRIGHTNESS"
          THEN brightness_saved' = brightness_preview /\ mode' = "SYSTEM"
          ELSE UNCHANGED <<brightness_saved, mode>>
     /\ UNCHANGED surprises
  \/ /\ surprises < MaxSurprises /\ surprises' = surprises + 1
     /\ pref' \in {pref, percent}
     /\ UNCHANGED <<g_brightness_saved, backlight, brightness_saved, mode>>

\* Power on: qt2120_init, touch_cal_init, the brightness, ui_state_init.  A
\* pot whose record does not take is no longer among the calibrated.
Boot(b, answered) ==
  LET reset == [chip |-> [p \in Knobs |-> Factory], pot_config |-> [p \in Knobs |-> Factory]]
      v == OnRecord.valid
      c == OnRecord.config
  IN /\ fitted' = answered /\ (answered \/ b = Transfers)
     /\ sensor' = AppliedAll(reset, v, c, b)
     /\ unsure' = {p \in v : ~Taken(b, p)} \union (IF answered THEN {} ELSE Knobs)
     /\ valid_mask' = {p \in v : Taken(b, p)}
     /\ config' = [p \in Knobs |-> IF p \in valid_mask' THEN c[p] ELSE Factory]
     /\ missing' = v \ valid_mask'
     /\ cal' = Idle
     /\ g_brightness_saved' = IF pref = None THEN BrightnessDefault ELSE pref
     /\ backlight' = g_brightness_saved' /\ brightness_saved' = g_brightness_saved'
     /\ brightness_preview' = g_brightness_saved'
     /\ mode' = "SURFACE" /\ system_selection' = 0 /\ cal_phase' = "IDLE"
     /\ pending_action' = NoAction /\ handled' = Rest
     /\ UNCHANGED <<record, pref, kept>>

CalAction(kind, b) ==
  CASE kind = "CALIBRATE" -> Start(pending_action.arg, b)
    [] kind = "CAL_RETRY" -> Retry(b)
    [] kind = "CAL_DONE" -> Done(b)
    [] kind = "CAL_CANCEL" -> Cancel(b)
    [] kind = "RESTORE_DEFAULTS" -> RestoreDefaults(b)

\* The interface is told the phase before the action is carried out.
EndOfSample ==
  /\ handled # Rest /\ UNCHANGED strokes
  /\ IF pending_action.kind = "REBOOT"
       THEN Boot({}, TRUE) /\ UNCHANGED <<system_down, surprises>>
       ELSE /\ handled' = Rest
            /\ cal_phase' = cal.phase
            /\ pending_action' = NoAction
            /\ CASE pending_action.kind = "NONE" ->
                      UNCHANGED <<mode, brightness_saved, calibration, device, light, saves,
                                  surprises>>
                 [] pending_action.kind \in {"BRIGHTNESS_PREVIEW", "BRIGHTNESS_CANCEL"} ->
                      /\ backlight' = pending_action.arg
                      /\ UNCHANGED <<mode, brightness_saved, g_brightness_saved, pref,
                                     calibration, device, saves, surprises>>
                 [] pending_action.kind = "BRIGHTNESS_SAVE" ->
                      /\ SaveBrightness(pending_action.arg)
                      /\ UNCHANGED <<calibration, device, saves>>
                 [] OTHER ->
                      /\ \E b \in Buses :
                           CalAction(pending_action.kind, b)
                      /\ UNCHANGED <<mode, brightness_saved, light>>
            /\ UNCHANGED <<system_selection, brightness_preview, fitted, system_down>>

-----------------------------------------------------------------------------
(* What happens between samples.                                           *)

\* ui_state_surface_cleared: in the surface mode the interface starts over.
Clear ==
  /\ handled = Rest /\ mode = "SURFACE"
  /\ surprises < MaxSurprises /\ surprises' = surprises + 1
  /\ system_selection' = 0 /\ cal_phase' = "IDLE"
  /\ brightness_saved' = BrightnessDefault /\ brightness_preview' = BrightnessDefault
  /\ UNCHANGED <<mode, pending_action, calibration, device, fitted, light, system_down, handled, saves,
                 strokes>>

\* The power goes, at any time, and comes back.
PowerCut ==
  /\ surprises < MaxSurprises /\ surprises' = surprises + 1
  /\ \/ Boot({}, TRUE) \/ Boot(Transfers, FALSE)
     \/ \E p \in Knobs : Boot({<<"threshold", p>>}, TRUE)
  /\ system_down' = FALSE /\ UNCHANGED strokes

-----------------------------------------------------------------------------
Init ==
  /\ mode = "SURFACE" /\ system_selection = 0 /\ cal_phase = "IDLE"
  /\ pending_action = NoAction
  /\ cal = Idle
  /\ \E c \in Calibrations :
       /\ valid_mask = c.valid /\ config = c.config
       /\ record = IF c.valid = {} THEN None ELSE Stored(c.valid, c.config)
  /\ sensor = [chip |-> config, pot_config |-> config]
  /\ fitted = TRUE
  /\ pref \in Prefs \union {None}
  /\ g_brightness_saved = IF pref = None THEN BrightnessDefault ELSE pref
  /\ backlight = g_brightness_saved /\ brightness_saved = g_brightness_saved
  /\ brightness_preview = g_brightness_saved
  /\ system_down = FALSE /\ handled = Rest
  /\ surprises = 0 /\ strokes = 0
  /\ unsure = {} /\ kept = [valid |-> valid_mask, config |-> config]
  /\ missing = {}

Hand ==
  \/ \E k \in Knobs, d \in Detents : Rotate(k, d)
  \/ \E k \in Knobs : Push(k)
  \/ Back \/ System \/ SystemUp

Sample == TouchCalTick \/ EndOfSample

Next == Sample \/ Hand \/ Clear \/ PowerCut

\* The main loop takes its samples.
Spec == Init /\ [][Next]_vars /\ WF_vars(Sample)

-----------------------------------------------------------------------------
(* Properties. *)

\* Once a calibration is over, finished or given up, every pot runs with
\* what the firmware believes and would save: no trial setting stays behind.
\* After a failure that holds of the pot that failed.  A pot whose last
\* setting did not go through is excused.
NoTrialStaysBehind ==
  \A p \in Knobs \ unsure :
    cal.phase \in {"IDLE", "COMPLETE"} \/ (cal.phase = "FAILED" /\ p = cal.pot) =>
      sensor.chip[p] = config[p]

\* Whatever transfer fails, the final check of a pot is made with the
\* setting that is saved when it passes: the part has it, and it is the one
\* the driver believes.
CheckedIsSaved ==
  cal.validating =>
    /\ sensor.chip[cal.pot] = sensor.pot_config[cal.pot] /\ cal.pot \notin unsure
    /\ cal.cycle = Cycles

\* `Calibration saved' is true: the flash has what the panel runs with.
CompleteIsSaved ==
  cal.phase = "COMPLETE" => OnRecord = [valid |-> valid_mask, config |-> config]

\* As long as the last save succeeded the panel runs with it, pot by pot,
\* across restarts; only a pot whose setting did not go through is left out.
KeptIsRun ==
  kept # None =>
    /\ valid_mask = kept.valid \ missing
    /\ \A p \in valid_mask : config[p] = kept.config[p]

\* As long as the interface knows the brightness that is saved, the display
\* has it whenever none is being tried.
BrightnessAgrees ==
  handled = Rest /\ mode # "BRIGHTNESS" /\ brightness_saved = g_brightness_saved =>
    backlight = g_brightness_saved

\* What is checked, what is saved and what is in force agree: through failing
\* transfers and saves, power cuts and Cancel (touch_cal.c:64-118 and 249-307,
\* ui_state.c:896-913).
SavedIsInForce == CheckedIsSaved /\ CompleteIsSaved /\ KeptIsRun /\ BrightnessAgrees

\* Whatever the finger does, a touch and its release come to an end.
GesturesEnd == cal.phase \in {"HOLD", "RELEASE"} ~> cal.phase \notin {"HOLD", "RELEASE"}
=============================================================================
