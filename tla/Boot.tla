-------------------------------- MODULE Boot --------------------------------
(***************************************************************************)
(* Which program runs: the decision src/boot/main.c makes on every reset,  *)
(* the handshake in SRAM it reads (src/common/boot_handshake.h), and what  *)
(* the application (src/main.c) writes there on its way up, when it works, *)
(* and when it dies.                                                       *)
(*                                                                         *)
(* A handshake is written in two steps, fields and then checksum, and a    *)
(* reset can fall between them.  Of the journal in flash the model keeps   *)
(* the image whose proven record is the newest (module Persist); of an     *)
(* image, its identity, and whether it can hang or fault.  app_faults is a *)
(* count of launches or a crumb; every crumb is a number above the limit.  *)
(***************************************************************************)
EXTENDS Integers, FiniteSets

CONSTANTS
  Images,      \* images whose vector table looks launchable, by CRC and length
  Sound,       \* those that never hang and never fault
  None,        \* no image in flash; no image vouched for
  FaultLimit,  \* APP_FAULT_LIMIT
  MaxResets,   \* bound on rear resets and power cuts
  MaxFlashes   \* bound on images written

ASSUME ImagesAssumption == None \notin Images /\ Sound \subseteq Images
ASSUME BoundsAssumption ==
  /\ FaultLimit \in Nat \ {0} /\ MaxResets \in Nat /\ MaxFlashes \in Nat

Requests == {"none", "run", "update"}
Crumbs == {"count", "stage", "fault", "nmi", "handback"}
Faults == [kind: Crumbs, n: 0..FaultLimit]
Reasons == {"update", "fault", "nmi", "handback",
            "invalid", "crash loop", "unproven", "claimed", "launched"}

VARIABLES
  request, app_faults, health,  \* the handshake in SRAM
  sum,         \* its checksum is right
  writing,     \* the program running is between the fields and the checksum
  where,       \* the program running, and how far it is
  req, crumb,  \* the bootloader's copies of request and app_faults
  reason,      \* g_boot_reason
  image,       \* the application in flash
  trust,       \* the image the newest boot record says is proven
  configured,  \* usb_configured()
  reported, proved,  \* the one-shots of report_healthy and prove_image
  \* History:
  by,          \* what the last launch rested on: "record", "health" or "hand"
  owed,        \* an application died and the bootloader has not held since
  asked,       \* somebody asked for update mode since the last decision
  survived,    \* images that ran for PROVE_AFTER_MS
  vouched,     \* images an operator vouched for while they ran
  resets, flashes  \* used of the bounds

handshake == <<request, app_faults, health, sum, writing>>
device == <<image, trust, configured>>
running == <<reported, proved, by>>
decision == <<req, crumb, reason>>
history == <<owed, asked, survived, vouched, resets, flashes>>
vars == <<handshake, where, decision, device, running, history>>

Application == {"entering", "starting", "looping"}
Places == {"wake", "decide", "window", "held", "dying", "leaving"} \union Application

Count(n) == [kind |-> "count", n |-> n]
Crumb(kind) == [kind |-> kind, n |-> 0]

AtLimit(f) == f.kind # "count" \/ f.n >= FaultLimit

\* Write the fields; the checksum is right again after Seal.
Store(r, f, h) ==
  /\ request' = r /\ app_faults' = f /\ health' = h
  /\ sum' = FALSE /\ writing' = TRUE

Seal ==
  /\ writing
  /\ sum' = TRUE /\ writing' = FALSE
  /\ UNCHANGED <<request, app_faults, health, where, decision, device, running, history>>

\* boot_stage and boot_stage_force: nothing is recorded in a handshake that is not valid.
Stage(kind) ==
  IF sum THEN Store(request, Crumb(kind), health) ELSE UNCHANGED handshake

\* boot_handshake_set_request starts afresh from an invalid one.
SetRequest(r) ==
  IF sum THEN Store(r, app_faults, health) ELSE Store(r, Count(0), FALSE)

-----------------------------------------------------------------------------
(* The bootloader *)

\* Variant: the request is left in the handshake.
WakeUnconsumed ==
  /\ where = "wake"
  /\ IF sum THEN /\ req' = request /\ crumb' = app_faults
                 /\ Store(request, app_faults, health)
            ELSE /\ req' = "none" /\ crumb' = Count(0)
                 /\ Store("none", Count(0), FALSE)
  /\ where' = "decide"
  /\ UNCHANGED <<reason, device, running, history>>

\* The request is read and consumed; an invalid handshake holds none.
Wake ==
  /\ where = "wake"
  /\ IF sum THEN /\ req' = request /\ crumb' = app_faults
                 /\ Store("none", app_faults, health)
            ELSE /\ req' = "none" /\ crumb' = Count(0)
                 /\ Store("none", Count(0), FALSE)
  /\ where' = "decide"
  /\ UNCHANGED <<reason, device, running, history>>

\* Variant: a proven record for any image will do.
VouchedForSome == trust # None
Vouched == trust = image

Why == IF crumb.kind \in {"fault", "nmi", "handback"} THEN crumb.kind ELSE "update"

Hold(r) ==
  /\ where' = "held" /\ reason' = r /\ owed' = FALSE
  /\ UNCHANGED by

Launch(b) ==
  /\ where' = "entering" /\ by' = b /\ reason' = "launched"
  /\ UNCHANGED owed

Window ==
  /\ where' = "window"
  /\ UNCHANGED <<reason, by, owed>>

\* Variants: the record is believed before the fault count, or only after the health flag.
RulesRecordFirst ==
  IF req = "update" THEN Hold(Why)
  ELSE IF image = None THEN Hold("invalid")
  ELSE IF Vouched THEN Launch("record")
  ELSE IF AtLimit(app_faults) THEN Hold("crash loop")
  ELSE IF ~health THEN Hold("unproven") ELSE Window
RulesHealthFirst ==
  IF req = "update" THEN Hold(Why)
  ELSE IF image = None THEN Hold("invalid")
  ELSE IF AtLimit(app_faults) THEN Hold("crash loop")
  ELSE IF ~health THEN Hold("unproven")
  ELSE IF Vouched THEN Launch("record") ELSE Window

\* The six rules, in the order they are tried.
Rules ==
  IF req = "update" THEN Hold(Why)
  ELSE IF image = None THEN Hold("invalid")
  ELSE IF AtLimit(app_faults) THEN Hold("crash loop")
  ELSE IF Vouched THEN Launch("record")
  ELSE IF ~health THEN Hold("unproven") ELSE Window

Decide ==
  /\ where = "decide" /\ ~writing
  /\ Rules
  /\ asked' = FALSE
  /\ UNCHANGED <<handshake, req, crumb, device, reported, proved,
                 survived, vouched, resets, flashes>>

HostClaims ==
  /\ where = "window" /\ configured
  /\ Hold("claimed")
  /\ UNCHANGED <<handshake, req, crumb, device, reported, proved,
                 asked, survived, vouched, resets, flashes>>

\* The launch is counted before it is made.
WindowCloses ==
  /\ where = "window"
  /\ Store(request, Count(app_faults.n + 1), health)
  /\ Launch("health")
  /\ UNCHANGED <<req, crumb, device, reported, proved, asked, survived, vouched,
                 resets, flashes>>

\* `run' from the host, or a press of button 5.
LaunchByHand ==
  /\ where = "held" /\ image # None
  /\ where' = "entering" /\ by' = "hand"
  /\ UNCHANGED <<handshake, decision, device, reported, proved, history>>

HostResets ==
  /\ where = "held" /\ configured
  /\ where' = "wake"
  /\ UNCHANGED <<handshake, decision, device, running, history>>

HostErases ==
  /\ where = "held" /\ configured /\ image # None
  /\ image' = None
  /\ UNCHANGED <<handshake, where, decision, trust, configured, running, history>>

HostWrites ==
  /\ where = "held" /\ configured /\ image = None
  /\ flashes < MaxFlashes /\ flashes' = flashes + 1
  /\ image' \in Images
  /\ UNCHANGED <<handshake, where, decision, trust, configured, running,
                 owed, asked, survived, vouched, resets>>

-----------------------------------------------------------------------------
(* The application *)

\* Reset_Handler leaves the first crumb and clears the one-shots with .bss.
Enter ==
  /\ where = "entering" /\ ~writing
  /\ Stage("stage")
  /\ where' = "starting"
  /\ reported' = FALSE /\ proved' = FALSE
  /\ UNCHANGED <<decision, device, by, history>>

\* Every later crumb up to STAGE_LOOP is one more of the same kind.
ReachLoop ==
  /\ where = "starting" /\ ~writing
  /\ Stage("stage")
  /\ where' = "looping"
  /\ UNCHANGED <<decision, device, running, history>>

CanReport == where = "looping" /\ ~writing /\ configured /\ sum

ReportHealthy ==
  /\ CanReport /\ ~reported
  /\ Store(request, Count(0), TRUE)
  /\ reported' = TRUE
  /\ UNCHANGED <<where, decision, device, proved, by, owed, asked, survived, vouched,
                 resets, flashes>>

\* persist_mark_proven.  The write may fail, and a compaction that fails may take the old
\* record with it; a record that vouches for the image already is left alone.
MarkProven ==
  /\ trust' \in {image, trust, None}
  /\ trust = image => trust' = image

\* PROVE_AFTER_MS after the clock was started, whether or not there is a host.
ProveImage ==
  /\ where = "looping" /\ ~writing /\ ~proved
  /\ proved' = TRUE
  /\ MarkProven
  /\ survived' = survived \union {image}
  /\ UNCHANGED <<handshake, where, decision, image, configured, reported, by,
                 owed, asked, vouched, resets, flashes>>

\* `pers l', `pers e' and `pers p' on the console, at any moment of the loop.  The first leaves
\* alone a record that vouches for the image; the last vouches for it at once.
ConsolePers ==
  /\ where = "looping" /\ ~writing /\ configured
  /\ \/ trust # image /\ trust' \in {trust, None} /\ UNCHANGED vouched
     \/ trust' \in {trust, None} /\ UNCHANGED vouched
     \/ MarkProven /\ vouched' = vouched \union {image}
  /\ UNCHANGED <<handshake, where, decision, image, configured, running,
                 owed, asked, survived, resets, flashes>>

CmdBoot ==
  /\ where = "looping" /\ ~writing /\ configured
  /\ SetRequest("update")
  /\ where' = "leaving" /\ asked' = TRUE
  /\ UNCHANGED <<decision, device, running, owed, survived, vouched, resets, flashes>>

RestartFromPanel ==
  /\ where = "looping" /\ ~writing
  /\ SetRequest("run")
  /\ where' = "leaving"
  /\ UNCHANGED <<decision, device, running, history>>

\* A host that asked for descriptors, bound no driver and may be gone by now: what g_usb_setup
\* counts is the host's to choose.  HANDBACK_MS is long after prove_image has run.
Handback ==
  /\ where = "looping" /\ ~writing
  /\ proved /\ trust # image
  /\ Stage("handback")
  /\ where' = "dying"
  /\ UNCHANGED <<decision, device, running, history>>

\* The crumb first.  An exception comes between any two instructions, a half-written handshake's
\* included, and then boot_stage_force finds it invalid.
Fault(kind) ==
  /\ where \in Application /\ image \notin Sound
  /\ \/ sum /\ Stage(kind)
     \/ ~sum /\ writing' = FALSE /\ UNCHANGED <<request, app_faults, health, sum>>
  /\ where' = "dying" /\ owed' = sum
  /\ UNCHANGED <<decision, device, running, asked, survived, vouched,
                 resets, flashes>>

\* Then the request, so that the bootloader holds.
Die ==
  /\ where = "dying" /\ ~writing
  /\ SetRequest("update")
  /\ where' = "leaving" /\ asked' = TRUE
  /\ UNCHANGED <<decision, device, running, owed, survived, vouched, resets, flashes>>

Leave ==
  /\ where = "leaving" /\ ~writing
  /\ where' = "wake"
  /\ UNCHANGED <<handshake, decision, device, running, history>>

-----------------------------------------------------------------------------
(* The outside *)

Attach ==
  /\ configured' = ~configured
  /\ UNCHANGED <<handshake, where, decision, image, trust, running, history>>

\* An application between its first crumb and its report has died if it is reset.  A handshake
\* caught half written, or lost, tells the bootloader nothing of that.
Interrupt(kept) ==
  /\ resets < MaxResets /\ resets' = resets + 1
  /\ where' = "wake" /\ sum' = kept /\ writing' = FALSE
  /\ owed' = (kept /\ (owed \/ where = "starting" \/ (where = "looping" /\ ~reported)))
  /\ UNCHANGED <<request, app_faults, health, decision, device, running,
                 asked, survived, vouched, flashes>>

RearReset == Interrupt(sum)

\* SRAM keeps its contents through a short cut and loses them in a long one.
PowerCut == Interrupt(FALSE)

-----------------------------------------------------------------------------
Init ==
  /\ request = "none" /\ app_faults = Count(0) /\ health = FALSE
  /\ sum = FALSE /\ writing = FALSE
  /\ where = "wake"
  /\ req = "none" /\ crumb = Count(0) /\ reason = "launched"
  /\ image \in Images \union {None} /\ trust = None
  /\ configured \in BOOLEAN
  /\ reported = FALSE /\ proved = FALSE /\ by = "hand"
  /\ owed = FALSE /\ asked = FALSE /\ survived = {} /\ vouched = {}
  /\ resets = 0 /\ flashes = 0

Program ==
  \/ Seal
  \/ Wake \/ Decide \/ WindowCloses
  \/ Enter \/ ReachLoop
  \/ ReportHealthy \/ ProveImage \/ Die \/ Leave

Next ==
  \/ Program
  \/ HostClaims \/ LaunchByHand \/ HostResets \/ HostErases \/ HostWrites
  \/ ConsolePers \/ CmdBoot \/ RestartFromPanel \/ Handback
  \/ Fault("fault") \/ Fault("nmi")
  \/ Attach \/ RearReset \/ PowerCut

Spec == Init /\ [][Next]_vars

\* A processor runs on; but an image that is not sound may hang anywhere.
FairSpec ==
  /\ Spec
  /\ WF_vars(Seal) /\ WF_vars(Wake) /\ WF_vars(Decide)
  /\ WF_vars(Enter) /\ WF_vars(ReachLoop /\ image \in Sound)
  /\ WF_vars(Die) /\ WF_vars(Leave)

-----------------------------------------------------------------------------
(* Properties *)

TypeOK ==
  /\ request \in Requests /\ app_faults \in Faults /\ health \in BOOLEAN
  /\ sum \in BOOLEAN /\ writing \in BOOLEAN
  /\ where \in Places
  /\ req \in Requests /\ crumb \in Faults /\ reason \in Reasons
  /\ image \in Images \union {None} /\ trust \in Images \union {None}
  /\ configured \in BOOLEAN /\ reported \in BOOLEAN /\ proved \in BOOLEAN
  /\ by \in {"record", "health", "hand"}
  /\ owed \in BOOLEAN /\ asked \in BOOLEAN
  /\ survived \subseteq Images /\ vouched \subseteq Images
  /\ resets \in 0..MaxResets /\ flashes \in 0..MaxFlashes

\* What the record starts unattended ran for three seconds on this device, or an operator typed
\* `pers p' while it ran (main.c:2206): a newly flashed image inherits nothing from the one
\* before it, not even when the record was withdrawn, or could not be written, in between.
UnattendedIsEarned ==
  where \in Application /\ by = "record" => image \in survived \union vouched

\* An application that faulted, or was reset between its first crumb and its report, is not
\* started again before the bootloader has held, whatever the record says of it and wherever a
\* reset fell; only a handshake that was lost lets it off.
DeadIsHeld ==
  owed => where \notin {"window"} \union Application

\* A request for update mode holds the device once, and does not latch it there.
HeldOnlyWhenAsked ==
  [][where = "decide" /\ where' = "held" /\ reason' = "update" => asked]_vars

\* The instrument on a wall socket: with SRAM lost and its image on record, it comes up with
\* nobody there, unless it is reset on its way.
ColdStartRuns ==
  (where = "wake" /\ ~sum /\ Vouched /\ image \in Sound) ~> (where = "looping" \/ owed)

\* main.c:2506: a restart from the panel is a normal restart and does not lead to update mode.
RestartIsNormal ==
  [][where = "decide" /\ where' # where /\ req = "run" /\ Vouched /\ ~owed => where' = "entering"]_vars
=============================================================================
