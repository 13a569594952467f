# TLA+ models of electra-mini-fw

electra-mini-fw is replacement firmware for an eight-knob control surface: a Renesas S7G2 that
runs one cooperative service loop, a USB pipe to a host speaking the EMP protocol
(`docs/protocol.md`), an RA8876 panel, a QT2120 touch controller, and a bootloader that decides at
every reset whether the application may run. This directory holds models of the parts where order,
loss, crashes and stale state decide whether it is right; TLC checks small instances of them and
TLAPS proves the most important results for every instance. Paths below are relative to the
repository; `src/...` is the firmware's own source directory.

1. [The system](#1-the-system)
2. [The modules](#2-the-modules)
3. [What the runs check](#3-what-the-runs-check)
4. [What is proved](#4-what-is-proved)
5. [Disagreements found](#5-disagreements-found)
6. [Not modelled](#6-not-modelled)
7. [Plan](#7-plan)

To check a run: `tlc -config MCTxq.cfg MCTxq.tla` (the name of the `.cfg` is the name of the run, and
its module is `MC` with the component's name; that of section 5 has a word more). To check proofs: `tlapm TxqProofs.tla`.

## 1. The system

### One thread, several actors

Nothing runs in parallel inside the firmware. `src/main.c` calls, in a fixed order and for ever: the
USB driver, the console, the session, the capture and consumption of inputs, and the panel. The
interrupt handlers in use record a fault and reset. What makes it concurrent is outside and between:

- a host, a hand, a cable, a reset button and a power switch act between any two passes;
- several operations take many passes: a fragment leaves in pieces, a descriptor arrives in as many
  messages as it has fields, a flash block is compacted unit by unit;
- some commands hold the loop for seconds (a screenshot, a flash erase), and then only the driver
  runs;
- two programs share SRAM and flash across a reset: the bootloader and the application.

### Components

| Component | State it keeps | Operations | Talks to | What makes it correct |
|---|---|---|---|---|
| Outbound queues `proto/txq.c` | coalescing slots, a FIFO of discrete events, a byte ring of control messages, a stamp counter | push, pump, clear | fed by surface and session, emits into the session | input leaves in the order the hand made it; the newest value survives coalescing; distances are neither lost nor doubled; control first; bytes accounted for |
| Session `proto/session.c` | `tx_pending`, `host_seen`, deadlines, mute, the receive fragment and reassembly | poll, feed, handlers of HELLO, PING, ECHO, BYE | queues, USB driver, surface, diagnostics | fragments never interleave; nothing outlives its host; a host learns what the device is |
| USB driver `hal/usb_fs.c` | a linear `tx_buf`, `cfg_set`, endpoint state | write, poll, bus reset | session, console | a byte is handed over once and in order |
| Reassembly `proto/frame.c` | one message in progress | fragment, abort | session feed | a message whole or not at all; F2 and F3; no wedge |
| Diagnostics `proto/diag.c` | slots by code, an overflow count | raise, tick, drop | every decoder, the capture of inputs, session | a loss is itself counted and reported |
| Surface `proto/surface.c` | two descriptor arenas, the staging transaction, touches, edit numbers | the DESC transaction, VALUES, REVEAL, CLEAR, edits, actions | session, panel interface | whole layouts only; values in their own layout; a held knob is not fought; panel and host agree in the end |
| Panel interface `app/ui_state.c` | mode, page, focus, zoom, holds, a pending action | rotate, push, button, touch, tick | surface, history, calibration, main | what is drilled is what is shown; a hold fires once and on what was held; a stop needs one press; Store and Reset agree with the host; Cancel restores what is saved |
| History `app/history.c` | a ring and cursor per field | touched, commit, undo, redo | panel interface | undo returns to what was there before the adjustment |
| Settings journal `common/persist.c` | one erase block of 256-byte units | read and write of three kinds of record | boot, calibration, brightness | a write is atomic; kinds do not evict each other; the block is not worn out |
| Flash driver `boot/flash_faci.c` | the sequencer | program a unit, erase a block | journal, boot service | a unit is programmed only once erased |
| Boot decision `boot/main.c`, `common/boot_handshake.h`, `boot/app_launch.c` | the handshake in SRAM | the six rules, crumbs, requests | the application, the journal | what starts unattended has earned it; what died is held; a cold start comes up |
| Boot service `boot/usb_service.c` | the stream of a flash write | run, reset, erase, wr, flush, crc | host, flash | no unit is lost unreported; nothing of one run reaches the next |
| Touch calibration `app/touch_cal.c` | a five-phase measurement, the thresholds and gains in RAM | start, tick, retry, cancel, restore | sensor, journal | what is saved is what was checked and is in force; no trial setting stays; a measurement ends |
| Inputs `hal/inputs.c`, `hal/qt2120.c`, `hal/riic.c`, queue in `main.c` | phases, filters, counters, 128 captured samples | service, filter, capture, consume | panel interface, diagnostics | movement is conserved; no edge is invented; the interface catches up; a stuck key is freed |
| Rendering `app/ui.c` and what draws for it | the canvas, and what the last frames drew of each cell, readout, band and legend | render a frame | panel interface, surface | an incremental repaint leaves nothing of an earlier field, page, view or descriptor |
| Console, board support, boot screen | a line, registers, pixels | parse, configure, draw | everyone's state | not a matter of order |

### How they interact

A knob turns: `inputs_service` counts detents into a captured sample; `consume_input` hands it to
`ui_state_rotate`, which finds the slot the knob addresses and calls into `surface.c`, which changes
the field, numbers the edit and pushes an EDIT into the coalescing slots of `txq.c`; the next
`emp_session_poll` pumps the queues through `tx_emit`, which frames the message and gives
`usb_fs.c` as much as its buffer takes, keeping the rest in `tx_pending`. The host answers, some
passes later, with VALUES that carry the newest edit number it has accounted for; bytes come in
through the console's binary sink into `emp_session_feed`, are reassembled and dispatched to
`surface.c`, which applies what the hand is not holding. Meanwhile the application writes crumbs
into the handshake on its way up and, once it has run for three seconds, a boot record that says its
image is proven; the bootloader reads both at the next reset.

### What is hard here

`PROJECT.json` lists the hazards at their lines. In short:

- **ordering**: two input queues share one stamp counter; an answer that overtakes, or is overtaken
  by, the edit it answers; the crash rule before the record rule;
- **partial failure**: a message half handed over, a descriptor half received, a block half copied, a
  handshake half written;
- **stale state**: `host_seen` and framed bytes from the host before, a health flag and a boot record
  from the image before, a VALUES from the layout before, ink from the frame before;
- **crash recovery**: power lost at any flash operation, a reset between any two words of the
  handshake;
- **boundaries**: `control_count` is eight bits wide, the slots, the FIFO and the queue of samples fill, the
  append index restarts behind the copies, a phase passes zero;
- **long sequences**: a hold across a page turn or a new descriptor, undo after a full ring, a Store between two
  turns, a calibration cancelled, retried or failed at any transfer;
- **liveness**: the two queues wait for each other's older head, the panel waits for a descriptor
  nobody is sending, the device waits for a host that is not there.

## 2. The modules

| Module | Models | Kind |
|---|---|---|
| `InputOrder` | what the outbound queues promise | abstract specification |
| `Txq` | `proto/txq.c` | component, implements `InputOrder` |
| `Bus` | what `hal/usb_fs.c` tells both halves of the session: whether a host has configured the device | a shared variable |
| `Link` | `proto/session.c` transmit over `hal/usb_fs.c`, with a host, a console and a cable | composition |
| `Receive` | `proto/frame.c` and the receive half of `proto/session.c`, with hosts that come and go | composition |
| `Settings` | what the journal promises | abstract specification |
| `Persist` | `common/persist.c` over the flash of `boot/flash_faci.c` | component, implements `Settings` |
| `Boot` | `boot/main.c`, `boot_handshake.h`, `app_launch.c`, the boot service, and the application's side in `main.c` and `vectors.c` | composition of two programs |
| `Stream` | the commands of `boot/usb_service.c` that write an image, the lines of `common/console.c`, the region of `boot/flash_faci.c`, and the tool `tools/deploy/flash_usb.py` | composition |
| `Grid` | which slot a knob addresses (`app/ui_state.c`), shared by `Surface`, `Panel` and `Screen` | operators |
| `Surface` | `proto/surface.c`, part of `app/ui_state.c`, and a host as the protocol asks it to behave | composition |
| `Undo` | what the history of a field promises | abstract specification |
| `History` | `app/history.c`, the operations on one field's ring | operators |
| `Panel` | the surface mode of `app/ui_state.c` with `History`, the sending half of `proto/surface.c` and a host | composition, implements `Undo` |
| `Setup` | the settings views of `app/ui_state.c`, `app/touch_cal.c`, the sensor's configuration in `hal/qt2120.c`, the actions of `main.c` | composition |
| `Diag` | `proto/diag.c` with the control ring it leaves through | component |
| `Inputs` | `hal/inputs.c`, the filter of `hal/qt2120.c`, the queue of samples in `main.c`, raising diagnostics in `Diag` | composition |
| `Screen` | the incremental repaint of `app/ui.c`, over the interface of `app/ui_state.c` reduced to what is drawn | component |
| `TxqProofs`, `PersistProofs`, `BootProofs`, `PanelProofs`, `SetupProofs`, `InputsProofs`, `SurfaceProofs`, `ReceiveProofs` | theorems about the modules they are named after; `ReceiveProofs` also those about `Link`, the other half of the session, `BootProofs` those about `Stream`, the other half of the boot service, and `TxqProofs` those about `Screen` | |
| `MCTxq`, `MCLink`, `MCReceive`, `MCPersist`, `MCBoot`, `MCStream`, `MCSurface`, `MCPanel`, `MCSetup`, `MCInputs`, `MCScreen` | TLC instances | |

Definitions called a *variant* in a comment are the ways the code could plausibly be wrong; the
models do not use them. Each is a bug that some property detects when it takes the place of the
definition after it.

### Txq

`coalesce`, `discrete`, `control`, `control_used`, `control_count`, `stamp`, `dropped` are the fields
of `txq_t`. A payload is reduced to the number of the newest event in it and, for EDIT_DELTA, its
distance. `PushCoalescing`, `PushDiscrete`, `PushTooLarge` and `PushControl` are the paths of
`txq_push`; `EmitControl`, `EmitDiscrete` and `EmitCoalesced` are one turn each of the loop of
`txq_pump`; `Clear` is `txq_clear`. The pump is a loop in the code and separate turns here: that adds
only behaviours in which the transport refuses after any number of messages, which it may. Eight-bit
arithmetic of `control_count` is kept (`CountMod`); stamps are naturals, since 2^32 pushes without a
clear take decades.

### Link

A message is a run of chunks, a chunk what one bulk packet carries. `pending` is `tx_pending` past
`tx_pending_sent`; `buf` and `tail` are the driver's linear buffer, which rewinds only when drained, so
that it may be full while almost nothing in it is uncollected. `Poll` is the whole of
`emp_session_poll` on the transmit side, its heartbeat guard and the pump at its end included;
`Hello`, `Ping`, `Echo`, `Surface` and `Bye` are what a host's message does to `host_seen` and the
queues; `ShotBegin` and `ShotEnd` are a command that mutes the session and holds the loop,
`ConsoleWrite` one that does not. The queues are two FIFOs, as `Txq` says they look from outside;
coalescing does not matter to framing. `Detach` and `Attach` are the cable. The host is its decoder, reset at each connection.

### Receive

State: the fragment buffer (`rx_frag`, `rx_need`), the reassembly (`in_progress`, the FIRST it began with, which
stands for total, CRC, opcode and channel, and `buf`), the idle clock (`reasm_last_len`, `idle`), whether a console
command holds the loop; the packets in flight and the split message the host is in. `Take` is
`emp_reasm_fragment`, `Collecting` and `Feed` `emp_session_feed`, `Visit` the part of `emp_session_poll` that
gives up a reassembly; one `Pass` action is one turn of the main loop, feed and visit together. Bytes of a payload whose header went
elsewhere may hold the magic: they begin a fragment of any length, whose header is then refused. `HostDies` and
`Unplug` leave what had already arrived to be read.

### Persist

The block is a function from units to erased, torn or a record. A call to `append_record` is
`WriteSetting`, `NoteLaunch` or `MarkProven` (the callers, each with its early returns) followed by
either `Program`, or `Erase`, one `Copy` per surviving kind and `Program`. `EraseCut` and `ProgramCut`
end it early: to the flash a failed operation and a power cut are the same thing, so one action stands
for both. An interrupted erase leaves any units erased and any torn; an interrupted program leaves the
unit as it was, torn or complete. A device starts with whatever remnants the stock firmware left. A
record carries the write that made it, a boot record its image and whether it is proven; checksums are
what makes a torn unit recognisable, and are modelled by that.

### Boot

One word of SRAM carries both a count of launches and crumbs, which are all above the limit: `app_faults`
is a record of one of these. Every write of the handshake is two actions, the fields (`Store`) and then
the checksum (`Seal`); resets and exceptions fall between them. `where` is the program that runs and
how far it is. `Wake`, `Decide` with `Rules`, `HostClaims` and `WindowCloses` are `boot/main.c`;
`LaunchByHand`, `HostResets`, `HostErases` and `HostWrites` are the held service; `Enter`, `ReachLoop`,
`ReportHealthy`, `ProveImage`, `ConsolePers`, `CmdBoot`, `RestartFromPanel`, `Handback`, `Fault`, `Die` and
`Leave` are the application. `trust` is what `Persist` says of the newest boot record; a write that fails
leaves the old record or, in a compaction, none. `MarkProven` is `persist_mark_proven`, which two callers have: `ProveImage`,
three seconds after the clock started, and the console's `pers p`, at once, whenever the loop runs; `ConsolePers` has `pers l`,
`pers e` and `pers p`. The history keeps them apart: `survived` are the images that ran for the three seconds,
`vouched` those an operator vouched for while they ran. An image is its identity, and whether it may hang or
fault (`Sound`).

### Stream

A byte is where it comes from, an image and an offset. `stream` is `stream_open`, `stream_addr` and `stream_buf`;
`CmdWr` is `FollowOn` (what is pending when a line does not follow on) and then `Take` (the bytes of the line, and the unit
they fill). `WriteUnit` is the driver: it refuses an address inside a unit, fails on a unit that is not erased, and may fail
on any other. `out` and `in` are the two directions of the port: lines queue while the endpoint refuses them, and
answers pile up unread, until the port is opened again (`Start`). The tool's reads end at a silence, so an action of the tool hears any number of the answers
(`Heard`) and throws away any number more (`Drained`). `Stop` ends it, perhaps inside a line: the console keeps what
came (`Collect`), and the first line of the next run is joined to it (`Joined`). A checksum is taken for what it is of.

### Surface

`arena` and `live_ix` are the two descriptors, `staging` the transaction being received. The handlers
are `DescBegin`, `DescField`, `DescEnd`, `DescAbort`, `HandleValues`, `HandleReveal` and `HandleClear`,
each with every refusal that closes the transaction or asks for the descriptor again; `Publish` is the
swap together with everything `ui_state_surface_changed` does. `FieldFor` and `Edits` are which slot a
knob addresses and edits, with short pages packed onto the lower row, rows swapped in the operator
layout, and the other row editing the digits of a drilled number. `Rotate`, `Push`, `Back`, `PageNext` and
`Touch` are the hand.

Messages to the panel arrive in order and any of them may be lost. Messages to the host are the newest
of their kind: that is what `Txq` provides. The host is external; it is written from what
`docs/protocol.md` asks of hosts: one transaction at a time, a descriptor again when asked for one, VALUES
for the page it knows to be visible, edits of a revision it no longer shows ignored, acknowledgements
started over with a CLEAR. It may also change values itself, abandon a descriptor, or start one that is
too large.

### Grid, Undo, History, Panel

`Addressed` is `ui_state_field_for_page` with its three layouts: the operator layout with its rows swapped,
pinned fields, and short pages packed onto the lower row. A history is the ring, the cursor and the settling
timer of `field_hist_t`; `PushEntry`, `Touched`, `Commit`, `Ticked`, `Undone` and `Redone` are the functions.
`Undo` knows neither ring nor cursor: a field has a *trail* of settled values (a past, a mark, a future), and a
step of it turns, settles, steps back or forward, or forgets the oldest.

In `Panel` a sample is taken apart in the order of `consume_input`: `handled` is how far. `Rotate`, `Push`,
`Release`, `Press` and `LetGo` are `ui_state_rotate`, `_push` and `_button`, with everything they call; `Tick` is
`ui_state_tick` and ends the sample. `Publish`, `Clear`, `Reveal`, `Highlight`, `HostMoves` and
`HearDefaults` are what a message does between two samples. `outbox` is what the queues of `Txq` look like from
here: an edit that still waits takes the new value in its place, everything else is appended. `grip` is history:
the HOLD each knob was pressed on, for how long it has stayed on it unturned.

### Setup

The same order of a sample: `TouchCalTick`, the knobs, the buttons, `EndOfSample`, which tells the interface
the calibration's phase and carries out the one action that waits. `cal` is the measurement, `valid_mask` and
`config` the pots calibrated and what they should run with; `sensor.chip` is what the part has and
`sensor.pot_config` what the driver believes: a transfer that fails between gain and threshold lets them differ, and
`unsure` names the pots for which it did. `ReadFails`, `Clearing`, `AnotherPot`, `Untouched`, `Touching`, `LettingGo`,
`TouchedAgain` and `Released` are the paths of `touch_cal_tick`. A save is one step: it succeeds, or returns an
error and may have taken effect all the same, which is what `Settings` allows and `Persist` implements. `PowerCut`
falls between any two actions and boots again, with a sensor that answers, does not, or refuses one pot's record.

### Diag and Inputs

`EmpDiag` is `emp_diag`, `Visit` and `DropPending` one `emp_session_poll` with a host and without. `told` and
`missed` are history: what the host was told of, and what the ring refused or went with a host.

`Inputs` extends it with one who complains. A knob has two tracks a quarter turn apart (external); `PhaseOf`,
`ShortWay` and `Decoded` are the decoder, `Debounced` the debouncer, `Filter` `qt2120_touch_filter` with its
watchdog, `Enqueued` the end of `capture_inputs`, and `Service` is `service_pending_inputs`: one step, since nothing is
captured while samples are consumed. A touch key is clear, firmly touched, latched just past its threshold, or
absorbed (its finger taken for the reference). Between two samples a knob moves by anything less than half a turn. The dead
band (`Within`) is judged of each sample alone, and what it drops is not kept for the next. `slack`, `gated`, `lost` and
`unseen` account for what the hand did: `slack` counts every move, `gated` those that were within the dead band.

### Screen

The display is cut into regions: a card per knob, the ground of each row (what lies between its cards, where a panel's
bridge or the readout goes), the band between the rows, the legend. `framebuffer` says what each shows; the caches are
`last_cell` and its neighbours. A painter maps what is on the display to what is then on it: `ClearScreen`, `DrawStrip`,
`DrawBand`, `DrawLegend`, `DrawCell`, `RenderReadout`. `SDirty`, `VDirty` and `CDirty` are the comparisons of `render_cells`
and `Restores` its rule for chrome painted over; `FrameSettings`, `FrameOperator`, `FrameOverview` and `FrameDrilled` are the
branches of `render_impl`, each with what it forgets afterwards. Between two frames anything may happen that
`service_pending_inputs` and the messages of one pass can do, in any order. A revision stands for one descriptor, as
the protocol has it: the comparison of `render_impl` cannot tell two descriptors of one revision apart.

## 3. What the runs check

"Distinct" is the number of distinct states of the instance. Nothing is cut off by a state constraint;
every bound is a guard of an action and has a name.

| Run | Distinct | Shows |
|---|---|---|
| `MCTxq` | 786 000 | The queues under every interleaving of pushes, pump turns and clears. |
| `MCLink` | 309 000 | Transmit over the linear buffer, with console output, a raw stream and an unplug. |
| `MCReceive` | 606 000 | Fragments onto messages, with a host lost inside one, console lines and a loop that is held. |
| `MCPersist` | 977 000 | The journal through appends, compactions, a fault anywhere and a new image. |
| `MCBoot` | 2 900 000 | Two programs over the handshake, through faults, resets and power cuts. |
| `MCSurface` | 1 254 000 | A hand and a host over a link that loses, refuses and is cleared. |
| `MCPanel` | 792 000 | A panel between a hand and a host: holds, stops, undo, Store and Reset. |
| `MCSetup` | 1 020 000 | Settings, calibration, sensor and flash, with one thing failing anywhere. |
| `MCInputs` | 772 000 | Knobs, contacts and electrodes to the interface, through a queue that overflows. |
| `MCScreen` | 1 567 000 | A repaint of what has changed, with up to two changes between frames. |
| `MCStream` | 1 495 000 | An image on its way into flash, over failing units and a tool that is stopped anywhere. |
| `MCBootRestart` | | A disagreement, section 5. |

### MCTxq

`TypeOK` includes that the bytes of the control ring add up; `LatestSurvives` and `DistanceConserved` are about
coalescing, `ImplementsInputOrder` is the refinement, and `Drains` says that both queues empty. Two EDIT keys
and a delta key over **two** slots make the slots too few, one press key over a FIFO of two fills it, control messages of
lengths 0 and 2 in a ring of 8 bytes wrap it; four events are enough for a slot to be taken, superseded, given
up and taken again with a press in between, which is the shortest way to disorder. Two control messages keep
`control_count` below `CountMod` = 4; on the device 256 replies queued without one leaving wrap it (section 5).

*Fairness*: `WF_vars(Emit)`, "the host keeps collecting". The loop pumps on every pass
(`session.c:591`) and, while a host reads, the driver makes room; `Drains` claims nothing of a host that
does not read.

### MCLink

`FramesWhole` (rule F4), `QueueIsCurrent`, `TailKeepsMoving`, `ReadyUntilSeen`. The first two name
their exceptions: bytes that were never framed (console text inside a half-sent fragment), bytes framed
for the host before, and a raw stream that holds the loop while one host goes and another comes. A
buffer of four chunks against an answer of five leaves a message part-way out of the door; one message from the host,
one input event, one console write or stream and one unplug allow each pair of them in any order.

*Fairness*: the loop runs (`Poll`), a stream ends (`ShotEnd`), time passes (`ReadyTimer`, `HeartbeatTimer`),
an attached host collects (`HostReads`). `TailKeepsMoving` needs the heartbeat: a tail with nothing
queued behind it waits for one.

### MCReceive

`SplitArrivesWhole`, `CleanIsDelivered`, `OnlyIdleIsGivenUp`, `NeverWedged`. The unit is what one
packet carries. Two single messages (one of two packets, so that it can be torn), two split messages of one
opcode and one announced length, in two and three fragments, one of another opcode and one larger than the
device accepts; three messages are sent, a torn one, the one that is joined to it and one that
must still arrive. One loss of the host is enough to join the bytes of two. `Limit` is two ticks, so that idle time
may be part one transfer's and part another's.

`OnlyIdleIsGivenUp` names its exceptions in `disturbed`: the code judges progress by the length at two visits, so
after a host was lost a new FIRST of the same length as the old one is taken for no progress, and
a loop held by a command counts as idleness. `SplitArrivesWhole` says also that a reassembly never outgrows what its
FIRST announced nor the buffer (`frame.c:295`); it says nothing of single messages, which carry no CRC: one torn by
a dying host is completed by the next host's bytes and delivered.

*Fairness*: the loop turns and a command that holds it ends (`Pass`), and time passes (`Tick`). No host is assumed to
send, to finish or to come back; `NeverWedged` speaks of a device that stays attached.

### MCPersist

`OnlyErasedProgrammed`, `ErasesAreRare`, `VouchedIsTrusted`, and the refinement `ImplementsSettings`. A
block of five units leaves room for two more records after a compaction of three kinds. Five writes fill
it and compact it again; one fault may fall on any flash operation; a new device has no remnants, half
a block or a full one. The two images are interchangeable (`SYMMETRY`; the run has no liveness). It may
run out of writes, so deadlock is not checked.

### MCBoot

`UnattendedIsEarned`: what the record starts has run for PROVE_AFTER_MS on this device, or an operator vouched for it from
its own console; nothing else makes a record, whatever is flashed, cut or left half written. `DeadIsHeld` counts a reset or a fault
as a death until the image has reported itself healthy. `HeldOnlyWhenAsked`, `ColdStartRuns`. A sound image and one that may
hang or fault, one flash of the other, a limit of two, three resets or power cuts: enough for a crash, a
recovery, and a crash of the recovery.

*Fairness*: a processor executes its next instruction, so the steps of the bootloader and of an
application that ends by itself are fair. An application that is not sound may hang for ever before
the loop, and no host, hand or timer is assumed to do anything: `ColdStartRuns` holds with nobody there.

### MCStream

`FlashIsAsSaid`: a unit that was streamed in its place is in flash as sent or an answer said that a write failed; no answer
says so unless a flash operation failed since the erasure, whatever an earlier run of the tool left in the device; and `run` is said only
over a whole image. Lines of three bytes into units of four end a unit within a line, as 24 bytes do in 256, and bring a stream
that stopped into step with the units only sometimes; four units make six lines and two batches. Five runs of the tool with
two errors or resets are runs that fail, that are stopped, inside a line or not, and that must succeed over what the others left.
Three lines at most queue for the device, as in the endpoint's 256 bytes, which is less than an image (an assumption of
`Stream`): were it more, runs stopped at the right moments could put the answers so far behind that the checksum of one
is taken for the next one's. The images are interchangeable (`SYMMETRY`). When the runs are used up nothing happens, so deadlock is not checked. No
property is about liveness.

### MCSurface

`PublishedWhole`, `ValuesKeepTheirLayout`, `KnobNotFought`, `Settles`. Two knobs, one per
row; a layout that fills a page with a number and a colour, and an operator layout of two pages; either
first, or both in turn. Two strokes of the hand make an edit that supersedes an edit in flight, or a drill
and a digit. One surprise is a message lost, unreadable, abandoned or too large, a CLEAR, a REVEAL or a value
moved by the host. The numbers of a revision never occur in another, so that a value tells where it came
from. The hand, the shows and the surprises run out, which is what "once the hand rests" means, and
the run does not check deadlock for the states in which no host was ever there.

*Fairness*: the panel handles what has arrived, the host keeps sending (the descriptor it owes before any
values) and keeps hearing. Nothing is said of the order in which it hears the kinds of message.
`docs/protocol.md` asks hosts to send VALUES while a surface is shown; a panel whose host falls silent
stays on the layout it has.

`KnobNotFought` is about the knob the code looks at, `s % Pots`; of the knobs that really turn the field it
does not hold (section 5).

### MCPanel

`ActsOnWhatItShows`: a drilled field is one a knob of this page turns, the window moves only under its button,
nothing is drilled behind the settings views, the page is one of the descriptor's. `HoldFiresWhenHeld` is an equivalence: an action is sent at
a service pass exactly when its knob was pressed on it that long ago, unturned and unreleased, and addressed it in that
descriptor ever since. `StopNeedsOnePress` covers the stop that hides under the digit row. `DefaultsAgree`: once
everything is through, the default the panel resets to is the host's. `ImplementsUndo` is the refinement, for every
field of every descriptor.

Four knobs in two rows; a descriptor of two pages whose second has another HOLD packed under the knob of the first's,
and an operator layout of two pages with a disabled action. Two digits of a number (`Top` = 1) and a ring of
two are enough for a full ring to slide, a redo branch to be dropped and a turn to stop at its limit. Four
strokes are a drill, a turn, a Store or Reset and a button after it; two surprises a descriptor and something
that happens to it. A hold takes two ticks, so that it may be disturbed at each. The instance runs
out of strokes, so deadlock is not checked. No property is about liveness.

### MCSetup

`NoTrialStaysBehind` speaks of the end of a calibration, `SavedIsInForce` of its final check, of the
record, of RAM and of the backlight, `GesturesEnd` of a finger that never lifts or keeps touching again. A pot whose last setting did
not go through is excused (`unsure`, `missing`): nothing is known of it. Two pots in two rows, so that the
swapped order of the record matters; two gains and two gestures, so that a measurement goes on, asks for more gain, or
is checked; deltas of 0, 4 and 16 fall on each side of every comparison of `touch_cal_choose_config`; one surprise is a failing
transfer, all of them failing, a failing save, a CLEAR or a power cut; five strokes reach any view, start, fail and
retry. The instance may run out of strokes, so deadlock is not checked.

*Fairness*: the main loop takes its samples and comes to their ends (`Sample`); no hand is assumed to do
anything. `GesturesEnd` then rests on the two time limits.

### MCInputs

`MovementArrives` is an equation over any number of samples: what a knob was turned by is the detents delivered, waiting and lost with
dropped samples, what the dead band took sample by sample, and a remainder smaller than one. That is what the code does, and less
than it says: a slow turn is lost to the dead band (section 5). `EdgesAreMeant`, `ComplaintsAreAccounted`, `InterfaceCatchesUp`,
`StuckKeysAreFreed`. Two knobs and one switch; a turn of eight phases with a swing beyond the quarter, three to a detent and a deadband of
two; moves of 3, -2 and 1, the first more than a detent a sample, the second just out of the dead band and the other way, the
third within it; a track may read one too little. So a detent takes several samples, and the corners are passed at every
offset; a knob starts just short of zero. Three things happen outside (a turn, a bounce, a key that does not read, a sensor that does not answer, a gap, an unplug), two complaints
can be raised over one slot of diagnostics and one of the ring, and one sample waits at most, so that each of them overflows. A
gap may be longer than what the filter counts (`MaxDt`).

*Fairness*: the main loop goes round: it samples (`CaptureQuiet`) and consumes (`Service`). The properties
speak of a hand at rest, which the bound on moves provides. `StuckKeysAreFreed` excuses a key that is latched
while another is firmly touched (section 5).

### MCScreen

`ShowsWhatIs`: after a frame every card shows its field, its role in a panel, its value and its chrome, or nothing
where the readout is; the readout and a panel's bridge are where they belong; the band and the legend say what they should.
What it does not claim is what the code does not do (section 5, "of the display"): ground is claimed where a readout or a panel
belongs and nowhere else, the band of a pinned drilled field may be an older strip, and the value of an ordinary field may lie
over its chrome. Four knobs in two rows; a descriptor with a stop on every page beside a HOLD that joins it on the
first page only, so that paging makes and unmakes a panel; one with a pinned number, drilled on either page; an
operator layout of two pages. Two changes between frames are a drill left and another entered, a page turned and turned back, a
view and a value; one slot changes its value and two knobs are pressed, one in each row. Two descriptors replace one another. No
property is about liveness: nothing in a frame waits.

## 4. What is proved

Every theorem holds for every value of the constants that the named `ASSUME`s allow, and for any length of
behaviour; the bounds of the runs are constants like the others.

| Theorem | Property |
|---|---|
| `TxqProofs!LatestTheorem`, `DistanceTheorem` | `LatestSurvives`, `DistanceConserved` |
| `TxqProofs!TypeTheorem` | `TypeOK` |
| `TxqProofs!OneSlotTheorem`, `OrderTheorem`, `LeavesTheorem` | no two slots of one key; stamps in order; input leaves in order. No run checks them: the runs check what follows from them |
| `TxqProofs!ImplementationTheorem` | `ImplementsInputOrder` |
| `PersistProofs!ProgramsErased`, `StaysTrusted`, `ErasuresAreRare`, `JournalIsRegisters` | `OnlyErasedProgrammed`, `VouchedIsTrusted`, `ErasesAreRare`, `ImplementsSettings` |
| `BootProofs!RecordEarned`, `DeadHeld`, `HeldWhenAsked` | `UnattendedIsEarned`, `DeadIsHeld`, `HeldOnlyWhenAsked` |
| `PanelProofs!ActsOnWhatItShowsHolds`, `StopNeedsOnePressHolds`, `HoldFiresWhenHeldHolds` | `ActsOnWhatItShows`, `StopNeedsOnePress`, `HoldFiresWhenHeld` |
| `PanelProofs!DefaultsAgreeHolds`, `ImplementsUndoHolds` | `DefaultsAgree`, `ImplementsUndo` |
| `SetupProofs!NoTrialStaysBehindHolds`, `SavedIsInForceHolds` | `NoTrialStaysBehind`, `SavedIsInForce` |
| `InputsProofs!MovementArrivesHolds`, `EdgesAreMeantHolds`, `ComplaintsAreAccountedHolds` | `MovementArrives`, `EdgesAreMeant`, `ComplaintsAreAccounted` |
| `SurfaceProofs!PublishedWholeHolds`, `ValuesKeepTheirLayoutHolds`, `KnobNotFoughtHolds` | `PublishedWhole`, `ValuesKeepTheirLayout`, `KnobNotFought` |
| `ReceiveProofs!SplitArrivesWholeHolds`, `CleanIsDeliveredHolds`, `OnlyIdleIsGivenUpHolds` | `SplitArrivesWhole`, `CleanIsDelivered`, `OnlyIdleIsGivenUp` |
| `ReceiveProofs!FramesWholeHolds`, `QueueIsCurrentHolds` | `FramesWhole`, `QueueIsCurrent` of `Link` |
| `BootProofs!FlashIsAsSaidHolds` | `FlashIsAsSaid` of `Stream` |
| `TxqProofs!ShowsWhatIsHolds` | `ShowsWhatIs` of `Screen` |
| `SetupProofs!IInvHolds`, `InputsProofs!IInvHolds`, `SurfaceProofs!IInvHolds`, `ReceiveProofs!InOrderHolds`, `UndisturbedHolds`, `LinkInvariant`, `BootProofs!StreamInvariant`, `TxqProofs!ScreenInvariant` | the inductive invariants; no run checks them as such |
| `PersistProofs!TypeCorrect`, `BootProofs!TypeCorrect`, `ReceiveProofs!TypeCorrect` | type correctness, for every instance; no run checks it |

**Txq.** Assumed: `Press` is not a key, deltas are keys, amounts are integers, sizes are naturals. The
properties are inductive only together. That a distance is conserved needs one slot per key (two would
share what is owed); that input leaves in order needs the stamps of *both* queues related to the events
that opened them, since the pump compares stamps; that the stamps stay in order when a slot is
superseded needs it to keep its stamp. `IInv` is their conjunction with the types of the input queues.
The refinement maps the two queues to the set of the reports that wait. Each was opened by an event of its
own, so no two look alike (`SeenApart`): to supersede, to send or to drop an entry of a queue is to replace or to
take out one member of the set, and the pump's choice between the two heads is the choice of the oldest.
`TypeOK` also says that the bytes in use of the control ring are those of its messages. It is inductive with
the count of them, which is their number up to a multiple of `CountMod` (`Counted`): so the count is not 0 unless
a message is queued, and the pump never shortens an empty ring. The converse is false (section 5).

**Persist.** Assumed: more than three units, so that the three kinds and the new record fit; at least one
image; `None` not an image. `OnlyErasedProgrammed` is not inductive because the index comes from a search
in one case and from a count of copies in the other. `IInv` adds: the index is the first erased unit
whenever a unit is about to be programmed (`AtFirstBlank`); what is still to be copied fits
(`RoomForCopies`); until a compaction is cut short no record lies behind an erased unit (`NothingBeyond`,
which is why the last valid record is the newest); RAM holds one copy of each kind, the newest
(`OneCopyEach`, `SavedAreNewest`), and nothing between calls (`RestsEmpty`); nothing was invented (`AllOffered`).
The refinement maps a register to what RAM holds of it during a compaction and to the newest valid
record otherwise; then each flash step is a step of `Settings` or a stutter, the erasure and the copies
among the stutters. `ErasesAreRare` needs an account (`Budget`): the units in use beyond the three copies are covered by
the appends since the last erasure, a copy moves from RAM to a unit without changing the sum, and a
block is erased full.

**Boot.** Assumed: `None` is not an image, sound images are images, the limit is positive. What holds
a dead application is its crumb. `Crumbed` says that from the death to the decision the
crumb stays in a handshake that is valid or being written (`CrumbKept`), that an application on its way
up and not yet reported has left one (`CrumbLeft`), and that the bootloader leaves nothing half written behind and waits only
below the limit (`Finished`, `UnderLimit`). `Earned` says that the record names nothing that has not run for
PROVE_AFTER_MS nor been vouched for by `pers p`. `HeldWhenAsked` rests on an invariant of its own (`Asking`): a request for update
in the handshake, or in the bootloader's copy, was made since the last decision.

**Panel.** Assumed: an even, positive number of knobs; descriptors with finitely many fields, whose transport fields are
not under the knobs of a page; nothing to trigger in the operator layout under the knob that turns its page. For
`ActsOnWhatItShows`, `IInv` keeps the drilled slot on the page and the surface that are shown, and the page a multiple of the
knobs not past the last one, which needs that a new descriptor, a new size of the page and a host's REVEAL each clamp it
(`SetPageKeeps`, `DescribedKeeps`, `RevealKeeps`). `StopNeedsOnePress` rests on the press being handled where it is
made, and on the outbox being appended to and never rewritten (`MailStays`). For `HoldFiresWhenHeld`, `HInv` equates the
code's one clock (`hold`: a slot, a knob, a start) with what the hand did (`grip`: for every knob, the field
pressed and the time since): the two agree through presses by other knobs, turns, releases, pages and descriptors;
and nothing but the service pass sends a HOLD (`QuietMail`).

`ImplementsUndo` maps a ring to its line of values (`Line`: the entries before the cursor, at it, after it). One
lemma per operation of history.h says what becomes of the line: a push drops what could be redone and, when the ring
is full, the oldest entry; a commit of the value that is there already leaves it alone (`Pushed`, `CommitIs`,
`StepsBack`, `StepsForward`). Every step of the panel then moves every field by one of these operations or by none
(`StepsAre`, `NumbersMove`), and each is a step of `Undo` (`FieldFollows`). For `DefaultsAgree` it is not enough that
nothing is under way: `Agreeing` says of every field that the last answer to it that is still to come says what the
host has, and that while none is to come, and no Store of it waits for the host, the panel has what the host has. It
needs reports and answers of an older descriptor to be told from those of the present one, so no revision in either
queue is beyond the last that was published.

**Setup.** Assumed: an even, positive number of pots; as many gains, gestures and settings as one likes, intervals
that are not empty. A pot that is set up otherwise than the panel believes is one the calibration is at or has still
to come to (`Ahead`), or one whose last setting did not go through, of which nothing is claimed (`unsure`). That
what passed the final check is what is saved (`CheckedIsSaved`) needs the last gesture to be the one after which the
check is made (`CyclesLeft`), and that the interface asks only for what the calibration can still do: a tick may end
it between the stroke and the action the stroke asked for (`ActionsAreFresh`). `LightIsKnown` says where the saved
brightness is while another is tried: in the display, or about to be given back to it.

**Inputs.** Assumed: between two samples a knob moves by less than half a turn, and the dead band is no more than half a turn; a
move may be as small as one likes. `MovementArrives` is inductive with `Turning` (the last phase read
is where the knob is) and with what one sample does to one knob, whatever corner of the phase it passes
(`DecodedIs`). `EdgesAreMeant` is not inductive, since the interface sees an edge samples later. `Meant` bounds, for
every switch, the edges that wait and those still to come of the differences between the newest sample, the
debouncer, the contact and the hand by what the hand did and the interface has not seen. `ComplaintsAreAccounted`
needs the table to hold each code once and the ring to be within its depth.

**Surface.** Assumed: a positive number of fields, layouts on the slots there are, of the kinds there are. Between
host and panel lie queues, and what is shown must be a layout of the host's, whole. `Staged` says that what was
received so far of a descriptor is what its check sum covers, `AllCarried` what every message in transit says,
`HostKnows` that the host's values are of the layout it shows; `Shown` then says of the live descriptor that it has
all the fields of the layout of its revision and no other, with values such a layout has had, from which
`PublishedWhole` and `ValuesKeepTheirLayout` follow. `KnobNotFought` is a property of steps, about an
acknowledgement that speaks for an edit the hand has gone beyond: who has taken in an edit has taken in the strokes
before it (`Heeds`), of the host (`Heeded`), of every edit in transit (`AllSent`) and of every value in transit. A
CLEAR starts the panel's numbers over, and would make old acknowledgements speak for new edits: while it is in
transit the host has taken in nothing, and nothing of a layout shown since is anywhere (`Clearing`), which in turn
needs the order in which messages can lie in the queue (`InOrder`).

**Receive.** Assumed: every message has fragments and every fragment units, a positive idle time. `Typed` is inductive
alone and gives `SplitArrivesWhole`: whatever was joined to a fragment that a lost host left, `Take` refuses it or does
one of four things to the reassembly (`TakeIs`), and none of them makes it longer than its FIRST announced. For
`CleanIsDelivered`, a fragment that was handed over as sent was on its way as sent ever since (`CleanCame`: the buffer
adds nothing in front). `InOrder` says that what may still come of a message comes behind what has come (`Ordered`),
that what has come of it is what is collected, unless it was given up (`Gathered`), and, what makes that inductive, that
while the host is between two of its fragments nothing is on its way but a line or a whole single message (`Between`).
`OnlyIdleIsGivenUp` compares two clocks, the code's, which starts when the length differs from the one last seen, and
the history's, which starts when a fragment is taken. `Settled` says what an undisturbed receiver relies on for them to
agree: no message begins while another is collected, so the length only grows (`Fresh`, from `Awaited`), and the length
last seen is the length there is (`Noted`). A host that is lost ends this, and a visit that finds the receiver empty
restores it (`EmptySettles`).

**Link.** Assumed: every kind of message has a positive number of chunks, the buffer holds at least one. The chunks of a
message pass from a frame into `pending`, into the driver's buffer and out to a decoder, and each of these may stop in
the middle of it; so the invariant is about the concatenation of the two (`UnderWay`). Unless the console has written,
it is messages in a row, the last one complete (`RowIsKept`): a frame is appended only behind an empty `pending`, a
write moves chunks from one half to the other, the host takes the first. That the decoder is where the row goes on
(`HostIsInPlace`) is false for a host that attaches to what was framed for the one before: then the first chunk it meets is of
an earlier time, which is what `stale` records, and the disjunct is kept by `OldWhileAway`: while no host is there, nothing new is
framed. `QueueIsCurrent` needs the service to have visited between two hosts (`cleared`), which only a raw stream prevents.

**Stream.** Assumed: positive sizes, a line no longer than a unit, and that what can queue for the device is
less than an image. The property speaks of flash and of one answer, while the device sees lines and the
tool answers, either of them late. The invariant has three parts. *Lines*: those on their way follow one another, from an erasure
through the lines of one image to the flush (`LinesFollow`), a line cut short is followed by nothing but a new run's `id`
(`LineIsCut`), and the one said last is what the tool is at (`LastSaid`). *Answers*: a checksum the tool may take for its
own is of its own run. It cannot tell, so the argument counts: what went out of the image behind its `id` is by then
longer than what can queue, so the device has come to that `id`, and no checksum asked for earlier is still to be
answered (`SumsAreOfThisRun`, `SumIsOfTheFlash`). *Flash*: either everything since the
erasure came in order, the units filled hold their content and the stream holds the bytes behind them, and the next line
goes on there (`InOrder`, `GoesOn`); or a line was lost with a tool that was stopped, and what is in flash stays while no
line of an image can come before an erasure (`Held`, `GoesNoFurther`); or a failure has been told. `CmdWr` disturbs the last of
these: a line may end in the middle of a unit, fill it, and leave the rest as the beginning of the next (`UnitsAre`).

**Screen.** Assumed: an even, positive number of knobs; descriptors with finitely many fields, pinned to knobs of the
upper row; settings views that are none of the surface's, and nothing drawn is none of the views. `ShowsWhatIs` is about the moment after
a frame, and what the frame leaves alone is right only if the caches are. So the invariant says, between frames too,
what each cache vouches for, by the view the last frame was of (`OverviewDrawn`, `OperatorDrawn`, `DrilledDrawn`,
`SettingsDrawn`): the card of a knob that is remembered is on the display as remembered, a left half has its bridge
(`RememberedIn`), the strip is of the page last drawn, the legend of the buttons last drawn. Whatever a frame of another view would have
broken is repainted, which is why no cache has to vouch for anything across views. Of a drilled field, whose
readout's row nobody remembers, it needs that the row is the one the field had when last drawn though the page may have
turned: a field shown on two pages is pinned, and so under one knob on both (`SameKnobs`). What was drawn is said of
the descriptor that is shown only while the revisions agree, and no descriptor has the revision of an earlier one
(`LastIs`). The painters are then a lemma each (`CardIsDrawn`, `CellsAreRendered`, `ReadoutIs`, `LegendSays`), and a
frame of each view one more.

**Sums and lists.** The library states its induction for an operator, which cannot be instantiated here. It is said
of a *set* instead (`SetInduction`: a set of naturals with 0 and every successor is all of them), which follows from
the library's theorem that a set of naturals has a least member. That is enough for sums over sequences of any
length (`Diag!SumTo`, `Inputs!Waiting`, `Txq!BytesTo`), for a message as its fragments in a row
(`Receive!Content`), and for the sorted listing of a layout's fields that a check sum covers.

**Only model-checked.** Liveness (`Drains`, `TailKeepsMoving`, `ReadyUntilSeen`, `ColdStartRuns`, `Settles`,
`NeverWedged`, `GesturesEnd`, `InterfaceCatchesUp`, `StuckKeysAreFreed`), which is beyond the prover. Every
invariant and every safety property of steps that a run checks is proved.

## 5. Disagreements found

One is a run that TLC finds violated; `PROJECT.json` quotes the lines.

- **MCBootRestart**: a proven image without a host, restarted from its panel, is held as a crash
  loop (`main.c:2506` calls it a normal restart).

Seen while modelling, and not the subject of a run. Of the link and the surface:

- Losing the host clears the queues, but neither the session's `tx_pending` nor the driver's `tx_head` and `tx_tail`
  (`session.c:522`): the rest of a fragment framed for the old host is the first thing the new one receives, while
  `session.c:516` says "Nothing queued survives losing the host." `FramesWhole` names the exception.
- `host_seen` is cleared by BYE alone, so after a disconnection the next host is sent heartbeats and never a READY until it
  asks; `session.c:559` says a host attaching to a running device learns what it is without asking.
- The touch that withholds a value is looked up at `idx % SURF_POTS` (`surface.c:816`), but packed pages, the operator
  layout and the digit row put a field under another knob; there a stale value moves a field under the hand,
  against `docs/protocol.md:368`.
- A report the ring refuses is counted in `q->dropped` (`txq.c:141`), which nothing reads; `txq.h:92` says "every drop, counted;
  reported on the wire as tx_dropped". The counts of a refused diagnostic are gone (`missed` in `Diag`).
- What is left of a half-sent message moves only when another is queued (`session.c:591`), while
  `session.c:202` says it drains on the next visit. With a host attached and seen, the next heartbeat moves it, up to
  a second later, which is what `TailKeepsMoving` rests on.
- `session.c:531` says a transfer that is merely slow never trips the reassembly's timeout. After a host restart,
  or a screenshot inside a transfer, it may (`OnlyIdleIsGivenUp` without `disturbed` fails).
- No clock watches `rx_frag`: after a host dies inside a fragment, what the next one sends goes into it until
  `payload_len` is met (`session.c:452`), its HELLO included.
- CLEAR starts `edit_seq` over (`surface.c:841`), while `docs/protocol.md:367` calls it monotonic. With a
  host that keeps its acknowledgements across the CLEAR it sends, `KnobNotFought` fails.
- 256 empty ECHO replies queued at once wrap `control_count` to zero (`txq.c:155`), and input then overtakes
  them.
- A turn merged into an older slot overtakes a press made between the two turns (`txq.c:112`). `InputOrder`
  says so: a report keeps the place of the event that opened it.
- Publishing zeroes `touched_mask` under a resting finger (`surface.c:695`), and `main.c:2489` reports a touch only when it
  changes.
- A compaction cut, or failing, between the erase and the last copy loses records the write was not about: `Settings` allows
  it, while `persist.c:72` says "no setting may evict boot trust or another setting."
- The health flag in the handshake names no image and nothing clears it when one is written, so a newly flashed image is offered the
  window and launched on its predecessor's health; `boot/main.c:50` says the window is "Only offered to an application that
  has already proven itself".
- `PERSIST_LAUNCH_LIMIT` (`persist.h:73`) is used nowhere, and launches are noted only by `pers l` (`main.c:2209`).
- `pers p` (`main.c:2206`) vouches for the running image at once, while `main.c:2373` asks for a settling period, "so a fault
  arriving moments later is still counted". An image so vouched for is started unattended without having run for
  three seconds; `UnattendedIsEarned` says so (`vouched`).
- The hand-back (`main.c:486`) comes long after the image is proven, so it acts only if the proof could
  not be written.

Of the boot service and its tool:

- A unit of a line that does not follow on is written with its result ignored (`usb_service.c:135`). The tool's lines always
  follow on until one fails, which is why `FlashIsAsSaid` holds of it; somebody at a terminal may lose a unit unseen.
- After a failed unit the next line opens a run wherever it is, mostly inside a unit, and every unit of that run fails for its
  alignment until a line begins at one (24 into 256: every third unit).
- The tool does not look at what `flush` answers (`flash_usb.py:378`), and may miss a late `FAILED`: the checksum is what
  catches both.
- `stream_written` is never set back, so a bare `crc` after a second run of the tool is over more than the image.
- `app_image_valid` looks at the first unit: button 5 in the middle of a transfer launches what is there so far.

Of the panel and its settings:

- CLEAR sets the interface's `brightness_saved` to 100 (`ui_state.c:195`), and nothing tells it the saved
  one again (`main.c:2717` runs at boot); Cancel then sets 100 %, while `tests/ui_state_tests.c:766` has it restore what is
  saved. `BrightnessAgrees` excuses it.

- An edit made after a Store takes over one that still waits ahead of it (`txq.c:110`), so the host stores the later value;
  `surface.c:1316` says "so the host stores the value shown here". The host's DEFAULTS then corrects the panel.
- A drilled panel takes a press on another row's action for a drill into it (`ui_state.c:432`): the action shows, and nothing is sent.
- A second HOLD press replaces the one that is timed, and the first never fires though it stays held (`hold_slot` is one).
- The undo entry at the cursor is taken for the present (`history.c:134`); when the host has changed the field since, one undo goes
  past the value before the last adjustment. A Reset right after a turn that has not settled merges with it, so undo skips the
  value turned to.
- After CLEAR `service_now_ms` is 0 until the next tick, so a highlight that arrives before it expires at once (`synced` in
  `Panel`).
- Two actions in one sample leave one (`pending_action`): BACK and SYSTEM together cancel and start a calibration, and
  only the start is carried out.
- BACK in the sample of a commit reports "previous values kept" (`touch_cal.c:150`) of a pot that has just been saved.
- A failed save leaves `valid_mask` and the pot's threshold ahead of the flash until the next save or boot. A pot
  whose record could not be applied at boot is dropped from the flash by the next commit (`missing`).
- `touch_cal_restore_defaults` does not look at the result of its write, and `begin_baseline` not at that of applying a trial gain.
- With a sensor that did not answer at boot a calibration can be started and stays in its first phase (`main.c:2465`).

Of the inputs:

- `inputs_decode_rotation` moves `prev` on (`inputs.c:137`) before it drops a step within the dead band
  (`inputs.c:144`), so a knob turned by less than 6 counts a sample delivers nothing, however far it goes: at 20 ms a sample and
  8192 counts a turn, a steady turn of 33 seconds or more. `inputs.c:146` says the remainder is accumulated "so a slow turn
  still registers"; what is accumulated is the remainder of a detent, not that of the dead band. `MovementArrives`
  counts what is lost so as `gated`, and fails without it: three moves of 1 in the instance are a detent that never comes.
- The release timer counts the whole of a gap (`qt2120.c:299`), so after a stall of `release_ms` one reading without touch releases,
  while `qt2120.c:255` speaks of agreement for that time. The comments "ROTATION IMPLIES TOUCH" and "AND the pot has stopped
  moving" (`qt2120.c:250-257`) describe a rule that line 282 says is gone.
- A failed `qt2120_read_detail` leads to the recalibration all the same (`qt2120.c:325-346`), and a recalibration takes whatever
  finger rests on another knob for the reference; `qt2120.c:312` guards only against movement.
- While one key is firmly held for as long as another is latched, the two are timed out together, the firm one is
  believed, and the latched one stays (`qt2120.c:338-342`).
- A press and its release that both fall into dropped samples are never seen; the drop is counted.

Of the display, where a frame differs from a clean repaint. `docs/graphics-refresh.md:51` and `tests/graphics_tests.c:98`, `:291` and `:317`
(focus and touch, the fleet panels and the pinned pages alike) have them equal; each was also seen in the simulator's
framebuffer. A stricter `ShowsWhatIs` fails on each:

- A panel that is unmade by a page turn is repainted as two cards, and its bridge stays between them.
- A drill moved to the other row within one frame clears the cells of the new readout's row, and draws cards over the old
  one's: ink of the readout stays between them. So does the ground of a settings or operator view left straight for a drill.
- A pinned field left, the page turned, and drilled again between two frames keeps the strip of the old page: nothing it
  compares but `page` has changed, and the strip is redrawn only on a rebuild or a zoom (`ui.c:2160`).
- The operator layout's line of status stays when the value comes without one (`ui.c:1347`).
- The value of a field that is neither a HOLD nor a list is painted over the drilled bar, the pressed inset and the card's
  corners; only those two get their chrome back (`ui.c:1248`).
- A pinned card beside a field that joins it on one page only is half of a panel there and a card elsewhere, so paging repaints
  it; `docs/protocol.md:825` says paging never does.

## 6. Not modelled

`PROJECT.json` lists every component with its status. In short:

- **Left out of a modelled part**: in `Surface` and `Panel`, tones, FOCUS and TOUCH reports, EDIT_DELTA, the string pool,
  the digits of a number and its window, kinds of value but numbers and colours, the scrolling of lists, messages that are
  malformed otherwise than by being unreadable; in `Link`, the receive side (`Receive` has it); in `Receive`, sequence gaps and
  error counts, which nothing acts on, and bytes within a packet; in `Boot`, an image is written whole or not at
  all (`Stream` has the units); in `Stream`, a person at a terminal, lines longer than the console's; in `Setup`, messages and countdowns; in `Inputs`, the ADC scan and the multiplexer, the shift registers, peaks and traces; in
  `Diag`, severities and texts.
  In `Screen`, where in its region ink goes, the button held down, the digit window, what the settings views write, fields
  without a value.
- **Out of reach or without state of interest**: pixels (the canvas, its tiles, text, gradients: functions of what to
  draw, compared as pictures under `tools/`), register access in the drivers, USB descriptors, fonts, vendored code, tests and tools.

## 7. Plan

In order of what matters most to the system:

1. Digits: the window of a drilled number, its digit knobs and the values they reach, with rounding at the
   field's precision.
2. Touch reports and the active pot, to say of fingers what `KnobNotFought` says of the code's knob.
