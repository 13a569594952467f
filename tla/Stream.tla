------------------------------- MODULE Stream -------------------------------
(***************************************************************************)
(* An application image on its way into flash: the tool on the host        *)
(* (tools/deploy/flash_usb.py), the bootloader's console and its commands  *)
(* (src/common/console.c, src/boot/usb_service.c) and the program units    *)
(* of the application region (src/boot/flash_faci.c).                      *)
(*                                                                         *)
(* The tool sends lines of Chunk bytes, a batch at a time; the device      *)
(* collects them into units of Unit bytes, whatever lines they came in.    *)
(* Any flash operation may fail, the tool may be stopped at any point and  *)
(* started again, with the same image or another, its last line may be cut *)
(* short, its reads may end too early, and the device may be reset.        *)
(***************************************************************************)
EXTENDS Integers, Sequences, SequencesExt

CONSTANTS
  Unit,        \* FLASH_WRITE_UNIT, in bytes
  Chunk,       \* CHUNK, the bytes of one line
  Batch,       \* BATCH, the lines sent before the answers are read
  Units,       \* the units of the region; every image is padded to fill them
  Blobs,       \* the images somebody flashes
  Nothing,     \* no image
  MaxAhead,    \* bound on the lines the host and the endpoint hold for the device
  MaxAttempts, \* bound on runs of the tool
  MaxFaults    \* bound on flash errors and resets

ASSUME SizesAssumption ==
  /\ Unit \in Nat \ {0} /\ Units \in Nat \ {0}
  /\ Chunk \in 1..Unit /\ Batch \in Nat \ {0} /\ MaxAhead \in Nat \ {0}
  \* What queues for the device is less than an image.
  /\ MaxAhead * Chunk < Units * Unit
ASSUME StreamBounds ==
  MaxAttempts \in Nat /\ MaxFaults \in Nat /\ Blobs # {} /\ Nothing \notin Blobs

VARIABLES
  flash,       \* what the units of the region hold
  stream,      \* stream_open, stream_addr and stream_buf up to stream_fill
  line,        \* a line whose end has not come, or NoLine
  out,         \* lines on their way to the device
  in,          \* answers on their way to the tool
  stage,       \* what the tool waits for, or "off"
  blob,        \* the image it flashes
  next,        \* the offset of its next line
  sent,        \* lines of the batch it has sent
  \* History:
  passed,      \* bytes streamed in order since the last erasure
  owner,       \* the image they are of
  told,        \* an answer since then said that a write failed
  spoilt,      \* a flash operation has failed since then
  attempts, faults

board == <<flash, stream, line>>
tool == <<stage, blob, next, sent>>
past == <<passed, owner, told, spoilt, attempts, faults>>
streamVars == <<board, out, in, tool, past>>

Region == 0..(Units - 1)
Size == Units * Unit

\* The bytes of an image from one offset up to another.
Bytes(g, from, to) == [i \in 1..(to - from) |-> <<g, from + i - 1>>]
Content(g, u) == Bytes(g, u * Unit, (u + 1) * Unit)

Junk == <<Nothing, 1>>
Fill == <<Nothing, 0>>
Erased == <<>>
Torn == <<Junk>>

Closed == [open |-> FALSE, addr |-> 0, buf |-> <<>>]
Open(a, b) == [open |-> TRUE, addr |-> a, buf |-> b]

Line(c, o, d) == [cmd |-> c, off |-> o, data |-> d, cut |-> FALSE]
Say(c) == Line(c, 0, <<>>)
NoLine == Say("")
Wr(g, o) == Line("wr", o, Bytes(g, o, Min({o + Chunk, Size})))

Answer(a, s) == [is |-> a, sum |-> s]
Told(a) == Answer(a, <<>>)

-----------------------------------------------------------------------------
(* The flash *)

\* One unit programmed at an address: what becomes of the region, and whether
\* the driver says it went well.  A unit programmed over is neither.
WriteUnit(f, n, addr, data) ==
  LET u == addr \div Unit
  IN  IF addr % Unit # 0 \/ u \notin Region
        THEN {[flash |-> f, ok |-> FALSE, faults |-> n]}
      ELSE IF f[u] # Erased
        THEN {[flash |-> [f EXCEPT ![u] = Torn], ok |-> FALSE, faults |-> n]}
      ELSE {[flash |-> [f EXCEPT ![u] = data], ok |-> TRUE, faults |-> n]}
           \union {[flash |-> [f EXCEPT ![u] = d], ok |-> FALSE, faults |-> n + 1] :
                     d \in IF n < MaxFaults THEN {Erased, Torn} ELSE {}}

\* What an erasure may leave: nothing, or on an error the blocks not reached.
Wiped == [u \in Region |-> Erased]
HalfWiped == {[u \in Region |-> IF u < n THEN Erased ELSE IF u = n THEN Torn ELSE flash[u]] :
                n \in Region} \union {flash}

\* app_image_valid looks at the vector table, in the first unit.
Valid == \E g \in Blobs : flash[0] = Content(g, 0)

-----------------------------------------------------------------------------
(* The board: a line from the console, and the command it names *)

\* A line cut short runs into the one after it, the `id' of the next run of the
\* tool: a `wr' of fewer bytes, of a byte of one digit, or of a shorter offset.
Joined(c) ==
  {Say("?")} \union
  (IF c.cmd # "wr" THEN {}
   ELSE {Line("wr", o, <<>>) : o \in 0..c.off}
        \union {Line("wr", c.off, SubSeq(c.data, 1, n)) : n \in 1..Len(c.data)}
        \union {Line("wr", c.off, Append(SubSeq(c.data, 1, n - 1), Junk)) : n \in 1..Len(c.data)})

\* What the next line may say, once it is whole.
Commands ==
  IF out = <<>> \/ Head(out).cut THEN {}
  ELSE IF line = NoLine THEN {Head(out)} ELSE Joined(line)

Dispatch(l) == l \in Commands /\ out' = Tail(out) /\ line' = NoLine

Says(a) == in' = Append(in, a)

\* A line whose end never came stays in the buffer of the console.
Collect ==
  /\ out # <<>> /\ Head(out).cut
  /\ line' = Head(out) /\ out' = Tail(out)
  /\ UNCHANGED <<flash, stream, in, tool, past>>

CmdId ==
  \E l \in {Say("id"), Say("?")} :
    /\ Dispatch(l) /\ Says(Told(l.cmd))
    /\ UNCHANGED <<flash, stream, tool, past>>

Erases(s) ==
  /\ Dispatch(Say("erase")) /\ stream' = s
  /\ \/ /\ flash' = Wiped /\ Says(Told("erased"))
        /\ passed' = 0 /\ owner' = Nothing /\ told' = FALSE /\ spoilt' = FALSE
        /\ UNCHANGED faults
     \/ /\ faults < MaxFaults /\ faults' = faults + 1
        /\ flash' \in HalfWiped /\ Says(Told("not erased"))
        /\ told' = TRUE /\ spoilt' = TRUE
        /\ UNCHANGED <<passed, owner>>
  /\ UNCHANGED <<tool, attempts>>

\* Variant: an erasure leaves the stream open.
CmdEraseOnly == Erases(stream)

\* Whatever became of the erasure, the stream is closed.
CmdErase == Erases([stream EXCEPT !.open = FALSE])

Padded(b) == b \o [i \in 1..(Unit - Len(b)) |-> Fill]

\* A line that does not follow on: what was pending is written, with whatever result.
FollowOn(l) ==
  IF stream.open /\ l.off = stream.addr + Len(stream.buf)
    THEN {[flash |-> flash, stream |-> stream, faults |-> faults]}
  ELSE {[flash |-> w.flash, stream |-> Open(l.off, <<>>), faults |-> w.faults] :
          w \in IF stream.open /\ stream.buf # <<>>
                  THEN WriteUnit(flash, faults, stream.addr, Padded(stream.buf))
                ELSE {[flash |-> flash, ok |-> TRUE, faults |-> faults]}}

\* The bytes of a line, and the unit they fill; on an error the rest is dropped.
Take(s, data) ==
  LET buf == s.stream.buf \o data
  IN  IF Len(buf) < Unit
        THEN {[flash |-> s.flash, stream |-> [s.stream EXCEPT !.buf = buf],
               ok |-> TRUE, faults |-> s.faults]}
      ELSE {[flash |-> w.flash, ok |-> w.ok, faults |-> w.faults,
             stream |-> IF w.ok THEN Open(s.stream.addr + Unit, SubSeq(buf, Unit + 1, Len(buf)))
                        ELSE Closed] :
              w \in WriteUnit(s.flash, s.faults, s.stream.addr, SubSeq(buf, 1, Unit))}

\* History: the bytes of a line in its place are passed, others do not count.
Pass(l) ==
  IF l \in {Wr(g, passed) : g \in IF passed = 0 THEN Blobs ELSE {owner}}
    THEN passed' = passed + Len(l.data) /\ owner' = l.data[1][1]
  ELSE UNCHANGED <<passed, owner>>

CmdWr ==
  \E l \in {l \in Commands : l.cmd = "wr"} :
    /\ Dispatch(l)
    /\ \E s \in FollowOn(l) : \E t \in Take(s, l.data) :
         /\ flash' = t.flash /\ stream' = t.stream /\ faults' = t.faults
         /\ Says(Told(IF t.ok THEN "ok" ELSE "FAILED"))
         /\ told' = (told \/ ~t.ok) /\ spoilt' = (spoilt \/ t.faults > faults)
    /\ Pass(l)
    /\ UNCHANGED <<tool, attempts>>

CmdFlush ==
  /\ Dispatch(Say("flush"))
  /\ IF stream.open /\ stream.buf # <<>>
       THEN \E w \in WriteUnit(flash, faults, stream.addr, Padded(stream.buf)) :
              /\ flash' = w.flash /\ faults' = w.faults
              /\ stream' = Open(stream.addr + Unit, <<>>)
              /\ told' = (told \/ ~w.ok) /\ spoilt' = (spoilt \/ w.faults > faults)
     ELSE UNCHANGED <<flash, stream, faults, told, spoilt>>
  /\ Says(Told("flushed"))
  /\ UNCHANGED <<tool, passed, owner, attempts>>

\* The checksum is taken for what it is of: the region the tool has filled.
CmdCrc ==
  /\ Dispatch(Say("crc"))
  /\ Says(Answer("crc", [u \in 1..Units |-> flash[u - 1]]))
  /\ UNCHANGED <<flash, stream, tool, past>>

\* The service ends: with it go the stream, the line and all that was under way.
Gone == stream' = Closed /\ line' = NoLine /\ out' = <<>> /\ in' = <<>>

\* The tool says `run' only after the checksum; for another image it is refused
\* (Boot has that).
CmdRun ==
  /\ Say("run") \in Commands /\ Valid
  /\ Gone
  /\ UNCHANGED <<flash, tool, past>>

\* A reset, a press of button 5, the supply: the tool loses its port.
Reset ==
  /\ faults < MaxFaults /\ faults' = faults + 1
  /\ Gone
  /\ stage' = "off" /\ UNCHANGED <<blob, next, sent>>
  /\ UNCHANGED <<flash, passed, owner, told, spoilt, attempts>>

-----------------------------------------------------------------------------
(* The tool *)

Room == Len(out) < MaxAhead
Off == stage' = "off" /\ UNCHANGED <<blob, next, sent, out>>

\* Read answers until they seem to have ended, and perhaps throw some more away.
Heard(n) == {in[i] : i \in 1..n}
Drained(n) == \E m \in n..Len(in) : in' = SubSeq(in, m + 1, Len(in))

\* Device.cmd: drain the pipe, and say the next thing.
Ask(c) == Room /\ out' = Append(out, Say(c)) /\ stage' = c

\* When the port is opened everything is read that has been answered so far; the
\* answers to lines the device has not come to yet are still to come.
Start ==
  /\ stage = "off" /\ attempts < MaxAttempts
  /\ attempts' = attempts + 1
  /\ \E g \in Blobs : blob' = g
  /\ next' = 0 /\ sent' = 0
  /\ Ask("id") /\ in' = <<>>
  /\ UNCHANGED <<board, passed, owner, told, spoilt, faults>>

\* The answer to a command is among what was heard, or the tool stops.
Hears(at, ans, then) ==
  /\ stage = at
  /\ \E n \in 0..Len(in) :
       IF ans \in Heard(n) THEN Ask(then) /\ Drained(n) ELSE Off /\ Drained(n)
  /\ UNCHANGED <<board, blob, next, sent, past>>

ToldId == Hears("id", Told("id"), "erase")

\* Nothing is asked of the device yet: the first line is the next thing said.
ToldErased ==
  /\ stage = "erase"
  /\ \E n \in 0..Len(in) :
       /\ stage' = IF Told("erased") \in Heard(n) THEN "write" ELSE "off"
       /\ in' = SubSeq(in, n + 1, Len(in))
  /\ UNCHANGED <<board, out, blob, next, sent, past>>

SendLine ==
  /\ stage = "write" /\ next < Size /\ sent < Batch /\ Room
  /\ out' = Append(out, Wr(blob, next))
  /\ next' = Min({next + Chunk, Size}) /\ sent' = sent + 1
  /\ UNCHANGED <<board, in, stage, blob, past>>

ReadBatch ==
  /\ stage = "write" /\ (sent = Batch \/ next = Size)
  /\ \E n \in 0..Len(in) :
       \/ /\ Told("FAILED") \in Heard(n)
          /\ Off /\ Drained(n)
       \/ /\ Told("FAILED") \notin Heard(n) /\ next < Size
          /\ sent' = 0 /\ in' = SubSeq(in, n + 1, Len(in))
          /\ UNCHANGED <<out, stage, blob, next>>
       \/ /\ Told("FAILED") \notin Heard(n) /\ next = Size
          /\ Ask("flush") /\ Drained(n)
          /\ UNCHANGED <<blob, next, sent>>
  /\ UNCHANGED <<board, past>>

\* What `flush' answers is not looked at.
ToldFlushed ==
  /\ stage = "flush" /\ Ask("crc")
  /\ \E n \in 0..Len(in) : Drained(n)
  /\ UNCHANGED <<board, blob, next, sent, past>>

Whole(g) == [u \in 1..Units |-> Content(g, u - 1)]
ToldCrc == Hears("crc", Answer("crc", Whole(blob)), "run")

Finish ==
  /\ stage = "run" /\ Off
  /\ UNCHANGED <<board, in, past>>

\* Somebody stops the tool, perhaps in the middle of a line.
Stop ==
  /\ stage # "off" /\ stage' = "off"
  /\ out' \in {out} \union {[out EXCEPT ![Len(out)].cut = TRUE] : n \in {1} \cap DOMAIN out}
  /\ UNCHANGED <<board, in, blob, next, sent, past>>

-----------------------------------------------------------------------------
(* The specification *)

StreamInit ==
  /\ \E f \in {Wiped} \union {[u \in Region |-> Content(g, u)] : g \in Blobs} : flash = f
  /\ stream = Closed /\ line = NoLine /\ out = <<>> /\ in = <<>>
  /\ stage = "off" /\ blob = Nothing /\ next = 0 /\ sent = 0
  /\ passed = 0 /\ owner = Nothing /\ told = FALSE /\ spoilt = FALSE
  /\ attempts = 0 /\ faults = 0

Serve == Collect \/ CmdId \/ CmdErase \/ CmdWr \/ CmdFlush \/ CmdCrc \/ CmdRun
Flasher == Start \/ ToldId \/ ToldErased \/ SendLine \/ ReadBatch \/ ToldFlushed
             \/ ToldCrc \/ Finish \/ Stop
StreamNext == Serve \/ Reset \/ Flasher
StreamSpec == StreamInit /\ [][StreamNext]_streamVars

-----------------------------------------------------------------------------
(* Properties *)

\* A unit that was streamed in order is in flash as it was sent, or an answer said
\* that a write failed, and none did unless the flash has.
NothingLostUntold ==
  /\ ~told => \A u \in Region : (u + 1) * Unit <= passed => flash[u] = Content(owner, u)
  /\ told => spoilt

\* The tool launches an image only if the region holds it.
LaunchedIsWhole == stage = "run" => \A u \in Region : flash[u] = Content(blob, u)

\* What the answers and the tool say of the flash is so: with the tool stopped anywhere
\* and run again over its own remains, a failed unit, answers read too early or
\* attributed to the wrong command (usb_service.c:124-182, flash_usb.py:319-366).
FlashIsAsSaid == NothingLostUntold /\ LaunchedIsWhole
=============================================================================
