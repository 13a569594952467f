----------------------------- MODULE BootProofs -----------------------------
(***************************************************************************)
(* Proofs about the boot decision, for any images and any fault limit, and *)
(* about the boot service's other half, an image on its way into flash,    *)
(* for any length of line, size of unit, block and batch.                  *)
(***************************************************************************)
EXTENDS Boot, Stream, SequenceTheorems, TLAPS

USE ImagesAssumption, BoundsAssumption DEF ImagesAssumption, BoundsAssumption

HandshakeOK ==
  /\ request \in Requests /\ app_faults \in Faults /\ health \in BOOLEAN
  /\ sum \in BOOLEAN /\ writing \in BOOLEAN
DecisionOK == req \in Requests /\ crumb \in Faults /\ reason \in Reasons
DeviceOK ==
  /\ image \in Images \union {None} /\ trust \in Images \union {None}
  /\ configured \in BOOLEAN
RunningOK ==
  /\ reported \in BOOLEAN /\ proved \in BOOLEAN /\ by \in {"record", "health", "hand"}
HistoryOK ==
  /\ owed \in BOOLEAN /\ asked \in BOOLEAN
  /\ survived \subseteq Images /\ vouched \subseteq Images
  /\ resets \in 0..MaxResets /\ flashes \in 0..MaxFlashes

\* What makes the bootloader hold for an application that died is its crumb, which is above the
\* limit in every valid handshake from the death to the decision.
CrumbKept ==
  owed => /\ where \in {"wake", "decide", "dying", "leaving"}
          /\ AtLimit(app_faults)
          /\ writing \/ sum

\* An application that has not reported yet has left its crumb, if the handshake could take one.
CrumbLeft ==
  (where = "starting" \/ (where = "looping" /\ ~reported)) /\ (writing \/ sum)
    => AtLimit(app_faults)

\* The bootloader leaves the handshake finished behind it, and waits for a host only over one
\* whose launches can still be counted.
Finished == where \in {"wake", "window", "held"} => ~writing
UnderLimit == where = "window" => ~AtLimit(app_faults)

\* The record names nothing that has neither run for PROVE_AFTER_MS nor been vouched for by an
\* operator while it ran, and there is something to run in a running application.
RecordIsEarned == trust \in survived \union vouched \union {None}
SomethingRuns == where \in Application \union {"window"} => image # None

Typed ==
  HandshakeOK /\ where \in Places /\ DecisionOK /\ DeviceOK /\ RunningOK /\ HistoryOK
Crumbed == CrumbKept /\ CrumbLeft /\ Finished /\ UnderLimit
Earned == RecordIsEarned /\ SomethingRuns /\ UnattendedIsEarned

IInv == Typed /\ Crumbed /\ Earned

\* Every value that can be stored in app_faults is one of its type.
LEMMA FaultValues ==
  /\ \A k \in Crumbs : Crumb(k) \in Faults
  /\ \A n \in 0..FaultLimit : Count(n) \in Faults
  /\ Count(0) \in Faults
  /\ \A k \in Crumbs : k # "count" => AtLimit(Crumb(k))
  BY DEF Crumb, Count, Faults, Crumbs, AtLimit

\* The handshake keeps its type when it is stored.
LEMMA StoreOK ==
  ASSUME NEW r \in Requests, NEW f \in Faults, NEW h \in BOOLEAN, Store(r, f, h)
  PROVE  HandshakeOK' /\ request' = r /\ app_faults' = f /\ writing' = TRUE
  BY DEF Store, HandshakeOK

\* A crumb above the limit is left in a valid handshake, and no other is touched.
LEMMA StageOK ==
  ASSUME HandshakeOK, NEW k \in Crumbs \ {"count"}, Stage(k)
  PROVE  /\ HandshakeOK'
         /\ sum => AtLimit(app_faults)' /\ writing'
         /\ ~sum => UNCHANGED handshake
<1>1. CASE sum
  <2>1. Store(request, Crumb(k), health)
    BY <1>1 DEF Stage
  <2>2. app_faults' = Crumb(k) /\ writing' = TRUE /\ HandshakeOK'
    BY <2>1, FaultValues, StoreOK DEF HandshakeOK
  <2> QED
    BY <1>1, <2>2, FaultValues DEF AtLimit
<1>2. CASE ~sum
  BY <1>2 DEF Stage, HandshakeOK, handshake
<1> QED
  BY <1>1, <1>2

\* A request leaves the crumb of a valid handshake alone.
LEMMA RequestOK ==
  ASSUME HandshakeOK, NEW r \in Requests, SetRequest(r)
  PROVE  HandshakeOK' /\ writing' /\ (sum => app_faults' = app_faults)
<1>1. CASE sum
  BY <1>1, StoreOK DEF SetRequest, HandshakeOK
<1>2. CASE ~sum
  BY <1>2, FaultValues, StoreOK DEF SetRequest
<1> QED
  BY <1>1, <1>2

\* A device that has just been switched on owes nobody anything.
LEMMA InitIInv == Init => IInv
<1> SUFFICES ASSUME Init PROVE IInv
  OBVIOUS
<1>1. HandshakeOK
  BY FaultValues DEF Init, HandshakeOK, Requests
<1>2. where \in Places /\ DecisionOK
  BY FaultValues DEF Init, DecisionOK, Places, Requests, Reasons
<1>3. DeviceOK /\ RunningOK
  BY DEF Init, DeviceOK, RunningOK
<1>4. 0 \in 0..MaxResets /\ 0 \in 0..MaxFlashes
  OBVIOUS
<1>5. HistoryOK
  BY <1>4 DEF Init, HistoryOK
<1> QED
  BY <1>1, <1>2, <1>3, <1>5 DEF Init, IInv, Typed, Crumbed, Earned, CrumbKept, CrumbLeft,
     Finished,
     UnderLimit, RecordIsEarned, SomethingRuns, UnattendedIsEarned, Application

\* The checksum follows the fields.
LEMMA SealKeeps ==
  ASSUME IInv, Seal
  PROVE  IInv'
<1>1. Typed'
  <2>1. HandshakeOK'
    BY DEF IInv, Typed, HandshakeOK, handshake, Requests, Seal
  <2>2. where' \in Places /\ DecisionOK'
    BY DEF IInv, Typed, Places, Application, DecisionOK, decision, Reasons, Seal
  <2>3. DeviceOK' /\ RunningOK'
    BY DEF IInv, Typed, DeviceOK, RunningOK, device, running, Seal
  <2>4. HistoryOK'
    BY DEF IInv, Typed, Earned, SomethingRuns, Application, DeviceOK, HistoryOK, history, Seal
  <2> QED
    BY <2>1, <2>2, <2>3, <2>4 DEF Typed
<1>2. Crumbed'
  BY DEF IInv, Typed, Crumbed, CrumbKept, CrumbLeft, Finished, UnderLimit, AtLimit, Application,
     HandshakeOK, handshake, decision, device, running, history, Seal
<1>3. Earned'
  BY DEF IInv, Typed, Crumbed, Earned, RecordIsEarned, SomethingRuns, UnattendedIsEarned,
     Application, DeviceOK, handshake, decision, device, running, history, CrumbKept, HistoryOK,
     Seal
<1> QED
  BY <1>1, <1>2, <1>3 DEF IInv

\* The request is consumed and the crumb stays.
LEMMA WakeKeeps ==
  ASSUME IInv, Wake
  PROVE  IInv'
<1>1. Typed'
  <2>1. HandshakeOK'
    <3>1. CASE sum
      BY <3>1, StoreOK DEF IInv, Typed, HandshakeOK, Wake, Requests
    <3>2. CASE ~sum
      BY <3>2, StoreOK, FaultValues DEF Wake, Requests
    <3> QED
      BY <3>1, <3>2
  <2>2. where' \in Places /\ DecisionOK'
    <3>1. where' \in Places /\ reason' = reason
      BY DEF Wake, Places
    <3>2. CASE sum
      BY <3>1, <3>2 DEF IInv, Typed, HandshakeOK, Wake, DecisionOK
    <3>3. CASE ~sum
      BY <3>1, <3>3, FaultValues DEF IInv, Typed, Wake, DecisionOK, Requests
    <3> QED
      BY <3>1, <3>2, <3>3
  <2>3. DeviceOK' /\ RunningOK'
    BY DEF IInv, Typed, DeviceOK, RunningOK, device, running, Wake, Store, Count, Faults
  <2>4. HistoryOK'
    BY DEF IInv, Typed, Earned, SomethingRuns, Application, DeviceOK, HistoryOK, history,
       Wake, Store, Count, Faults
  <2> QED
    BY <2>1, <2>2, <2>3, <2>4 DEF Typed
<1>2. Crumbed'
  BY DEF IInv, Typed, Crumbed, CrumbKept, CrumbLeft, Finished, UnderLimit, AtLimit, Application,
     HandshakeOK, handshake, decision, device, running, history, Wake, Store, Count, Faults
<1>3. Earned'
  BY DEF IInv, Typed, Crumbed, Earned, RecordIsEarned, SomethingRuns, UnattendedIsEarned,
     Application, DeviceOK, handshake, decision, device, running, history, CrumbKept, HistoryOK,
     Wake, Store, Count, Faults
<1> QED
  BY <1>1, <1>2, <1>3 DEF IInv

\* A host claims the device in the window.
LEMMA ClaimKeeps ==
  ASSUME IInv, HostClaims
  PROVE  IInv'
<1>1. Typed'
  <2>1. HandshakeOK'
    BY DEF IInv, Typed, HandshakeOK, handshake, Requests, HostClaims, Hold
  <2>2. where' \in Places /\ DecisionOK'
    BY DEF IInv, Typed, Places, Application, DecisionOK, decision, Reasons, HostClaims, Hold
  <2>3. DeviceOK' /\ RunningOK'
    BY DEF IInv, Typed, DeviceOK, RunningOK, device, running, HostClaims, Hold
  <2>4. HistoryOK'
    BY DEF IInv, Typed, Earned, SomethingRuns, Application, DeviceOK, HistoryOK, history,
       HostClaims, Hold
  <2> QED
    BY <2>1, <2>2, <2>3, <2>4 DEF Typed
<1>2. Crumbed'
  BY DEF IInv, Typed, Crumbed, CrumbKept, CrumbLeft, Finished, UnderLimit, AtLimit, Application,
     HandshakeOK, handshake, decision, device, running, history, HostClaims, Hold
<1>3. Earned'
  BY DEF IInv, Typed, Crumbed, Earned, RecordIsEarned, SomethingRuns, UnattendedIsEarned,
     Application, DeviceOK, handshake, decision, device, running, history, CrumbKept, HistoryOK,
     HostClaims, Hold
<1> QED
  BY <1>1, <1>2, <1>3 DEF IInv

\* The window closes, and the launch it counts is within the limit.
LEMMA WindowKeeps ==
  ASSUME IInv, WindowCloses
  PROVE  IInv'
<1>1. Typed'
  <2>1. HandshakeOK'
    <3>1. app_faults.n + 1 \in 0..FaultLimit
      BY DEF IInv, Typed, HandshakeOK, Faults, Crumbed, UnderLimit, AtLimit, WindowCloses
    <3>2. Count(app_faults.n + 1) \in Faults
      BY <3>1 DEF Count, Faults, Crumbs
    <3> QED
      BY <3>2, StoreOK DEF IInv, Typed, HandshakeOK, WindowCloses
  <2>2. where' \in Places /\ DecisionOK'
    BY DEF IInv, Typed, Places, Application, DecisionOK, decision, Reasons, WindowCloses,
       Store, Count, Faults, Crumbs, Launch
  <2>3. DeviceOK' /\ RunningOK'
    BY DEF IInv, Typed, DeviceOK, RunningOK, device, running, WindowCloses, Store, Count,
       Faults, Crumbs, Launch
  <2>4. HistoryOK'
    BY DEF IInv, Typed, Earned, SomethingRuns, Application, DeviceOK, HistoryOK, history,
       WindowCloses, Store, Count, Faults, Crumbs, Launch
  <2> QED
    BY <2>1, <2>2, <2>3, <2>4 DEF Typed
<1>2. Crumbed'
  BY DEF IInv, Typed, Crumbed, CrumbKept, CrumbLeft, Finished, UnderLimit, AtLimit, Application,
     HandshakeOK, handshake, decision, device, running, history, WindowCloses, Store, Count,
     Faults, Crumbs, Launch
<1>3. Earned'
  BY DEF IInv, Typed, Crumbed, Earned, RecordIsEarned, SomethingRuns, UnattendedIsEarned,
     Application, DeviceOK, handshake, decision, device, running, history, CrumbKept, HistoryOK,
     WindowCloses, Store, Count, Faults, Crumbs, Launch
<1> QED
  BY <1>1, <1>2, <1>3 DEF IInv

\* A launch by hand.
LEMMA HandKeeps ==
  ASSUME IInv, LaunchByHand
  PROVE  IInv'
<1>1. Typed'
  <2>1. HandshakeOK'
    BY DEF IInv, Typed, HandshakeOK, handshake, Requests, LaunchByHand
  <2>2. where' \in Places /\ DecisionOK'
    BY DEF IInv, Typed, Places, Application, DecisionOK, decision, Reasons, LaunchByHand
  <2>3. DeviceOK' /\ RunningOK'
    BY DEF IInv, Typed, DeviceOK, RunningOK, device, running, LaunchByHand
  <2>4. HistoryOK'
    BY DEF IInv, Typed, Earned, SomethingRuns, Application, DeviceOK, HistoryOK, history,
       LaunchByHand
  <2> QED
    BY <2>1, <2>2, <2>3, <2>4 DEF Typed
<1>2. Crumbed'
  BY DEF IInv, Typed, Crumbed, CrumbKept, CrumbLeft, Finished, UnderLimit, AtLimit, Application,
     HandshakeOK, handshake, decision, device, running, history, LaunchByHand
<1>3. Earned'
  BY DEF IInv, Typed, Crumbed, Earned, RecordIsEarned, SomethingRuns, UnattendedIsEarned,
     Application, DeviceOK, handshake, decision, device, running, history, CrumbKept, HistoryOK,
     LaunchByHand
<1> QED
  BY <1>1, <1>2, <1>3 DEF IInv

\* What the host does to a device that is held.
LEMMA HeldKeeps ==
  ASSUME IInv, HostResets \/ HostErases \/ HostWrites
  PROVE  IInv'
<1>1. Typed'
  <2>1. HandshakeOK'
    BY DEF IInv, Typed, HandshakeOK, handshake, Requests, HostResets, HostErases, HostWrites
  <2>2. where' \in Places /\ DecisionOK'
    BY DEF IInv, Typed, Places, Application, DecisionOK, decision, Reasons, HostResets,
       HostErases, HostWrites
  <2>3. DeviceOK' /\ RunningOK'
    BY DEF IInv, Typed, DeviceOK, RunningOK, device, running, HostResets, HostErases, HostWrites
  <2>4. HistoryOK'
    BY DEF IInv, Typed, Earned, SomethingRuns, Application, DeviceOK, HistoryOK, history,
       HostResets, HostErases, HostWrites
  <2> QED
    BY <2>1, <2>2, <2>3, <2>4 DEF Typed
<1>2. Crumbed'
  BY DEF IInv, Typed, Crumbed, CrumbKept, CrumbLeft, Finished, UnderLimit, AtLimit, Application,
     HandshakeOK, handshake, decision, device, running, history, HostResets, HostErases,
     HostWrites
<1>3. Earned'
  BY DEF IInv, Typed, Crumbed, Earned, RecordIsEarned, SomethingRuns, UnattendedIsEarned,
     Application, DeviceOK, handshake, decision, device, running, history, CrumbKept, HistoryOK,
     HostResets, HostErases, HostWrites
<1> QED
  BY <1>1, <1>2, <1>3 DEF IInv

\* The first crumb.
LEMMA EnterKeeps ==
  ASSUME IInv, Enter
  PROVE  IInv'
<1>1. Typed'
  <2>1. HandshakeOK'
    BY StageOK DEF IInv, Typed, Crumbs, Enter
  <2>2. where' \in Places /\ DecisionOK'
    BY DEF IInv, Typed, Places, Application, DecisionOK, decision, Reasons, Enter
  <2>3. DeviceOK' /\ RunningOK'
    BY DEF IInv, Typed, DeviceOK, RunningOK, device, running, Enter
  <2>4. HistoryOK'
    BY DEF IInv, Typed, Earned, SomethingRuns, Application, DeviceOK, HistoryOK, history, Enter
  <2> QED
    BY <2>1, <2>2, <2>3, <2>4 DEF Typed
<1>2. Crumbed'
  BY StageOK DEF IInv, Typed, Crumbed, CrumbKept, CrumbLeft, Finished, UnderLimit, Application,
     Crumbs, handshake, history, Enter
<1>3. Earned'
  BY DEF IInv, Typed, Crumbed, Earned, RecordIsEarned, SomethingRuns, UnattendedIsEarned,
     Application, DeviceOK, handshake, decision, device, running, history, CrumbKept, HistoryOK,
     Enter
<1> QED
  BY <1>1, <1>2, <1>3 DEF IInv

\* The last crumb.
LEMMA LoopKeeps ==
  ASSUME IInv, ReachLoop
  PROVE  IInv'
<1>1. Typed'
  <2>1. HandshakeOK'
    BY StageOK DEF IInv, Typed, Crumbs, ReachLoop
  <2>2. where' \in Places /\ DecisionOK'
    BY DEF IInv, Typed, Places, Application, DecisionOK, decision, Reasons, ReachLoop
  <2>3. DeviceOK' /\ RunningOK'
    BY DEF IInv, Typed, DeviceOK, RunningOK, device, running, ReachLoop
  <2>4. HistoryOK'
    BY DEF IInv, Typed, Earned, SomethingRuns, Application, DeviceOK, HistoryOK, history,
       ReachLoop
  <2> QED
    BY <2>1, <2>2, <2>3, <2>4 DEF Typed
<1>2. Crumbed'
  <2>1. /\ HandshakeOK
        /\ where = "starting" /\ ~writing /\ where' = "looping" /\ ~owed /\ ~owed'
    BY DEF IInv, Typed, Crumbed, CrumbKept, history, ReachLoop
  <2>2. CASE sum
    BY <2>1, <2>2, StageOK DEF Crumbs, Crumbed, CrumbKept, CrumbLeft, Finished, UnderLimit, ReachLoop
  <2>3. CASE ~sum
    <3>1. ~writing' /\ ~sum'
      BY <2>1, <2>3, StageOK DEF Crumbs, handshake, ReachLoop
    <3> QED
      BY <2>1, <3>1 DEF Crumbed, CrumbKept, CrumbLeft, Finished, UnderLimit
  <2> QED
    BY <2>1, <2>2, <2>3 DEF HandshakeOK
<1>3. Earned'
  BY DEF IInv, Typed, Crumbed, Earned, RecordIsEarned, SomethingRuns, UnattendedIsEarned,
     Application, DeviceOK, handshake, decision, device, running, history, CrumbKept, HistoryOK,
     ReachLoop
<1> QED
  BY <1>1, <1>2, <1>3 DEF IInv

\* A healthy report clears the count.
LEMMA ReportKeeps ==
  ASSUME IInv, ReportHealthy
  PROVE  IInv'
<1>1. Typed'
  <2>1. HandshakeOK'
    BY FaultValues, StoreOK DEF IInv, Typed, HandshakeOK, ReportHealthy
  <2>2. where' \in Places /\ DecisionOK'
    BY DEF IInv, Typed, Places, Application, DecisionOK, decision, Reasons, ReportHealthy,
       CanReport, Store, Count, Faults, Crumbs
  <2>3. DeviceOK' /\ RunningOK'
    BY DEF IInv, Typed, DeviceOK, RunningOK, device, running, ReportHealthy, CanReport, Store,
       Count, Faults, Crumbs
  <2>4. HistoryOK'
    BY DEF IInv, Typed, Earned, SomethingRuns, Application, DeviceOK, HistoryOK, history,
       ReportHealthy, CanReport, Store, Count, Faults, Crumbs
  <2> QED
    BY <2>1, <2>2, <2>3, <2>4 DEF Typed
<1>2. Crumbed'
  BY DEF IInv, Typed, Crumbed, CrumbKept, CrumbLeft, Finished, UnderLimit, AtLimit, Application,
     HandshakeOK, handshake, decision, device, running, history, ReportHealthy, CanReport,
     Store, Count, Faults, Crumbs
<1>3. Earned'
  BY DEF IInv, Typed, Crumbed, Earned, RecordIsEarned, SomethingRuns, UnattendedIsEarned,
     Application, DeviceOK, handshake, decision, device, running, history, CrumbKept, HistoryOK,
     ReportHealthy, CanReport, Store, Count, Faults, Crumbs
<1> QED
  BY <1>1, <1>2, <1>3 DEF IInv

\* The image that runs is vouched for once it has survived.
LEMMA ProveKeeps ==
  ASSUME IInv, ProveImage
  PROVE  IInv'
<1>1. Typed'
  <2>1. HandshakeOK'
    BY DEF IInv, Typed, HandshakeOK, handshake, Requests, ProveImage, MarkProven
  <2>2. where' \in Places /\ DecisionOK'
    BY DEF IInv, Typed, Places, Application, DecisionOK, decision, Reasons, ProveImage, MarkProven
  <2>3. DeviceOK' /\ RunningOK'
    BY DEF IInv, Typed, DeviceOK, RunningOK, device, running, ProveImage, MarkProven
  <2>4. HistoryOK'
    BY DEF IInv, Typed, Earned, SomethingRuns, Application, DeviceOK, HistoryOK, history,
       ProveImage, MarkProven
  <2> QED
    BY <2>1, <2>2, <2>3, <2>4 DEF Typed
<1>2. Crumbed'
  BY DEF IInv, Typed, Crumbed, CrumbKept, CrumbLeft, Finished, UnderLimit, AtLimit, Application,
     HandshakeOK, handshake, decision, device, running, history, ProveImage, MarkProven
<1>3. Earned'
  BY DEF IInv, Typed, Crumbed, Earned, RecordIsEarned, SomethingRuns, UnattendedIsEarned,
     Application, DeviceOK, handshake, decision, device, running, history, CrumbKept, HistoryOK,
     ProveImage, MarkProven
<1> QED
  BY <1>1, <1>2, <1>3 DEF IInv

\* The console withdraws the record.
LEMMA PersKeeps ==
  ASSUME IInv, ConsolePers
  PROVE  IInv'
<1>1. Typed'
  <2>1. HandshakeOK'
    BY DEF IInv, Typed, HandshakeOK, handshake, Requests, ConsolePers, MarkProven
  <2>2. where' \in Places /\ DecisionOK'
    BY DEF IInv, Typed, Places, Application, DecisionOK, decision, Reasons, ConsolePers, MarkProven
  <2>3. DeviceOK' /\ RunningOK'
    BY DEF IInv, Typed, DeviceOK, RunningOK, device, running, ConsolePers, MarkProven
  <2>4. HistoryOK'
    BY DEF IInv, Typed, Earned, SomethingRuns, Application, DeviceOK, HistoryOK, history,
       ConsolePers, MarkProven
  <2> QED
    BY <2>1, <2>2, <2>3, <2>4 DEF Typed
<1>2. Crumbed'
  BY DEF IInv, Typed, Crumbed, CrumbKept, CrumbLeft, Finished, UnderLimit, AtLimit, Application,
     HandshakeOK, handshake, decision, device, running, history, ConsolePers, MarkProven
<1>3. Earned'
  BY DEF IInv, Typed, Crumbed, Earned, RecordIsEarned, SomethingRuns, UnattendedIsEarned,
     Application, DeviceOK, handshake, decision, device, running, history, CrumbKept, HistoryOK,
     ConsolePers, MarkProven
<1> QED
  BY <1>1, <1>2, <1>3 DEF IInv

\* Update mode is asked for.
LEMMA BootKeeps ==
  ASSUME IInv, CmdBoot
  PROVE  IInv'
<1>1. Typed'
  <2>1. HandshakeOK'
    BY RequestOK DEF IInv, Typed, HandshakeOK, handshake, Requests, CmdBoot
  <2>2. where' \in Places /\ DecisionOK'
    BY DEF IInv, Typed, Places, Application, DecisionOK, decision, Reasons, CmdBoot
  <2>3. DeviceOK' /\ RunningOK'
    BY DEF IInv, Typed, DeviceOK, RunningOK, device, running, CmdBoot
  <2>4. HistoryOK'
    BY DEF IInv, Typed, Earned, SomethingRuns, Application, DeviceOK, HistoryOK, history, CmdBoot
  <2> QED
    BY <2>1, <2>2, <2>3, <2>4 DEF Typed
<1>2. Crumbed'
  BY RequestOK DEF IInv, Typed, Crumbed, CrumbKept, CrumbLeft, Finished, UnderLimit, AtLimit,
     Application, HandshakeOK, handshake, decision, device, running, history, CmdBoot
<1>3. Earned'
  BY DEF IInv, Typed, Crumbed, Earned, RecordIsEarned, SomethingRuns, UnattendedIsEarned,
     Application, DeviceOK, handshake, decision, device, running, history, CrumbKept, HistoryOK,
     CmdBoot
<1> QED
  BY <1>1, <1>2, <1>3 DEF IInv

\* A restart is asked for.
LEMMA PanelKeeps ==
  ASSUME IInv, RestartFromPanel
  PROVE  IInv'
<1>1. Typed'
  <2>1. HandshakeOK'
    BY RequestOK DEF IInv, Typed, HandshakeOK, handshake, Requests, RestartFromPanel
  <2>2. where' \in Places /\ DecisionOK'
    BY DEF IInv, Typed, Places, Application, DecisionOK, decision, Reasons, RestartFromPanel
  <2>3. DeviceOK' /\ RunningOK'
    BY DEF IInv, Typed, DeviceOK, RunningOK, device, running, RestartFromPanel
  <2>4. HistoryOK'
    BY DEF IInv, Typed, Earned, SomethingRuns, Application, DeviceOK, HistoryOK, history,
       RestartFromPanel
  <2> QED
    BY <2>1, <2>2, <2>3, <2>4 DEF Typed
<1>2. Crumbed'
  BY RequestOK DEF IInv, Typed, Crumbed, CrumbKept, CrumbLeft, Finished, UnderLimit, AtLimit,
     Application, HandshakeOK, handshake, decision, device, running, history, RestartFromPanel
<1>3. Earned'
  BY DEF IInv, Typed, Crumbed, Earned, RecordIsEarned, SomethingRuns, UnattendedIsEarned,
     Application, DeviceOK, handshake, decision, device, running, history, CrumbKept, HistoryOK,
     RestartFromPanel
<1> QED
  BY <1>1, <1>2, <1>3 DEF IInv

\* The application gives up on its host.
LEMMA HandbackKeeps ==
  ASSUME IInv, Handback
  PROVE  IInv'
<1>1. Typed'
  <2>1. HandshakeOK'
    BY StageOK DEF IInv, Typed, Crumbs, Handback
  <2>2. where' \in Places /\ DecisionOK'
    BY DEF IInv, Typed, Places, Application, DecisionOK, decision, Reasons, Handback
  <2>3. DeviceOK' /\ RunningOK'
    BY DEF IInv, Typed, DeviceOK, RunningOK, device, running, Handback
  <2>4. HistoryOK'
    BY DEF IInv, Typed, Earned, SomethingRuns, Application, DeviceOK, HistoryOK, history, Handback
  <2> QED
    BY <2>1, <2>2, <2>3, <2>4 DEF Typed
<1>2. Crumbed'
  BY StageOK DEF IInv, Typed, Crumbed, CrumbKept, CrumbLeft, Finished, UnderLimit, AtLimit,
     Application, HandshakeOK, handshake, decision, device, running, history, Handback
<1>3. Earned'
  BY DEF IInv, Typed, Crumbed, Earned, RecordIsEarned, SomethingRuns, UnattendedIsEarned,
     Application, DeviceOK, handshake, decision, device, running, history, CrumbKept, HistoryOK,
     Handback
<1> QED
  BY <1>1, <1>2, <1>3 DEF IInv

\* The request follows the crumb.
LEMMA DieKeeps ==
  ASSUME IInv, Die
  PROVE  IInv'
<1>1. Typed'
  <2>1. HandshakeOK'
    BY RequestOK DEF IInv, Typed, Requests, Die
  <2>2. where' \in Places /\ DecisionOK'
    BY DEF IInv, Typed, Places, Application, DecisionOK, decision, Reasons, Die
  <2>3. DeviceOK' /\ RunningOK'
    BY DEF IInv, Typed, DeviceOK, RunningOK, device, running, Die
  <2>4. HistoryOK'
    BY DEF IInv, Typed, Earned, SomethingRuns, Application, DeviceOK, HistoryOK, history, Die
  <2> QED
    BY <2>1, <2>2, <2>3, <2>4 DEF Typed
<1>2. Crumbed'
  BY RequestOK DEF IInv, Typed, HandshakeOK, Crumbed, CrumbKept, CrumbLeft, Finished,
     UnderLimit, Application, AtLimit, Requests, Die
<1>3. Earned'
  BY DEF IInv, Typed, Crumbed, Earned, RecordIsEarned, SomethingRuns, UnattendedIsEarned,
     Application, DeviceOK, handshake, decision, device, running, history, CrumbKept, HistoryOK,
     Die
<1> QED
  BY <1>1, <1>2, <1>3 DEF IInv

\* The reset an application asks for.
LEMMA LeaveKeeps ==
  ASSUME IInv, Leave
  PROVE  IInv'
<1>1. Typed'
  <2>1. HandshakeOK'
    BY DEF IInv, Typed, HandshakeOK, handshake, Requests, Leave
  <2>2. where' \in Places /\ DecisionOK'
    BY DEF IInv, Typed, Places, Application, DecisionOK, decision, Reasons, Leave
  <2>3. DeviceOK' /\ RunningOK'
    BY DEF IInv, Typed, DeviceOK, RunningOK, device, running, Leave
  <2>4. HistoryOK'
    BY DEF IInv, Typed, Earned, SomethingRuns, Application, DeviceOK, HistoryOK, history, Leave
  <2> QED
    BY <2>1, <2>2, <2>3, <2>4 DEF Typed
<1>2. Crumbed'
  BY DEF IInv, Typed, Crumbed, CrumbKept, CrumbLeft, Finished, UnderLimit, AtLimit, Application,
     HandshakeOK, handshake, decision, device, running, history, Leave
<1>3. Earned'
  BY DEF IInv, Typed, Crumbed, Earned, RecordIsEarned, SomethingRuns, UnattendedIsEarned,
     Application, DeviceOK, handshake, decision, device, running, history, CrumbKept, HistoryOK,
     Leave
<1> QED
  BY <1>1, <1>2, <1>3 DEF IInv

\* A host comes or goes.
LEMMA AttachKeeps ==
  ASSUME IInv, Attach
  PROVE  IInv'
<1>1. Typed'
  <2>1. HandshakeOK'
    BY DEF IInv, Typed, HandshakeOK, handshake, Requests, Attach
  <2>2. where' \in Places /\ DecisionOK'
    BY DEF IInv, Typed, Places, Application, DecisionOK, decision, Reasons, Attach
  <2>3. DeviceOK' /\ RunningOK'
    BY DEF IInv, Typed, DeviceOK, RunningOK, device, running, Attach
  <2>4. HistoryOK'
    BY DEF IInv, Typed, Earned, SomethingRuns, Application, DeviceOK, HistoryOK, history, Attach
  <2> QED
    BY <2>1, <2>2, <2>3, <2>4 DEF Typed
<1>2. Crumbed'
  BY DEF IInv, Typed, Crumbed, CrumbKept, CrumbLeft, Finished, UnderLimit, AtLimit, Application,
     HandshakeOK, handshake, decision, device, running, history, Attach
<1>3. Earned'
  BY DEF IInv, Typed, Crumbed, Earned, RecordIsEarned, SomethingRuns, UnattendedIsEarned,
     Application, DeviceOK, handshake, decision, device, running, history, CrumbKept, HistoryOK,
     Attach
<1> QED
  BY <1>1, <1>2, <1>3 DEF IInv

\* An exception leaves its crumb, or finds a handshake that can take none.
LEMMA FaultKeeps ==
  ASSUME IInv, NEW kind \in {"fault", "nmi"}, Fault(kind)
  PROVE  IInv'
<1>1. HandshakeOK' /\ (sum => AtLimit(app_faults)' /\ writing')
  <2>1. CASE sum
    BY <2>1, StageOK DEF IInv, Typed, Crumbs, Fault
  <2>2. CASE ~sum
    BY <2>2 DEF IInv, Typed, HandshakeOK, Fault
  <2> QED
    BY <2>1, <2>2
<1>2. Typed'
  <2>1. where' \in Places /\ DecisionOK'
    BY DEF IInv, Typed, Places, DecisionOK, decision, Fault
  <2>2. DeviceOK' /\ RunningOK'
    BY DEF IInv, Typed, DeviceOK, RunningOK, device, running, Fault
  <2>3. HistoryOK'
    BY DEF IInv, Typed, HandshakeOK, HistoryOK, Fault
  <2> QED
    BY <1>1, <2>1, <2>2, <2>3 DEF Typed
<1>3. Crumbed'
  BY <1>1 DEF Crumbed, CrumbKept, CrumbLeft, Finished, UnderLimit, Fault
<1>4. Earned'
  BY DEF IInv, Earned, RecordIsEarned, SomethingRuns, UnattendedIsEarned, Application,
     device, Fault
<1> QED
  BY <1>2, <1>3, <1>4 DEF IInv

\* A reset anywhere: the crumb of whatever was on its way up is there, or the handshake is lost.
LEMMA InterruptKeeps ==
  ASSUME IInv, NEW kept \in BOOLEAN, kept => sum, Interrupt(kept)
  PROVE  IInv'
<1>1. Typed'
  <2>1. HandshakeOK' /\ where' \in Places
    BY DEF IInv, Typed, HandshakeOK, Places, Interrupt
  <2>2. DecisionOK' /\ DeviceOK' /\ RunningOK'
    BY DEF IInv, Typed, DecisionOK, DeviceOK, RunningOK, decision, device, running, Interrupt
  <2>3. resets' \in 0..MaxResets
    BY DEF IInv, Typed, HistoryOK, Interrupt
  <2>4. HistoryOK'
    BY <2>3 DEF IInv, Typed, HistoryOK, Interrupt
  <2> QED
    BY <2>1, <2>2, <2>4 DEF Typed
<1>2. Crumbed'
  BY DEF IInv, Crumbed, CrumbKept, CrumbLeft, Finished, UnderLimit, AtLimit, Interrupt
<1>3. Earned'
  BY DEF IInv, Earned, RecordIsEarned, SomethingRuns, UnattendedIsEarned, Application,
     device, Interrupt
<1> QED
  BY <1>1, <1>2, <1>3 DEF IInv

\* The six rules: the record is believed only below the limit.
LEMMA DecideKeeps ==
  ASSUME IInv, Decide
  PROVE  IInv'
<1> USE DEF Decide
<1>1. HandshakeOK' /\ app_faults' = app_faults /\ writing' = FALSE /\ sum' = sum
  BY DEF IInv, Typed, HandshakeOK, handshake
<1>2. DeviceOK'
  BY DEF IInv, Typed, DeviceOK, device
<1>3. CASE \E r \in Reasons : Hold(r)
  <2>1. Typed'
    BY <1>1, <1>2, <1>3 DEF IInv, Typed, Places, DecisionOK, RunningOK, HistoryOK, Hold
  <2>2. Crumbed'
    BY <1>1, <1>3 DEF Crumbed, CrumbKept, CrumbLeft, Finished, UnderLimit, Hold
  <2>3. Earned'
    BY <1>3 DEF IInv, Earned, RecordIsEarned, SomethingRuns, UnattendedIsEarned, Application,
       device, Hold
  <2> QED
    BY <2>1, <2>2, <2>3 DEF IInv
<1>4. CASE ~AtLimit(app_faults) /\ image # None /\ Vouched /\ Launch("record")
  <2>1. Typed'
    BY <1>1, <1>2, <1>4 DEF IInv, Typed, Places, Application, DecisionOK, RunningOK, HistoryOK,
       Reasons, Launch
  <2>2. Crumbed'
    BY <1>1, <1>4 DEF IInv, Crumbed, CrumbKept, CrumbLeft, Finished, UnderLimit, Launch
  <2>3. Earned'
    BY <1>4 DEF IInv, Earned, RecordIsEarned, SomethingRuns, UnattendedIsEarned, Application,
       Vouched, device, Launch
  <2> QED
    BY <2>1, <2>2, <2>3 DEF IInv
<1>5. CASE ~AtLimit(app_faults) /\ image # None /\ Window
  <2>1. Typed'
    BY <1>1, <1>2, <1>5 DEF IInv, Typed, Places, DecisionOK, RunningOK, HistoryOK, Window
  <2>2. Crumbed'
    BY <1>1, <1>5 DEF IInv, Crumbed, CrumbKept, CrumbLeft, Finished, UnderLimit, AtLimit, Window
  <2>3. Earned'
    BY <1>5 DEF IInv, Earned, RecordIsEarned, SomethingRuns, UnattendedIsEarned, Application,
       device, Window
  <2> QED
    BY <2>1, <2>2, <2>3 DEF IInv
<1> QED
  BY <1>3, <1>4, <1>5 DEF Rules, Why, Reasons

\* Nothing happens.
LEMMA StutterKeeps ==
  ASSUME IInv, UNCHANGED vars
  PROVE  IInv'
<1>1. Typed'
  BY DEF IInv, Typed, HandshakeOK, DecisionOK, DeviceOK, RunningOK, HistoryOK,
     vars, handshake, decision, device, running, history
<1>2. Crumbed'
  BY DEF IInv, Crumbed, CrumbKept, CrumbLeft, Finished, UnderLimit, AtLimit,
     vars, handshake, running, history
<1>3. Earned'
  BY DEF IInv, Earned, RecordIsEarned, SomethingRuns, UnattendedIsEarned,
     vars, device, running, history
<1> QED
  BY <1>1, <1>2, <1>3 DEF IInv

\* Every step keeps the invariant.
LEMMA NextKeeps == IInv /\ [Next]_vars => IInv'
<1> SUFFICES ASSUME IInv, [Next]_vars PROVE IInv'
  OBVIOUS
<1>1. CASE Program
  BY <1>1, SealKeeps, WakeKeeps, DecideKeeps, WindowKeeps, EnterKeeps, LoopKeeps, ReportKeeps,
     ProveKeeps, DieKeeps, LeaveKeeps DEF Program
<1>2. CASE HostClaims \/ LaunchByHand \/ HostResets \/ HostErases \/ HostWrites
  BY <1>2, ClaimKeeps, HandKeeps, HeldKeeps
<1>3. CASE ConsolePers \/ CmdBoot \/ RestartFromPanel \/ Handback
  BY <1>3, PersKeeps, BootKeeps, PanelKeeps, HandbackKeeps
<1>4. CASE Fault("fault") \/ Fault("nmi")
  BY <1>4, FaultKeeps
<1>5. CASE Attach
  BY <1>5, AttachKeeps
<1>6. CASE RearReset \/ PowerCut
  <2>1. sum \in BOOLEAN
    BY DEF IInv, Typed, HandshakeOK
  <2> QED
    BY <1>6, <2>1, InterruptKeeps DEF RearReset, PowerCut
<1>7. CASE UNCHANGED vars
  BY <1>7, StutterKeeps
<1> QED
  BY <1>1, <1>2, <1>3, <1>4, <1>5, <1>6, <1>7 DEF Next

\* The invariant holds of every reachable state.
THEOREM Inductive == Spec => []IInv
  BY InitIInv, NextKeeps, PTL DEF Spec

\* The handshake's fields and everything else keep their types: app_faults stays within the
\* limit, for the window only counts a launch that is within it.
THEOREM TypeCorrect == Spec => []TypeOK
<1>1. IInv => TypeOK
  BY DEF IInv, Typed, HandshakeOK, DecisionOK, DeviceOK, RunningOK, HistoryOK, TypeOK
<1> QED
  BY <1>1, Inductive, PTL

\* What the record starts unattended has run on this device for PROVE_AFTER_MS, or an operator
\* vouched for it from its own console: rule 4 of boot/main.c is safe for an image that was
\* flashed without the record being withdrawn.
THEOREM RecordEarned == Spec => []UnattendedIsEarned
<1>1. IInv => UnattendedIsEarned
  BY DEF IInv, Earned
<1> QED
  BY <1>1, Inductive, PTL

\* An application that died is not started again before the bootloader has held, wherever a
\* reset falls between its death and the decision.
THEOREM DeadHeld == Spec => []DeadIsHeld
<1>1. IInv => DeadIsHeld
  BY DEF IInv, Crumbed, CrumbKept, DeadIsHeld, Application
<1> QED
  BY <1>1, Inductive, PTL

\* A request for update mode that a bootloader could still read, or has read, was asked for.
Asking ==
  /\ request = "update" /\ (sum \/ writing) => asked /\ where \in {"leaving", "wake"}
  /\ where = "decide" /\ req = "update" => asked
  /\ where \in {"decide", "window"} => request = "none"

\* Every step keeps it: the bootloader consumes the request it reads, and nothing an application
\* stores after that has one in it.
LEMMA AskingKeeps == Asking /\ [Next]_vars => Asking'
<1> SUFFICES ASSUME Asking, [Next]_vars PROVE Asking'
  OBVIOUS
<1> USE DEF Asking
<1>1. CASE Seal
  BY <1>1 DEF Seal, Application, handshake, decision, device, running, history
<1>2. CASE Wake
  <2>1. request' = "none" /\ asked' = asked
    BY <1>2 DEF Wake, Store, history
  <2>2. req' = "update" => asked
    BY <1>2 DEF Wake
  <2> QED
    BY <2>1, <2>2
<1>3. CASE WindowCloses
  BY <1>3 DEF WindowCloses, Launch, Store, Application, handshake, decision, device, running,
     history
<1>4. CASE Enter
  BY <1>4 DEF Enter, Stage, Store, Application, handshake, decision, device, running, history
<1>5. CASE ReachLoop
  BY <1>5 DEF ReachLoop, Stage, Store, Application, handshake, decision, device, running, history
<1>6. CASE ReportHealthy
  BY <1>6 DEF ReportHealthy, CanReport, Store, Application, handshake, decision, device,
     running, history
<1>7. CASE ProveImage
  BY <1>7 DEF ProveImage, Application, handshake, decision, device, running, history
<1>8. CASE Die
  BY <1>8 DEF Die, SetRequest, Store, Application, handshake, decision, device, running, history
<1>9. CASE Leave
  BY <1>9 DEF Leave, Application, handshake, decision, device, running, history
<1>10. CASE HostClaims
  BY <1>10 DEF HostClaims, Hold, Application, handshake, decision, device, running, history
<1>11. CASE LaunchByHand
  BY <1>11 DEF LaunchByHand, Application, handshake, decision, device, running, history
<1>12. CASE HostResets
  BY <1>12 DEF HostResets, Application, handshake, decision, device, running, history
<1>13. CASE HostErases
  BY <1>13 DEF HostErases, Application, handshake, decision, device, running, history
<1>14. CASE HostWrites
  BY <1>14 DEF HostWrites, Application, handshake, decision, device, running, history
<1>15. CASE ConsolePers
  BY <1>15 DEF ConsolePers, Application, handshake, decision, device, running, history
<1>16. CASE CmdBoot
  BY <1>16 DEF CmdBoot, SetRequest, Store, Application, handshake, decision, device, running,
     history
<1>17. CASE RestartFromPanel
  BY <1>17 DEF RestartFromPanel, SetRequest, Store, Application, handshake, decision, device,
     running, history
<1>18. CASE Handback
  BY <1>18 DEF Handback, Stage, Store, Application, handshake, decision, device, running, history
<1>19. CASE Attach
  BY <1>19 DEF Attach, Application, handshake, decision, device, running, history
<1>20. CASE Decide
  <2>1. where' # "decide"
    BY <1>20 DEF Decide, Rules, Hold, Launch, Window
  <2>2. UNCHANGED request /\ where = "decide"
    BY <1>20 DEF Decide, handshake
  <2> QED
    BY <2>1, <2>2
<1>21. ASSUME NEW kind \in {"fault", "nmi"}, Fault(kind) PROVE Asking'
  BY <1>21 DEF Fault, Stage, Store, Application
<1>22. CASE RearReset \/ PowerCut
  BY <1>22 DEF RearReset, PowerCut, Interrupt, decision
<1>23. CASE UNCHANGED vars
  BY <1>23 DEF vars, handshake, decision, history
<1> QED
  BY <1>1, <1>2, <1>3, <1>4, <1>5, <1>6, <1>7, <1>8, <1>9, <1>10, <1>11, <1>12, <1>13, <1>14,
     <1>15, <1>16, <1>17, <1>18, <1>19, <1>20, <1>21, <1>22, <1>23 DEF Next, Program

\* The device is held for a request once for each request, and for no reason left over.
THEOREM HeldWhenAsked == Spec => HeldOnlyWhenAsked
<1> DEFINE A == where = "decide" /\ where' = "held" /\ reason' = "update" => asked
<1>1. Init => Asking
  BY DEF Init, Asking
<1>2. Asking /\ [Next]_vars => [A]_vars
  <2> SUFFICES ASSUME Asking, where = "decide", where' = "held", reason' = "update",
                      [Next]_vars
               PROVE  asked
    OBVIOUS
  <2>1. Decide
    BY DEF Next, Program, Seal, Wake, Decide, WindowCloses, Enter, ReachLoop, ReportHealthy,
       CanReport, ProveImage, Die, Leave, HostClaims, LaunchByHand, HostResets, HostErases,
       HostWrites, ConsolePers, CmdBoot, RestartFromPanel, Handback, Fault, Application, Attach,
       RearReset, PowerCut, Interrupt, vars
  <2>2. req = "update"
    BY <2>1 DEF Decide, Rules, Hold, Launch, Window
  <2> QED
    BY <2>2 DEF Asking
<1> QED
  BY <1>1, <1>2, AskingKeeps, PTL DEF Spec, HeldOnlyWhenAsked

-----------------------------------------------------------------------------
(* An image on its way into flash, for any image, any unit, line and batch *)
(* and any number of failures.                                             *)

End(o) == Min({o + Chunk, Size})

Commanded == {"id", "erase", "wr", "flush", "crc", "run"}
Byte == (Blobs \union {Nothing}) \X Nat
Lines == [cmd : Commanded, off : 0..Size, data : Seq(Byte), cut : BOOLEAN]

\* A line of an image, and what else the tool says.
OfImage(l, g) == l.cmd = "wr" /\ l.off < Size /\ l.data = Bytes(g, l.off, End(l.off))
Meant(l) ==
  IF l.cmd = "wr" THEN \E g \in Blobs : OfImage(l, g) ELSE l.off = 0 /\ l.data = <<>>

\* What may come behind a line: behind one cut short only `id'; the lines of an image one
\* behind the other from an erasure on, and `flush' behind the last.
Follows(a, b) ==
  /\ a.cut => b.cmd = "id"
  /\ b.cmd = "wr" =>
       \/ a.cmd = "erase" /\ b.off = 0
       \/ b.off = a.off + Chunk /\ \E g \in Blobs : OfImage(a, g) /\ OfImage(b, g)
  /\ b.cmd = "flush" => a.cmd = "wr" /\ a.off + Chunk >= Size

LinesFollow ==
  /\ out \in Seq(Lines) /\ Len(out) <= MaxAhead
  /\ \A i \in 1..Len(out) : Meant(out[i])
  /\ \A i \in 1..Len(out) : i < Len(out) => Follows(out[i], out[i + 1])
  /\ out # <<>> /\ out[Len(out)].cut => stage = "off"
LineIsCut ==
  line = NoLine \/ (line \in Lines /\ line.cut /\ Meant(line)
                     /\ IF out = <<>> THEN stage = "off" ELSE out[1].cmd = "id")

Stages == {"off", "id", "erase", "write", "flush", "crc", "run"}
ToolTyped ==
  /\ stage \in Stages /\ next \in 0..Size
  /\ stage # "off" => blob \in Blobs
  /\ stage \in {"id", "erase"} => next = 0

\* The line said last is what the tool is at.
LastSaid ==
  out # <<>> =>
    /\ stage \in {"id", "erase", "flush", "crc", "run"} => out[Len(out)].cmd = stage
    /\ stage = "write" /\ next = 0 => out[Len(out)].cmd = "erase"
    /\ stage = "write" /\ next # 0 => OfImage(out[Len(out)], blob) /\ next = End(out[Len(out)].off)

\* No checksum of an earlier run comes in the place of this one's.
NoneOf(cs) == \A i \in 1..Len(out) : out[i].cmd \notin cs
NoSumFrom(k) == \A j \in 1..Len(in) : j >= k => in[j].is # "crc"
IsList(q) == Len(q) \in Nat /\ q = [i \in 1..Len(q) |-> q[i]]
SumsAreOfThisRun ==
  /\ IsList(in)
  /\ \A i, j \in 1..Len(out) : i < j /\ out[i].cmd = "id" => out[j].cmd \notin {"crc", "run"}
  /\ stage = "id" => \A i \in 1..Len(in) : in[i] = Told("id") =>
                       NoSumFrom(i) /\ NoneOf({"crc", "run"})
  /\ stage \in {"erase", "write", "flush"} => NoSumFrom(1) /\ NoneOf({"crc", "run"})
  \* By the time the image is sent, what was asked to begin with has been answered.
  /\ stage = "write" =>
       \A i \in 1..Len(out) : out[i].cmd = "id" => next <= (Len(out) - i) * Chunk
  /\ stage \in {"flush", "crc", "run"} => NoneOf({"id"})
SumIsOfTheFlash ==
  /\ stage = "crc" /\ out # <<>> =>
       NoSumFrom(1) /\ \A i \in 1..Len(out) : out[i].cmd = "crc" => i = Len(out)
  /\ stage = "crc" /\ out = <<>> =>
       \A j \in 1..Len(in) : in[j].is = "crc" => in[j].sum = [u \in 1..Units |-> flash[u - 1]]
  /\ stage = "run" => NoneOf(Commanded \ {"run"})

\* What the device comes to next.
Ahead == IF line # NoLine THEN line ELSE IF out # <<>> THEN Head(out) ELSE NoLine

\* Everything since the last erasure came in order: the stream holds what has not filled a
\* unit, and the units before it their content.
UnitsAre(n, f, s, p, g) ==
  /\ n * Unit <= p /\ p < (n + 1) * Unit
  /\ s = Open(n * Unit, Bytes(g, n * Unit, p))
  /\ \A u \in Region : f[u] = IF u < n THEN Content(g, u) ELSE Erased
InOrder ==
  /\ passed = 0 => flash = Wiped /\ ~stream.open
  /\ passed # 0 => \E n \in 0..Units : UnitsAre(n, flash, stream, passed, owner)
GoesOn ==
  /\ Ahead.cmd = "wr" =>
       Ahead.off = passed /\ \E g \in Blobs : OfImage(Ahead, g) /\ (passed = 0 \/ g = owner)
  /\ Ahead.cmd = "flush" => passed = Size
  /\ out = <<>> /\ stage = "erase" => passed = 0
  /\ out = <<>> /\ stage = "write" => passed = next /\ (passed # 0 => owner = blob)

\* Or something did not, and nothing more comes before another erasure.
Held == \A u \in Region : (u + 1) * Unit <= passed => flash[u] = Content(owner, u)
GoesNoFurther ==
  Ahead.cmd \notin {"wr", "flush"} /\ (out = <<>> => stage \notin {"erase", "write"})

FlashTyped ==
  /\ flash = [u \in Region |-> flash[u]]
  /\ stream = [open |-> stream.open, addr |-> stream.addr, buf |-> stream.buf]
  /\ passed \in 0..Size /\ faults \in Nat
  /\ passed # 0 => owner \in Blobs
FlashFollows ==
  /\ told => spoilt
  /\ told \/ (InOrder /\ GoesOn) \/ (Held /\ GoesNoFurther)

StreamInv ==
  /\ LinesFollow /\ LineIsCut /\ ToolTyped /\ LastSaid /\ SumsAreOfThisRun /\ SumIsOfTheFlash
  /\ FlashTyped /\ FlashFollows /\ LaunchedIsWhole

\* The sizes are numbers.
LEMMA SizesAre ==
  /\ Unit \in Nat \ {0} /\ Units \in Nat \ {0} /\ Chunk \in Nat \ {0} /\ Chunk <= Unit
  /\ Size \in Nat \ {0} /\ Size = Units * Unit
  /\ MaxAhead \in Nat /\ MaxAhead * Chunk < Size
PROOF
<1>1. PICK p \in Nat \ {0}, q \in Nat \ {0}, c \in Nat \ {0}, w \in Nat \ {0} :
        p = Unit /\ q = Units /\ c = Chunk /\ w = MaxAhead /\ c <= p /\ w * c < q * p
  BY SizesAssumption DEF SizesAssumption
<1>2. q * p \in Nat \ {0}
  BY ONLY p \in Nat \ {0}, q \in Nat \ {0}
<1> QED
  BY <1>1, <1>2 DEF Size

\* The end of a line that begins within the image.
LEMMA EndIs ==
  ASSUME NEW o \in Nat
  PROVE  /\ o + Chunk <= Size => End(o) = o + Chunk
         /\ o + Chunk >= Size => End(o) = Size
         /\ End(o) \in 0..Size /\ End(o) <= o + Chunk
         /\ o < Size => o < End(o)
PROOF
<1>1. PICK s \in Nat, c \in Nat \ {0}, e \in Nat : s = Size /\ c = Chunk /\ e = o + c
  BY SizesAre
<1>2. PICK m : m = Min({e, s})
  OBVIOUS
<1>3. m = CHOOSE x \in {e, s} : \A y \in {e, s} : x <= y
  BY <1>2 DEF Min
<1>4. \E x \in {e, s} : \A y \in {e, s} : x <= y
  OBVIOUS
<1>5. m \in {e, s} /\ \A y \in {e, s} : m <= y
  BY <1>3, <1>4
<1>6. End(o) = m
  BY <1>1, <1>2 DEF End
<1>7. (e <= s => m = e) /\ (e >= s => m = s) /\ m \in 0..s /\ m <= e /\ (o < s => o < m)
  BY <1>1, <1>5
<1> QED
  BY <1>1, <1>6, <1>7

\* One multiple of the unit up.
LEMMA UnitsGrow ==
  ASSUME NEW n \in Nat
  PROVE  /\ n * Unit \in Nat /\ (n + 1) * Unit \in Nat /\ (n + 1) * Unit = n * Unit + Unit
         /\ (n + 2) * Unit = n * Unit + Unit + Unit
         /\ ((n + 1) + 1) * Unit = n * Unit + Unit + Unit
PROOF
<1>1. PICK p \in Nat : p = Unit
  BY SizesAre
<1>2. /\ n * p \in Nat /\ (n + 1) * p \in Nat /\ (n + 1) * p = n * p + p
      /\ (n + 2) * p = n * p + p + p /\ ((n + 1) + 1) * p = n * p + p + p
  BY ONLY n \in Nat, p \in Nat
<1> QED
  BY <1>1, <1>2

\* The multiples of the unit are in the order of the numbers.
LEMMA UnitsRise ==
  ASSUME NEW n \in Nat, NEW m \in Nat, n <= m PROVE n * Unit <= m * Unit
PROOF
<1>1. PICK p \in Nat, d \in Nat : p = Unit /\ m = n + d
  <2>1. m - n \in Nat /\ m = n + (m - n)
    OBVIOUS
  <2> QED
    BY <2>1, SizesAre
<1>2. d * p \in Nat /\ n * p \in Nat /\ (n + d) * p = n * p + d * p
  BY ONLY n \in Nat, d \in Nat, p \in Nat
<1>3. n * p <= (n + d) * p
  BY <1>2
<1> QED
  BY <1>1, <1>3

\* An offset within the image is within one of its units.
LEMMA WithinUnits ==
  ASSUME NEW n \in Nat, NEW k \in Nat, n * Unit <= k, k < Size PROVE n \in Region /\ n < Units
PROOF
<1>1. PICK q \in Nat \ {0} : q = Units
  BY SizesAre
<1>2. ASSUME n >= q PROVE FALSE
  <2>1. q * Unit <= n * Unit
    BY <1>1, <1>2, UnitsRise
  <2>2. PICK a \in Nat, b \in Nat : a = q * Unit /\ b = n * Unit /\ a = Size
    BY <1>1, UnitsGrow, SizesAre
  <2> QED
    BY <2>1, <2>2
<1>3. n < q
  BY <1>2
<1> QED
  BY <1>1, <1>3 DEF Region

\* A multiple of the unit begins the unit of that number.
LEMMA UnitBegins ==
  ASSUME NEW n \in Nat PROVE (n * Unit) \div Unit = n /\ (n * Unit) % Unit = 0
PROOF
<1>1. PICK p \in Nat \ {0} : p = Unit
  BY SizesAre
<1>2. (n * p) \div p = n /\ (n * p) % p = 0
  BY ONLY n \in Nat, p \in Nat \ {0}
<1> QED
  BY <1>1, <1>2

\* So many bytes of an image, from an offset on.
AreBytes(s, g, a, n) ==
  s \in Seq(Byte) /\ Len(s) = n /\ (\A i \in 1..n : s[i] = <<g, a + i - 1>>) /\ (n = 0 => s = <<>>)

\* Of an image there are as many bytes as are asked for, from there on.
LEMMA BytesAre ==
  ASSUME NEW g \in Blobs, NEW a \in Nat, NEW b \in Nat, a <= b
  PROVE  AreBytes(Bytes(g, a, b), g, a, b - a)
PROOF
<1>1. PICK n \in Nat : n = b - a
  OBVIOUS
<1>0. PICK s : s = Bytes(g, a, b)
  OBVIOUS
<1>2. s = [i \in 1..n |-> <<g, a + i - 1>>]
  BY <1>0, <1>1 DEF Bytes
<1>3. \A i \in 1..n : s[i] = <<g, a + i - 1>>
  BY <1>2
<1>4. \A i \in 1..n : <<g, a + i - 1>> \in Byte
  BY DEF Byte
<1>5. s \in [1..n -> Byte]
  BY <1>2, <1>4, Zenon
<1>6. s \in Seq(Byte) /\ Len(s) = n
  BY <1>5
<1>7. n = 0 => s = <<>>
  BY <1>6, EmptySeq
<1> QED
  BY <1>0, <1>1, <1>3, <1>6, <1>7 DEF AreBytes

\* Those up to an offset, and those from there on.
LEMMA BytesJoin ==
  ASSUME NEW g \in Blobs, NEW a \in Nat, NEW b \in Nat, NEW c \in Nat, a <= b, b <= c
  PROVE  Bytes(g, a, b) \o Bytes(g, b, c) = Bytes(g, a, c)
PROOF
<1>1. PICK n \in Nat, m \in Nat : n = b - a /\ m = c - b /\ n + m = c - a
  OBVIOUS
<1>2. PICK s, t, u : s = Bytes(g, a, b) /\ t = Bytes(g, b, c) /\ u = Bytes(g, a, c)
  OBVIOUS
<1>3. a <= c
  OBVIOUS
<1>4. s \in Seq(Byte) /\ Len(s) = n /\ \A i \in 1..n : s[i] = <<g, a + i - 1>>
  <2>1. AreBytes(Bytes(g, a, b), g, a, b - a)
    BY BytesAre
  <2> QED
    BY <1>1, <1>2, <2>1 DEF AreBytes
<1>5. t \in Seq(Byte) /\ Len(t) = m /\ \A i \in 1..m : t[i] = <<g, b + i - 1>>
  <2>1. AreBytes(Bytes(g, b, c), g, b, c - b)
    BY BytesAre
  <2> QED
    BY <1>1, <1>2, <2>1 DEF AreBytes
<1>6. u \in Seq(Byte) /\ Len(u) = n + m /\ \A i \in 1..(n + m) : u[i] = <<g, a + i - 1>>
  <2>1. AreBytes(Bytes(g, a, c), g, a, c - a)
    BY <1>3, BytesAre
  <2> QED
    BY <1>1, <1>2, <2>1 DEF AreBytes
<1>7. PICK v : v = s \o t
  OBVIOUS
<1>8. /\ v \in Seq(Byte) /\ Len(v) = n + m
      /\ \A i \in 1..n : v[i] = s[i]
      /\ \A i \in 1..m : v[n + i] = t[i]
  <2>1. s \in Seq(Byte) /\ t \in Seq(Byte) /\ Len(s) = n /\ Len(t) = m
    BY <1>4, <1>5
  <2>2. v \in Seq(Byte) /\ Len(v) = Len(s) + Len(t)
    BY <1>7, <2>1, ConcatProperties
  <2>3. ASSUME NEW i \in 1..n PROVE v[i] = s[i]
    BY <1>7, <2>1, ConcatProperties
  <2>4. ASSUME NEW i \in 1..m PROVE v[n + i] = t[i]
    <3>1. i \in 1..Len(t)
      BY <2>1
    <3>2. v[Len(s) + i] = t[i]
      BY <1>7, <2>1, <3>1, ConcatProperties
    <3> QED
      BY <2>1, <3>2
  <2> QED
    BY <2>1, <2>2, <2>3, <2>4
<1>9. ASSUME NEW i \in 1..(n + m) PROVE v[i] = u[i]
  <2>1. CASE i \in 1..n
    BY <1>4, <1>6, <1>8, <2>1
  <2>2. CASE i \notin 1..n
    <3>1. PICK j \in 1..m : i = n + j /\ b + j - 1 = a + i - 1
      <4>1. i - n \in 1..m /\ i = n + (i - n) /\ b + (i - n) - 1 = a + i - 1
        BY <1>1, <2>2
      <4> QED
        BY <4>1
    <3>2. v[i] = t[j] /\ t[j] = <<g, b + j - 1>> /\ u[i] = <<g, a + i - 1>>
      BY <1>5, <1>6, <1>8, <3>1
    <3> QED
      BY <3>1, <3>2
  <2> QED
    BY <2>1, <2>2
<1>10. v = u
  BY ONLY <1>6, <1>8, <1>9, n \in Nat, m \in Nat, SeqEqual
<1> QED
  BY <1>2, <1>7, <1>10

\* And either of them taken out of the whole.
LEMMA BytesPart ==
  ASSUME NEW g \in Blobs, NEW a \in Nat, NEW b \in Nat, NEW c \in Nat, a <= b, b <= c
  PROVE  /\ SubSeq(Bytes(g, a, c), 1, b - a) = Bytes(g, a, b)
         /\ SubSeq(Bytes(g, a, c), b - a + 1, c - a) = Bytes(g, b, c)
PROOF
<1>1. PICK n \in Nat, m \in Nat : n = b - a /\ m = c - b /\ n + m = c - a
  OBVIOUS
<1>2. PICK s, t, u : s = Bytes(g, a, b) /\ t = Bytes(g, b, c) /\ u = Bytes(g, a, c)
  OBVIOUS
<1>3. a <= c
  OBVIOUS
<1>4. s \in Seq(Byte) /\ Len(s) = n /\ \A i \in 1..n : s[i] = <<g, a + i - 1>>
  <2>1. AreBytes(Bytes(g, a, b), g, a, b - a)
    BY BytesAre
  <2> QED
    BY <1>1, <1>2, <2>1 DEF AreBytes
<1>5. t \in Seq(Byte) /\ Len(t) = m /\ \A i \in 1..m : t[i] = <<g, b + i - 1>>
  <2>1. AreBytes(Bytes(g, b, c), g, b, c - b)
    BY BytesAre
  <2> QED
    BY <1>1, <1>2, <2>1 DEF AreBytes
<1>6. u \in Seq(Byte) /\ Len(u) = n + m /\ \A i \in 1..(n + m) : u[i] = <<g, a + i - 1>>
  <2>1. AreBytes(Bytes(g, a, c), g, a, c - a)
    BY <1>3, BytesAre
  <2> QED
    BY <1>1, <1>2, <2>1 DEF AreBytes
<1>7. PICK x, y : x = SubSeq(u, 1, n) /\ y = SubSeq(u, n + 1, n + m)
  OBVIOUS
<1>8. /\ x \in Seq(Byte) /\ Len(x) = n /\ \A i \in 1..n : x[i] = u[i]
  <2>1. \A i \in 1..n : i \in 1..(n + m)
    OBVIOUS
  <2> QED
    BY <1>6, <1>7, <2>1
<1>9. /\ y \in Seq(Byte) /\ Len(y) = m /\ \A i \in 1..m : y[i] = u[n + i]
  <2>1. \A i \in 1..m : n + i \in 1..(n + m)
    OBVIOUS
  <2>2. u \in Seq(Byte) /\ Len(u) = n + m
    BY <1>6
  <2>3. y \in Seq(Byte) /\ Len(y) = m
    BY ONLY <1>7, <2>1, <2>2, n \in Nat, m \in Nat
  <2>4. \A i \in 1..m : y[i] = u[n + i]
    BY ONLY <1>7, <2>1, <2>2, n \in Nat, m \in Nat
  <2> QED
    BY <2>3, <2>4
<1>10. x = s
  <2>1. ASSUME NEW i \in 1..n PROVE x[i] = s[i]
    <3>1. i \in 1..(n + m)
      OBVIOUS
    <3> QED
      BY <1>4, <1>6, <1>8, <3>1
  <2> QED
    BY ONLY <1>4, <1>8, <2>1, n \in Nat, SeqEqual
<1>11. y = t
  <2>1. ASSUME NEW i \in 1..m PROVE y[i] = t[i]
    <3>1. n + i \in 1..(n + m) /\ a + (n + i) - 1 = b + i - 1
      BY <1>1
    <3> QED
      BY <1>5, <1>6, <1>9, <3>1
  <2> QED
    BY ONLY <1>5, <1>9, <2>1, m \in Nat, SeqEqual
<1>12. b - a + 1 = n + 1
  BY <1>1
<1> QED
  BY <1>1, <1>2, <1>7, <1>10, <1>11, <1>12

\* A unit programmed changes that unit only.
LEMMA WriteUnitIs ==
  ASSUME NEW f, f = [u \in Region |-> f[u]], NEW n \in Nat, NEW k, NEW d, NEW w \in WriteUnit(f, n, k, d)
  PROVE  /\ w.flash = [u \in Region |-> w.flash[u]]
         /\ w.faults = n \/ w.faults = n + 1
         /\ \A u \in Region : u # k \div Unit => w.flash[u] = f[u]
PROOF
<1>1. PICK m : m = k \div Unit
  OBVIOUS
<1>2. \/ w.flash = f /\ w.faults = n
      \/ \E c : w.flash = [f EXCEPT ![m] = c] /\ (w.faults = n \/ w.faults = n + 1)
  <2>1. CASE k % Unit # 0 \/ m \notin Region
    BY <1>1, <2>1 DEF WriteUnit
  <2>2. CASE ~(k % Unit # 0 \/ m \notin Region) /\ f[m] # Erased
    <3>1. w = [flash |-> [f EXCEPT ![m] = Torn], ok |-> FALSE, faults |-> n]
      BY <1>1, <2>2 DEF WriteUnit
    <3>2. w.flash = [f EXCEPT ![m] = Torn] /\ w.faults = n
      BY <3>1
    <3> QED
      BY <3>2, Zenon
  <2>3. CASE ~(k % Unit # 0 \/ m \notin Region) /\ f[m] = Erased
    <3>1. w \in {[flash |-> [f EXCEPT ![m] = d], ok |-> TRUE, faults |-> n]} \union
                {[flash |-> [f EXCEPT ![m] = c], ok |-> FALSE, faults |-> n + 1] :
                   c \in IF n < MaxFaults THEN {Erased, Torn} ELSE {}}
      BY <1>1, <2>3 DEF WriteUnit
    <3>2. CASE w = [flash |-> [f EXCEPT ![m] = d], ok |-> TRUE, faults |-> n]
      <4>1. w.flash = [f EXCEPT ![m] = d] /\ w.faults = n
        BY <3>2
      <4> QED
        BY <4>1, Zenon
    <3>3. CASE w # [flash |-> [f EXCEPT ![m] = d], ok |-> TRUE, faults |-> n]
      <4>1. PICK c \in {Erased, Torn} : w = [flash |-> [f EXCEPT ![m] = c], ok |-> FALSE, faults |-> n + 1]
        BY <3>1, <3>3
      <4>2. w.flash = [f EXCEPT ![m] = c] /\ w.faults = n + 1
        BY <4>1
      <4> QED
        BY <4>2, Zenon
    <3> QED
      BY <3>2, <3>3
  <2> QED
    BY <2>1, <2>2, <2>3
<1>3. CASE w.flash = f /\ w.faults = n
  BY <1>3
<1>4. ASSUME NEW c, w.flash = [f EXCEPT ![m] = c], w.faults = n \/ w.faults = n + 1
      PROVE  /\ w.flash = [u \in Region |-> w.flash[u]]
             /\ \A u \in Region : u # m => w.flash[u] = f[u]
  <2>1. DOMAIN f = Region
    BY Zenon
  <2>2. w.flash = [u \in Region |-> IF u = m THEN c ELSE f[u]]
    BY <1>4, <2>1
  <2> QED
    BY <2>2
<1> QED
  BY <1>1, <1>2, <1>3, <1>4

\* An erased one takes what it is given, or there is an error.
LEMMA ErasedTakes ==
  ASSUME NEW f, f = [u \in Region |-> f[u]], NEW n \in Nat, NEW m \in Region, NEW k, k = m * Unit,
         f[m] = Erased, NEW d, NEW w \in WriteUnit(f, n, k, d)
  PROVE  \/ w.ok /\ w.faults = n /\ w.flash = [u \in Region |-> IF u = m THEN d ELSE f[u]]
         \/ ~w.ok /\ w.faults = n + 1
PROOF
<1>0. m \in Nat
  BY SizesAre DEF Region
<1>1. k \div Unit = m /\ k % Unit = 0
  BY <1>0, UnitBegins
<1>2. w \in {[flash |-> [f EXCEPT ![m] = d], ok |-> TRUE, faults |-> n]} \union
            {[flash |-> [f EXCEPT ![m] = c], ok |-> FALSE, faults |-> n + 1] :
               c \in IF n < MaxFaults THEN {Erased, Torn} ELSE {}}
  BY <1>1 DEF WriteUnit
<1>3. [f EXCEPT ![m] = d] = [u \in Region |-> IF u = m THEN d ELSE f[u]]
  <2>1. DOMAIN f = Region
    BY Zenon
  <2> QED
    BY <2>1
<1> QED
  BY <1>2, <1>3

\* What is left of a line of an image cut short, with what it runs into.
Shortened(l, c) ==
  /\ c.cmd = "wr" /\ l.cmd = "wr" /\ l.off \in 0..c.off
  /\ l.data \in Seq(Byte) /\ Len(l.data) <= Chunk /\ (l.data = <<>> \/ l.off = c.off)

\* Nothing else comes of it.
LEMMA JoinedIs ==
  ASSUME NEW c \in Lines, Meant(c), NEW l \in Joined(c)
  PROVE  l = Say("?") \/ Shortened(l, c)
PROOF
<1>1. CASE l = Say("?")
  BY <1>1
<1>2. CASE l # Say("?")
  <2>0. PICK o \in Nat, d \in Seq(Byte) : o = c.off /\ d = c.data
    BY DEF Lines
  <2>1. c.cmd = "wr"
    BY <1>2 DEF Joined
  <2>2. Len(d) <= Chunk
    <3>1. PICK g \in Blobs : OfImage(c, g)
      BY <2>1 DEF Meant
    <3>2. PICK e \in Nat : e = End(o) /\ o <= e /\ e <= o + Chunk
      BY <2>0, <3>1, EndIs DEF OfImage
    <3>3. AreBytes(Bytes(g, o, e), g, o, e - o) /\ d = Bytes(g, o, e)
      BY <2>0, <3>1, <3>2, BytesAre DEF OfImage
    <3>4. Len(d) = e - o
      BY <3>3 DEF AreBytes
    <3> QED
      BY <3>2, <3>4, SizesAre
  <2>3. \/ \E x \in 0..o : l = Line("wr", x, <<>>)
        \/ \E n \in 1..Len(d) : l = Line("wr", o, SubSeq(d, 1, n))
        \/ \E n \in 1..Len(d) : l = Line("wr", o, Append(SubSeq(d, 1, n - 1), Junk))
    BY <1>2, <2>0, <2>1 DEF Joined
  <2>4. CASE \E x \in 0..o : l = Line("wr", x, <<>>)
    <3>1. PICK x \in 0..o : l = Line("wr", x, <<>>)
      BY <2>4
    <3>2. <<>> \in Seq(Byte) /\ Len(<<>>) = 0
      BY EmptySeq
    <3> QED
      BY <2>0, <2>1, <3>1, <3>2, SizesAre DEF Line, Shortened
  <2>5. CASE \E n \in 1..Len(d) : l = Line("wr", o, SubSeq(d, 1, n))
    <3>1. PICK n \in 1..Len(d) : l = Line("wr", o, SubSeq(d, 1, n))
      BY <2>5
    <3>2. PICK s : s = SubSeq(d, 1, n) /\ s \in Seq(Byte) /\ Len(s) = n /\ n <= Len(d)
      <4>1. PICK k \in Nat : k = Len(d)
        BY LenProperties
      <4>2. n \in 0..k /\ n <= k /\ \A i \in 1..n : i \in 1..k
        BY <4>1
      <4>3. SubSeq(d, 1, n) \in Seq(Byte) /\ Len(SubSeq(d, 1, n)) = n
        BY <4>1, <4>2
      <4> QED
        BY <4>1, <4>2, <4>3
    <3>3. Len(s) <= Chunk
      <4>1. Len(d) \in Nat /\ Chunk \in Nat /\ n \in Nat
        BY LenProperties, SizesAre
      <4> QED
        BY <2>2, <3>2, <4>1
    <3> QED
      BY <2>0, <2>1, <3>1, <3>2, <3>3 DEF Line, Shortened
  <2>6. CASE \E n \in 1..Len(d) : l = Line("wr", o, Append(SubSeq(d, 1, n - 1), Junk))
    <3>1. PICK n \in 1..Len(d) : l = Line("wr", o, Append(SubSeq(d, 1, n - 1), Junk))
      BY <2>6
    <3>2. PICK s : s = SubSeq(d, 1, n - 1) /\ s \in Seq(Byte) /\ Len(s) = n - 1 /\ n <= Len(d)
      <4>1. PICK k \in Nat, m \in Nat : k = Len(d) /\ m = n - 1
        BY LenProperties
      <4>2. m \in 0..k /\ n <= k /\ \A i \in 1..m : i \in 1..k
        BY <4>1
      <4>3. SubSeq(d, 1, m) \in Seq(Byte) /\ Len(SubSeq(d, 1, m)) = m
        BY <4>1, <4>2
      <4> QED
        BY <4>1, <4>2, <4>3
    <3>3. Junk \in Byte
      BY DEF Junk, Byte
    <3>4. PICK t : t = Append(s, Junk) /\ t \in Seq(Byte) /\ Len(t) = Len(s) + 1
      BY <3>2, <3>3, AppendProperties
    <3>5. Len(t) <= Chunk
      <4>1. Len(d) \in Nat /\ Chunk \in Nat /\ n \in Nat
        BY LenProperties, SizesAre
      <4> QED
        BY <2>2, <3>2, <3>4, <4>1
    <3> QED
      BY <2>0, <2>1, <3>1, <3>2, <3>4, <3>5 DEF Line, Shortened
  <2> QED
    BY <2>3, <2>4, <2>5, <2>6
<1> QED
  BY <1>1, <1>2

\* A line is collected, or it is the one before `id' with that.
LEMMA CommandIs ==
  ASSUME LinesFollow, LineIsCut, NEW l \in Commands
  PROVE  /\ out # <<>> /\ ~Head(out).cut
         /\ \/ line = NoLine /\ l = Head(out)
            \/ /\ line # NoLine /\ line \in Lines /\ Meant(line) /\ Head(out).cmd = "id"
               /\ l = Say("?") \/ Shortened(l, line)
PROOF
<1>1. out # <<>> /\ ~Head(out).cut /\ l \in IF line = NoLine THEN {Head(out)} ELSE Joined(line)
  BY DEF Commands
<1>2. CASE line = NoLine
  BY <1>1, <1>2
<1>3. CASE line # NoLine
  <2>1. line \in Lines /\ Meant(line) /\ out[1].cmd = "id"
    BY <1>1, <1>3 DEF LineIsCut
  <2>2. Head(out) = out[1]
    BY <1>1, HeadTailProperties DEF LinesFollow
  <2>3. l \in Joined(line)
    BY <1>1, <1>3
  <2> QED
    BY <1>1, <1>3, <2>1, <2>2, <2>3, JoinedIs
<1> QED
  BY <1>2, <1>3

\* Where the next byte in order goes: into the unit n, of which the stream holds so much.
InPlace(s, n, b) ==
  /\ n \in Region /\ n * Unit <= passed /\ passed < (n + 1) * Unit
  /\ s.flash = flash /\ s.faults = faults /\ s.stream = Open(n * Unit, b)
  /\ b \in Seq(Byte) /\ Len(b) = passed - n * Unit
  /\ \A g \in Blobs : passed = 0 \/ g = owner => b = Bytes(g, n * Unit, passed)
  /\ \A u \in Region : flash[u] = IF u < n THEN Content(owner, u) ELSE Erased

\* A line in its place finds the stream open there, or opens it.
LEMMA FollowsOn ==
  ASSUME FlashTyped, InOrder, passed < Size, NEW l, l.off = passed, NEW s \in FollowOn(l)
  PROVE  \E n \in Nat : \E b : InPlace(s, n, b)
PROOF
<1>0. PICK p \in Nat : p = passed
  BY DEF FlashTyped
<1>1. CASE passed = 0
  <2>1. flash = Wiped /\ ~stream.open
    BY <1>1 DEF InOrder
  <2>2. s = [flash |-> flash, stream |-> Open(0, <<>>), faults |-> faults]
    <3>1. s \in {[flash |-> w.flash, stream |-> Open(l.off, <<>>), faults |-> w.faults] :
                   w \in {[flash |-> flash, ok |-> TRUE, faults |-> faults]}}
      BY <2>1 DEF FollowOn
    <3> QED
      BY <1>1, <3>1
  <2>3. 0 * Unit = 0 /\ (0 + 1) * Unit = Unit /\ 0 \in Region /\ 0 < Unit
    BY SizesAre DEF Region
  <2>4. \A g \in Blobs : <<>> = Bytes(g, 0, 0)
    <3> SUFFICES ASSUME NEW g \in Blobs PROVE <<>> = Bytes(g, 0, 0)
      OBVIOUS
    <3>1. AreBytes(Bytes(g, 0, 0), g, 0, 0 - 0)
      BY BytesAre
    <3> QED
      BY <3>1 DEF AreBytes
  <2>5. \A u \in Region : flash[u] = Erased /\ ~(u < 0)
    BY <2>1 DEF Wiped, Region
  <2>6. <<>> \in Seq(Byte) /\ Len(<<>>) = 0
    BY EmptySeq
  <2>7. InPlace(s, 0, <<>>)
    BY <1>1, <2>2, <2>3, <2>4, <2>5, <2>6 DEF InPlace
  <2> QED
    BY <2>7
<1>2. CASE passed # 0
  <2>1. PICK n \in 0..Units : UnitsAre(n, flash, stream, passed, owner)
    BY <1>2 DEF InOrder
  <2>2. n \in Nat /\ owner \in Blobs
    BY <1>2, SizesAre DEF FlashTyped
  <2>3. PICK a \in Nat, z \in Nat : a = n * Unit /\ z = (n + 1) * Unit /\ a <= p /\ p < z
    BY <1>0, <2>1, <2>2, UnitsGrow DEF UnitsAre
  <2>4. PICK b : b = Bytes(owner, a, p)
    OBVIOUS
  <2>5. AreBytes(b, owner, a, p - a)
    BY <2>2, <2>3, <2>4, BytesAre
  <2>6. stream = Open(a, b) /\ \A u \in Region : flash[u] = IF u < n THEN Content(owner, u) ELSE Erased
    BY <1>0, <2>1, <2>3, <2>4 DEF UnitsAre
  <2>7. stream.open /\ stream.addr + Len(stream.buf) = p
    BY <2>3, <2>5, <2>6 DEF Open, AreBytes
  <2>8. s = [flash |-> flash, stream |-> stream, faults |-> faults]
    BY <1>0, <2>7 DEF FollowOn
  <2>9. n \in Region
    BY <1>0, <2>2, <2>3, WithinUnits
  <2>10. \A g \in Blobs : passed = 0 \/ g = owner => b = Bytes(g, a, p)
    BY <1>2, <2>4
  <2>11. InPlace(s, n, b)
    BY <1>0, <2>3, <2>5, <2>6, <2>8, <2>9, <2>10 DEF InPlace, AreBytes
  <2> QED
    BY <2>2, <2>11
<1> QED
  BY <1>1, <1>2

\* The bytes of a line there: collected, or the unit is filled, or there is an error.
TakenAs(t, n, x) ==
  /\ \A u \in Region : (u + 1) * Unit <= passed => t.flash[u] = flash[u]
  /\ t.faults \in Nat /\ t.flash = [u \in Region |-> t.flash[u]]
  /\ \/ /\ Len(x) < Unit /\ t.ok /\ t.flash = flash /\ t.faults = faults
        /\ t.stream = Open(n * Unit, x)
     \/ /\ Len(x) >= Unit /\ t.ok /\ t.faults = faults
        /\ t.flash = [u \in Region |-> IF u = n THEN SubSeq(x, 1, Unit) ELSE flash[u]]
        /\ t.stream = Open((n + 1) * Unit, SubSeq(x, Unit + 1, Len(x)))
     \/ ~t.ok /\ t.faults = faults + 1 /\ t.stream = Closed

\* That is what becomes of them.
LEMMA TakesIn ==
  ASSUME FlashTyped, NEW s, NEW n \in Nat, NEW b, InPlace(s, n, b),
         NEW d \in Seq(Byte), Len(d) <= Chunk, NEW t \in Take(s, d)
  PROVE  TakenAs(t, n, b \o d)
PROOF
<1>1. PICK p \in Nat, m \in Nat, a \in Nat, k \in Nat \ {0} :
        p = passed /\ m = faults /\ a = n * Unit /\ k = Unit /\ (n + 1) * Unit = a + k
  <2>1. PICK p \in Nat, m \in Nat : p = passed /\ m = faults
    BY DEF FlashTyped
  <2>2. PICK a \in Nat : a = n * Unit /\ (n + 1) * Unit = a + Unit
    BY UnitsGrow
  <2>3. PICK k \in Nat \ {0} : k = Unit
    BY SizesAre
  <2> QED
    BY <2>1, <2>2, <2>3
<1>0. PICK x : x = b \o d
  OBVIOUS
<1>2. /\ n \in Region /\ s.flash = flash /\ s.faults = m /\ s.stream = Open(a, b) /\ b \in Seq(Byte)
      /\ flash[n] = Erased /\ p < a + k
  <2>1. ~(n < n)
    OBVIOUS
  <2> QED
    BY <1>1, <2>1 DEF InPlace
<1>3. s.stream.buf = b /\ s.stream.addr = a /\ [s.stream EXCEPT !.buf = x] = Open(a, x)
  <2>1. s.stream = [open |-> TRUE, addr |-> a, buf |-> b]
    BY <1>2 DEF Open
  <2>2. /\ [open |-> TRUE, addr |-> a, buf |-> b].buf = b
        /\ [open |-> TRUE, addr |-> a, buf |-> b].addr = a
    OBVIOUS
  <2>3. [[open |-> TRUE, addr |-> a, buf |-> b] EXCEPT !.buf = x] = [open |-> TRUE, addr |-> a, buf |-> x]
    <3>1. \A o : [[open |-> o, addr |-> a, buf |-> b] EXCEPT !.buf = x] = [open |-> o, addr |-> a, buf |-> x]
      OBVIOUS
    <3> QED
      BY ONLY <3>1, Zenon
  <2> QED
    BY <2>1, <2>2, <2>3 DEF Open
<1>4. x \in Seq(Byte)
  BY <1>0, <1>2, ConcatProperties
<1>5. PICK y \in Nat : y = Len(x)
  BY <1>4, LenProperties
<1>6. CASE y < k
  <2>1. t = [flash |-> flash, stream |-> Open(a, x), ok |-> TRUE, faults |-> m]
    BY <1>0, <1>1, <1>2, <1>3, <1>5, <1>6 DEF Take
  <2>2. t.ok /\ t.flash = flash /\ t.faults = m /\ t.stream = Open(a, x)
    BY <2>1
  <2>3. t.flash = [u \in Region |-> t.flash[u]]
    BY <2>2 DEF FlashTyped
  <2> QED
    BY <1>0, <1>1, <1>2, <1>5, <1>6, <2>2, <2>3 DEF TakenAs
<1>7. CASE y >= k
  <2>1. PICK z : z = SubSeq(x, 1, k)
    OBVIOUS
  <2>2. PICK w \in WriteUnit(flash, m, a, z) :
          t = [flash |-> w.flash, ok |-> w.ok, faults |-> w.faults,
               stream |-> IF w.ok THEN Open(a + k, SubSeq(x, k + 1, y)) ELSE Closed]
    <3>1. ~(Len(x) < Unit)
      BY <1>1, <1>5, <1>7
    <3>2. t \in {[flash |-> w.flash, ok |-> w.ok, faults |-> w.faults,
                  stream |-> IF w.ok THEN Open(s.stream.addr + Unit, SubSeq(x, Unit + 1, Len(x)))
                             ELSE Closed] :
                   w \in WriteUnit(s.flash, s.faults, s.stream.addr, SubSeq(x, 1, Unit))}
      BY <1>0, <1>3, <3>1 DEF Take
    <3> QED
      BY <1>1, <1>2, <1>3, <1>5, <2>1, <3>2
  <2>3. t.flash = w.flash /\ t.faults = w.faults /\ (t.ok <=> w.ok)
    BY <2>2
  <2>4. flash = [u \in Region |-> flash[u]]
    BY DEF FlashTyped
  <2>5. /\ w.flash = [u \in Region |-> w.flash[u]]
        /\ w.faults = m \/ w.faults = m + 1
        /\ \A u \in Region : u # n => w.flash[u] = flash[u]
    <3>1. a \div Unit = n
      BY <1>1, UnitBegins
    <3>2. w \in WriteUnit(flash, m, a, z)
      OBVIOUS
    <3>3. /\ w.flash = [u \in Region |-> w.flash[u]]
          /\ w.faults = m \/ w.faults = m + 1
          /\ \A u \in Region : u # a \div Unit => w.flash[u] = flash[u]
      BY <2>4, <3>2, WriteUnitIs
    <3> QED
      BY <3>1, <3>3
  <2>6. \/ w.ok /\ w.faults = m /\ w.flash = [u \in Region |-> IF u = n THEN z ELSE flash[u]]
        \/ ~w.ok /\ w.faults = m + 1
    <3>1. a = n * Unit /\ n \in Region /\ flash[n] = Erased
      BY <1>1, <1>2
    <3>2. w \in WriteUnit(flash, m, a, z)
      OBVIOUS
    <3> QED
      BY <2>4, <3>1, <3>2, ErasedTakes
  <2>7. ASSUME NEW u \in Region, (u + 1) * Unit <= passed PROVE u # n
    BY <1>1, <1>2, <2>7
  <2>8. w.ok => t.stream = Open(a + k, SubSeq(x, k + 1, y))
    BY <2>2
  <2>9. ~w.ok => t.stream = Closed
    BY <2>2
  <2>10. t.faults \in Nat /\ t.flash = [u \in Region |-> t.flash[u]]
    BY <2>3, <2>5
  <2>11. \A u \in Region : (u + 1) * Unit <= passed => t.flash[u] = flash[u]
    BY <2>3, <2>5, <2>7
  <2> QED
    BY <1>0, <1>1, <1>5, <1>7, <2>1, <2>3, <2>6, <2>8, <2>9, <2>10, <2>11 DEF TakenAs
<1> QED
  BY <1>5, <1>6, <1>7

\* A line of the image in its place goes on where the last one ended.
LEMMA TakesOn ==
  ASSUME FlashTyped, passed < Size, NEW s, NEW n \in Nat, NEW b, InPlace(s, n, b),
         NEW g \in Blobs, passed = 0 \/ g = owner, NEW e, e = End(passed),
         NEW d, d = Bytes(g, passed, e), NEW t \in Take(s, d), t.ok
  PROVE  /\ e \in 1..Size /\ Len(d) = e - passed /\ d[1] = <<g, passed>>
         /\ \E m \in 0..Units : UnitsAre(m, t.flash, t.stream, e, g)
PROOF
<1>1. PICK p \in Nat, a \in Nat, k \in Nat \ {0}, q \in Nat \ {0}, c \in Nat \ {0} :
        /\ p = passed /\ a = n * Unit /\ k = Unit /\ (n + 1) * Unit = a + k /\ q = Units /\ c = Chunk
        /\ ((n + 1) + 1) * Unit = a + k + k /\ c <= k
  BY UnitsGrow, SizesAre DEF FlashTyped
<1>2. PICK f \in Nat : f = e /\ f \in 1..Size /\ p < f /\ f <= p + c
  BY <1>1, EndIs
<1>3. AreBytes(d, g, p, f - p)
  BY <1>1, <1>2, BytesAre
<1>4. d \in Seq(Byte) /\ Len(d) = f - p /\ Len(d) <= Chunk /\ d[1] = <<g, p>>
  <2>1. 1 \in 1..(f - p) /\ p + 1 - 1 = p
    BY <1>2
  <2>2. d \in Seq(Byte) /\ Len(d) = f - p /\ d[1] = <<g, p + 1 - 1>>
    BY <1>3, <2>1 DEF AreBytes
  <2> QED
    BY <1>1, <1>2, <2>1, <2>2
<1>5. PICK x : x = b \o d
  OBVIOUS
<1>6. /\ n \in Region /\ a <= p /\ p < a + k /\ b = Bytes(g, a, p)
      /\ \A u \in Region : flash[u] = IF u < n THEN Content(owner, u) ELSE Erased
  BY <1>1 DEF InPlace
<1>7. x = Bytes(g, a, f)
  <2>1. Bytes(g, a, p) \o Bytes(g, p, f) = Bytes(g, a, f)
    <3>1. a <= p /\ p <= f
      BY <1>2, <1>6
    <3> QED
      BY <3>1, BytesJoin
  <2>2. d = Bytes(g, p, f)
    BY <1>1, <1>2
  <2> QED
    BY <1>5, <1>6, <2>1, <2>2
<1>8. AreBytes(x, g, a, f - a)
  <2>1. a <= f
    BY <1>2, <1>6
  <2> QED
    BY <1>7, <2>1, BytesAre
<1>9. Len(x) = f - a
  BY <1>8 DEF AreBytes
<1>10. \A u \in Region : u < n => Content(owner, u) = Content(g, u)
  <2> SUFFICES ASSUME NEW u \in Region, u < n PROVE g = owner
    OBVIOUS
  <2>1. u \in Nat /\ n # 0
    BY DEF Region
  <2>2. 1 * Unit <= n * Unit
    BY <2>1, UnitsRise
  <2>3. p # 0
    BY <1>1, <1>6, <2>2
  <2> QED
    BY <1>1, <2>3
<1>11. \/ Len(x) < k /\ t.flash = flash /\ t.stream = Open(a, x)
       \/ /\ Len(x) >= k
          /\ t.flash = [u \in Region |-> IF u = n THEN SubSeq(x, 1, k) ELSE flash[u]]
          /\ t.stream = Open(a + k, SubSeq(x, k + 1, Len(x)))
  <2>1. \/ /\ Len(x) < Unit /\ t.ok /\ t.flash = flash /\ t.faults = faults
           /\ t.stream = Open(n * Unit, x)
        \/ /\ Len(x) >= Unit /\ t.ok /\ t.faults = faults
           /\ t.flash = [u \in Region |-> IF u = n THEN SubSeq(x, 1, Unit) ELSE flash[u]]
           /\ t.stream = Open((n + 1) * Unit, SubSeq(x, Unit + 1, Len(x)))
        \/ ~t.ok /\ t.faults = faults + 1 /\ t.stream = Closed
    <3>1. TakenAs(t, n, b \o d)
      BY <1>4, TakesIn
    <3> QED
      BY <1>5, <3>1 DEF TakenAs
  <2> QED
    BY <1>1, <2>1
<1>12. n \in 0..Units /\ n + 1 \in 0..Units
  BY <1>1, <1>6 DEF Region
<1>13. CASE Len(x) < k /\ t.flash = flash /\ t.stream = Open(a, x)
  <2>1. a <= f /\ f < a + k
    BY <1>2, <1>6, <1>9, <1>13
  <2>2. \A u \in Region : t.flash[u] = IF u < n THEN Content(g, u) ELSE Erased
    BY <1>6, <1>10, <1>13
  <2>3. UnitsAre(n, t.flash, t.stream, f, g)
    BY <1>1, <1>7, <1>13, <2>1, <2>2 DEF UnitsAre
  <2> QED
    BY <1>1, <1>2, <1>4, <1>12, <2>3
<1>14. CASE /\ Len(x) >= k
            /\ t.flash = [u \in Region |-> IF u = n THEN SubSeq(x, 1, k) ELSE flash[u]]
            /\ t.stream = Open(a + k, SubSeq(x, k + 1, Len(x)))
  <2>1. a + k \in Nat /\ a <= a + k /\ a + k <= f /\ f < a + k + k /\ (a + k) - a = k
    BY <1>1, <1>2, <1>6, <1>9, <1>14
  <2>2. SubSeq(Bytes(g, a, f), 1, (a + k) - a) = Bytes(g, a, a + k)
    BY <2>1, BytesPart
  <2>3. SubSeq(Bytes(g, a, f), (a + k) - a + 1, f - a) = Bytes(g, a + k, f)
    BY <2>1, BytesPart
  <2>4. SubSeq(x, 1, k) = Content(g, n) /\ SubSeq(x, k + 1, Len(x)) = Bytes(g, a + k, f)
    BY <1>1, <1>7, <1>9, <2>1, <2>2, <2>3 DEF Content
  <2>5. \A u \in Region : t.flash[u] = IF u < n + 1 THEN Content(g, u) ELSE Erased
    <3> SUFFICES ASSUME NEW u \in Region PROVE t.flash[u] = IF u < n + 1 THEN Content(g, u) ELSE Erased
      OBVIOUS
    <3>1. u \in Nat /\ (u < n + 1 <=> u < n \/ u = n) /\ (u = n => ~(u < n))
      BY DEF Region
    <3> QED
      BY <1>6, <1>10, <1>14, <2>4, <3>1
  <2>6. UnitsAre(n + 1, t.flash, t.stream, f, g)
    BY <1>1, <1>14, <2>1, <2>4, <2>5 DEF UnitsAre
  <2> QED
    BY <1>1, <1>2, <1>4, <1>12, <2>6
<1> QED
  BY <1>11, <1>13, <1>14

\* What is left of a line does no harm to what was passed, and no unit fails for it
\* without an error.
LEMMA NoHarm ==
  ASSUME FlashTyped, InOrder, passed < Size, NEW l, l.off \in 0..passed, l.data \in Seq(Byte),
         Len(l.data) <= Chunk, l.data = <<>> \/ l.off = passed,
         NEW s \in FollowOn(l), NEW t \in Take(s, l.data)
  PROVE  /\ ~t.ok => t.faults > faults
         /\ \A u \in Region : (u + 1) * Unit <= passed => t.flash[u] = flash[u]
PROOF
<1>0. PICK m \in Nat : m = faults
  BY DEF FlashTyped
<1>1. CASE l.off = passed
  <2>1. PICK n \in Nat : \E b : InPlace(s, n, b)
    BY <1>1, FollowsOn
  <2>0. PICK b : InPlace(s, n, b)
    BY <2>1
  <2>3. /\ \A u \in Region : (u + 1) * Unit <= passed => t.flash[u] = flash[u]
        /\ t.ok \/ t.faults = m + 1
    <3>1. PICK d \in Seq(Byte) : d = l.data /\ Len(d) <= Chunk
      OBVIOUS
    <3>2. TakenAs(t, n, b \o d)
      BY <2>0, <3>1, TakesIn
    <3>3. /\ \A u \in Region : (u + 1) * Unit <= passed => t.flash[u] = flash[u]
          /\ t.ok \/ t.faults = faults + 1
      BY <3>2 DEF TakenAs
    <3> QED
      BY <1>0, <3>3
  <2> QED
    BY <1>0, <2>3
<1>2. CASE l.off # passed
  <2>1. l.data = <<>> /\ passed # 0
    BY <1>2 DEF FlashTyped
  <2>2. PICK n \in 0..Units : UnitsAre(n, flash, stream, passed, owner)
    BY <2>1 DEF InOrder
  <2>3. n \in Nat /\ owner \in Blobs
    BY <2>1, SizesAre DEF FlashTyped
  <2>4. PICK p \in Nat, a \in Nat, z \in Nat :
          p = passed /\ a = n * Unit /\ z = (n + 1) * Unit /\ a <= p /\ p < z
    BY <2>2, <2>3, UnitsGrow DEF UnitsAre, FlashTyped
  <2>5. stream = Open(a, Bytes(owner, a, p))
    BY <2>2, <2>4 DEF UnitsAre
  <2>6. AreBytes(Bytes(owner, a, p), owner, a, p - a)
    BY <2>3, <2>4, BytesAre
  <2>7. stream.addr = a /\ stream.addr + Len(stream.buf) = p
    BY <2>4, <2>5, <2>6 DEF Open, AreBytes
  <2>8. ~(stream.open /\ l.off = stream.addr + Len(stream.buf))
    BY <1>2, <2>4, <2>7
  <2>15. PICK d : d = Padded(stream.buf)
    OBVIOUS
  <2>9. PICK w \in WriteUnit(flash, m, a, d) \union {[flash |-> flash, ok |-> TRUE, faults |-> m]} :
          s = [flash |-> w.flash, stream |-> Open(l.off, <<>>), faults |-> w.faults]
    BY <1>0, <2>7, <2>8, <2>15 DEF FollowOn
  <2>10. \A u \in Region : u # n => w.flash[u] = flash[u]
    <3>1. a \div Unit = n
      BY <2>3, <2>4, UnitBegins
    <3>2. flash = [u \in Region |-> flash[u]]
      BY DEF FlashTyped
    <3>3. CASE w \in WriteUnit(flash, m, a, d)
      <4>1. /\ w.flash = [u \in Region |-> w.flash[u]]
            /\ w.faults = m \/ w.faults = m + 1
            /\ \A u \in Region : u # a \div Unit => w.flash[u] = flash[u]
        BY ONLY <3>2, <3>3, m \in Nat, WriteUnitIs
      <4> QED
        BY <3>1, <4>1
    <3>4. CASE w = [flash |-> flash, ok |-> TRUE, faults |-> m]
      BY <3>4
    <3> QED
      BY <3>3, <3>4
  <2>11. s.flash = w.flash /\ s.stream.buf = <<>>
    BY <2>9 DEF Open
  <2>12. <<>> \o <<>> = <<>> /\ Len(<<>>) < Unit
    BY SizesAre, ConcatEmptySeq, EmptySeq
  <2>13. t.ok /\ t.flash = s.flash
    BY <2>1, <2>11, <2>12 DEF Take
  <2>14. ASSUME NEW u \in Region, (u + 1) * Unit <= passed PROVE u # n
    BY <2>4, <2>14
  <2> QED
    BY <2>10, <2>11, <2>13, <2>14
<1> QED
  BY <1>1, <1>2

\* What a queue is, and what is added to it or taken off it.
LEMMA ListIs ==
  ASSUME NEW q, IsList(q), NEW S, \A i \in 1..Len(q) : q[i] \in S PROVE q \in Seq(S)
PROOF
<1>1. q \in [1..Len(q) -> S] /\ Len(q) \in Nat
  BY DEF IsList
<1> QED
  BY <1>1

\* An entry added is the last; the others stay in their places.
LEMMA ListAdded ==
  ASSUME NEW q, IsList(q), NEW x
  PROVE  /\ IsList(Append(q, x)) /\ Len(Append(q, x)) = Len(q) + 1 /\ Append(q, x) # <<>>
         /\ \A i \in 1..Len(q) : Append(q, x)[i] = q[i]
         /\ Append(q, x)[Len(q) + 1] = x
PROOF
<1>1. PICK S : S = {q[i] : i \in 1..Len(q)} \union {x}
  OBVIOUS
<1>2. q \in Seq(S) /\ x \in S
  BY <1>1, ListIs
<1>3. PICK n \in Nat : n = Len(q)
  BY DEF IsList
<1>4. PICK r : r = Append(q, x)
  OBVIOUS
<1>5. r \in Seq(S) /\ Len(r) = n + 1 /\ (\A i \in 1..n : r[i] = q[i]) /\ r[n + 1] = x
  BY <1>2, <1>3, <1>4, AppendProperties
<1>6. IsList(r) /\ r # <<>>
  <2>1. r = [i \in 1..Len(r) |-> r[i]] /\ Len(r) \in Nat
    BY <1>5
  <2>2. r # <<>>
    BY <1>5, EmptySeq
  <2> QED
    BY <2>1, <2>2 DEF IsList
<1> QED
  BY <1>3, <1>4, <1>5, <1>6

\* An end of a queue holds the entries from there on.
LEMMA ListRest ==
  ASSUME NEW q, IsList(q), NEW m \in 0..Len(q)
  PROVE  /\ IsList(SubSeq(q, m + 1, Len(q))) /\ Len(SubSeq(q, m + 1, Len(q))) = Len(q) - m
         /\ \A i \in 1..(Len(q) - m) : SubSeq(q, m + 1, Len(q))[i] = q[m + i]
PROOF
<1>1. PICK S : S = {q[i] : i \in 1..Len(q)}
  OBVIOUS
<1>2. q \in Seq(S)
  BY <1>1, ListIs
<1>3. PICK n \in Nat : n = Len(q) /\ m \in 0..n
  BY DEF IsList
<1>4. PICK k \in Nat : k = n - m
  <2>1. n - m \in Nat
    BY <1>3
  <2> QED
    BY <2>1
<1>5. PICK r : r = SubSeq(q, m + 1, n)
  OBVIOUS
<1>6. \A i \in 1..k : m + i \in 1..n
  BY <1>3, <1>4
<1>7. r \in Seq(S) /\ Len(r) = k /\ \A i \in 1..k : r[i] = q[m + i]
  BY <1>2, <1>3, <1>4, <1>5, <1>6
<1>8. r = [i \in 1..Len(r) |-> r[i]] /\ Len(r) \in Nat
  BY <1>7
<1> QED
  BY <1>3, <1>4, <1>5, <1>7, <1>8 DEF IsList

\* What is known of a sequence, of its head and of its tail.
LEMMA SeqIsList ==
  ASSUME NEW S, NEW q \in Seq(S)
  PROVE  /\ IsList(q) /\ \A i \in 1..Len(q) : q[i] \in S
         /\ q # <<>> => /\ Len(q) >= 1 /\ Head(q) = q[1] /\ Head(q) \in S
                        /\ Tail(q) \in Seq(S) /\ Len(Tail(q)) = Len(q) - 1
                        /\ \A i \in 1..(Len(q) - 1) : Tail(q)[i] = q[i + 1]
                        /\ Tail(q) = <<>> <=> Len(q) = 1
         /\ q = <<>> <=> Len(q) = 0
PROOF
<1>1. PICK n \in Nat : n = Len(q)
  BY LenProperties
<1>2. IsList(q) /\ \A i \in 1..Len(q) : q[i] \in S
  <2>1. q = [i \in 1..n |-> q[i]] /\ \A i \in 1..n : q[i] \in S
    BY <1>1
  <2> QED
    BY <1>1, <2>1 DEF IsList
<1>3. q = <<>> <=> n = 0
  BY <1>1, EmptySeq
<1>4. ASSUME q # <<>>
      PROVE  /\ n >= 1 /\ Head(q) = q[1] /\ Head(q) \in S
             /\ Tail(q) \in Seq(S) /\ Len(Tail(q)) = n - 1
             /\ \A i \in 1..(n - 1) : Tail(q)[i] = q[i + 1]
             /\ Tail(q) = <<>> <=> n = 1
  <2>1. n >= 1
    BY <1>1, <1>3, <1>4
  <2>2. Head(q) = q[1] /\ Head(q) \in S
    BY <1>1, <1>2, <1>4, <2>1, HeadTailProperties
  <2>3. Tail(q) \in Seq(S) /\ Len(Tail(q)) = n - 1
    BY <1>1, <1>4, HeadTailProperties
  <2>4. \A i \in 1..(n - 1) : Tail(q)[i] = q[i + 1]
    <3>1. \A i \in 1..Len(Tail(q)) : Tail(q)[i] = q[i + 1]
      BY <1>4, HeadTailProperties
    <3> QED
      BY <2>3, <3>1
  <2>5. Tail(q) = <<>> <=> n = 1
    BY <2>1, <2>3, EmptySeq
  <2> QED
    BY <2>1, <2>2, <2>3, <2>4, <2>5
<1> QED
  BY <1>1, <1>2, <1>3, <1>4

\* A line taken off the queue.
LEMMA Dequeues ==
  ASSUME LinesFollow, LineIsCut, ToolTyped, LastSaid, out # <<>>, out' = Tail(out), UNCHANGED tool,
         line' = NoLine \/ (line' = Head(out) /\ Head(out).cut)
  PROVE  LinesFollow' /\ LineIsCut' /\ ToolTyped' /\ LastSaid'
PROOF
<1>0. out \in Seq(Lines)
  BY DEF LinesFollow
<1>1. PICK n \in Nat \ {0} : n = Len(out)
  <2>1. Len(out) \in Nat \ {0}
    BY <1>0, EmptySeq, LenProperties
  <2> QED
    BY <2>1
<1>2. PICK t : t = Tail(out)
  OBVIOUS
<1>3. /\ t \in Seq(Lines) /\ Len(t) = n - 1 /\ (t = <<>> <=> n = 1)
      /\ \A i \in 1..(n - 1) : t[i] = out[i + 1]
  BY <1>0, <1>1, <1>2, SeqIsList
<1>4. Head(out) = out[1] /\ Head(out) \in Lines
  BY <1>0, SeqIsList
<1>5. t # <<>> => n > 1 /\ t[n - 1] = out[n]
  BY <1>3
<1>6. LinesFollow'
  <2>1. out' \in Seq(Lines) /\ Len(out') <= MaxAhead
    <3>1. n <= MaxAhead /\ MaxAhead \in Nat
      BY <1>1, SizesAre DEF LinesFollow
    <3> QED
      BY <1>2, <1>3, <3>1
  <2>2. ASSUME NEW i \in 1..Len(out') PROVE Meant(out'[i])
    <3>1. i \in 1..(n - 1) /\ i + 1 \in 1..n
      BY <1>2, <1>3
    <3>2. Meant(out[i + 1])
      BY <1>1, <3>1 DEF LinesFollow
    <3> QED
      BY <1>2, <1>3, <3>1, <3>2
  <2>3. ASSUME NEW i \in 1..Len(out'), i < Len(out') PROVE Follows(out'[i], out'[i + 1])
    <3>1. i \in 1..(n - 1) /\ i + 1 \in 1..(n - 1) /\ i + 1 \in 1..n /\ i + 1 < n
      BY <1>2, <1>3, <2>3
    <3>2. Follows(out[i + 1], out[(i + 1) + 1])
      BY <1>1, <3>1 DEF LinesFollow
    <3>3. t[i] = out[i + 1] /\ t[i + 1] = out[(i + 1) + 1]
      BY <1>3, <3>1
    <3> QED
      BY <1>2, <3>2, <3>3
  <2>4. ASSUME out' # <<>>, out'[Len(out')].cut PROVE stage' = "off"
    <3>1. out[n].cut
      BY <1>2, <1>3, <1>5, <2>4
    <3> QED
      BY <1>1, <3>1 DEF LinesFollow, tool
  <2> QED
    BY <2>1, <2>2, <2>3, <2>4 DEF LinesFollow
<1>7. LineIsCut'
  <2>1. CASE line' = NoLine
    BY <2>1 DEF LineIsCut
  <2>2. CASE line' = Head(out) /\ Head(out).cut
    <3>1. line' \in Lines /\ line'.cut
      BY <1>4, <2>2
    <3>2. Meant(line')
      <4>1. Meant(out[1])
        BY <1>1 DEF LinesFollow
      <4> QED
        BY <1>4, <2>2, <4>1
    <3>3. CASE t = <<>>
      <4>1. n = 1 /\ out[n].cut
        BY <1>3, <1>4, <2>2, <3>3
      <4>2. stage' = "off"
        BY <1>1, <4>1 DEF LinesFollow, tool
      <4> QED
        BY <1>2, <3>1, <3>2, <3>3, <4>2 DEF LineIsCut
    <3>4. CASE t # <<>>
      <4>1. 1 < n /\ 1 \in 1..n /\ t[1] = out[1 + 1]
        BY <1>3, <1>5, <3>4
      <4>2. Follows(out[1], out[1 + 1])
        BY <1>1, <4>1 DEF LinesFollow
      <4>3. t[1].cmd = "id"
        BY <1>4, <2>2, <4>1, <4>2 DEF Follows
      <4> QED
        BY <1>2, <3>1, <3>2, <3>4, <4>3 DEF LineIsCut
    <3> QED
      BY <3>3, <3>4
  <2> QED
    BY <2>1, <2>2
<1>8. ToolTyped'
  BY DEF ToolTyped, tool
<1>9. LastSaid'
  <2> SUFFICES ASSUME out' # <<>>
               PROVE  LastSaid'
    BY DEF LastSaid
  <2>1. out'[Len(out')] = out[n]
    BY <1>2, <1>3, <1>5
  <2>2. PICK z : z = out[n]
    OBVIOUS
  <2>3. /\ stage \in {"id", "erase", "flush", "crc", "run"} => z.cmd = stage
        /\ stage = "write" /\ next = 0 => z.cmd = "erase"
        /\ stage = "write" /\ next # 0 => OfImage(z, blob) /\ next = End(z.off)
    BY <1>1, <2>2 DEF LastSaid
  <2> QED
    BY <2>1, <2>2, <2>3 DEF LastSaid, tool
<1> QED
  BY <1>6, <1>7, <1>8, <1>9

\* What the device comes to when it is done with a line.
LEMMA ComesNext ==
  ASSUME LinesFollow, LastSaid, out # <<>>, out' = Tail(out), line' = NoLine, UNCHANGED tool,
         NEW h, h = Head(out)
  PROVE  /\ h \in Lines /\ Meant(h)
         /\ out' # <<>> => Ahead' \in Lines /\ Meant(Ahead') /\ Follows(h, Ahead')
         /\ out' = <<>> =>
              /\ Ahead' = NoLine
              /\ stage \in {"id", "erase", "flush", "crc", "run"} => h.cmd = stage
              /\ stage = "write" /\ next = 0 => h.cmd = "erase"
              /\ stage = "write" /\ next # 0 => OfImage(h, blob) /\ next = End(h.off)
PROOF
<1>0. out \in Seq(Lines)
  BY DEF LinesFollow
<1>1. PICK n \in Nat \ {0} : n = Len(out)
  <2>1. Len(out) \in Nat \ {0}
    BY <1>0, EmptySeq, LenProperties
  <2> QED
    BY <2>1
<1>2. PICK t : t = Tail(out)
  OBVIOUS
<1>3. /\ t \in Seq(Lines) /\ Len(t) = n - 1 /\ (t = <<>> <=> n = 1)
      /\ \A i \in 1..(n - 1) : t[i] = out[i + 1]
  BY <1>0, <1>1, <1>2, SeqIsList
<1>4. h = out[1] /\ h \in Lines /\ Meant(h)
  <2>1. h = out[1] /\ h \in Lines
    BY <1>0, SeqIsList
  <2>2. Meant(out[1])
    BY <1>1 DEF LinesFollow
  <2> QED
    BY <2>1, <2>2
<1>5. ASSUME out' # <<>> PROVE Ahead' \in Lines /\ Meant(Ahead') /\ Follows(h, Ahead')
  <2>1. 1 < n /\ 1 \in 1..n /\ 1 + 1 \in 1..n /\ 1 \in 1..(n - 1) /\ t[1] = out[1 + 1]
    BY <1>2, <1>3, <1>5
  <2>2. Follows(out[1], out[1 + 1]) /\ Meant(out[1 + 1])
    BY <1>1, <2>1 DEF LinesFollow
  <2>3. Head(t) = t[1] /\ Head(t) \in Lines
    BY <1>2, <1>3, <1>5, SeqIsList
  <2>4. Ahead' = Head(t)
    BY <1>2, <1>5 DEF Ahead
  <2> QED
    BY <1>4, <2>1, <2>2, <2>3, <2>4
<1>6. ASSUME out' = <<>>
      PROVE  /\ Ahead' = NoLine
             /\ stage \in {"id", "erase", "flush", "crc", "run"} => h.cmd = stage
             /\ stage = "write" /\ next = 0 => h.cmd = "erase"
             /\ stage = "write" /\ next # 0 => OfImage(h, blob) /\ next = End(h.off)
  <2>1. Ahead' = NoLine
    BY <1>6 DEF Ahead
  <2>2. n = 1
    BY <1>2, <1>3, <1>6
  <2>3. h = out[Len(out)]
    BY <1>1, <1>4, <2>2
  <2> QED
    BY <2>1, <2>3 DEF LastSaid
<1> QED
  BY <1>4, <1>5, <1>6

\* That there is no line is told from any line by its command.
LEMMA NoLineIs ==
  NoLine.cmd = "" /\ NoLine.off = 0 /\ NoLine.data = <<>> /\ NoLine.cut = FALSE
PROOF
  BY DEF NoLine, Say, Line

\* Behind a line that is neither an erasure nor one of an image comes no image.
LEMMA NoneOfThemNext ==
  ASSUME LinesFollow, LastSaid, out # <<>>, out' = Tail(out), line' = NoLine, UNCHANGED tool,
         Head(out).cmd \notin {"erase", "wr"}
  PROVE  GoesNoFurther'
PROOF
<1>1. PICK h : h = Head(out)
  OBVIOUS
<1>2. /\ out' # <<>> => Follows(h, Ahead')
      /\ out' = <<>> =>
           /\ Ahead' = NoLine
           /\ stage \in {"id", "erase", "flush", "crc", "run"} => h.cmd = stage
           /\ stage = "write" /\ next = 0 => h.cmd = "erase"
           /\ stage = "write" /\ next # 0 => OfImage(h, blob) /\ next = End(h.off)
  BY <1>1, ComesNext
<1>3. CASE out' # <<>>
  <2>1. Ahead'.cmd \notin {"wr", "flush"}
    BY <1>1, <1>2, <1>3 DEF Follows, OfImage
  <2> QED
    BY <1>3, <2>1 DEF GoesNoFurther
<1>4. CASE out' = <<>>
  <2>1. Ahead'.cmd = ""
    BY <1>2, <1>4, NoLineIs
  <2>2. stage \notin {"erase", "write"}
    BY <1>1, <1>2, <1>4 DEF OfImage
  <2> QED
    BY <2>1, <2>2 DEF GoesNoFurther, tool
<1> QED
  BY <1>3, <1>4

\* What came in order is held.
LEMMA InOrderHeld ==
  ASSUME FlashTyped, InOrder PROVE Held
PROOF
<1> SUFFICES ASSUME NEW u \in Region, (u + 1) * Unit <= passed PROVE flash[u] = Content(owner, u)
  BY DEF Held
<1>0. u \in Nat
  BY DEF Region
<1>1. PICK p \in Nat, z \in Nat : p = passed /\ z = (u + 1) * Unit /\ z <= p /\ z # 0
  <2>1. (u + 1) * Unit \in Nat /\ (u + 1) * Unit = u * Unit + Unit /\ u * Unit \in Nat
    BY <1>0, UnitsGrow
  <2>2. passed \in Nat
    BY DEF FlashTyped
  <2> QED
    BY <2>1, <2>2, SizesAre
<1>2. PICK n \in 0..Units : UnitsAre(n, flash, stream, passed, owner)
  BY <1>1 DEF InOrder
<1>3. n \in Nat
  BY SizesAre
<1>4. ASSUME n <= u PROVE FALSE
  <2>1. (n + 1) * Unit <= (u + 1) * Unit
    BY <1>0, <1>3, <1>4, UnitsRise
  <2>2. passed < (n + 1) * Unit
    BY <1>2 DEF UnitsAre
  <2>3. PICK y \in Nat : y = (n + 1) * Unit
    BY <1>3, UnitsGrow
  <2> QED
    BY <1>1, <2>1, <2>2, <2>3
<1>5. u < n
  BY <1>0, <1>3, <1>4
<1> QED
  BY <1>2, <1>5 DEF UnitsAre

\* What is not in the queue is not at its head, and not behind it.
LEMMA StillNone ==
  ASSUME LinesFollow, out # <<>>, out' = Tail(out), NEW cs, NoneOf(cs)
  PROVE  NoneOf(cs)' /\ Head(out).cmd \notin cs
PROOF
<1>0. out \in Seq(Lines)
  BY DEF LinesFollow
<1>1. PICK n \in Nat : n = Len(out)
  BY <1>0, LenProperties
<1>2. PICK t : t = Tail(out)
  OBVIOUS
<1>3. /\ n >= 1 /\ Len(t) = n - 1 /\ Head(out) = out[1]
      /\ \A i \in 1..(n - 1) : t[i] = out[i + 1]
  BY <1>0, <1>1, <1>2, SeqIsList
<1>4. \A i \in 1..n : out[i].cmd \notin cs
  BY <1>1 DEF NoneOf
<1>5. ASSUME NEW i \in 1..(n - 1) PROVE t[i].cmd \notin cs
  <2>1. i + 1 \in 1..n
    BY <1>3
  <2> QED
    BY <1>3, <1>4, <2>1
<1>6. NoneOf(cs)'
  BY <1>2, <1>3, <1>5 DEF NoneOf
<1>7. 1 \in 1..n
  BY <1>3
<1> QED
  BY <1>3, <1>4, <1>6, <1>7

\* An answer to the line that was taken off.
LEMMA Answers ==
  ASSUME LinesFollow, LastSaid, SumsAreOfThisRun, SumIsOfTheFlash, out # <<>>, out' = Tail(out),
         UNCHANGED tool, NEW a, in' = Append(in, a),
         a.is = "crc" => Head(out).cmd = "crc" /\ a.sum = [u \in 1..Units |-> flash'[u - 1]],
         a = Told("id") => Head(out).cmd = "id"
  PROVE  SumsAreOfThisRun' /\ SumIsOfTheFlash'
PROOF
<1>0. out \in Seq(Lines)
  BY DEF LinesFollow
<1>1. PICK n \in Nat : n = Len(out)
  BY <1>0, LenProperties
<1>2. PICK t : t = Tail(out)
  OBVIOUS
<1>3. /\ n >= 1 /\ Len(t) = n - 1 /\ Head(out) = out[1] /\ (t = <<>> <=> n = 1)
      /\ \A i \in 1..(n - 1) : t[i] = out[i + 1]
  BY <1>0, <1>1, <1>2, SeqIsList
<1>4. PICK k \in Nat : k = Len(in)
  BY DEF SumsAreOfThisRun, IsList
<1>19. PICK r : r = Append(in, a)
  OBVIOUS
<1>5. IsList(r) /\ Len(r) = k + 1 /\ (\A i \in 1..k : r[i] = in[i]) /\ r[k + 1] = a
  BY <1>4, <1>19, ListAdded DEF SumsAreOfThisRun
<1>6. in' = r /\ Len(in') = k + 1
  BY <1>19, <1>5
<1>7. ASSUME NEW i \in 1..(k + 1), NoSumFrom(i) \/ i = k + 1, a.is # "crc" PROVE NoSumFrom(i)'
  <2> SUFFICES ASSUME NEW j \in 1..(k + 1), j >= i PROVE r[j].is # "crc"
    BY <1>6 DEF NoSumFrom
  <2>1. CASE j = k + 1
    BY <1>5, <1>7, <2>1
  <2>2. CASE j # k + 1
    <3>1. j \in 1..k /\ i # k + 1
      BY <2>2
    <3>2. in[j].is # "crc"
      BY <1>4, <1>7, <3>1 DEF NoSumFrom
    <3> QED
      BY <1>5, <3>1, <3>2
  <2> QED
    BY <2>1, <2>2
<1>8. ASSUME NoSumFrom(1), a.is # "crc" PROVE NoSumFrom(1)'
  <2>1. 1 \in 1..(k + 1)
    OBVIOUS
  <2> QED
    BY <1>7, <1>8, <2>1
<1>9. ASSUME NEW i \in 1..n, NEW j \in 1..n, i < j, out[i].cmd = "id" PROVE out[j].cmd \notin {"crc", "run"}
  BY <1>1, <1>9 DEF SumsAreOfThisRun
<1>10. ASSUME NEW i \in 1..Len(out'), NEW j \in 1..Len(out'), i < j, out'[i].cmd = "id"
       PROVE  out'[j].cmd \notin {"crc", "run"}
  <2>1. i \in 1..(n - 1) /\ j \in 1..(n - 1) /\ i + 1 \in 1..n /\ j + 1 \in 1..n /\ i + 1 < j + 1
    BY <1>2, <1>3, <1>10
  <2>2. t[i] = out[i + 1] /\ t[j] = out[j + 1]
    BY <1>3, <2>1
  <2> QED
    BY <1>2, <1>9, <1>10, <2>1, <2>2
<1>11. ASSUME stage' = "id", NEW i \in 1..Len(in'), in'[i] = Told("id")
       PROVE  NoSumFrom(i)' /\ NoneOf({"crc", "run"})'
  <2>0. stage = "id"
    BY <1>11 DEF tool
  <2>1. i \in 1..(k + 1) /\ r[i] = Told("id")
    BY <1>6, <1>11
  <2>2. CASE i = k + 1
    <3>1. a = Told("id") /\ Head(out).cmd = "id" /\ a.is # "crc"
      BY <1>5, <2>1, <2>2 DEF Told, Answer
    <3>2. ASSUME NEW j \in 1..(n - 1) PROVE t[j].cmd \notin {"crc", "run"}
      <4>1. 1 \in 1..n /\ j + 1 \in 1..n /\ 1 < j + 1
        BY <1>3
      <4> QED
        BY <1>3, <1>9, <3>1, <4>1
    <3>3. NoneOf({"crc", "run"})'
      BY <1>2, <1>3, <3>2 DEF NoneOf
    <3> QED
      BY <1>7, <2>1, <2>2, <3>1, <3>3
  <2>3. CASE i # k + 1
    <3>1. i \in 1..k /\ in[i] = Told("id")
      BY <1>5, <2>1, <2>3
    <3>2. NoSumFrom(i) /\ NoneOf({"crc", "run"})
      BY <1>4, <2>0, <3>1 DEF SumsAreOfThisRun
    <3>3. NoneOf({"crc", "run"})' /\ Head(out).cmd \notin {"crc", "run"}
      BY <3>2, StillNone
    <3> QED
      BY <1>7, <2>1, <3>2, <3>3
  <2> QED
    BY <2>2, <2>3
<1>12. ASSUME stage' \in {"erase", "write", "flush"} PROVE NoSumFrom(1)' /\ NoneOf({"crc", "run"})'
  <2>1. NoSumFrom(1) /\ NoneOf({"crc", "run"})
    BY <1>12 DEF SumsAreOfThisRun, tool
  <2>2. NoneOf({"crc", "run"})' /\ Head(out).cmd \notin {"crc", "run"}
    BY <2>1, StillNone
  <2> QED
    BY <1>8, <2>1, <2>2
<1>13. ASSUME stage' = "write", NEW i \in 1..Len(out'), out'[i].cmd = "id"
       PROVE  next' <= (Len(out') - i) * Chunk
  <2>1. i \in 1..(n - 1) /\ i + 1 \in 1..n /\ t[i] = out[i + 1] /\ (n - 1) - i = n - (i + 1)
    BY <1>2, <1>3
  <2>2. next <= (n - (i + 1)) * Chunk
    BY <1>1, <1>2, <1>13, <2>1 DEF SumsAreOfThisRun, tool
  <2> QED
    BY <1>2, <1>3, <2>1, <2>2 DEF tool
<1>14. ASSUME stage' \in {"flush", "crc", "run"} PROVE NoneOf({"id"})'
  <2>1. NoneOf({"id"})
    BY <1>14 DEF SumsAreOfThisRun, tool
  <2> QED
    BY <2>1, StillNone
<1>15. SumsAreOfThisRun'
  BY <1>5, <1>6, <1>10, <1>11, <1>12, <1>13, <1>14 DEF SumsAreOfThisRun
<1>16. ASSUME stage' = "crc", out' # <<>>
       PROVE  NoSumFrom(1)' /\ \A i \in 1..Len(out') : out'[i].cmd = "crc" => i = Len(out')
  <2>1. stage = "crc" /\ n > 1
    BY <1>2, <1>3, <1>16 DEF tool
  <2>2. NoSumFrom(1) /\ \A i \in 1..n : out[i].cmd = "crc" => i = n
    BY <1>1, <2>1 DEF SumIsOfTheFlash
  <2>3. Head(out).cmd # "crc"
    <3>1. 1 \in 1..n /\ 1 # n
      BY <2>1
    <3> QED
      BY <1>3, <2>2, <3>1
  <2>4. ASSUME NEW i \in 1..(n - 1), t[i].cmd = "crc" PROVE i = n - 1
    <3>1. i + 1 \in 1..n /\ t[i] = out[i + 1]
      BY <1>3
    <3>2. i + 1 = n
      BY <2>2, <2>4, <3>1
    <3> QED
      BY <3>2
  <2> QED
    BY <1>2, <1>3, <1>8, <2>2, <2>3, <2>4
<1>17. ASSUME stage' = "crc", out' = <<>>, NEW j \in 1..Len(in'), in'[j].is = "crc"
       PROVE  in'[j].sum = [u \in 1..Units |-> flash'[u - 1]]
  <2>1. stage = "crc"
    BY <1>17 DEF tool
  <2>2. NoSumFrom(1)
    BY <2>1 DEF SumIsOfTheFlash
  <2>3. j \in 1..(k + 1) /\ r[j].is = "crc"
    BY <1>6, <1>17
  <2>4. j = k + 1
    <3> SUFFICES ASSUME j # k + 1 PROVE FALSE
      OBVIOUS
    <3>1. j \in 1..k /\ j >= 1
      BY <2>3
    <3>2. in[j].is # "crc"
      BY <1>4, <2>2, <3>1 DEF NoSumFrom
    <3> QED
      BY <1>5, <2>3, <3>1, <3>2
  <2> QED
    BY <1>5, <1>6, <2>3, <2>4
<1>18. ASSUME stage' = "run" PROVE NoneOf(Commanded \ {"run"})'
  <2>1. NoneOf(Commanded \ {"run"})
    BY <1>18 DEF SumIsOfTheFlash, tool
  <2> QED
    BY <2>1, StillNone
<1> QED
  BY <1>15, <1>16, <1>17, <1>18 DEF SumIsOfTheFlash

\* While the flash and the stream stay, so does what was passed.
LEMMA KeepsOrder ==
  ASSUME UNCHANGED <<flash, stream, passed, owner>>
  PROVE  (InOrder => InOrder') /\ (Held => Held')
PROOF
<1>1. InOrder => InOrder'
  BY DEF InOrder
<1>2. Held => Held'
  BY DEF Held
<1> QED
  BY <1>1, <1>2

\* A command that does nothing to the flash.
LEMMA OtherStep ==
  ASSUME StreamInv, out # <<>>, out' = Tail(out), line' = NoLine, UNCHANGED <<flash, stream, tool, past>>,
         Head(out).cmd \notin {"erase", "wr"}, NEW a, in' = Append(in, a),
         a.is = "crc" => Head(out).cmd = "crc" /\ a.sum = [u \in 1..Units |-> flash[u - 1]],
         a = Told("id") => Head(out).cmd = "id"
  PROVE  StreamInv'
PROOF
<1>1. LinesFollow' /\ LineIsCut' /\ ToolTyped' /\ LastSaid'
  BY Dequeues DEF StreamInv
<1>2. SumsAreOfThisRun' /\ SumIsOfTheFlash'
  <2>1. a.is = "crc" => Head(out).cmd = "crc" /\ a.sum = [u \in 1..Units |-> flash'[u - 1]]
    OBVIOUS
  <2> QED
    BY <2>1, Answers DEF StreamInv
<1>3. FlashTyped'
  BY DEF StreamInv, FlashTyped, past
<1>4. FlashFollows'
  <2>1. GoesNoFurther'
    BY NoneOfThemNext DEF StreamInv
  <2>2. GoesOn'
    BY <2>1 DEF GoesNoFurther, GoesOn
  <2>3. (InOrder => InOrder') /\ (Held => Held')
    BY KeepsOrder DEF past
  <2> QED
    BY <2>1, <2>2, <2>3 DEF StreamInv, FlashFollows, past
<1>5. LaunchedIsWhole'
  BY DEF StreamInv, LaunchedIsWhole, tool
<1> QED
  BY <1>1, <1>2, <1>3, <1>4, <1>5 DEF StreamInv

\* A word of the tool is that word and nothing else.
LEMMA SaidIs ==
  ASSUME NEW c PROVE Say(c).cmd = c /\ Say(c).off = 0 /\ Say(c).data = <<>> /\ Say(c).cut = FALSE
PROOF
  BY DEF Say, Line

\* One word of the tool is the head of the queue, with no line pending.
LEMMA WordIs ==
  ASSUME StreamInv, NEW c \in Commanded \ {"wr"}, Say(c) \in Commands
  PROVE  out # <<>> /\ ~Head(out).cut /\ line = NoLine /\ Head(out) = Say(c) /\ Head(out).cmd = c
PROOF
<1>1. PICK l \in Commands : l = Say(c)
  OBVIOUS
<1>2. /\ out # <<>> /\ ~Head(out).cut
      /\ \/ line = NoLine /\ l = Head(out)
         \/ l = Say("?") \/ Shortened(l, line)
  BY CommandIs DEF StreamInv
<1>3. l.cmd = c
  BY <1>1, SaidIs
<1>4. l # Say("?")
  <2>1. Say("?").cmd = "?"
    BY SaidIs
  <2> QED
    BY <1>3, <2>1 DEF Commanded
<1>5. ~Shortened(l, line)
  BY <1>3 DEF Shortened
<1> QED
  BY <1>1, <1>2, <1>3, <1>4, <1>5

\* Console `id', and what a cut line made of nothing known.
LEMMA IdStep ==
  ASSUME StreamInv, CmdId PROVE StreamInv'
PROOF
<1>1. PICK l \in {Say("id"), Say("?")} :
        Dispatch(l) /\ Says(Told(l.cmd)) /\ UNCHANGED <<flash, stream, tool, past>>
  BY DEF CmdId
<1>2. /\ out # <<>> /\ l \in Commands
      /\ \/ line = NoLine /\ l = Head(out)
         \/ Head(out).cmd = "id"
  <2>1. l \in Commands
    BY <1>1 DEF Dispatch
  <2> QED
    BY <2>1, CommandIs DEF StreamInv
<1>3. Head(out).cmd = "id"
  <2> SUFFICES ASSUME l = Head(out) PROVE Head(out).cmd = "id"
    BY <1>2
  <2>1. Head(out) \in Lines
    BY <1>2, SeqIsList DEF StreamInv, LinesFollow
  <2>2. l.cmd # "?"
    BY <2>1 DEF Lines, Commanded
  <2>3. l = Say("id")
    BY <2>2, SaidIs
  <2> QED
    BY <2>3, SaidIs
<1>4. PICK a : a = Told(l.cmd)
  OBVIOUS
<1>5. a.is # "crc"
  <2>1. a.is = l.cmd
    BY <1>4 DEF Told, Answer
  <2>2. l.cmd = "id" \/ l.cmd = "?"
    BY SaidIs
  <2> QED
    BY <2>1, <2>2
<1> QED
  BY <1>1, <1>2, <1>3, <1>4, <1>5, OtherStep DEF Dispatch, Says

\* Console `crc'.
LEMMA CrcStep ==
  ASSUME StreamInv, CmdCrc PROVE StreamInv'
PROOF
<1>1. PICK a : a = Answer("crc", [u \in 1..Units |-> flash[u - 1]])
  OBVIOUS
<1>2. /\ Say("crc") \in Commands /\ out' = Tail(out) /\ line' = NoLine /\ in' = Append(in, a)
      /\ UNCHANGED <<flash, stream, tool, past>>
  BY <1>1 DEF CmdCrc, Dispatch, Says
<1>3. out # <<>> /\ Head(out).cmd = "crc"
  BY <1>2, WordIs DEF Commanded
<1>4. a.is = "crc" /\ a.sum = [u \in 1..Units |-> flash[u - 1]]
  BY <1>1 DEF Answer
<1>5. a # Told("id")
  <2>1. Told("id").is = "id"
    BY DEF Told, Answer
  <2> QED
    BY <1>4, <2>1
<1> QED
  BY <1>2, <1>3, <1>4, <1>5, OtherStep

\* A line without its end is kept for the next.
LEMMA CollectStep ==
  ASSUME StreamInv, Collect PROVE StreamInv'
PROOF
<1>1. /\ out # <<>> /\ Head(out).cut /\ line' = Head(out) /\ out' = Tail(out)
      /\ UNCHANGED <<flash, stream, in, tool, past>>
  BY DEF Collect
<1>2. LinesFollow' /\ LineIsCut' /\ ToolTyped' /\ LastSaid'
  BY <1>1, Dequeues DEF StreamInv
<1>0. out \in Seq(Lines)
  BY DEF StreamInv, LinesFollow
<1>3. PICK n \in Nat : n = Len(out)
  BY <1>0, LenProperties
<1>4. PICK t : t = Tail(out)
  OBVIOUS
<1>5. /\ n >= 1 /\ Len(t) = n - 1 /\ Head(out) = out[1] /\ Head(out) \in Lines /\ (t = <<>> <=> n = 1)
      /\ \A i \in 1..(n - 1) : t[i] = out[i + 1]
  BY <1>0, <1>1, <1>3, <1>4, SeqIsList
<1>6. SumsAreOfThisRun'
  <2>1. ASSUME NEW i \in 1..(n - 1), NEW j \in 1..(n - 1), i < j, t[i].cmd = "id"
        PROVE  t[j].cmd \notin {"crc", "run"}
    <3>1. i + 1 \in 1..n /\ j + 1 \in 1..n /\ i + 1 < j + 1 /\ t[i] = out[i + 1] /\ t[j] = out[j + 1]
      BY <1>5, <2>1
    <3> QED
      BY <1>3, <2>1, <3>1 DEF StreamInv, SumsAreOfThisRun
  <2>2. \A cs : NoneOf(cs) => NoneOf(cs)'
    BY <1>1, StillNone DEF StreamInv
  <2>3. \A i : NoSumFrom(i) => NoSumFrom(i)'
    BY <1>1 DEF NoSumFrom
  <2>4. ASSUME stage = "write", NEW i \in 1..(n - 1), t[i].cmd = "id" PROVE next <= ((n - 1) - i) * Chunk
    <3>1. i + 1 \in 1..n /\ t[i] = out[i + 1] /\ (n - 1) - i = n - (i + 1)
      BY <1>5
    <3> QED
      BY <1>3, <2>4, <3>1 DEF StreamInv, SumsAreOfThisRun
  <2>5. out' = t /\ in' = in /\ stage' = stage /\ next' = next
    BY <1>1, <1>4 DEF tool
  <2>6. IsList(in')
    BY <2>5 DEF StreamInv, SumsAreOfThisRun
  <2>7. stage' = "id" => \A i \in 1..Len(in') : in'[i] = Told("id") => NoSumFrom(i)' /\ NoneOf({"crc", "run"})'
    BY <2>2, <2>3, <2>5 DEF StreamInv, SumsAreOfThisRun
  <2>8. stage' \in {"erase", "write", "flush"} => NoSumFrom(1)' /\ NoneOf({"crc", "run"})'
    BY <2>2, <2>3, <2>5 DEF StreamInv, SumsAreOfThisRun
  <2>9. stage' \in {"flush", "crc", "run"} => NoneOf({"id"})'
    BY <2>2, <2>5 DEF StreamInv, SumsAreOfThisRun
  <2> QED
    BY <1>5, <2>1, <2>4, <2>5, <2>6, <2>7, <2>8, <2>9 DEF SumsAreOfThisRun
<1>7. SumIsOfTheFlash'
  <2>1. out' = t /\ in' = in /\ stage' = stage /\ flash' = flash
    BY <1>1, <1>4 DEF tool
  <2>2. CASE stage = "crc"
    <3>1. out[n].cut => FALSE
      BY <1>1, <1>3, <2>2 DEF StreamInv, LinesFollow
    <3>2. n # 1
      BY <1>1, <1>5, <3>1
    <3>3. t # <<>>
      BY <1>5, <3>2
    <3>4. NoSumFrom(1) /\ \A i \in 1..n : out[i].cmd = "crc" => i = n
      BY <1>1, <1>3, <2>2 DEF StreamInv, SumIsOfTheFlash
    <3>5. ASSUME NEW i \in 1..(n - 1), t[i].cmd = "crc" PROVE i = n - 1
      <4>1. i + 1 \in 1..n /\ t[i] = out[i + 1]
        BY <1>5
      <4>2. i + 1 = n
        BY <3>4, <3>5, <4>1
      <4> QED
        BY <4>2
    <3>6. NoSumFrom(1)'
      BY <2>1, <3>4 DEF NoSumFrom
    <3> QED
      BY <1>5, <2>1, <2>2, <3>3, <3>5, <3>6 DEF SumIsOfTheFlash
  <2>3. CASE stage = "run"
    <3>1. NoneOf(Commanded \ {"run"})
      BY <2>3 DEF StreamInv, SumIsOfTheFlash
    <3>2. NoneOf(Commanded \ {"run"})'
      BY <1>1, <3>1, StillNone DEF StreamInv
    <3> QED
      BY <2>1, <2>3, <3>2 DEF SumIsOfTheFlash
  <2> QED
    BY <2>1, <2>2, <2>3 DEF SumIsOfTheFlash
<1>8. FlashTyped'
  BY <1>1 DEF StreamInv, FlashTyped, past
<1>9. FlashFollows'
  <2>0. (InOrder => InOrder') /\ (Held => Held')
    BY <1>1, KeepsOrder DEF past
  <2>1. Head(out).cmd \in Commanded /\ Head(out) # NoLine
    BY <1>5, NoLineIs DEF Lines, Commanded
  <2>2. Ahead' = Head(out)
    BY <1>1, <2>1 DEF Ahead
  <2>3. CASE line = NoLine
    <3>1. Ahead = Head(out)
      BY <1>1, <2>3 DEF Ahead
    <3>2. t = <<>> => stage = "off"
      <4> SUFFICES ASSUME n = 1 PROVE stage = "off"
        BY <1>5
      <4>1. out[n].cut
        BY <1>1, <1>5
      <4> QED
        BY <1>1, <1>3, <4>1 DEF StreamInv, LinesFollow
    <3>3. GoesOn => GoesOn'
      BY <1>1, <1>4, <2>2, <3>1, <3>2 DEF GoesOn, tool, past
    <3>4. GoesNoFurther => GoesNoFurther'
      BY <1>1, <1>4, <2>2, <3>1, <3>2 DEF GoesNoFurther, tool, past
    <3> QED
      BY <1>1, <2>0, <3>3, <3>4 DEF StreamInv, FlashFollows, past
  <2>4. CASE line # NoLine
    <3>1. Head(out).cmd = "id"
      BY <1>1, <1>5, <2>4 DEF StreamInv, LineIsCut
    <3>2. t = <<>> => stage = "off"
      <4> SUFFICES ASSUME n = 1 PROVE stage = "off"
        BY <1>5
      <4>1. out[n].cut
        BY <1>1, <1>5
      <4> QED
        BY <1>1, <1>3, <4>1 DEF StreamInv, LinesFollow
    <3>3. GoesNoFurther'
      BY <1>1, <1>4, <2>2, <3>1, <3>2 DEF GoesNoFurther, tool
    <3>4. GoesOn'
      BY <3>3 DEF GoesNoFurther, GoesOn
    <3> QED
      BY <1>1, <2>0, <3>3, <3>4 DEF StreamInv, FlashFollows, past
  <2> QED
    BY <2>3, <2>4
<1>10. LaunchedIsWhole'
  BY <1>1 DEF StreamInv, LaunchedIsWhole, tool
<1> QED
  BY <1>2, <1>6, <1>7, <1>8, <1>9, <1>10 DEF StreamInv

\* The service goes, and with it all that was under way.
LEMMA GoneStep ==
  ASSUME StreamInv, Gone, UNCHANGED <<flash, passed, owner, told, spoilt, blob, next>>, faults' \in Nat,
         stage' = "off" \/ (stage' = stage /\ stage \notin {"erase", "write"})
  PROVE  StreamInv'
PROOF
<1>1. stream' = Closed /\ line' = NoLine /\ out' = <<>> /\ in' = <<>>
  BY DEF Gone
<1>2. LinesFollow'
  <2>1. <<>> \in Seq(Lines) /\ Len(<<>>) = 0
    BY EmptySeq
  <2> QED
    BY <1>1, <2>1, SizesAre DEF LinesFollow
<1>3. LineIsCut'
  BY <1>1 DEF LineIsCut
<1>4. ToolTyped'
  BY DEF StreamInv, ToolTyped, Stages
<1>5. LastSaid'
  BY <1>1 DEF LastSaid
<1>6. SumsAreOfThisRun' /\ SumIsOfTheFlash'
  <2>1. <<>> \in Seq({}) /\ Len(<<>>) = 0
    BY EmptySeq
  <2>2. IsList(<<>>)
    BY <2>1, SeqIsList
  <2>3. (\A cs : NoneOf(cs)') /\ (\A i : NoSumFrom(i)')
    BY <1>1, <2>1 DEF NoneOf, NoSumFrom
  <2>4. 1..Len(out') = {} /\ 1..Len(in') = {}
    BY <1>1, <2>1
  <2>5. SumsAreOfThisRun'
    BY <1>1, <2>2, <2>3, <2>4 DEF SumsAreOfThisRun
  <2>6. SumIsOfTheFlash'
    BY <1>1, <2>3, <2>4 DEF SumIsOfTheFlash
  <2> QED
    BY <2>5, <2>6
<1>7. FlashTyped'
  BY <1>1 DEF StreamInv, FlashTyped, Closed
<1>8. FlashFollows'
  <2>1. ~told => Held
    BY InOrderHeld DEF StreamInv, FlashFollows
  <2>2. Held => Held'
    BY DEF Held
  <2>3. Ahead' = NoLine
    BY <1>1 DEF Ahead
  <2>4. GoesNoFurther'
    BY <2>3, NoLineIs DEF GoesNoFurther
  <2> QED
    BY <2>1, <2>2, <2>4 DEF StreamInv, FlashFollows
<1>9. LaunchedIsWhole'
  BY DEF StreamInv, LaunchedIsWhole
<1> QED
  BY <1>2, <1>3, <1>4, <1>5, <1>6, <1>7, <1>8, <1>9 DEF StreamInv

\* Console `run': the service goes.
LEMMA RunStep ==
  ASSUME StreamInv, CmdRun PROVE StreamInv'
PROOF
<1>1. Say("run") \in Commands /\ Gone /\ UNCHANGED <<flash, tool, past>>
  BY DEF CmdRun
<1>2. out # <<>> /\ Head(out).cmd = "run"
  BY <1>1, WordIs DEF Commanded
<1>3. stage \notin {"erase", "write"}
  <2> SUFFICES ASSUME stage \in {"erase", "write"} PROVE FALSE
    OBVIOUS
  <2>1. NoneOf({"crc", "run"})
    BY DEF StreamInv, SumsAreOfThisRun
  <2>2. out \in Seq(Lines)
    BY DEF StreamInv, LinesFollow
  <2>3. Len(out) \in Nat /\ Len(out) >= 1 /\ Head(out) = out[1]
    BY <1>2, <2>2, SeqIsList, LenProperties
  <2>4. 1 \in 1..Len(out)
    BY <2>3
  <2> QED
    BY <1>2, <2>1, <2>3, <2>4 DEF NoneOf
<1>4. faults' \in Nat
  BY <1>1 DEF StreamInv, FlashTyped, past
<1>5. UNCHANGED <<flash, passed, owner, told, spoilt, blob, next, stage>>
  BY <1>1 DEF tool, past
<1> QED
  BY <1>1, <1>3, <1>4, <1>5, GoneStep

\* A reset.
LEMMA ResetStep ==
  ASSUME StreamInv, Reset PROVE StreamInv'
PROOF
<1>1. faults' \in Nat
  BY DEF StreamInv, FlashTyped, Reset
<1>2. Gone /\ UNCHANGED <<flash, passed, owner, told, spoilt, blob, next>> /\ stage' = "off"
  BY DEF Reset
<1> QED
  BY <1>1, <1>2, GoneStep

\* What an image launched is is left alone by all the tool says then.
LEMMA NotLaunched ==
  ASSUME StreamInv, out # <<>>, Head(out).cmd \in Commanded \ {"run"}
  PROVE  stage # "run"
PROOF
<1> SUFFICES ASSUME stage = "run" PROVE FALSE
  OBVIOUS
<1>1. NoneOf(Commanded \ {"run"})
  BY DEF StreamInv, SumIsOfTheFlash
<1>2. out \in Seq(Lines)
  BY DEF StreamInv, LinesFollow
<1>3. Len(out) \in Nat /\ Len(out) >= 1 /\ Head(out) = out[1]
  BY <1>2, SeqIsList, LenProperties
<1>4. 1 \in 1..Len(out)
  BY <1>3
<1> QED
  BY <1>1, <1>3, <1>4 DEF NoneOf

\* A command with an answer of one word.
LEMMA WordAnswered ==
  ASSUME StreamInv, out # <<>>, out' = Tail(out), line' = NoLine, UNCHANGED tool,
         NEW w, w \notin {"id", "crc"}, in' = Append(in, Told(w))
  PROVE  /\ LinesFollow' /\ LineIsCut' /\ ToolTyped' /\ LastSaid'
         /\ SumsAreOfThisRun' /\ SumIsOfTheFlash'
PROOF
<1>1. LinesFollow' /\ LineIsCut' /\ ToolTyped' /\ LastSaid'
  BY Dequeues DEF StreamInv
<1>2. PICK a : a = Told(w)
  OBVIOUS
<1>3. a.is = w
  BY <1>2 DEF Told, Answer
<1>4. Told("id").is = "id"
  BY DEF Told, Answer
<1>5. a.is # "crc" /\ a # Told("id")
  BY <1>3, <1>4
<1>6. SumsAreOfThisRun' /\ SumIsOfTheFlash'
  BY <1>2, <1>5, Answers DEF StreamInv
<1> QED
  BY <1>1, <1>6

\* Console `erase': everything begins anew, or an error has been told.
LEMMA EraseStep ==
  ASSUME StreamInv, CmdErase PROVE StreamInv'
PROOF
<1>1. PICK s : s = [stream EXCEPT !.open = FALSE]
  OBVIOUS
<1>2. /\ Say("erase") \in Commands /\ out' = Tail(out) /\ line' = NoLine /\ stream' = s
      /\ UNCHANGED <<tool, attempts>>
  BY <1>1 DEF CmdErase, Erases, Dispatch
<1>3. out # <<>> /\ line = NoLine /\ Head(out).cmd = "erase"
  BY <1>2, WordIs DEF Commanded
<1>4. stream' = [open |-> FALSE, addr |-> stream'.addr, buf |-> stream'.buf]
  <2>1. PICK o, a, b : o = stream.open /\ a = stream.addr /\ b = stream.buf
    OBVIOUS
  <2>2. stream = [open |-> o, addr |-> a, buf |-> b]
    BY <2>1 DEF StreamInv, FlashTyped
  <2>3. [[open |-> o, addr |-> a, buf |-> b] EXCEPT !.open = FALSE] = [open |-> FALSE, addr |-> a, buf |-> b]
    <3>1. \A x : [[open |-> o, addr |-> a, buf |-> b] EXCEPT !.open = x] = [open |-> x, addr |-> a, buf |-> b]
      OBVIOUS
    <3> QED
      BY ONLY <3>1, Zenon
  <2>4. stream' = [open |-> FALSE, addr |-> a, buf |-> b]
    BY <1>1, <1>2, <2>2, <2>3
  <2> QED
    BY <2>4
<1>5. stream'.open = FALSE
  BY <1>4
<1>6. stream' = [open |-> stream'.open, addr |-> stream'.addr, buf |-> stream'.buf]
  BY <1>4, <1>5
<1>7. stage' # "run"
  BY <1>2, <1>3, NotLaunched DEF Commanded, tool
<1>8. LaunchedIsWhole'
  BY <1>7 DEF LaunchedIsWhole
<1>9. CASE /\ flash' = Wiped /\ Says(Told("erased"))
           /\ passed' = 0 /\ owner' = Nothing /\ told' = FALSE /\ spoilt' = FALSE
           /\ UNCHANGED faults
  <2>1. /\ LinesFollow' /\ LineIsCut' /\ ToolTyped' /\ LastSaid'
        /\ SumsAreOfThisRun' /\ SumIsOfTheFlash'
    BY <1>2, <1>3, <1>9, WordAnswered DEF Says
  <2>2. FlashTyped'
    <3>1. flash' = [u \in Region |-> flash'[u]]
      BY <1>9 DEF Wiped
    <3>2. passed' \in 0..Size /\ faults' \in Nat
      BY <1>9, SizesAre DEF StreamInv, FlashTyped
    <3> QED
      BY <1>6, <1>9, <3>1, <3>2 DEF FlashTyped
  <2>3. InOrder'
    BY <1>5, <1>9 DEF InOrder, Wiped
  <2>4. GoesOn'
    <3>1. PICK h : h = Head(out)
      OBVIOUS
    <3>2. /\ h \in Lines /\ Meant(h)
          /\ out' # <<>> => Ahead' \in Lines /\ Meant(Ahead') /\ Follows(h, Ahead')
          /\ out' = <<>> =>
               /\ Ahead' = NoLine
               /\ stage \in {"id", "erase", "flush", "crc", "run"} => h.cmd = stage
               /\ stage = "write" /\ next = 0 => h.cmd = "erase"
               /\ stage = "write" /\ next # 0 => OfImage(h, blob) /\ next = End(h.off)
      BY <1>2, <1>3, <3>1, ComesNext DEF StreamInv
    <3>3. ASSUME Ahead'.cmd = "wr" PROVE Ahead'.off = 0 /\ \E g \in Blobs : OfImage(Ahead', g)
      <4>1. out' # <<>>
        BY <3>2, <3>3, NoLineIs
      <4> QED
        BY <1>3, <3>1, <3>2, <3>3, <4>1 DEF Follows, Meant, OfImage
    <3>4. Ahead'.cmd # "flush"
      <4>1. CASE out' = <<>>
        BY <3>2, <4>1, NoLineIs
      <4>2. CASE out' # <<>>
        BY <1>3, <3>1, <3>2, <4>2 DEF Follows
      <4> QED
        BY <4>1, <4>2
    <3>5. out' = <<>> /\ stage' = "write" => next' = 0
      BY <1>2, <1>3, <3>1, <3>2 DEF tool, OfImage
    <3> QED
      BY <1>9, <3>3, <3>4, <3>5 DEF GoesOn
  <2>5. FlashFollows'
    BY <1>9, <2>3, <2>4 DEF FlashFollows
  <2> QED
    BY <1>8, <2>1, <2>2, <2>5 DEF StreamInv
<1>10. CASE /\ faults < MaxFaults /\ faults' = faults + 1
            /\ flash' \in HalfWiped /\ Says(Told("not erased"))
            /\ told' = TRUE /\ spoilt' = TRUE
            /\ UNCHANGED <<passed, owner>>
  <2>1. /\ LinesFollow' /\ LineIsCut' /\ ToolTyped' /\ LastSaid'
        /\ SumsAreOfThisRun' /\ SumIsOfTheFlash'
    BY <1>2, <1>3, <1>10, WordAnswered DEF Says
  <2>2. flash' = [u \in Region |-> flash'[u]]
    <3>1. CASE flash' = flash
      BY <3>1 DEF StreamInv, FlashTyped
    <3>2. CASE \E n \in Region : flash' = [u \in Region |-> IF u < n THEN Erased ELSE IF u = n THEN Torn ELSE flash[u]]
      BY <3>2
    <3> QED
      BY <1>10, <3>1, <3>2 DEF HalfWiped
  <2>3. FlashTyped'
    <3>0. passed' = passed /\ owner' = owner /\ faults' = faults + 1
      BY <1>10
    <3>1. passed' \in 0..Size /\ (passed' # 0 => owner' \in Blobs) /\ faults' \in Nat
      BY ONLY <3>0, StreamInv DEF StreamInv, FlashTyped
    <3> QED
      BY ONLY <1>6, <2>2, <3>1 DEF FlashTyped
  <2>4. FlashFollows'
    BY <1>10 DEF FlashFollows
  <2> QED
    BY <1>8, <2>1, <2>3, <2>4 DEF StreamInv
<1> QED
  BY <1>9, <1>10 DEF CmdErase, Erases

\* Console `flush': behind a whole image there is nothing left to write.
LEMMA FlushStep ==
  ASSUME StreamInv, CmdFlush PROVE StreamInv'
PROOF
<1>1. /\ Say("flush") \in Commands /\ out' = Tail(out) /\ line' = NoLine /\ in' = Append(in, Told("flushed"))
      /\ UNCHANGED <<tool, passed, owner, attempts>>
  BY DEF CmdFlush, Dispatch, Says
<1>2. out # <<>> /\ line = NoLine /\ Head(out).cmd = "flush"
  BY <1>1, WordIs DEF Commanded
<1>3. /\ LinesFollow' /\ LineIsCut' /\ ToolTyped' /\ LastSaid'
      /\ SumsAreOfThisRun' /\ SumIsOfTheFlash'
  BY <1>1, <1>2, WordAnswered
<1>4. stage' # "run"
  BY <1>1, <1>2, NotLaunched DEF Commanded, tool
<1>5. LaunchedIsWhole'
  BY <1>4 DEF LaunchedIsWhole
<1>6. GoesNoFurther'
  BY <1>1, <1>2, NoneOfThemNext DEF StreamInv
<1>7. CASE ~(stream.open /\ stream.buf # <<>>)
  <2>1. UNCHANGED <<flash, stream, faults, told, spoilt>>
    BY <1>7 DEF CmdFlush
  <2>2. FlashTyped'
    BY <1>1, <2>1 DEF StreamInv, FlashTyped
  <2>3. GoesOn'
    BY <1>6 DEF GoesNoFurther, GoesOn
  <2>4. (InOrder => InOrder') /\ (Held => Held')
    BY <1>1, <2>1, KeepsOrder
  <2>5. FlashFollows'
    BY <1>6, <2>1, <2>3, <2>4 DEF StreamInv, FlashFollows
  <2> QED
    BY <1>3, <1>5, <2>2, <2>5 DEF StreamInv
<1>8. CASE stream.open /\ stream.buf # <<>>
  <2>1. PICK d : d = Padded(stream.buf)
    OBVIOUS
  <2>2. PICK w \in WriteUnit(flash, faults, stream.addr, d) :
          /\ flash' = w.flash /\ faults' = w.faults
          /\ stream' = Open(stream.addr + Unit, <<>>)
          /\ told' = (told \/ ~w.ok) /\ spoilt' = (spoilt \/ w.faults > faults)
    BY <1>8, <2>1 DEF CmdFlush
  <2>3. PICK m \in Nat : m = faults
    BY DEF StreamInv, FlashTyped
  <2>10. PICK k : k = stream.addr
    OBVIOUS
  <2>4. flash = [u \in Region |-> flash[u]]
    BY DEF StreamInv, FlashTyped
  <2>5. /\ w.flash = [u \in Region |-> w.flash[u]]
        /\ w.faults = m \/ w.faults = m + 1
        /\ \A u \in Region : u # k \div Unit => w.flash[u] = flash[u]
    <3>1. w \in WriteUnit(flash, m, k, d)
      BY <2>3, <2>10
    <3> QED
      BY ONLY <2>4, <3>1, m \in Nat, WriteUnitIs
  <2>6. FlashTyped'
    <3>1. flash' = [u \in Region |-> flash'[u]] /\ faults' \in Nat
      BY <2>2, <2>5
    <3>2. stream' = [open |-> stream'.open, addr |-> stream'.addr, buf |-> stream'.buf]
      BY <2>2 DEF Open
    <3>3. passed' \in 0..Size /\ (passed' # 0 => owner' \in Blobs)
      BY <1>1 DEF StreamInv, FlashTyped
    <3> QED
      BY ONLY <3>1, <3>2, <3>3 DEF FlashTyped
  <2>7. told
    <3> SUFFICES ASSUME ~told PROVE FALSE
      OBVIOUS
    <3>1. Ahead.cmd = "flush"
      BY <1>2 DEF Ahead
    <3>2. InOrder /\ passed = Size
      BY <3>1 DEF StreamInv, FlashFollows, GoesNoFurther, GoesOn
    <3>3. PICK n \in 0..Units : UnitsAre(n, flash, stream, passed, owner)
      BY <3>2, SizesAre DEF InOrder
    <3>4. PICK q \in Nat, p \in Nat \ {0}, z \in Nat : q = Units /\ p = Unit /\ z = Size /\ z = q * Unit
      BY SizesAre
    <3>5. n \in Nat /\ n <= q
      BY <3>4
    <3>6. ~(n < q)
      <4> SUFFICES ASSUME n < q PROVE FALSE
        OBVIOUS
      <4>1. (n + 1) * Unit <= q * Unit
        BY <3>5, UnitsRise
      <4>2. PICK y \in Nat : y = (n + 1) * Unit
        BY <3>5, UnitsGrow
      <4>3. z < y
        BY <3>2, <3>3, <3>4, <4>2 DEF UnitsAre
      <4> QED
        BY <3>4, <4>1, <4>2, <4>3
    <3>7. n = q
      BY <3>5, <3>6
    <3>8. stream = Open(z, Bytes(owner, z, z))
      BY <3>2, <3>3, <3>4, <3>7 DEF UnitsAre
    <3>9. owner \in Blobs
      BY <3>2, SizesAre DEF StreamInv, FlashTyped
    <3>10. AreBytes(Bytes(owner, z, z), owner, z, z - z)
      BY <3>4, <3>9, BytesAre
    <3>11. z - z = 0
      BY <3>4
    <3>12. stream.buf = <<>>
      BY <3>8, <3>10, <3>11 DEF Open, AreBytes
    <3> QED
      BY <1>8, <3>12
  <2>8. told' /\ spoilt'
    BY <2>2, <2>7 DEF StreamInv, FlashFollows
  <2>9. FlashFollows'
    BY <2>8 DEF FlashFollows
  <2> QED
    BY <1>3, <1>5, <2>6, <2>9 DEF StreamInv
<1> QED
  BY <1>7, <1>8

\* The lines of an image that come to be carried out.
LEMMA WrIs ==
  ASSUME StreamInv, NEW l \in Commands, l.cmd = "wr"
  PROVE  /\ out # <<>> /\ ~Head(out).cut
         /\ Ahead.cmd = "wr" /\ Ahead.off \in Nat /\ Ahead.off < Size
         /\ l.off \in 0..Ahead.off /\ l.data \in Seq(Byte) /\ Len(l.data) <= Chunk
         /\ l.data = <<>> \/ l.off = Ahead.off
         /\ \/ line = NoLine /\ l = Head(out) /\ Ahead = l /\ l \in Lines
            \/ line # NoLine /\ Head(out).cmd = "id"
PROOF
<1>1. /\ out # <<>> /\ ~Head(out).cut
      /\ \/ line = NoLine /\ l = Head(out)
         \/ /\ line # NoLine /\ line \in Lines /\ Meant(line) /\ Head(out).cmd = "id"
            /\ l = Say("?") \/ Shortened(l, line)
  BY CommandIs DEF StreamInv
<1>2. CASE line = NoLine /\ l = Head(out)
  <2>0. out \in Seq(Lines)
    BY DEF StreamInv, LinesFollow
  <2>1. Ahead = l
    BY <1>1, <1>2 DEF Ahead
  <2>2. l \in Lines /\ l = out[1] /\ 1 \in 1..Len(out)
    <3>1. l \in Lines /\ l = out[1] /\ Len(out) \in Nat /\ Len(out) >= 1
      BY <1>1, <1>2, <2>0, SeqIsList, LenProperties
    <3> QED
      BY <3>1
  <2>3. Meant(l)
    BY <2>2 DEF StreamInv, LinesFollow
  <2>4. PICK g \in Blobs : OfImage(l, g)
    BY <2>3 DEF Meant
  <2>5. PICK o \in Nat : o = l.off
    BY <2>2, SizesAre DEF Lines
  <2>6. PICK e \in Nat : e = End(o) /\ o <= e /\ e <= o + Chunk
    BY <2>4, <2>5, EndIs DEF OfImage
  <2>7. AreBytes(Bytes(g, o, e), g, o, e - o) /\ l.data = Bytes(g, o, e)
    BY <2>4, <2>5, <2>6, BytesAre DEF OfImage
  <2>8. l.data \in Seq(Byte) /\ Len(l.data) = e - o
    BY <2>7 DEF AreBytes
  <2>9. Len(l.data) <= Chunk
    BY <2>6, <2>8, SizesAre
  <2>10. o < Size /\ o \in 0..o
    BY <2>4, <2>5 DEF OfImage
  <2> QED
    BY <1>1, <1>2, <2>1, <2>2, <2>5, <2>8, <2>9, <2>10
<1>3. CASE line # NoLine /\ line \in Lines /\ Meant(line) /\ Head(out).cmd = "id" /\ (l = Say("?") \/ Shortened(l, line))
  <2>1. Ahead = line
    BY <1>3 DEF Ahead
  <2>2. Shortened(l, line)
    BY <1>3, SaidIs
  <2>3. line.off \in Nat /\ line.off < Size
    BY <1>3, <2>2, SizesAre DEF Lines, Meant, OfImage, Shortened
  <2> QED
    BY <1>1, <1>3, <2>1, <2>2, <2>3 DEF Shortened
<1> QED
  BY <1>1, <1>2, <1>3

\* Whatever the flash and the stream are, a line leaves them what they are by type.
LEMMA TakenTyped ==
  ASSUME FlashTyped, NEW l, NEW d, NEW s \in FollowOn(l), NEW t \in Take(s, d)
  PROVE  /\ t.faults \in Nat /\ t.flash = [u \in Region |-> t.flash[u]]
         /\ t.stream = [open |-> t.stream.open, addr |-> t.stream.addr, buf |-> t.stream.buf]
PROOF
<1>1. PICK m \in Nat : m = faults
  BY DEF FlashTyped
<1>2. flash = [u \in Region |-> flash[u]]
  BY DEF FlashTyped
<1>3. PICK y : y = Padded(stream.buf)
  OBVIOUS
<1>4. PICK k : k = stream.addr
  OBVIOUS
<1>5. \/ s = [flash |-> flash, stream |-> stream, faults |-> m]
      \/ \E w \in WriteUnit(flash, m, k, y) \union {[flash |-> flash, ok |-> TRUE, faults |-> m]} :
           s = [flash |-> w.flash, stream |-> Open(l.off, <<>>), faults |-> w.faults]
  BY <1>1, <1>3, <1>4 DEF FollowOn
<1>6. /\ s.faults \in Nat /\ s.flash = [u \in Region |-> s.flash[u]]
      /\ s.stream = [open |-> s.stream.open, addr |-> s.stream.addr, buf |-> s.stream.buf]
  <2>1. CASE s = [flash |-> flash, stream |-> stream, faults |-> m]
    <3>1. s.flash = flash /\ s.stream = stream /\ s.faults = m
      BY <2>1
    <3> QED
      BY <3>1 DEF FlashTyped
  <2>2. CASE \E w \in WriteUnit(flash, m, k, y) \union {[flash |-> flash, ok |-> TRUE, faults |-> m]} :
               s = [flash |-> w.flash, stream |-> Open(l.off, <<>>), faults |-> w.faults]
    <3>1. PICK w \in WriteUnit(flash, m, k, y) \union {[flash |-> flash, ok |-> TRUE, faults |-> m]} :
            s = [flash |-> w.flash, stream |-> Open(l.off, <<>>), faults |-> w.faults]
      BY <2>2
    <3>2. w.flash = [u \in Region |-> w.flash[u]] /\ (w.faults = m \/ w.faults = m + 1)
      <4>1. CASE w \in WriteUnit(flash, m, k, y)
        <5>1. /\ w.flash = [u \in Region |-> w.flash[u]]
              /\ w.faults = m \/ w.faults = m + 1
              /\ \A u \in Region : u # k \div Unit => w.flash[u] = flash[u]
          BY ONLY <1>2, <4>1, m \in Nat, WriteUnitIs
        <5> QED
          BY <5>1
      <4>2. CASE w = [flash |-> flash, ok |-> TRUE, faults |-> m]
        <5>1. w.flash = flash /\ w.faults = m
          BY <4>2
        <5> QED
          BY <1>2, <5>1
      <4> QED
        BY <4>1, <4>2
    <3>3. s.flash = w.flash /\ s.faults = w.faults /\ s.stream = Open(l.off, <<>>)
      BY <3>1
    <3> QED
      BY <3>2, <3>3 DEF Open
  <2> QED
    BY <1>5, <2>1, <2>2
<1>7. PICK x : x = s.stream.buf \o d
  OBVIOUS
<1>8. CASE Len(x) < Unit
  <2>1. t = [flash |-> s.flash, stream |-> [s.stream EXCEPT !.buf = x], ok |-> TRUE, faults |-> s.faults]
    BY <1>7, <1>8 DEF Take
  <2>2. t.flash = s.flash /\ t.faults = s.faults /\ t.stream = [s.stream EXCEPT !.buf = x]
    BY <2>1
  <2>3. t.stream = [open |-> t.stream.open, addr |-> t.stream.addr, buf |-> t.stream.buf]
    <3>1. PICK r : r = s.stream
      OBVIOUS
    <3>2. PICK o : o = r.open
      OBVIOUS
    <3>3. PICK a : a = r.addr
      OBVIOUS
    <3>4. PICK b : b = r.buf
      OBVIOUS
    <3>5. r = [open |-> o, addr |-> a, buf |-> b]
      BY <1>6, <3>1, <3>2, <3>3, <3>4
    <3>6. [[open |-> o, addr |-> a, buf |-> b] EXCEPT !.buf = x] = [open |-> o, addr |-> a, buf |-> x]
      OBVIOUS
    <3>7. t.stream = [open |-> o, addr |-> a, buf |-> x]
      BY <2>2, <3>1, <3>5, <3>6
    <3> QED
      BY <3>7
  <2> QED
    BY <1>6, <2>2, <2>3
<1>9. CASE ~(Len(x) < Unit)
  <2>1. PICK z : z = SubSeq(x, 1, Unit)
    OBVIOUS
  <2>2. PICK f : f = s.flash
    OBVIOUS
  <2>3. PICK v \in Nat : v = s.faults
    BY <1>6
  <2>4. PICK a : a = s.stream.addr
    OBVIOUS
  <2>5. PICK w \in WriteUnit(f, v, a, z) :
          t = [flash |-> w.flash, ok |-> w.ok, faults |-> w.faults,
               stream |-> IF w.ok THEN Open(a + Unit, SubSeq(x, Unit + 1, Len(x))) ELSE Closed]
    <3>1. t \in {[flash |-> w.flash, ok |-> w.ok, faults |-> w.faults,
                  stream |-> IF w.ok THEN Open(a + Unit, SubSeq(x, Unit + 1, Len(x))) ELSE Closed] :
                   w \in WriteUnit(f, v, a, z)}
      BY <1>7, <1>9, <2>1, <2>2, <2>3, <2>4 DEF Take
    <3> QED
      BY <3>1
  <2>6. f = [u \in Region |-> f[u]]
    BY <1>6, <2>2
  <2>7. /\ w.flash = [u \in Region |-> w.flash[u]]
        /\ w.faults = v \/ w.faults = v + 1
        /\ \A u \in Region : u # a \div Unit => w.flash[u] = f[u]
    <3>1. w \in WriteUnit(f, v, a, z)
      OBVIOUS
    <3> QED
      BY ONLY <2>6, <3>1, v \in Nat, WriteUnitIs
  <2>8. t.flash = w.flash /\ t.faults = w.faults
    BY <2>5
  <2>9. t.stream = IF w.ok THEN Open(a + Unit, SubSeq(x, Unit + 1, Len(x))) ELSE Closed
    BY <2>5
  <2>10. t.stream = [open |-> t.stream.open, addr |-> t.stream.addr, buf |-> t.stream.buf]
    <3>1. \A j, b : Open(j, b) = [open |-> Open(j, b).open, addr |-> Open(j, b).addr, buf |-> Open(j, b).buf]
      BY DEF Open
    <3>2. Closed = [open |-> Closed.open, addr |-> Closed.addr, buf |-> Closed.buf]
      BY DEF Closed
    <3>3. t.stream = Closed \/ \E j, b : t.stream = Open(j, b)
      BY <2>9, Zenon
    <3> QED
      BY ONLY <3>1, <3>2, <3>3, Zenon
  <2> QED
    BY <2>7, <2>8, <2>10
<1> QED
  BY <1>8, <1>9

\* A line of the image that was passed, or one that does not count.
LEMMA PassIs ==
  ASSUME FlashTyped, NEW l, l.off < Size, Pass(l)
  PROVE  \/ \E g \in Blobs : /\ l = Wr(g, passed) /\ passed < Size /\ (passed = 0 \/ g = owner)
                             /\ passed' = End(passed) /\ owner' = g
         \/ /\ UNCHANGED <<passed, owner>>
            /\ \A g \in Blobs : (passed = 0 \/ g = owner) => l # Wr(g, passed)
PROOF
<1>1. PICK p \in Nat : p = passed
  BY DEF FlashTyped
<1>2. CASE l \in {Wr(g, passed) : g \in IF passed = 0 THEN Blobs ELSE {owner}}
  <2>1. PICK g \in Blobs : l = Wr(g, p) /\ (passed = 0 \/ g = owner)
    BY <1>1, <1>2 DEF FlashTyped
  <2>2. l.off = p /\ l.data = Bytes(g, p, End(p))
    BY <1>1, <2>1 DEF Wr, Line, End
  <2>3. PICK e \in Nat : e = End(p) /\ p < e
    BY <1>1, <2>2, EndIs
  <2>4. AreBytes(l.data, g, p, e - p)
    BY <2>2, <2>3, BytesAre
  <2>5. 1 \in 1..(e - p) /\ p + 1 - 1 = p
    BY <2>3
  <2>6. Len(l.data) = e - p /\ l.data[1] = <<g, p>>
    <3>1. Len(l.data) = e - p /\ l.data[1] = <<g, p + 1 - 1>>
      BY <2>4, <2>5 DEF AreBytes
    <3> QED
      BY <2>5, <3>1
  <2>7. passed' = p + (e - p) /\ owner' = g
    BY <1>1, <1>2, <2>6 DEF Pass
  <2>8. passed' = e
    BY <2>3, <2>7
  <2> QED
    BY <1>1, <2>1, <2>2, <2>3, <2>7, <2>8
<1>3. CASE l \notin {Wr(g, passed) : g \in IF passed = 0 THEN Blobs ELSE {owner}}
  <2>1. UNCHANGED <<passed, owner>>
    BY <1>3 DEF Pass
  <2>2. ASSUME NEW g \in Blobs, passed = 0 \/ g = owner PROVE l # Wr(g, passed)
    BY <1>3, <2>2
  <2> QED
    BY <2>1, <2>2
<1> QED
  BY <1>2, <1>3

\* Two images with a line in common are one.
LEMMA OneImage ==
  ASSUME NEW l, l.off \in Nat, NEW g \in Blobs, NEW h \in Blobs, OfImage(l, g), OfImage(l, h)
  PROVE  g = h
PROOF
<1>1. PICK o \in Nat : o = l.off /\ o < Size
  BY DEF OfImage
<1>2. PICK e \in Nat : e = End(o) /\ o < e
  BY <1>1, EndIs
<1>3. Bytes(g, o, e) = Bytes(h, o, e)
  BY <1>1, <1>2 DEF OfImage
<1>4. AreBytes(Bytes(g, o, e), g, o, e - o)
  BY <1>2, BytesAre
<1>5. AreBytes(Bytes(h, o, e), h, o, e - o)
  BY <1>2, BytesAre
<1>6. 1 \in 1..(e - o)
  BY <1>2
<1>7. <<g, o + 1 - 1>> = <<h, o + 1 - 1>>
  BY <1>3, <1>4, <1>5, <1>6 DEF AreBytes
<1> QED
  BY <1>7

\* A line of the image in its place, with no error, keeps the order.
LEMMA WrInOrder ==
  ASSUME StreamInv, InOrder, NEW l, NEW g \in Blobs, l = Wr(g, passed), passed < Size, passed = 0 \/ g = owner,
         NEW s \in FollowOn(l), NEW t \in Take(s, l.data), t.ok,
         flash' = t.flash, stream' = t.stream, passed' = End(passed), owner' = g
  PROVE  InOrder'
PROOF
<1>1. PICK p \in Nat : p = passed /\ p < Size
  BY DEF StreamInv, FlashTyped
<1>2. PICK e \in Nat : e = End(p) /\ p < e
  BY <1>1, EndIs
<1>3. l.off = passed /\ l.data = Bytes(g, passed, e)
  BY <1>1, <1>2 DEF Wr, Line, End
<1>4. FlashTyped
  BY DEF StreamInv
<1>5. PICK n \in Nat : \E b : InPlace(s, n, b)
  BY <1>3, <1>4, FollowsOn
<1>6. PICK b : InPlace(s, n, b)
  BY <1>5
<1>7. PICK d : d = Bytes(g, passed, e)
  OBVIOUS
<1>8. t \in Take(s, d) /\ e = End(passed)
  BY <1>1, <1>2, <1>3, <1>7
<1>9. \E m \in 0..Units : UnitsAre(m, t.flash, t.stream, e, g)
  BY <1>4, <1>6, <1>7, <1>8, TakesOn
<1> QED
  BY <1>1, <1>2, <1>9 DEF InOrder

\* And the line behind it is the next one of that image, or the end of it.
LEMMA WrGoesOn ==
  ASSUME StreamInv, out # <<>>, out' = Tail(out), line' = NoLine, UNCHANGED tool,
         NEW g \in Blobs, Head(out) = Wr(g, passed), passed < Size, passed' = End(passed), owner' = g
  PROVE  GoesOn'
PROOF
<1>1. PICK p \in Nat, z \in Nat, c \in Nat : p = passed /\ z = Size /\ c = Chunk /\ p < z
  BY SizesAre DEF StreamInv, FlashTyped
<1>2. PICK e \in Nat : e = End(p) /\ (p + c <= z => e = p + c) /\ (p + c >= z => e = z)
  <2>1. End(p) \in Nat
    BY <1>1, EndIs, SizesAre
  <2>2. (p + Chunk <= Size => End(p) = p + Chunk) /\ (p + Chunk >= Size => End(p) = Size)
    BY <1>1, EndIs
  <2> QED
    BY <1>1, <2>1, <2>2
<1>3. PICK h : h = Head(out)
  OBVIOUS
<1>4. h.cmd = "wr" /\ h.off = p /\ OfImage(h, g)
  <2>1. h.cmd = "wr" /\ h.off = p /\ h.data = Bytes(g, p, End(p))
    BY <1>1, <1>3 DEF Wr, Line, End
  <2> QED
    BY <1>1, <2>1 DEF OfImage
<1>5. /\ h \in Lines /\ Meant(h)
      /\ out' # <<>> => Ahead' \in Lines /\ Meant(Ahead') /\ Follows(h, Ahead')
      /\ out' = <<>> =>
           /\ Ahead' = NoLine
           /\ stage \in {"id", "erase", "flush", "crc", "run"} => h.cmd = stage
           /\ stage = "write" /\ next = 0 => h.cmd = "erase"
           /\ stage = "write" /\ next # 0 => OfImage(h, blob) /\ next = End(h.off)
  BY <1>3, ComesNext DEF StreamInv
<1>6. passed' = e /\ owner' = g
  BY <1>1, <1>2
<1>7. CASE out' = <<>>
  <2>1. Ahead'.cmd \notin {"wr", "flush"}
    BY <1>5, <1>7, NoLineIs
  <2>2. stage' # "erase"
    BY <1>4, <1>5, <1>7 DEF tool
  <2>3. ASSUME stage' = "write" PROVE passed' = next' /\ owner' = blob'
    <3>1. OfImage(h, blob) /\ next = End(p)
      BY <1>4, <1>5, <1>7, <2>3 DEF tool
    <3>2. blob \in Blobs
      BY <2>3 DEF StreamInv, ToolTyped, tool
    <3>3. blob = g
      BY <1>4, <3>1, <3>2, OneImage
    <3> QED
      BY <1>2, <1>6, <3>1, <3>3 DEF tool
  <2> QED
    BY <2>1, <2>2, <2>3 DEF GoesOn
<1>8. CASE out' # <<>>
  <2>1. PICK a \in Lines : a = Ahead' /\ Follows(h, a)
    BY <1>5, <1>8
  <2>2. ASSUME a.cmd = "wr" PROVE a.off = e /\ OfImage(a, g)
    <3>1. a.off = p + c
      BY <1>1, <1>4, <2>1, <2>2 DEF Follows
    <3>2. PICK y \in Blobs : OfImage(h, y) /\ OfImage(a, y)
      BY <1>4, <2>1, <2>2 DEF Follows
    <3>3. y = g
      BY <1>4, <3>2, OneImage
    <3>4. a.off < z
      BY <1>1, <3>2 DEF OfImage
    <3> QED
      BY <1>2, <3>1, <3>2, <3>3, <3>4
  <2>3. ASSUME a.cmd = "flush" PROVE e = z
    <3>1. p + c >= z
      BY <1>1, <1>4, <2>1, <2>3 DEF Follows
    <3> QED
      BY <1>2, <3>1
  <2>4. Ahead'.cmd = "wr" => Ahead'.off = passed' /\ OfImage(Ahead', g)
    BY <1>6, <2>1, <2>2
  <2>5. Ahead'.cmd = "flush" => passed' = Size
    BY <1>1, <1>6, <2>1, <2>3
  <2> QED
    BY <1>6, <1>8, <2>4, <2>5 DEF GoesOn
<1> QED
  BY <1>7, <1>8

\* Console `wr': in order, in error, or the rest of a line that was cut.
LEMMA WrStep ==
  ASSUME StreamInv, CmdWr PROVE StreamInv'
PROOF
<1>1. PICK l \in Commands :
        /\ l.cmd = "wr" /\ Dispatch(l) /\ Pass(l) /\ UNCHANGED <<tool, attempts>>
        /\ \E s \in FollowOn(l) : \E t \in Take(s, l.data) :
             /\ flash' = t.flash /\ stream' = t.stream /\ faults' = t.faults
             /\ Says(Told(IF t.ok THEN "ok" ELSE "FAILED"))
             /\ told' = (told \/ ~t.ok) /\ spoilt' = (spoilt \/ t.faults > faults)
  BY DEF CmdWr
<1>2. PICK s \in FollowOn(l) : \E t \in Take(s, l.data) :
        /\ flash' = t.flash /\ stream' = t.stream /\ faults' = t.faults
        /\ Says(Told(IF t.ok THEN "ok" ELSE "FAILED"))
        /\ told' = (told \/ ~t.ok) /\ spoilt' = (spoilt \/ t.faults > faults)
  BY <1>1
<1>3. PICK t \in Take(s, l.data) :
        /\ flash' = t.flash /\ stream' = t.stream /\ faults' = t.faults
        /\ Says(Told(IF t.ok THEN "ok" ELSE "FAILED"))
        /\ told' = (told \/ ~t.ok) /\ spoilt' = (spoilt \/ t.faults > faults)
  BY <1>2
<1>4. /\ out # <<>> /\ ~Head(out).cut
      /\ Ahead.cmd = "wr" /\ Ahead.off \in Nat /\ Ahead.off < Size
      /\ l.off \in 0..Ahead.off /\ l.data \in Seq(Byte) /\ Len(l.data) <= Chunk
      /\ l.data = <<>> \/ l.off = Ahead.off
      /\ \/ line = NoLine /\ l = Head(out) /\ Ahead = l /\ l \in Lines
         \/ line # NoLine /\ Head(out).cmd = "id"
  BY <1>1, WrIs
<1>5. out' = Tail(out) /\ line' = NoLine
  BY <1>1 DEF Dispatch
<1>6. /\ LinesFollow' /\ LineIsCut' /\ ToolTyped' /\ LastSaid'
      /\ SumsAreOfThisRun' /\ SumIsOfTheFlash'
  <2>1. PICK w : w = IF t.ok THEN "ok" ELSE "FAILED"
    OBVIOUS
  <2>2. w \notin {"id", "crc"} /\ in' = Append(in, Told(w))
    BY <1>3, <2>1 DEF Says
  <2> QED
    BY <1>1, <1>4, <1>5, <2>2, WordAnswered
<1>7. LaunchedIsWhole'
  <2>1. Head(out).cmd \in Commanded \ {"run"}
    BY <1>1, <1>4 DEF Commanded
  <2>2. stage # "run"
    BY <1>4, <2>1, NotLaunched
  <2> QED
    BY <1>1, <2>2 DEF LaunchedIsWhole, tool
<1>8. l.off < Size
  <2>1. PICK y \in Nat : y = Ahead.off
    BY <1>4
  <2> QED
    BY <1>4, <2>1, SizesAre
<1>9. \/ \E g \in Blobs : /\ l = Wr(g, passed) /\ passed < Size /\ (passed = 0 \/ g = owner)
                          /\ passed' = End(passed) /\ owner' = g
      \/ /\ UNCHANGED <<passed, owner>>
         /\ \A g \in Blobs : (passed = 0 \/ g = owner) => l # Wr(g, passed)
  BY <1>1, <1>8, PassIs DEF StreamInv
<1>10. FlashTyped'
  <2>1. /\ t.faults \in Nat /\ t.flash = [u \in Region |-> t.flash[u]]
        /\ t.stream = [open |-> t.stream.open, addr |-> t.stream.addr, buf |-> t.stream.buf]
    <3>1. PICK d : d = l.data /\ t \in Take(s, d)
      OBVIOUS
    <3> QED
      BY <3>1, TakenTyped DEF StreamInv
  <2>2. /\ faults' \in Nat /\ flash' = [u \in Region |-> flash'[u]]
        /\ stream' = [open |-> stream'.open, addr |-> stream'.addr, buf |-> stream'.buf]
    BY <1>3, <2>1
  <2>3. passed' \in 0..Size /\ (passed' # 0 => owner' \in Blobs)
    <3>1. passed \in 0..Size /\ passed \in Nat /\ (passed # 0 => owner \in Blobs)
      BY SizesAre DEF StreamInv, FlashTyped
    <3>2. End(passed) \in 0..Size
      BY <3>1, EndIs
    <3> QED
      BY <1>9, <3>1, <3>2
  <2> QED
    BY ONLY <2>2, <2>3 DEF FlashTyped
<1>11. FlashFollows'
  <2>1. CASE told
    <3>1. told' /\ spoilt'
      BY <1>3, <2>1 DEF StreamInv, FlashFollows
    <3> QED
      BY <3>1 DEF FlashFollows
  <2>2. CASE ~told
    <3>0. InOrder /\ GoesOn
      BY <1>4, <2>2 DEF StreamInv, FlashFollows, GoesNoFurther
    <3>1. Ahead.off = passed /\ \E g \in Blobs : OfImage(Ahead, g) /\ (passed = 0 \/ g = owner)
      BY <1>4, <3>0 DEF GoesOn
    <3>2. passed < Size /\ l.off \in 0..passed /\ (l.data = <<>> \/ l.off = passed)
      BY <1>4, <3>1
    <3>3. /\ ~t.ok => t.faults > faults
          /\ \A u \in Region : (u + 1) * Unit <= passed => t.flash[u] = flash[u]
      BY <1>4, <3>0, <3>2, NoHarm DEF StreamInv
    <3>4. CASE ~t.ok
      <4>1. told' /\ spoilt'
        BY <1>3, <3>3, <3>4
      <4> QED
        BY <4>1 DEF FlashFollows
    <3>5. CASE t.ok /\ line # NoLine
      <4>1. GoesNoFurther'
        <5>1. Head(out).cmd \notin {"erase", "wr"}
          BY <1>4, <3>5
        <5> QED
          BY <1>1, <1>4, <1>5, <5>1, NoneOfThemNext DEF StreamInv
      <4>2. ~told'
        BY <1>3, <2>2, <3>5
      <4>3. GoesOn'
        BY <4>1 DEF GoesNoFurther, GoesOn
      <4>4. CASE UNCHANGED <<passed, owner>>
        <5>1. Held
          BY <3>0, InOrderHeld DEF StreamInv
        <5>2. Held'
          BY <1>3, <3>3, <4>4, <5>1 DEF Held
        <5> QED
          BY <4>1, <4>2, <5>2 DEF FlashFollows
      <4>5. CASE \E g \in Blobs : /\ l = Wr(g, passed) /\ passed < Size /\ (passed = 0 \/ g = owner)
                                  /\ passed' = End(passed) /\ owner' = g
        <5>1. InOrder'
          BY <1>3, <3>0, <3>5, <4>5, WrInOrder
        <5> QED
          BY <4>2, <4>3, <5>1 DEF FlashFollows
      <4> QED
        BY <1>9, <4>4, <4>5
    <3>6. CASE t.ok /\ line = NoLine
      <4>1. l = Head(out) /\ Ahead = l /\ l \in Lines
        BY <1>4, <3>6
      <4>2. PICK y \in Blobs : OfImage(l, y) /\ (passed = 0 \/ y = owner) /\ l.off = passed
        BY <3>1, <4>1
      <4>3. l = Wr(y, passed)
        <5>1. l = [cmd |-> l.cmd, off |-> l.off, data |-> l.data, cut |-> l.cut] /\ l.cut \in BOOLEAN
          BY <4>1 DEF Lines
        <5>2. l.cut = FALSE
          BY <1>4, <4>1, <5>1
        <5>3. l.cmd = "wr" /\ l.off = passed /\ l.data = Bytes(y, passed, Min({passed + Chunk, Size}))
          BY <4>2 DEF OfImage, End
        <5> QED
          BY ONLY <5>1, <5>2, <5>3 DEF Wr, Line
      <4>4. PICK g \in Blobs : /\ l = Wr(g, passed) /\ passed < Size /\ (passed = 0 \/ g = owner)
                               /\ passed' = End(passed) /\ owner' = g
        BY <1>9, <4>2, <4>3
      <4>5. InOrder'
        BY <1>3, <3>0, <3>6, <4>4, WrInOrder
      <4>6. GoesOn'
        <5>1. Head(out) = Wr(g, passed)
          BY <4>1, <4>4
        <5> QED
          BY <1>1, <1>4, <1>5, <4>4, <5>1, WrGoesOn
      <4>7. ~told'
        BY <1>3, <2>2, <3>6
      <4> QED
        BY <4>5, <4>6, <4>7 DEF FlashFollows
    <3> QED
      BY <3>4, <3>5, <3>6
  <2> QED
    BY <2>1, <2>2
<1> QED
  BY <1>6, <1>7, <1>10, <1>11 DEF StreamInv

\* A line said behind the others.
LEMMA Adds ==
  ASSUME LinesFollow, LineIsCut, NEW x \in Lines, Meant(x), ~x.cut, Len(out) < MaxAhead,
         out' = Append(out, x), UNCHANGED line,
         out # <<>> => Follows(out[Len(out)], x), line # NoLine /\ out = <<>> => x.cmd = "id"
  PROVE  /\ LinesFollow' /\ LineIsCut'
         /\ out' # <<>> /\ Len(out') = Len(out) + 1 /\ out'[Len(out) + 1] = x
         /\ \A i \in 1..Len(out) : out'[i] = out[i]
         /\ Ahead' = IF line = NoLine /\ out = <<>> THEN x ELSE Ahead
PROOF
<1>0. out \in Seq(Lines)
  BY DEF LinesFollow
<1>1. PICK n \in Nat : n = Len(out) /\ (out = <<>> <=> n = 0)
  BY <1>0, LenProperties, SeqIsList
<1>2. PICK r : r = Append(out, x)
  OBVIOUS
<1>3. r \in Seq(Lines) /\ Len(r) = n + 1 /\ (\A i \in 1..n : r[i] = out[i]) /\ r[n + 1] = x
  BY <1>0, <1>1, <1>2, AppendProperties
<1>4. r # <<>> /\ Head(r) = r[1]
  <2>1. r # <<>>
    BY <1>3, EmptySeq
  <2> QED
    BY <1>3, <2>1, SeqIsList
<1>5. LinesFollow'
  <2>1. out' \in Seq(Lines) /\ Len(out') <= MaxAhead
    BY <1>1, <1>2, <1>3, SizesAre
  <2>2. ASSUME NEW i \in 1..(n + 1) PROVE Meant(r[i])
    <3>1. CASE i = n + 1
      BY <1>3, <3>1
    <3>2. CASE i # n + 1
      <4>1. i \in 1..n
        BY <3>2
      <4>2. Meant(out[i])
        BY <1>1, <4>1 DEF LinesFollow
      <4> QED
        BY <1>3, <4>1, <4>2
    <3> QED
      BY <3>1, <3>2
  <2>3. ASSUME NEW i \in 1..(n + 1), i < n + 1 PROVE Follows(r[i], r[i + 1])
    <3>1. i \in 1..n
      BY <2>3
    <3>2. CASE i = n
      <4>1. Follows(out[n], x)
        BY <1>1, <3>1, <3>2
      <4> QED
        BY <1>3, <3>1, <3>2, <4>1
    <3>3. CASE i # n
      <4>1. i < n /\ i + 1 \in 1..n
        BY <3>1, <3>3
      <4>2. Follows(out[i], out[i + 1])
        BY <1>1, <3>1, <4>1 DEF LinesFollow
      <4> QED
        BY <1>3, <3>1, <4>1, <4>2
    <3> QED
      BY <3>2, <3>3
  <2>4. ~out'[Len(out')].cut
    BY <1>2, <1>3
  <2> QED
    BY <1>2, <1>3, <2>1, <2>2, <2>3, <2>4 DEF LinesFollow
<1>6. LineIsCut'
  <2>1. CASE line = NoLine
    BY <2>1 DEF LineIsCut
  <2>2. CASE line # NoLine
    <3>1. line \in Lines /\ line.cut /\ Meant(line) /\ IF out = <<>> THEN stage = "off" ELSE out[1].cmd = "id"
      BY <2>2 DEF LineIsCut
    <3>2. r[1].cmd = "id"
      <4>1. CASE out = <<>>
        <5>1. n + 1 = 1
          BY <1>1, <4>1
        <5> QED
          BY <1>3, <2>2, <4>1, <5>1
      <4>2. CASE out # <<>>
        <5>1. 1 \in 1..n
          BY <1>1, <4>2
        <5> QED
          BY <1>3, <3>1, <4>2, <5>1
      <4> QED
        BY <4>1, <4>2
    <3> QED
      BY <1>2, <1>4, <3>1, <3>2 DEF LineIsCut
  <2> QED
    BY <2>1, <2>2
<1>7. Ahead' = IF line = NoLine /\ out = <<>> THEN x ELSE Ahead
  <2>1. CASE line # NoLine
    BY <2>1 DEF Ahead
  <2>2. CASE line = NoLine /\ out = <<>>
    <3>1. Head(r) = x
      <4>1. n + 1 = 1
        BY <1>1, <2>2
      <4> QED
        BY <1>3, <1>4, <4>1
    <3> QED
      BY <1>2, <1>4, <2>2, <3>1 DEF Ahead
  <2>3. CASE line = NoLine /\ out # <<>>
    <3>1. Head(r) = Head(out)
      <4>1. 1 \in 1..n /\ Head(out) = out[1]
        BY <1>0, <1>1, <2>3, SeqIsList
      <4> QED
        BY <1>3, <1>4, <4>1
    <3> QED
      BY <1>2, <1>4, <2>3, <3>1 DEF Ahead
  <2> QED
    BY <2>1, <2>2, <2>3
<1> QED
  BY <1>1, <1>2, <1>3, <1>4, <1>5, <1>6, <1>7

\* Answers read, and perhaps some more lost.
LEMMA Reads ==
  ASSUME IsList(in), NEW n \in 0..Len(in), Drained(n)
  PROVE  /\ IsList(in')
         /\ \A i \in 1..(n + 1) : NoSumFrom(i) => NoSumFrom(1)'
PROOF
<1>1. PICK k \in Nat : k = Len(in)
  BY DEF IsList
<1>2. PICK m \in n..k : in' = SubSeq(in, m + 1, k)
  BY <1>1 DEF Drained
<1>3. m \in 0..k /\ n \in Nat /\ n <= m
  BY <1>1
<1>4. IsList(in') /\ Len(in') = k - m /\ \A i \in 1..(k - m) : in'[i] = in[m + i]
  BY <1>1, <1>2, <1>3, ListRest
<1>5. ASSUME NEW i \in 1..(n + 1), NoSumFrom(i) PROVE NoSumFrom(1)'
  <2>1. ASSUME NEW j \in 1..(k - m) PROVE in'[j].is # "crc"
    <3>1. m + j \in 1..k /\ m + j >= i
      BY <1>3
    <3>2. in[m + j].is # "crc"
      BY <1>1, <1>5, <3>1 DEF NoSumFrom
    <3> QED
      BY <1>4, <3>2
  <2> QED
    BY <1>4, <2>1 DEF NoSumFrom
<1> QED
  BY <1>4, <1>5

\* The tool stops: what it has said stands.
LEMMA OffStep ==
  ASSUME StreamInv, UNCHANGED <<board, out, blob, next, past>>, stage' = "off", IsList(in')
  PROVE  StreamInv'
PROOF
<1>1. LinesFollow' /\ LineIsCut'
  BY DEF StreamInv, LinesFollow, LineIsCut, board
<1>2. ToolTyped' /\ LastSaid' /\ SumIsOfTheFlash' /\ LaunchedIsWhole'
  BY DEF StreamInv, ToolTyped, Stages, LastSaid, SumIsOfTheFlash, LaunchedIsWhole
<1>3. SumsAreOfThisRun'
  BY DEF StreamInv, SumsAreOfThisRun
<1>4. FlashTyped'
  BY DEF StreamInv, FlashTyped, board, past
<1>5. FlashFollows'
  <2>1. (InOrder => InOrder') /\ (Held => Held')
    BY KeepsOrder DEF board, past
  <2>2. Ahead' = Ahead
    BY DEF Ahead, board
  <2>3. GoesOn => GoesOn'
    BY <2>2 DEF GoesOn, past
  <2>4. GoesNoFurther => GoesNoFurther'
    BY <2>2 DEF GoesNoFurther
  <2> QED
    BY <2>1, <2>3, <2>4 DEF StreamInv, FlashFollows, past
<1> QED
  BY <1>1, <1>2, <1>3, <1>4, <1>5 DEF StreamInv

\* The last line in a queue of a tool at work was not cut short, and none is pending behind
\* an empty one.
LEMMA AtWork ==
  ASSUME StreamInv, stage # "off"
  PROVE  /\ out # <<>> => /\ Len(out) \in 1..Len(out) /\ out[Len(out)] \in Lines
                          /\ Meant(out[Len(out)]) /\ ~out[Len(out)].cut
         /\ out = <<>> => line = NoLine
PROOF
<1>1. out \in Seq(Lines)
  BY DEF StreamInv, LinesFollow
<1>2. ASSUME out # <<>>
      PROVE  Len(out) \in 1..Len(out) /\ out[Len(out)] \in Lines /\ Meant(out[Len(out)]) /\ ~out[Len(out)].cut
  <2>1. PICK n \in Nat : n = Len(out) /\ n >= 1
    BY <1>1, <1>2, SeqIsList, LenProperties
  <2>2. n \in 1..n
    BY <2>1
  <2>3. out[n] \in Lines
    BY <1>1, <2>1, <2>2, SeqIsList
  <2>4. Meant(out[n])
    BY <2>1, <2>2 DEF StreamInv, LinesFollow
  <2>5. ~out[n].cut
    BY <1>2, <2>1 DEF StreamInv, LinesFollow
  <2> QED
    BY <2>1, <2>2, <2>3, <2>4, <2>5
<1>3. out = <<>> => line = NoLine
  BY DEF StreamInv, LineIsCut
<1> QED
  BY <1>2, <1>3

\* A word is a line.
LEMMA WordIsALine ==
  ASSUME NEW c \in Commanded \ {"wr"} PROVE Say(c) \in Lines /\ Meant(Say(c)) /\ ~Say(c).cut
PROOF
<1>1. <<>> \in Seq(Byte)
  BY EmptySeq
<1>2. 0 \in 0..Size
  BY SizesAre
<1>3. Say(c) \in Lines
  BY <1>1, <1>2 DEF Say, Line, Lines
<1>4. Meant(Say(c))
  BY SaidIs DEF Meant
<1> QED
  BY <1>3, <1>4, SaidIs

\* The next word of a tool at work.
LEMMA Asks ==
  ASSUME StreamInv, stage # "off", NEW c \in {"erase", "flush", "crc", "run"}, Ask(c),
         UNCHANGED <<board, blob, next, past>>,
         c = "erase" => next = 0, c = "flush" => stage = "write" /\ next = Size
  PROVE  /\ LinesFollow' /\ LineIsCut' /\ ToolTyped' /\ LastSaid' /\ FlashTyped' /\ FlashFollows'
         /\ out' # <<>> /\ Len(out') = Len(out) + 1 /\ out'[Len(out) + 1].cmd = c
         /\ \A i \in 1..Len(out) : out'[i] = out[i]
PROOF
<1>1. Room /\ out' = Append(out, Say(c)) /\ stage' = c
  BY DEF Ask
<1>2. PICK x : x = Say(c)
  OBVIOUS
<1>3. x \in Lines /\ Meant(x) /\ ~x.cut /\ x.cmd = c
  BY <1>2, WordIsALine, SaidIs DEF Commanded
<1>4. out # <<>> => Follows(out[Len(out)], x)
  <2> SUFFICES ASSUME out # <<>> PROVE Follows(out[Len(out)], x)
    OBVIOUS
  <2>1. ~out[Len(out)].cut
    BY AtWork
  <2>2. PICK y : y = out[Len(out)]
    OBVIOUS
  <2>3. c = "flush" => y.cmd = "wr" /\ y.off + Chunk >= Size
    <3> SUFFICES ASSUME c = "flush" PROVE y.cmd = "wr" /\ y.off + Chunk >= Size
      OBVIOUS
    <3>1. OfImage(y, blob) /\ Size = End(y.off)
      BY <2>2, SizesAre DEF StreamInv, LastSaid
    <3>2. y.off \in Nat
      BY <2>2, AtWork, SizesAre DEF Lines
    <3>3. PICK o \in Nat, k \in Nat, z \in Nat : o = y.off /\ k = Chunk /\ z = Size
      BY <3>2, SizesAre
    <3>4. o + k <= z => z = o + k
      BY <3>1, <3>3, EndIs
    <3> QED
      BY <3>1, <3>3, <3>4 DEF OfImage
  <2> QED
    BY <1>3, <2>1, <2>2, <2>3 DEF Follows
<1>5. line # NoLine /\ out = <<>> => x.cmd = "id"
  BY AtWork
<1>6. /\ LinesFollow' /\ LineIsCut'
      /\ out' # <<>> /\ Len(out') = Len(out) + 1 /\ out'[Len(out) + 1] = x
      /\ \A i \in 1..Len(out) : out'[i] = out[i]
      /\ Ahead' = IF line = NoLine /\ out = <<>> THEN x ELSE Ahead
  BY <1>1, <1>2, <1>3, <1>4, <1>5, Adds DEF StreamInv, Room, board
<1>7. ToolTyped'
  BY <1>1 DEF StreamInv, ToolTyped, Stages
<1>8. LastSaid'
  BY <1>1, <1>3, <1>6 DEF LastSaid
<1>9. FlashTyped'
  BY DEF StreamInv, FlashTyped, board, past
<1>10. FlashFollows'
  <2>1. (InOrder => InOrder') /\ (Held => Held')
    BY KeepsOrder DEF board, past
  <2>2. CASE out # <<>> \/ line # NoLine
    <3>1. Ahead' = Ahead
      BY <1>6, <2>2
    <3>2. GoesOn => GoesOn'
      BY <1>6, <3>1 DEF GoesOn, past
    <3>3. GoesNoFurther => GoesNoFurther'
      BY <1>6, <3>1 DEF GoesNoFurther
    <3> QED
      BY <2>1, <3>2, <3>3 DEF StreamInv, FlashFollows, past
  <2>3. CASE out = <<>> /\ line = NoLine
    <3>1. Ahead'.cmd = c
      BY <1>3, <1>6, <2>3
    <3>2. GoesOn => GoesOn'
      BY <1>6, <2>3, <3>1 DEF GoesOn, past
    <3>3. GoesNoFurther => GoesNoFurther'
      BY <1>6, <2>3, <3>1 DEF GoesNoFurther
    <3> QED
      BY <2>1, <3>2, <3>3 DEF StreamInv, FlashFollows, past
  <2> QED
    BY <2>2, <2>3
<1> QED
  BY <1>3, <1>6, <1>7, <1>8, <1>9, <1>10

\* What is not among the lines, nor the one said behind them.
LEMMA StillNoneAdded ==
  ASSUME NEW n \in Nat, n = Len(out), Len(out') = n + 1, \A i \in 1..n : out'[i] = out[i],
         NEW cs, NoneOf(cs), out'[n + 1].cmd \notin cs
  PROVE  NoneOf(cs)'
PROOF
<1>1. ASSUME NEW i \in 1..(n + 1) PROVE out'[i].cmd \notin cs
  <2>1. CASE i = n + 1
    BY <2>1
  <2>2. CASE i # n + 1
    <3>1. i \in 1..n
      BY <2>2
    <3> QED
      BY <3>1 DEF NoneOf
  <2> QED
    BY <2>1, <2>2
<1> QED
  BY <1>1 DEF NoneOf

\* The queues are queues.
LEMMA OutIs ==
  ASSUME StreamInv
  PROVE  /\ out \in Seq(Lines) /\ Len(out) \in Nat /\ Len(out) <= MaxAhead /\ (out = <<>> <=> Len(out) = 0)
         /\ IsList(in) /\ Len(in) \in Nat
PROOF
<1>1. out \in Seq(Lines) /\ Len(out) <= MaxAhead
  BY DEF StreamInv, LinesFollow
<1>2. Len(out) \in Nat /\ (out = <<>> <=> Len(out) = 0)
  BY <1>1, LenProperties, SeqIsList
<1>3. IsList(in) /\ Len(in) \in Nat
  BY DEF StreamInv, SumsAreOfThisRun, IsList
<1> QED
  BY <1>1, <1>2, <1>3

\* The tool begins, behind whatever was left of an earlier run.
LEMMA StartStep ==
  ASSUME StreamInv, Start PROVE StreamInv'
PROOF
<1>1. /\ Room /\ out' = Append(out, Say("id")) /\ stage' = "id" /\ in' = <<>> /\ next' = 0
      /\ blob' \in Blobs
      /\ UNCHANGED <<board, passed, owner, told, spoilt, faults>>
  BY DEF Start, Ask
<1>2. PICK x : x = Say("id")
  OBVIOUS
<1>3. x \in Lines /\ Meant(x) /\ ~x.cut /\ x.cmd = "id"
  BY <1>2, WordIsALine, SaidIs DEF Commanded
<1>4. \A a : Follows(a, x)
  BY <1>3 DEF Follows
<1>5. /\ LinesFollow' /\ LineIsCut'
      /\ out' # <<>> /\ Len(out') = Len(out) + 1 /\ out'[Len(out) + 1] = x
      /\ \A i \in 1..Len(out) : out'[i] = out[i]
      /\ Ahead' = IF line = NoLine /\ out = <<>> THEN x ELSE Ahead
  BY <1>1, <1>2, <1>3, <1>4, Adds DEF StreamInv, Room, board
<1>6. ToolTyped'
  BY <1>1, SizesAre DEF ToolTyped, Stages
<1>7. LastSaid'
  BY <1>1, <1>3, <1>5 DEF LastSaid
<1>8. PICK n \in Nat : n = Len(out)
  BY OutIs
<1>9. SumsAreOfThisRun'
  <2>1. IsList(in') /\ Len(in') = 0
    <3>1. <<>> \in Seq({}) /\ Len(<<>>) = 0
      BY EmptySeq
    <3>2. IsList(<<>>)
      BY <3>1, SeqIsList
    <3> QED
      BY <1>1, <3>1, <3>2
  <2>2. ASSUME NEW i \in 1..(n + 1), NEW j \in 1..(n + 1), i < j, out'[i].cmd = "id"
        PROVE  out'[j].cmd \notin {"crc", "run"}
    <3>1. CASE j = n + 1
      BY <1>3, <1>5, <1>8, <3>1
    <3>2. CASE j # n + 1
      <4>1. i \in 1..n /\ j \in 1..n
        BY <2>2, <3>2
      <4> QED
        BY <1>5, <1>8, <2>2, <4>1 DEF StreamInv, SumsAreOfThisRun
    <3> QED
      BY <3>1, <3>2
  <2>3. 1..Len(in') = {}
    BY <2>1
  <2> QED
    BY <1>1, <1>5, <1>8, <2>1, <2>2, <2>3 DEF SumsAreOfThisRun
<1>10. SumIsOfTheFlash' /\ LaunchedIsWhole'
  BY <1>1 DEF SumIsOfTheFlash, LaunchedIsWhole
<1>11. FlashTyped'
  BY <1>1 DEF StreamInv, FlashTyped, board
<1>12. FlashFollows'
  <2>1. (InOrder => InOrder') /\ (Held => Held')
    BY <1>1, KeepsOrder DEF board
  <2>2. Ahead' = Ahead \/ Ahead'.cmd = "id"
    BY <1>3, <1>5
  <2>3. GoesOn => GoesOn'
    BY <1>1, <1>5, <2>2 DEF GoesOn
  <2>4. GoesNoFurther => GoesNoFurther'
    BY <1>1, <1>5, <2>2 DEF GoesNoFurther
  <2> QED
    BY <1>1, <2>1, <2>3, <2>4 DEF StreamInv, FlashFollows
<1> QED
  BY <1>5, <1>6, <1>7, <1>9, <1>10, <1>11, <1>12 DEF StreamInv

\* It has been told who is there.
LEMMA ToldIdStep ==
  ASSUME StreamInv, ToldId PROVE StreamInv'
PROOF
<1>1. PICK n \in 0..Len(in) :
        IF Told("id") \in Heard(n) THEN Ask("erase") /\ Drained(n) ELSE Off /\ Drained(n)
  BY DEF ToldId, Hears
<1>2. stage = "id" /\ UNCHANGED <<board, blob, next, sent, past>>
  BY DEF ToldId, Hears
<1>3. /\ IsList(in')
      /\ \A i \in 1..(n + 1) : NoSumFrom(i) => NoSumFrom(1)'
  BY <1>1, OutIs, Reads
<1>4. CASE Told("id") \in Heard(n)
  <2>1. Ask("erase") /\ next = 0
    BY <1>1, <1>2, <1>4 DEF StreamInv, ToolTyped
  <2>2. /\ LinesFollow' /\ LineIsCut' /\ ToolTyped' /\ LastSaid' /\ FlashTyped' /\ FlashFollows'
        /\ out' # <<>> /\ Len(out') = Len(out) + 1 /\ out'[Len(out) + 1].cmd = "erase"
        /\ \A i \in 1..Len(out) : out'[i] = out[i]
    BY <1>2, <2>1, Asks
  <2>3. PICK i \in 1..n : in[i] = Told("id")
    BY <1>4 DEF Heard
  <2>4. PICK k \in Nat : k = Len(in) /\ n \in 0..k
    BY OutIs
  <2>5. i \in 1..Len(in) /\ i \in 1..(n + 1)
    BY <2>4
  <2>6. NoSumFrom(i) /\ NoneOf({"crc", "run"})
    BY <1>2, <2>3, <2>5 DEF StreamInv, SumsAreOfThisRun
  <2>7. NoSumFrom(1)'
    BY <1>3, <2>5, <2>6
  <2>8. PICK m \in Nat : m = Len(out)
    BY OutIs
  <2>9. NoneOf({"crc", "run"})'
    BY <2>2, <2>6, <2>8, StillNoneAdded
  <2>10. \A j \in 1..Len(out') : out'[j].cmd \notin {"crc", "run"}
    BY <2>9 DEF NoneOf
  <2>11. stage' = "erase"
    BY <2>1 DEF Ask
  <2>12. SumsAreOfThisRun'
    BY <1>3, <2>7, <2>9, <2>10, <2>11 DEF SumsAreOfThisRun
  <2>13. SumIsOfTheFlash' /\ LaunchedIsWhole'
    BY <2>11 DEF SumIsOfTheFlash, LaunchedIsWhole
  <2> QED
    BY <2>2, <2>12, <2>13 DEF StreamInv
<1>5. CASE Told("id") \notin Heard(n)
  <2>1. stage' = "off" /\ UNCHANGED <<blob, next, sent, out>>
    BY <1>1, <1>5 DEF Off
  <2> QED
    BY <1>2, <1>3, <2>1, OffStep
<1> QED
  BY <1>4, <1>5

\* It has been told of the erasure.
LEMMA ToldErasedStep ==
  ASSUME StreamInv, ToldErased PROVE StreamInv'
PROOF
<1>1. stage = "erase" /\ UNCHANGED <<board, out, blob, next, sent, past>>
  BY DEF ToldErased
<1>2. PICK n \in 0..Len(in) :
        /\ stage' = IF Told("erased") \in Heard(n) THEN "write" ELSE "off"
        /\ in' = SubSeq(in, n + 1, Len(in))
  BY DEF ToldErased
<1>3. Drained(n)
  <2>1. n \in n..Len(in)
    BY OutIs
  <2> QED
    BY <1>2, <2>1 DEF Drained
<1>4. /\ IsList(in')
      /\ \A i \in 1..(n + 1) : NoSumFrom(i) => NoSumFrom(1)'
  BY <1>3, OutIs, Reads
<1>5. CASE stage' = "off"
  BY <1>1, <1>4, <1>5, OffStep
<1>6. CASE stage' = "write"
  <2>1. LinesFollow' /\ LineIsCut'
    BY <1>1, <1>6 DEF StreamInv, LinesFollow, LineIsCut, board
  <2>2. next = 0 /\ blob \in Blobs
    BY <1>1 DEF StreamInv, ToolTyped
  <2>3. ToolTyped' /\ LastSaid'
    BY <1>1, <1>6, <2>2, SizesAre DEF StreamInv, ToolTyped, LastSaid, Stages
  <2>4. NoSumFrom(1) /\ NoneOf({"crc", "run"})
    BY <1>1 DEF StreamInv, SumsAreOfThisRun
  <2>5. NoSumFrom(1)' /\ NoneOf({"crc", "run"})'
    <3>1. 1 \in 1..(n + 1)
      BY OutIs
    <3>2. NoneOf({"crc", "run"})'
      BY <1>1, <2>4 DEF NoneOf
    <3> QED
      BY <1>4, <2>4, <3>1, <3>2
  <2>6. ASSUME NEW i \in 1..Len(out') PROVE next' <= (Len(out') - i) * Chunk
    <3>1. PICK k \in Nat, c \in Nat : k = Len(out) /\ c = Chunk
      BY OutIs, SizesAre
    <3>2. k - i \in Nat
      BY <1>1, <3>1
    <3>3. PICK d \in Nat : d = k - i
      BY <3>2
    <3>4. 0 <= d * c
      BY ONLY d \in Nat, c \in Nat
    <3> QED
      BY <1>1, <2>2, <3>1, <3>3, <3>4
  <2>7. SumsAreOfThisRun'
    <3>1. \A i \in 1..Len(out') : out'[i].cmd \notin {"crc", "run"}
      BY <2>5 DEF NoneOf
    <3> QED
      BY <1>4, <1>6, <2>5, <2>6, <3>1 DEF SumsAreOfThisRun
  <2>8. SumIsOfTheFlash' /\ LaunchedIsWhole'
    BY <1>6 DEF SumIsOfTheFlash, LaunchedIsWhole
  <2>9. FlashTyped'
    BY <1>1 DEF StreamInv, FlashTyped, board, past
  <2>10. FlashFollows'
    <3>1. (InOrder => InOrder') /\ (Held => Held')
      BY <1>1, KeepsOrder DEF board, past
    <3>2. Ahead' = Ahead
      BY <1>1 DEF Ahead, board
    <3>3. GoesOn => GoesOn'
      BY <1>1, <1>6, <2>2, <3>2 DEF GoesOn, past
    <3>4. GoesNoFurther => GoesNoFurther'
      BY <1>1, <3>2 DEF GoesNoFurther
    <3> QED
      BY <1>1, <3>1, <3>3, <3>4 DEF StreamInv, FlashFollows, past
  <2> QED
    BY <2>1, <2>3, <2>7, <2>8, <2>9, <2>10 DEF StreamInv
<1> QED
  BY <1>2, <1>5, <1>6

\* It sends a line of its image, which follows the last one.
LEMMA SendLineStep ==
  ASSUME StreamInv, SendLine PROVE StreamInv'
PROOF
<1>1. /\ stage = "write" /\ next < Size /\ Room
      /\ out' = Append(out, Wr(blob, next)) /\ next' = Min({next + Chunk, Size})
      /\ UNCHANGED <<board, in, stage, blob, past>>
  BY DEF SendLine
<1>2. PICK p \in Nat, z \in Nat, c \in Nat : p = next /\ z = Size /\ c = Chunk /\ p < z
  BY <1>1, SizesAre DEF StreamInv, ToolTyped
<1>3. PICK e \in 0..Size : e = End(p) /\ p < e /\ e <= p + c /\ next' = e
  <2>1. End(p) \in 0..Size /\ p < End(p) /\ End(p) <= p + c
    BY <1>2, EndIs
  <2> QED
    BY <1>1, <1>2, <2>1 DEF End
<1>4. blob \in Blobs
  BY <1>1 DEF StreamInv, ToolTyped
<1>5. PICK x : x = Wr(blob, next)
  OBVIOUS
<1>6. /\ x.cmd = "wr" /\ x.off = p /\ x.data = Bytes(blob, p, e) /\ ~x.cut /\ x \in Lines
      /\ OfImage(x, blob) /\ Meant(x)
  <2>1. x = [cmd |-> "wr", off |-> p, data |-> Bytes(blob, p, e), cut |-> FALSE]
    BY <1>2, <1>3, <1>5 DEF Wr, Line, End
  <2>2. AreBytes(Bytes(blob, p, e), blob, p, e - p)
    BY <1>3, <1>4, BytesAre, SizesAre
  <2>3. Bytes(blob, p, e) \in Seq(Byte)
    BY <2>2 DEF AreBytes
  <2>4. p \in 0..Size
    BY <1>2
  <2>5. x \in Lines
    BY <2>1, <2>3, <2>4 DEF Lines, Commanded
  <2>6. x.cmd = "wr" /\ x.off = p /\ x.data = Bytes(blob, p, e) /\ ~x.cut
    BY <2>1
  <2>7. OfImage(x, blob)
    BY <1>2, <1>3, <2>6 DEF OfImage
  <2> QED
    BY <1>4, <2>5, <2>6, <2>7 DEF Meant
<1>7. out # <<>> => Follows(out[Len(out)], x)
  <2> SUFFICES ASSUME out # <<>> PROVE Follows(out[Len(out)], x)
    OBVIOUS
  <2>1. PICK y : y = out[Len(out)]
    OBVIOUS
  <2>2. y \in Lines /\ ~y.cut
    BY <1>1, <2>1, AtWork
  <2>3. CASE next = 0
    <3>1. y.cmd = "erase"
      BY <1>1, <2>1, <2>3 DEF StreamInv, LastSaid
    <3> QED
      BY <1>2, <1>6, <2>1, <2>2, <2>3, <3>1 DEF Follows
  <2>4. CASE next # 0
    <3>1. OfImage(y, blob) /\ p = End(y.off)
      BY <1>1, <1>2, <2>1, <2>4 DEF StreamInv, LastSaid
    <3>2. PICK o \in Nat : o = y.off
      BY <2>2, SizesAre DEF Lines
    <3>3. (o + c <= z => p = o + c) /\ (o + c >= z => p = z)
      BY <1>2, <3>1, <3>2, EndIs
    <3>4. p = o + c
      BY <1>2, <3>3
    <3> QED
      BY <1>2, <1>4, <1>6, <2>1, <2>2, <3>1, <3>2, <3>4 DEF Follows
  <2> QED
    BY <2>3, <2>4
<1>8. line # NoLine /\ out = <<>> => x.cmd = "id"
  BY <1>1, AtWork
<1>9. /\ LinesFollow' /\ LineIsCut'
      /\ out' # <<>> /\ Len(out') = Len(out) + 1 /\ out'[Len(out) + 1] = x
      /\ \A i \in 1..Len(out) : out'[i] = out[i]
      /\ Ahead' = IF line = NoLine /\ out = <<>> THEN x ELSE Ahead
  BY <1>1, <1>5, <1>6, <1>7, <1>8, Adds DEF StreamInv, Room, board
<1>10. ToolTyped'
  BY <1>1, <1>3 DEF StreamInv, ToolTyped
<1>11. LastSaid'
  BY <1>1, <1>2, <1>3, <1>6, <1>9 DEF LastSaid
<1>12. PICK n \in Nat : n = Len(out)
  BY OutIs
<1>13. NoSumFrom(1)' /\ NoneOf({"crc", "run"})'
  <2>1. NoSumFrom(1) /\ NoneOf({"crc", "run"})
    BY <1>1 DEF StreamInv, SumsAreOfThisRun
  <2>2. NoSumFrom(1)'
    BY <1>1, <2>1 DEF NoSumFrom
  <2>3. out'[n + 1].cmd \notin {"crc", "run"}
    BY <1>6, <1>9, <1>12
  <2>4. NoneOf({"crc", "run"})'
    BY <1>9, <1>12, <2>1, <2>3, StillNoneAdded
  <2> QED
    BY <2>2, <2>4
<1>14. ASSUME NEW i \in 1..(n + 1), out'[i].cmd = "id" PROVE e <= ((n + 1) - i) * Chunk
  <2>1. i \in 1..n /\ out[i].cmd = "id"
    <3>1. i # n + 1
      BY <1>6, <1>9, <1>12, <1>14
    <3>2. i \in 1..n
      BY <3>1
    <3> QED
      BY <1>9, <1>12, <1>14, <3>2
  <2>2. PICK d \in Nat : d = n - i /\ (n + 1) - i = d + 1
    <3>1. n - i \in Nat /\ (n + 1) - i = (n - i) + 1
      BY <2>1
    <3> QED
      BY <3>1
  <2>3. p <= d * c
    BY <1>1, <1>2, <1>12, <2>1, <2>2 DEF StreamInv, SumsAreOfThisRun
  <2>4. (d + 1) * c = d * c + c /\ d * c \in Nat
    BY ONLY d \in Nat, c \in Nat
  <2>5. e <= (d + 1) * c
    BY <1>3, <2>3, <2>4, SizesAre
  <2> QED
    BY <1>2, <2>2, <2>5
<1>15. SumsAreOfThisRun'
  <2>1. \A i \in 1..Len(out') : out'[i].cmd \notin {"crc", "run"}
    BY <1>13 DEF NoneOf
  <2>2. IsList(in')
    BY <1>1, OutIs
  <2>3. stage' = "write" /\ next' = e /\ Len(out') = n + 1
    BY <1>1, <1>3, <1>9, <1>12
  <2> QED
    BY <1>13, <1>14, <2>1, <2>2, <2>3 DEF SumsAreOfThisRun
<1>16. SumIsOfTheFlash' /\ LaunchedIsWhole'
  BY <1>1 DEF SumIsOfTheFlash, LaunchedIsWhole
<1>17. FlashTyped'
  BY <1>1 DEF StreamInv, FlashTyped, board, past
<1>18. FlashFollows'
  <2>1. (InOrder => InOrder') /\ (Held => Held')
    BY <1>1, KeepsOrder DEF board, past
  <2>2. CASE out # <<>> \/ line # NoLine
    <3>1. Ahead' = Ahead
      BY <1>9, <2>2
    <3>2. GoesOn => GoesOn'
      BY <1>1, <1>9, <3>1 DEF GoesOn, past
    <3>3. GoesNoFurther => GoesNoFurther'
      BY <1>9, <3>1 DEF GoesNoFurther
    <3> QED
      BY <1>1, <2>1, <3>2, <3>3 DEF StreamInv, FlashFollows, past
  <2>3. CASE out = <<>> /\ line = NoLine
    <3>1. Ahead' = x
      BY <1>9, <2>3
    <3>2. GoesOn => GoesOn'
      BY <1>1, <1>2, <1>4, <1>6, <1>9, <2>3, <3>1 DEF GoesOn, past
    <3>3. ~GoesNoFurther
      BY <1>1, <2>3 DEF GoesNoFurther
    <3> QED
      BY <1>1, <2>1, <3>2, <3>3 DEF StreamInv, FlashFollows, past
  <2> QED
    BY <2>2, <2>3
<1> QED
  BY <1>9, <1>10, <1>11, <1>15, <1>16, <1>17, <1>18 DEF StreamInv

\* It reads the answers to a batch, or sees the end of its image.
LEMMA ReadBatchStep ==
  ASSUME StreamInv, ReadBatch PROVE StreamInv'
PROOF
<1>1. stage = "write" /\ UNCHANGED <<board, past>>
  BY DEF ReadBatch
<1>2. PICK n \in 0..Len(in) :
        \/ Off /\ Drained(n)
        \/ /\ sent' = 0 /\ in' = SubSeq(in, n + 1, Len(in))
           /\ UNCHANGED <<out, stage, blob, next>>
        \/ /\ next = Size /\ Ask("flush") /\ Drained(n)
           /\ UNCHANGED <<blob, next, sent>>
  BY DEF ReadBatch
<1>3. NoSumFrom(1) /\ NoneOf({"crc", "run"})
  BY <1>1 DEF StreamInv, SumsAreOfThisRun
<1>4. 1 \in 1..(n + 1)
  BY OutIs
<1>5. CASE Off /\ Drained(n)
  <2>1. IsList(in')
    BY <1>5, OutIs, Reads
  <2>2. stage' = "off" /\ UNCHANGED <<blob, next, sent, out>>
    BY <1>5 DEF Off
  <2> QED
    BY <1>1, <2>1, <2>2, OffStep
<1>6. CASE /\ sent' = 0 /\ in' = SubSeq(in, n + 1, Len(in))
           /\ UNCHANGED <<out, stage, blob, next>>
  <2>1. Drained(n)
    <3>1. n \in n..Len(in)
      BY OutIs
    <3> QED
      BY <1>6, <3>1 DEF Drained
  <2>2. IsList(in') /\ NoSumFrom(1)'
    BY <1>3, <1>4, <2>1, OutIs, Reads
  <2>3. NoneOf({"crc", "run"})'
    BY <1>3, <1>6 DEF NoneOf
  <2>4. LinesFollow' /\ LineIsCut' /\ ToolTyped' /\ LastSaid'
    BY <1>1, <1>6 DEF StreamInv, LinesFollow, LineIsCut, ToolTyped, LastSaid, board
  <2>5. SumsAreOfThisRun'
    <3>1. \A i \in 1..Len(out') : out'[i].cmd \notin {"crc", "run"}
      BY <2>3 DEF NoneOf
    <3>2. \A i \in 1..Len(out') : out'[i].cmd = "id" => next' <= (Len(out') - i) * Chunk
      BY <1>1, <1>6 DEF StreamInv, SumsAreOfThisRun
    <3> QED
      BY <1>1, <1>6, <2>2, <2>3, <3>1, <3>2 DEF SumsAreOfThisRun
  <2>6. SumIsOfTheFlash' /\ LaunchedIsWhole'
    BY <1>1, <1>6 DEF SumIsOfTheFlash, LaunchedIsWhole
  <2>7. FlashTyped'
    BY <1>1 DEF StreamInv, FlashTyped, board, past
  <2>8. FlashFollows'
    <3>1. (InOrder => InOrder') /\ (Held => Held')
      BY <1>1, KeepsOrder DEF board, past
    <3>2. Ahead' = Ahead
      BY <1>1, <1>6 DEF Ahead, board
    <3>3. GoesOn => GoesOn'
      BY <1>1, <1>6, <3>2 DEF GoesOn, past
    <3>4. GoesNoFurther => GoesNoFurther'
      BY <1>6, <3>2 DEF GoesNoFurther
    <3> QED
      BY <1>1, <3>1, <3>3, <3>4 DEF StreamInv, FlashFollows, past
  <2> QED
    BY <2>4, <2>5, <2>6, <2>7, <2>8 DEF StreamInv
<1>7. CASE /\ next = Size /\ Ask("flush") /\ Drained(n)
           /\ UNCHANGED <<blob, next, sent>>
  <2>1. /\ LinesFollow' /\ LineIsCut' /\ ToolTyped' /\ LastSaid' /\ FlashTyped' /\ FlashFollows'
        /\ out' # <<>> /\ Len(out') = Len(out) + 1 /\ out'[Len(out) + 1].cmd = "flush"
        /\ \A i \in 1..Len(out) : out'[i] = out[i]
    BY <1>1, <1>7, Asks
  <2>2. IsList(in') /\ NoSumFrom(1)'
    BY <1>3, <1>4, <1>7, OutIs, Reads
  <2>3. PICK m \in Nat : m = Len(out)
    BY OutIs
  <2>4. NoneOf({"crc", "run"})'
    BY <1>3, <2>1, <2>3, StillNoneAdded
  <2>5. NoneOf({"id"})
    <3>1. ASSUME NEW i \in 1..m, out[i].cmd = "id" PROVE FALSE
      <4>1. PICK c \in Nat, w \in Nat, z \in Nat : c = Chunk /\ w = MaxAhead /\ z = Size /\ w * c < z
        BY SizesAre
      <4>2. m <= w
        BY <2>3, <4>1, OutIs
      <4>3. PICK d \in Nat, r \in Nat : d = m - i /\ w = d + r
        <5>1. m - i \in Nat /\ w - (m - i) \in Nat /\ w = (m - i) + (w - (m - i))
          BY <4>2
        <5> QED
          BY <5>1
      <4>4. z <= d * c
        BY <1>1, <1>7, <2>3, <3>1, <4>1, <4>3 DEF StreamInv, SumsAreOfThisRun
      <4>5. (d + r) * c = d * c + r * c /\ d * c \in Nat /\ r * c \in Nat
        BY ONLY d \in Nat, r \in Nat, c \in Nat
      <4> QED
        BY <4>1, <4>3, <4>4, <4>5
    <3> QED
      BY <2>3, <3>1 DEF NoneOf
  <2>6. NoneOf({"id"})'
    BY <2>1, <2>3, <2>5, StillNoneAdded
  <2>7. stage' = "flush"
    BY <1>7 DEF Ask
  <2>8. SumsAreOfThisRun'
    <3>1. \A i \in 1..Len(out') : out'[i].cmd \notin {"crc", "run"}
      BY <2>4 DEF NoneOf
    <3> QED
      BY <2>2, <2>4, <2>6, <2>7, <3>1 DEF SumsAreOfThisRun
  <2>9. SumIsOfTheFlash' /\ LaunchedIsWhole'
    BY <2>7 DEF SumIsOfTheFlash, LaunchedIsWhole
  <2> QED
    BY <2>1, <2>8, <2>9 DEF StreamInv
<1> QED
  BY <1>2, <1>5, <1>6, <1>7

\* It asks for the checksum: no other is on its way.
LEMMA ToldFlushedStep ==
  ASSUME StreamInv, ToldFlushed PROVE StreamInv'
PROOF
<1>1. stage = "flush" /\ Ask("crc") /\ UNCHANGED <<board, blob, next, sent, past>>
  BY DEF ToldFlushed
<1>2. PICK n \in 0..Len(in) : Drained(n)
  BY DEF ToldFlushed
<1>3. /\ LinesFollow' /\ LineIsCut' /\ ToolTyped' /\ LastSaid' /\ FlashTyped' /\ FlashFollows'
      /\ out' # <<>> /\ Len(out') = Len(out) + 1 /\ out'[Len(out) + 1].cmd = "crc"
      /\ \A i \in 1..Len(out) : out'[i] = out[i]
  BY <1>1, Asks
<1>4. NoSumFrom(1) /\ NoneOf({"crc", "run"}) /\ NoneOf({"id"})
  BY <1>1 DEF StreamInv, SumsAreOfThisRun
<1>5. IsList(in') /\ NoSumFrom(1)'
  <2>1. 1 \in 1..(n + 1)
    BY OutIs
  <2> QED
    BY <1>2, <1>4, <2>1, OutIs, Reads
<1>6. PICK m \in Nat : m = Len(out)
  BY OutIs
<1>7. NoneOf({"id"})'
  BY <1>3, <1>4, <1>6, StillNoneAdded
<1>8. stage' = "crc"
  BY <1>1 DEF Ask
<1>9. SumsAreOfThisRun'
  <2>1. \A i \in 1..Len(out') : out'[i].cmd # "id"
    BY <1>7 DEF NoneOf
  <2> QED
    BY <1>5, <1>7, <1>8, <2>1 DEF SumsAreOfThisRun
<1>10. ASSUME NEW i \in 1..(m + 1), out'[i].cmd = "crc" PROVE i = m + 1
  <2> SUFFICES ASSUME i # m + 1 PROVE FALSE
    OBVIOUS
  <2>1. i \in 1..m
    OBVIOUS
  <2>2. out[i].cmd \notin {"crc", "run"}
    BY <1>4, <1>6, <2>1 DEF NoneOf
  <2> QED
    BY <1>3, <1>6, <1>10, <2>1, <2>2
<1>11. SumIsOfTheFlash' /\ LaunchedIsWhole'
  BY <1>3, <1>5, <1>6, <1>8, <1>10 DEF SumIsOfTheFlash, LaunchedIsWhole
<1> QED
  BY <1>3, <1>9, <1>11 DEF StreamInv

\* The checksum heard is of the flash, and of the image.
LEMMA ToldCrcStep ==
  ASSUME StreamInv, ToldCrc PROVE StreamInv'
PROOF
<1>1. stage = "crc" /\ UNCHANGED <<board, blob, next, sent, past>>
  BY DEF ToldCrc, Hears
<1>2. PICK n \in 0..Len(in) :
        IF Answer("crc", Whole(blob)) \in Heard(n) THEN Ask("run") /\ Drained(n) ELSE Off /\ Drained(n)
  BY DEF ToldCrc, Hears
<1>3. IsList(in')
  BY <1>2, OutIs, Reads
<1>4. CASE Answer("crc", Whole(blob)) \notin Heard(n)
  <2>1. stage' = "off" /\ UNCHANGED <<blob, next, sent, out>>
    BY <1>2, <1>4 DEF Off
  <2> QED
    BY <1>1, <1>3, <2>1, OffStep
<1>5. CASE Answer("crc", Whole(blob)) \in Heard(n)
  <2>1. Ask("run")
    BY <1>2, <1>5
  <2>2. /\ LinesFollow' /\ LineIsCut' /\ ToolTyped' /\ LastSaid' /\ FlashTyped' /\ FlashFollows'
        /\ out' # <<>> /\ Len(out') = Len(out) + 1 /\ out'[Len(out) + 1].cmd = "run"
        /\ \A i \in 1..Len(out) : out'[i] = out[i]
    BY <1>1, <2>1, Asks
  <2>3. PICK i \in 1..n : in[i] = Answer("crc", Whole(blob))
    BY <1>5 DEF Heard
  <2>4. i \in 1..Len(in) /\ i >= 1
    BY OutIs
  <2>5. in[i].is = "crc" /\ in[i].sum = Whole(blob)
    BY <2>3 DEF Answer
  <2>6. out = <<>>
    <3> SUFFICES ASSUME out # <<>> PROVE FALSE
      OBVIOUS
    <3>1. NoSumFrom(1)
      BY <1>1 DEF StreamInv, SumIsOfTheFlash
    <3> QED
      BY <2>4, <2>5, <3>1 DEF NoSumFrom
  <2>7. Whole(blob) = [u \in 1..Units |-> flash[u - 1]]
    BY <1>1, <2>4, <2>5, <2>6 DEF StreamInv, SumIsOfTheFlash
  <2>8. ASSUME NEW u \in Region PROVE flash[u] = Content(blob, u)
    <3>1. u \in Nat /\ u + 1 \in 1..Units /\ (u + 1) - 1 = u
      BY SizesAre DEF Region
    <3>2. Whole(blob)[u + 1] = Content(blob, (u + 1) - 1)
      BY <3>1 DEF Whole
    <3>3. Whole(blob)[u + 1] = flash[(u + 1) - 1]
      BY <2>7, <3>1
    <3> QED
      BY <3>1, <3>2, <3>3
  <2>9. LaunchedIsWhole'
    BY <1>1, <2>8 DEF LaunchedIsWhole, board
  <2>10. stage' = "run"
    BY <2>1 DEF Ask
  <2>11. Len(out) = 0 /\ Len(out') = 1 /\ out'[1].cmd = "run"
    BY <2>2, <2>6, OutIs
  <2>12. \A j \in 1..Len(out') : out'[j].cmd = "run"
    <3>1. \A j \in 1..1 : j = 1
      OBVIOUS
    <3> QED
      BY <2>11, <3>1
  <2>13. NoneOf({"id"})' /\ NoneOf(Commanded \ {"run"})'
    BY <2>12 DEF NoneOf
  <2>14. SumsAreOfThisRun'
    BY <1>3, <2>10, <2>12, <2>13 DEF SumsAreOfThisRun
  <2>15. SumIsOfTheFlash'
    BY <2>10, <2>13 DEF SumIsOfTheFlash
  <2> QED
    BY <2>2, <2>9, <2>14, <2>15 DEF StreamInv
<1> QED
  BY <1>4, <1>5

\* It is done.
LEMMA FinishStep ==
  ASSUME StreamInv, Finish PROVE StreamInv'
PROOF
<1>1. stage' = "off" /\ UNCHANGED <<blob, next, sent, out, board, in, past>>
  BY DEF Finish, Off
<1>2. IsList(in')
  BY <1>1, OutIs
<1> QED
  BY <1>1, <1>2, OffStep

\* The last line of the queue, cut short.
LEMMA CutLast ==
  ASSUME StreamInv, out # <<>>, NEW n \in Nat, n = Len(out), out' = [out EXCEPT ![n].cut = TRUE]
  PROVE  /\ out' \in Seq(Lines) /\ Len(out') = n /\ out' # <<>>
         /\ \A i \in 1..n : /\ out'[i].cmd = out[i].cmd /\ out'[i].off = out[i].off
                            /\ out'[i].data = out[i].data
                            /\ i < n => out'[i] = out[i]
PROOF
<1>1. out \in Seq(Lines)
  BY OutIs
<1>2. n \in 1..n
  <2>1. n >= 1
    BY <1>1, SeqIsList
  <2> QED
    BY <2>1
<1>3. PICK y \in Lines : y = out[n]
  BY <1>1, <1>2, SeqIsList
<1>4. y = [cmd |-> y.cmd, off |-> y.off, data |-> y.data, cut |-> y.cut]
  BY DEF Lines
<1>5. PICK x : x = [y EXCEPT !.cut = TRUE]
  OBVIOUS
<1>6. x = [cmd |-> y.cmd, off |-> y.off, data |-> y.data, cut |-> TRUE]
  <2>1. PICK c, o, d, k : c = y.cmd /\ o = y.off /\ d = y.data /\ k = y.cut
    OBVIOUS
  <2>2. \A v : [[cmd |-> c, off |-> o, data |-> d, cut |-> k] EXCEPT !.cut = v] = [cmd |-> c, off |-> o, data |-> d, cut |-> v]
    OBVIOUS
  <2>3. y = [cmd |-> c, off |-> o, data |-> d, cut |-> k]
    BY <1>4, <2>1
  <2>4. x = [cmd |-> c, off |-> o, data |-> d, cut |-> TRUE]
    BY ONLY <1>5, <2>2, <2>3, Zenon
  <2> QED
    BY <2>1, <2>4
<1>7. x \in Lines /\ x.cmd = y.cmd /\ x.off = y.off /\ x.data = y.data
  BY <1>6 DEF Lines
<1>8. out' = [out EXCEPT ![n] = x]
  BY <1>3, <1>5
<1>9. out = [i \in 1..n |-> out[i]]
  BY <1>1, SeqIsList DEF IsList
<1>10. out' = [i \in 1..n |-> IF i = n THEN x ELSE out[i]]
  BY <1>8, <1>9
<1>11. \A i \in 1..n : out[i] \in Lines
  BY <1>1, SeqIsList
<1>12. PICK r : r = out'
  OBVIOUS
<1>13. r \in [1..n -> Lines] /\ \A i \in 1..n : r[i] = IF i = n THEN x ELSE out[i]
  BY <1>7, <1>10, <1>11, <1>12
<1>14. r \in Seq(Lines) /\ Len(r) = n
  BY <1>13
<1>15. r # <<>>
  BY <1>2, <1>14, EmptySeq
<1>16. ASSUME NEW i \in 1..n
       PROVE  /\ r[i].cmd = out[i].cmd /\ r[i].off = out[i].off /\ r[i].data = out[i].data
              /\ i < n => r[i] = out[i]
  BY <1>3, <1>7, <1>13
<1> QED
  BY <1>12, <1>14, <1>15, <1>16

\* It is stopped, perhaps within a line: the queue is what it was but for that.
LEMMA StopStep ==
  ASSUME StreamInv, Stop PROVE StreamInv'
PROOF
<1>1. stage # "off" /\ stage' = "off" /\ UNCHANGED <<board, in, blob, next, sent, past>>
  BY DEF Stop
<1>2. IsList(in')
  BY <1>1, OutIs
<1>3. CASE out' = out
  BY <1>1, <1>2, <1>3, OffStep
<1>4. CASE out # <<>> /\ out' = [out EXCEPT ![Len(out)].cut = TRUE]
  <2>1. PICK n \in Nat : n = Len(out)
    BY OutIs
  <2>2. /\ out' \in Seq(Lines) /\ Len(out') = n /\ out' # <<>>
        /\ \A i \in 1..n : /\ out'[i].cmd = out[i].cmd /\ out'[i].off = out[i].off
                           /\ out'[i].data = out[i].data
                           /\ i < n => out'[i] = out[i]
    BY <1>4, <2>1, CutLast
  <2>3. \A i \in 1..n : \A g : OfImage(out[i], g) <=> OfImage(out'[i], g)
    BY <2>2 DEF OfImage
  <2>4. LinesFollow'
    <3>1. ASSUME NEW i \in 1..n PROVE Meant(out'[i])
      <4>1. Meant(out[i])
        BY <2>1 DEF StreamInv, LinesFollow
      <4> QED
        BY <2>2, <2>3, <4>1 DEF Meant
    <3>2. ASSUME NEW i \in 1..n, i < n PROVE Follows(out'[i], out'[i + 1])
      <4>1. i + 1 \in 1..n
        BY <3>2
      <4>2. Follows(out[i], out[i + 1])
        BY <2>1, <3>2 DEF StreamInv, LinesFollow
      <4>3. PICK a : a = out[i] /\ a = out'[i]
        BY <2>2, <3>2
      <4>4. PICK y : y = out[i + 1]
        OBVIOUS
      <4>5. PICK x : x = out'[i + 1]
        OBVIOUS
      <4>6. x.cmd = y.cmd /\ x.off = y.off /\ \A g : OfImage(y, g) <=> OfImage(x, g)
        BY <2>2, <2>3, <4>1, <4>4, <4>5
      <4>7. Follows(a, y)
        BY <4>2, <4>3, <4>4
      <4>8. Follows(a, x)
        BY <4>6, <4>7 DEF Follows
      <4> QED
        BY <4>3, <4>5, <4>8
    <3>3. Len(out') <= MaxAhead
      BY <2>1, <2>2, OutIs
    <3> QED
      BY <1>1, <2>2, <3>1, <3>2, <3>3 DEF LinesFollow
  <2>5. 1 \in 1..n /\ Head(out) = out[1] /\ Head(out') = out'[1]
    <3>1. n >= 1 /\ Head(out) = out[1]
      BY <1>4, <2>1, OutIs, SeqIsList
    <3>2. Head(out') = out'[1]
      BY <2>2, SeqIsList
    <3> QED
      BY <3>1, <3>2
  <2>6. LineIsCut'
    BY <1>1, <1>4, <2>2, <2>5 DEF StreamInv, LineIsCut, board
  <2>7. ToolTyped' /\ LastSaid' /\ SumIsOfTheFlash' /\ LaunchedIsWhole'
    BY <1>1 DEF StreamInv, ToolTyped, Stages, LastSaid, SumIsOfTheFlash, LaunchedIsWhole
  <2>8. SumsAreOfThisRun'
    <3>1. ASSUME NEW i \in 1..n, NEW j \in 1..n, i < j, out'[i].cmd = "id" PROVE out'[j].cmd \notin {"crc", "run"}
      BY <2>1, <2>2, <3>1 DEF StreamInv, SumsAreOfThisRun
    <3> QED
      BY <1>1, <1>2, <2>2, <3>1 DEF SumsAreOfThisRun
  <2>9. FlashTyped'
    BY <1>1 DEF StreamInv, FlashTyped, board, past
  <2>10. FlashFollows'
    <3>1. (InOrder => InOrder') /\ (Held => Held')
      BY <1>1, KeepsOrder DEF board, past
    <3>2. Ahead'.cmd = Ahead.cmd /\ Ahead'.off = Ahead.off /\ \A g : OfImage(Ahead, g) <=> OfImage(Ahead', g)
      <4>1. CASE line # NoLine
        <5>1. Ahead' = Ahead
          BY <1>1, <4>1 DEF Ahead, board
        <5> QED
          BY <5>1
      <4>2. CASE line = NoLine
        <5>1. Ahead = out[1] /\ Ahead' = out'[1]
          BY <1>1, <1>4, <2>2, <2>5, <4>2 DEF Ahead, board
        <5> QED
          BY <2>2, <2>3, <2>5, <5>1
      <4> QED
        BY <4>1, <4>2
    <3>3. GoesOn => GoesOn'
      BY <1>1, <2>2, <3>2 DEF GoesOn, past
    <3>4. GoesNoFurther => GoesNoFurther'
      BY <2>2, <3>2 DEF GoesNoFurther
    <3> QED
      BY <1>1, <3>1, <3>3, <3>4 DEF StreamInv, FlashFollows, past
  <2> QED
    BY <2>4, <2>6, <2>7, <2>8, <2>9, <2>10 DEF StreamInv
<1>5. out' = out \/ (out # <<>> /\ out' = [out EXCEPT ![Len(out)].cut = TRUE])
  <2>1. CASE out' = out
    BY <2>1
  <2>2. CASE out' # out
    <3>1. PICK n \in {1} \cap DOMAIN out : out' = [out EXCEPT ![Len(out)].cut = TRUE]
      BY <2>2 DEF Stop
    <3>2. DOMAIN out = 1..Len(out)
      BY OutIs DEF IsList
    <3>3. out # <<>>
      BY <3>1, <3>2, OutIs
    <3> QED
      BY <3>1, <3>3
  <2> QED
    BY <2>1, <2>2
<1> QED
  BY <1>3, <1>4, <1>5

\* Nothing happens.
LEMMA StutterStep ==
  ASSUME StreamInv, UNCHANGED streamVars PROVE StreamInv'
PROOF
<1>1. UNCHANGED <<flash, stream, line, out, in, stage, blob, next, passed, owner, told, spoilt, faults>>
  BY DEF streamVars, board, tool, past
<1>2. LinesFollow' /\ LineIsCut' /\ ToolTyped' /\ LastSaid'
  BY <1>1 DEF StreamInv, LinesFollow, LineIsCut, ToolTyped, LastSaid
<1>3. SumIsOfTheFlash' /\ LaunchedIsWhole'
  BY <1>1 DEF StreamInv, SumIsOfTheFlash, LaunchedIsWhole, NoSumFrom, NoneOf
<1>4. SumsAreOfThisRun'
  BY <1>1 DEF StreamInv, SumsAreOfThisRun, NoSumFrom, NoneOf
<1>5. FlashTyped'
  BY <1>1 DEF StreamInv, FlashTyped
<1>6. FlashFollows'
  <2>1. (InOrder => InOrder') /\ (Held => Held')
    BY <1>1, KeepsOrder
  <2>2. Ahead' = Ahead
    BY <1>1 DEF Ahead
  <2>3. GoesOn => GoesOn'
    BY <1>1, <2>2 DEF GoesOn
  <2>4. GoesNoFurther => GoesNoFurther'
    BY <1>1, <2>2 DEF GoesNoFurther
  <2> QED
    BY <1>1, <2>1, <2>3, <2>4 DEF StreamInv, FlashFollows
<1> QED
  BY <1>2, <1>3, <1>4, <1>5, <1>6 DEF StreamInv

\* All this is so of an empty queue and a stream that is closed.
LEMMA StreamStarts ==
  ASSUME StreamInit PROVE StreamInv
PROOF
<1>1. /\ flash = [u \in Region |-> flash[u]]
      /\ stream = Closed /\ line = NoLine /\ out = <<>> /\ in = <<>>
      /\ stage = "off" /\ next = 0 /\ passed = 0 /\ told = FALSE /\ spoilt = FALSE /\ faults = 0
  BY DEF StreamInit, Wiped
<1>2. LinesFollow
  <2>1. <<>> \in Seq(Lines) /\ Len(<<>>) = 0
    BY EmptySeq
  <2> QED
    BY <1>1, <2>1, SizesAre DEF LinesFollow
<1>3. LineIsCut /\ LastSaid /\ LaunchedIsWhole /\ ToolTyped
  BY <1>1, SizesAre DEF LineIsCut, LastSaid, LaunchedIsWhole, ToolTyped, Stages
<1>4. SumsAreOfThisRun /\ SumIsOfTheFlash
  <2>1. <<>> \in Seq({}) /\ Len(<<>>) = 0
    BY EmptySeq
  <2>2. IsList(in) /\ 1..Len(out) = {} /\ 1..Len(in) = {}
    <3>1. IsList(<<>>)
      BY <2>1, SeqIsList
    <3> QED
      BY <1>1, <2>1, <3>1
  <2>3. SumsAreOfThisRun
    BY <1>1, <2>2 DEF SumsAreOfThisRun
  <2>4. SumIsOfTheFlash
    BY <1>1 DEF SumIsOfTheFlash
  <2> QED
    BY <2>3, <2>4
<1>5. FlashTyped
  BY <1>1, SizesAre DEF FlashTyped, Closed
<1>6. FlashFollows
  <2>1. Ahead = NoLine
    BY <1>1 DEF Ahead
  <2>2. GoesNoFurther
    BY <1>1, <2>1, NoLineIs DEF GoesNoFurther
  <2>3. Held
    <3> SUFFICES ASSUME NEW u \in Region PROVE ~((u + 1) * Unit <= passed)
      BY DEF Held
    <3>1. u \in Nat
      BY DEF Region
    <3>2. PICK a \in Nat, p \in Nat \ {0} : a = u * Unit /\ p = Unit /\ (u + 1) * Unit = a + p
      BY <3>1, UnitsGrow, SizesAre
    <3> QED
      BY <1>1, <3>2
  <2> QED
    BY <1>1, <2>2, <2>3 DEF FlashFollows
<1> QED
  BY <1>2, <1>3, <1>4, <1>5, <1>6 DEF StreamInv

\* Whatever the tool and the board do, and whatever fails: the lines on their way follow one on
\* another, no checksum is taken for another, and what came in order since the last erasure is
\* in flash or in the stream, or an answer has said otherwise.
THEOREM StreamInvariant == StreamSpec => []StreamInv
PROOF
<1>1. StreamInit => StreamInv
  BY StreamStarts
<1>2. StreamInv /\ [StreamNext]_streamVars => StreamInv'
  <2> SUFFICES ASSUME StreamInv, [StreamNext]_streamVars PROVE StreamInv'
    OBVIOUS
  <2>1. CASE Serve
    <3>1. CASE Collect
      BY <3>1, CollectStep
    <3>2. CASE CmdId
      BY <3>2, IdStep
    <3>3. CASE CmdErase
      BY <3>3, EraseStep
    <3>4. CASE CmdWr
      BY <3>4, WrStep
    <3>5. CASE CmdFlush
      BY <3>5, FlushStep
    <3>6. CASE CmdCrc
      BY <3>6, CrcStep
    <3>7. CASE CmdRun
      BY <3>7, RunStep
    <3> QED
      BY <2>1, <3>1, <3>2, <3>3, <3>4, <3>5, <3>6, <3>7 DEF Serve
  <2>2. CASE Reset
    BY <2>2, ResetStep
  <2>3. CASE Flasher
    <3>1. CASE Start
      BY <3>1, StartStep
    <3>2. CASE ToldId
      BY <3>2, ToldIdStep
    <3>3. CASE ToldErased
      BY <3>3, ToldErasedStep
    <3>4. CASE SendLine
      BY <3>4, SendLineStep
    <3>5. CASE ReadBatch
      BY <3>5, ReadBatchStep
    <3>6. CASE ToldFlushed
      BY <3>6, ToldFlushedStep
    <3>7. CASE ToldCrc
      BY <3>7, ToldCrcStep
    <3>8. CASE Finish
      BY <3>8, FinishStep
    <3>9. CASE Stop
      BY <3>9, StopStep
    <3> QED
      BY <2>3, <3>1, <3>2, <3>3, <3>4, <3>5, <3>6, <3>7, <3>8, <3>9 DEF Flasher
  <2>4. CASE UNCHANGED streamVars
    BY <2>4, StutterStep
  <2> QED
    BY <2>1, <2>2, <2>3, <2>4 DEF StreamNext
<1> QED
  BY <1>1, <1>2, PTL DEF StreamSpec

\* What the answers and the tool say of the flash is so, for images of any number of units,
\* lines and batches of any size, any number of runs of the tool and any failures.
THEOREM FlashIsAsSaidHolds == StreamSpec => []FlashIsAsSaid
PROOF
<1>1. StreamInv => FlashIsAsSaid
  <2> SUFFICES ASSUME StreamInv PROVE FlashIsAsSaid
    OBVIOUS
  <2>1. ~told => Held
    BY InOrderHeld DEF StreamInv, FlashFollows
  <2>2. NothingLostUntold
    BY <2>1 DEF StreamInv, FlashFollows, Held, NothingLostUntold
  <2> QED
    BY <2>2 DEF StreamInv, FlashIsAsSaid
<1> QED
  BY <1>1, StreamInvariant, PTL
=============================================================================
