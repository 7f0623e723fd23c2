--------------------------- MODULE DfuDownloaderProofs ---------------------------
(***************************************************************************)
(* Proofs about DfuDownloader for every set of setups and jobs, every page *)
(* size and every width of wBlockNum: any number of units with any ids,    *)
(* any options, and whatever happens on the bus.                           *)
(*                                                                         *)
(* The inductive invariant is IInv, at the end: the types, how the handle  *)
(* is held, and where the device, the download and the unit stand in each  *)
(* phase.  Each part has a lemma for the step, which uses the other parts. *)
(* The runs of the controller rest on the lemmas of DfuControllerProofs,   *)
(* reached as P!...; those of Ctl!... are the same definitions.            *)
(***************************************************************************)
EXTENDS DfuDownloader, DfuDeviceProofs, FiniteSetTheorems, TLAPS

P == INSTANCE DfuControllerProofs

(* The assumptions, as the lemmas of DfuControllerProofs cite them.        *)
LEMMA Assumptions ==
  /\ Jobs \subseteq [total : Nat, suffix : Nat, wTransferSize : Nat,
                     bMaxPacketSize0 : Nat \ {0}, tolerant : BOOLEAN]
  /\ \A j \in Jobs : j.suffix <= j.total
  /\ BlockNums \in Nat \ {0}
BY ControllerAssumption
   DEF Ctl!JobsAssumption, Ctl!SuffixAssumption, Ctl!BlockNumsAssumption

(* The definitions of DfuController, instantiated here and there.          *)
LEMMA SameDevices ==
  /\ Devices = P!Devices /\ Ctl!Devices = P!Devices
  /\ HandedOver = P!HandedOver
<1> USE DEF AppStates, DfuStates, P!AppStates, P!DfuStates, Ctl!AppStates, Ctl!DfuStates
<1>1. Devices = P!Devices /\ Ctl!Devices = P!Devices
  BY DEF Devices, P!Devices, Ctl!Devices
<1>2. HandedOver = P!HandedOver
  BY DEF HandedOver, P!HandedOver, InError, P!InError
<1>3. QED  BY <1>1, <1>2

LEMMA SameBytes ==
  /\ Ctl!expected_size = P!expected_size
  /\ \A n : Ctl!FirstBytes(n) = P!FirstBytes(n)
  /\ Ctl!NoBlock = P!NoBlock
BY DEF Ctl!expected_size, P!expected_size, Ctl!FirstBytes, P!FirstBytes, Ctl!NoBlock, P!NoBlock

LEMMA SameTypeOK == (Ctl!TypeOK <=> P!TypeOK) /\ (Ctl!TypeOK' <=> P!TypeOK')
BY SameDevices, SameBytes DEF Ctl!TypeOK, P!TypeOK, Ctl!expected_size, P!expected_size

LEMMA SameDelivery == (Ctl!Delivery <=> P!Delivery) /\ (Ctl!Delivery' <=> P!Delivery')
<1> USE SameBytes DEF
      Ctl!Delivery, Ctl!Prefix, Ctl!PendingBlock, Ctl!Programming, Ctl!ErrorState,
      Ctl!BeforeFirst, Ctl!BetweenChunks, Ctl!WithinChunk, Ctl!AfterLast,
      P!Delivery, P!Prefix, P!PendingBlock, P!Programming, P!ErrorState,
      P!BeforeFirst, P!BetweenChunks, P!WithinChunk, P!AfterLast
<1>1. Ctl!Delivery <=> P!Delivery  OBVIOUS
<1>2. Ctl!Delivery' <=> P!Delivery'  BY DEF Ctl!expected_size, P!expected_size
<1>3. QED  BY <1>1, <1>2

LEMMA SameDeviceStep == Ctl!Device => P!Device
BY SameBytes DEF
  Ctl!Device, Ctl!DeviceProgram, Ctl!DeviceManifest, Ctl!DeviceFail, Ctl!Programming,
  Ctl!Manifesting, Ctl!Programmed, Ctl!Manifested, Ctl!InError, Ctl!hostVars,
  P!Device, P!DeviceProgram, P!DeviceManifest, P!DeviceFail, P!Programming,
  P!Manifesting, P!Programmed, P!Manifested, P!InError, P!hostVars

LEMMA SameRequests ==
  ASSUME NEW d
  PROVE  /\ Ctl!getStatus(d) = P!getStatus(d)
         /\ Ctl!download(d) = P!download(d)
         /\ Ctl!downloadEnd(d) = P!downloadEnd(d)
         /\ getStatus(d) = P!getStatus(d)
BY DEF
  getStatus, answer, Sync,
  Ctl!getStatus, Ctl!answer, Ctl!Sync, Ctl!download, Ctl!downloadEnd, Ctl!dfuXferOut,
  Ctl!AcceptsData, Ctl!AcceptsEnd, Ctl!TakeData, Ctl!TakeEnd, Ctl!Stall, Ctl!InError,
  Ctl!AppStates,
  P!getStatus, P!answer, P!Sync, P!download, P!downloadEnd, P!dfuXferOut,
  P!AcceptsData, P!AcceptsEnd, P!TakeData, P!TakeEnd, P!Stall, P!InError, P!AppStates

LEMMA SameHostStep == Ctl!Host => P!Host
<1>1. Ctl!Begin => P!Begin
  BY DEF Ctl!Begin, P!Begin, Ctl!getDefaultTransferSize, P!getDefaultTransferSize
<1>2. Ctl!SendChunk => P!SendChunk
  BY SameBytes, SameRequests DEF Ctl!SendChunk, Ctl!Receive, Ctl!AllSent, Ctl!NextSize, Ctl!NextTransaction,
      P!SendChunk, P!Receive, P!AllSent, P!NextSize, P!NextTransaction
<1>3. Ctl!PollChunk => P!PollChunk
  BY SameBytes, SameRequests DEF Ctl!PollChunk, Ctl!AfterPoll, Ctl!Percent,
      P!PollChunk, P!AfterPoll, P!Percent
<1>4. Ctl!SendCompletion => P!SendCompletion
  BY SameBytes, SameRequests DEF Ctl!SendCompletion, Ctl!AllSent, P!SendCompletion, P!AllSent
<1>5. Ctl!PollManifest => P!PollManifest
  BY SameRequests DEF Ctl!PollManifest, Ctl!AfterManifestPoll, Ctl!hostVars,
      P!PollManifest, P!AfterManifestPoll, P!hostVars
<1>6. QED  BY <1>1, <1>2, <1>3, <1>4, <1>5 DEF Ctl!Host, P!Host

LEMMA StepTypes == P!TypeOK /\ [P!Next]_(P!vars) => P!TypeOK'
BY P!NextTypeOK, Assumptions, PageSizeAssumption

-------------------------------------------------------------------------------
(* What happens on the bus concerns the units only.                        *)
LEMMA BusKeeps ==
  Bus => /\ UNCHANGED <<setup, phase, match_usbId, dif, first, runtime_usbId>>
         /\ UNCHANGED <<isOpen, isClaimed, runs, dev>>
         /\ UNCHANGED <<job, pc, transferSize, bytes_sent, chunk_size, transaction, progress,
                        block, image>>
<1> SUFFICES ASSUME NEW u, Reenumerate(u) \/ Vanish(u) \/ PlugOrUnplug(u)
             PROVE  UNCHANGED <<setup, phase, found, handle, runs, ctlVars, dev>>
  BY DEF Bus, found, handle, ctlVars
<1>1. \E unit : SetUnit(u, unit)  BY DEF Reenumerate, Vanish, PlugOrUnplug
<1>2. QED  BY <1>1 DEF SetUnit

(* Handles.                                                                *)
LEMMA NextHandles == HandleDiscipline /\ [Next]_vars => HandleDiscipline'
<1> SUFFICES ASSUME HandleDiscipline, [Next]_vars PROVE HandleDiscipline'  OBVIOUS
<1> USE DEF HandleDiscipline, Ended, Throw, Continue, handle
<1>1. CASE Search \/ SearchAgain  BY <1>1 DEF Search, SearchAgain, Select
<1>2. CASE Open \/ Reopen  BY <1>2 DEF Open, Reopen, openDevice
<1>3. CASE ClaimRuntime \/ Claim  BY <1>3 DEF ClaimRuntime, Claim, claimInterface
<1>4. CASE RuntimeStatus \/ ClearRuntime  BY <1>4 DEF RuntimeStatus, ClearRuntime, ReleaseTo
<1>5. CASE Detach \/ ResetRuntime  BY <1>5 DEF Detach, ResetRuntime
<1>6. CASE CloseRuntime \/ Close  BY <1>6 DEF CloseRuntime, Close, closeDevice
<1>7. CASE Status  BY <1>7 DEF Status, AfterStatus
<1>8. CASE ClearStatus \/ AbortPrevious \/ ClearOnce
  BY <1>8 DEF ClearStatus, AbortPrevious, ClearOnce, Request
<1>9. CASE CheckOnce \/ Identify  BY <1>9 DEF CheckOnce, Identify
<1>10. CASE RunDfuse \/ StartController \/ RunController \/ ControllerEnds
  BY <1>10 DEF RunDfuse, StartController, RunController, ControllerEnds, Downloaded
<1>11. CASE FinalDetach \/ FinalReset  BY <1>11 DEF FinalDetach, FinalReset
<1>12. CASE Device \/ UNCHANGED vars  BY <1>12 DEF Device, vars
<1>13. CASE Bus  BY <1>13, BusKeeps
<1>14. QED
  BY <1>1, <1>2, <1>3, <1>4, <1>5, <1>6, <1>7, <1>8, <1>9, <1>10, <1>11, <1>12, <1>13
  DEF Next, Host

-------------------------------------------------------------------------------
(* Types.                                                                  *)
LEMMA DefaultsType ==
  ASSUME NEW id \in UsbIds, NEW src \in UsbIds
  PROVE  defaultsFrom(id, src) \in UsbIds
BY DEF defaultsFrom, UsbIds

LEMMA SearchIdType ==
  ASSUME NEW file \in [suffix : BOOLEAN, usbId : UsbIds]
  PROVE  getSearchId(file) \in UsbIds
BY DEF getSearchId, UsbIds, Unset

LEMMA SetupTypes ==
  ASSUME NEW s \in Setups
  PROVE  /\ s.file \in [suffix : BOOLEAN, usbId : UsbIds]
         /\ s.match_usbId \in UsbIds /\ s.match_usbId_dfu \in UsbIds
         /\ s.units \in [DOMAIN s.units -> Units] /\ 0 \notin DOMAIN s.units
         /\ \A u \in DOMAIN s.units : s.units[u].leaving = FALSE
<1>1. s.units \in Seq(Units)  BY SetupsAssumption
<1>2. s.units \in [1 .. Len(s.units) -> Units] /\ DOMAIN s.units = 1 .. Len(s.units)
      /\ Len(s.units) \in Nat
  BY <1>1
<1>3. \A u \in DOMAIN s.units : s.units[u].leaving = FALSE
  <2>1. \A u \in DOMAIN s.units : s.units[u].leaving \in BOOLEAN  BY <1>2 DEF Units
  <2>2. \A u \in DOMAIN s.units : ~s.units[u].leaving  BY SetupsAssumption
  <2>3. QED  BY <2>1, <2>2
<1>4. QED  BY <1>2, <1>3, SetupsAssumption

(* TypeOK in two parts: what is this module's own, and the controller's.   *)
OwnTypes ==
  /\ setup \in Setups /\ phase \in Phases
  /\ units \in [DOMAIN setup.units -> Units]
  /\ match_usbId \in UsbIds /\ runtime_usbId \in UsbIds
  /\ dif \in {0} \cup DOMAIN units /\ first \in {0} \cup DOMAIN units
  /\ runs \in 0 .. 2

LEMMA UsbIdType ==
  ASSUME OwnTypes, NEW u \in DOMAIN units
  PROVE  usbId(u) \in UsbIds
<1>1. units[u] \in Units  BY DEF OwnTypes
<1>2. QED  BY <1>1 DEF Units, usbId

LEMMA FindType ==
  ASSUME NEW dfuOnly, NEW match, NEW r \in find(dfuOnly, match)
  PROVE  r[1] \in DOMAIN units
<1>1. PICK u \in Matching(dfuOnly, match) : r \in {u} \X (1 .. units[u].alts)  BY DEF find
<1>2. u \in DOMAIN units /\ r[1] = u  BY <1>1 DEF Matching
<1>3. QED  BY <1>2

LEMMA SelectType ==
  ASSUME OwnTypes, NEW dfuOnly, NEW match, NEW next, Select(find(dfuOnly, match), next)
  PROVE  /\ dif' \in {0} \cup DOMAIN units
         /\ phase' \in {next, "failed"}
         /\ phase' # "failed" => \E r \in find(dfuOnly, match) : dif' = r[1]
         /\ phase' = "failed" => dif' = dif \/ next = "failed"
<1>1. CASE Unambiguous(find(dfuOnly, match))
  BY <1>1, FindType DEF Select, Continue
<1>2. CASE ~Unambiguous(find(dfuOnly, match))
  BY <1>2 DEF Select, Throw, OwnTypes
<1>3. QED  BY <1>1, <1>2

(* Devices, by their fields.                                               *)
LEMMA DevsFields ==
  ASSUME NEW d \in Devices, NEW S, NEW ok \in BOOLEAN, NEW work \in BOOLEAN
  PROVE  /\ d \in Devs(S, ok, work) <=> d.state \in S /\ d.ok = ok /\ d.work = work
         /\ d \in {[state |-> s, ok |-> ok, work |-> work] : s \in S}
              <=> d.state \in S /\ d.ok = ok /\ d.work = work
         /\ d = [state |-> "dfuIDLE", ok |-> ok, work |-> work]
              <=> d.state = "dfuIDLE" /\ d.ok = ok /\ d.work = work
         /\ d = InError <=> d.state = "dfuERROR" /\ d.ok = FALSE /\ d.work = FALSE
<1>1. d \in Devs(S, ok, work) <=> d.state \in S /\ d.ok = ok /\ d.work = work
  BY DEF Devs, Devices
<1>2. d \in {[state |-> s, ok |-> ok, work |-> work] : s \in S}
        <=> d.state \in S /\ d.ok = ok /\ d.work = work
  BY DEF Devices
<1>3. d = [state |-> "dfuIDLE", ok |-> ok, work |-> work]
        <=> d.state = "dfuIDLE" /\ d.ok = ok /\ d.work = work
  BY DEF Devices
<1>4. d = InError <=> d.state = "dfuERROR" /\ d.ok = FALSE /\ d.work = FALSE
  BY DEF Devices, InError
<1>5. QED  BY <1>1, <1>2, <1>3, <1>4

LEMMA HandedOverFields ==
  ASSUME NEW d \in Devices
  PROVE  d \in HandedOver <=>
           \/ /\ d.state \in {"dfuIDLE", "dfuDNLOAD_SYNC", "dfuMANIFEST_SYNC",
                              "dfuMANIFEST_WAIT_RST"}
              /\ d.ok = TRUE /\ d.work = FALSE
           \/ /\ d.state \in {"dfuDNBUSY", "dfuMANIFEST_SYNC", "dfuMANIFEST"}
              /\ d.ok = TRUE /\ d.work = TRUE
           \/ d.state = "dfuERROR" /\ d.ok = FALSE /\ d.work = FALSE
<1> DEFINE resting == {"dfuIDLE", "dfuDNLOAD_SYNC", "dfuMANIFEST_SYNC", "dfuMANIFEST_WAIT_RST"}
           working == {"dfuDNBUSY", "dfuMANIFEST_SYNC", "dfuMANIFEST"}
<1> HIDE DEF resting, working
<1>1. d \in {[state |-> s, ok |-> TRUE, work |-> FALSE] : s \in resting}
        <=> d.state \in resting /\ d.ok = TRUE /\ d.work = FALSE
  BY DevsFields
<1>2. d \in {[state |-> s, ok |-> TRUE, work |-> TRUE] : s \in working}
        <=> d.state \in working /\ d.ok = TRUE /\ d.work = TRUE
  BY DevsFields
<1>3. d = InError <=> d.state = "dfuERROR" /\ d.ok = FALSE /\ d.work = FALSE
  BY DevsFields
<1>4. d \in HandedOver <=>
        \/ d \in {[state |-> s, ok |-> TRUE, work |-> FALSE] : s \in resting}
        \/ d \in {[state |-> s, ok |-> TRUE, work |-> TRUE] : s \in working}
        \/ d = InError
  BY DEF HandedOver, resting, working
<1>5. QED  BY <1>1, <1>2, <1>3, <1>4 DEF resting, working

LEMMA SoundFields ==
  ASSUME NEW d \in Devices
  PROVE  d \in Sound <=>
           \/ d \in HandedOver
           \/ /\ d.state \in AppStates \cup {"dfuDNLOAD_IDLE", "dfuUPLOAD_IDLE"}
              /\ d.ok = TRUE /\ d.work = FALSE
           \/ d.state = "dfuDNLOAD_SYNC" /\ d.ok = TRUE /\ d.work = TRUE
<1> DEFINE waiting == AppStates \cup {"dfuDNLOAD_IDLE", "dfuUPLOAD_IDLE"}
<1>1. d \in Devs(waiting, TRUE, FALSE)
        <=> d.state \in waiting /\ d.ok = TRUE /\ d.work = FALSE
  BY DevsFields
<1>2. d \in Devs({"dfuDNLOAD_SYNC"}, TRUE, TRUE)
        <=> d.state \in {"dfuDNLOAD_SYNC"} /\ d.ok = TRUE /\ d.work = TRUE
  BY DevsFields
<1>3. d \in Sound <=> \/ d \in HandedOver \/ d \in Devs(waiting, TRUE, FALSE)
                     \/ d \in Devs({"dfuDNLOAD_SYNC"}, TRUE, TRUE)
  BY DEF Sound
<1>4. QED  BY <1>1, <1>2, <1>3

LEMMA UnclearedFields ==
  ASSUME NEW d \in Devices
  PROVE  d = Uncleared <=> d.state = "dfuIDLE" /\ d.ok = FALSE /\ d.work = FALSE
BY DevsFields DEF Uncleared

LEMMA SoundDevices == HandedOver \subseteq Sound /\ Sound \cup {Uncleared} \subseteq Devices
<1>1. InError \in Devices  BY DEF InError, Devices, DfuStates
<1>2. Uncleared \in Devices  BY DEF Uncleared, Devices, DfuStates
<1>3. HandedOver \subseteq Devices  BY HandedOverDevices
<1>4. Devs(AppStates \cup {"dfuDNLOAD_IDLE", "dfuUPLOAD_IDLE"}, TRUE, FALSE) \subseteq Devices
  BY DEF DfuStates, Devs, Devices
<1>5. Devs({"dfuDNLOAD_SYNC"}, TRUE, TRUE) \subseteq Devices
  BY DEF DfuStates, Devs, Devices
<1>6. QED  BY <1>1, <1>2, <1>3, <1>4, <1>5 DEF Sound

(* What a request makes of a device that may be behind a handle.           *)
LEMMA KnownDevices ==
  ASSUME NEW d \in Sound \cup {Uncleared}
  PROVE  /\ Stall(d) \in Sound \cup {Uncleared}
         /\ Sync(d) \in Sound \cup {Uncleared}
         /\ ToIdle(d) \in HandedOver
         /\ AcceptsDetach(d) => TakeDetach(d) \in Sound
<1>d. d \in Devices  BY SoundDevices
<1>1. InError \in Sound  BY SoundDevices DEF HandedOver
<1>2. Stall(d) \in {d, InError}  BY <1>d, DeviceFields
<1>3. Sync(d) \in Sound \cup {Uncleared}
  <2>1. Sync(d) \in Devices  BY <1>d, DeviceRecords
  <2>2. Sync(d).ok = d.ok /\ Sync(d).work = d.work  BY <1>d, SyncFields
  <2>3. CASE d.state \notin {"dfuDNLOAD_SYNC", "dfuMANIFEST_SYNC"}
    <3>1. Sync(d).state = d.state  BY <2>3, <1>d, SyncFields
    <3>2. CASE d \in Sound
      BY <3>2, <3>1, <2>1, <2>2, <1>d, SoundFields, HandedOverFields
    <3>3. CASE d = Uncleared
      <4>1. d.state = "dfuIDLE" /\ d.ok = FALSE /\ d.work = FALSE  BY <3>3, <1>d, UnclearedFields
      <4>2. Sync(d) = Uncleared  BY <4>1, <3>1, <2>1, <2>2, UnclearedFields
      <4>3. QED  BY <4>2
    <3>4. QED  BY <3>2, <3>3
  <2>4. CASE d.state \in {"dfuDNLOAD_SYNC", "dfuMANIFEST_SYNC"}
    <3>1. d.ok = TRUE /\ (d.work = TRUE \/ d.work = FALSE)
      BY <2>4, <1>d, SoundFields, HandedOverFields, UnclearedFields DEF AppStates
    <3>2. CASE d.work = TRUE
      <4>1. d.work  BY <3>2
      <4>2. Sync(d).state \in {"dfuDNBUSY", "dfuMANIFEST"}  BY <4>1, <2>4, <1>d, SyncFields
      <4>3. QED  BY <3>1, <3>2, <4>2, <2>1, <2>2, SoundFields, HandedOverFields
    <3>3. CASE d.work = FALSE
      <4>1. Sync(d).state \in {"dfuDNLOAD_IDLE", "dfuIDLE"}  BY <3>3, <2>4, <1>d, SyncFields
      <4>2. QED  BY <3>1, <3>3, <4>1, <2>1, <2>2, SoundFields, HandedOverFields
    <3>4. QED  BY <3>1, <3>2, <3>3
  <2>5. QED  BY <2>3, <2>4
<1>4. ToIdle(d) \in HandedOver  BY DEF ToIdle, HandedOver
<1>5. ASSUME AcceptsDetach(d) PROVE TakeDetach(d) \in Sound
  <2>1. /\ TakeDetach(d) \in Devices /\ TakeDetach(d).state = "appDETACH"
        /\ TakeDetach(d).ok = d.ok /\ TakeDetach(d).work = d.work
    BY <1>d DEF TakeDetach, Devices, AppStates
  <2>2. d.ok = TRUE /\ d.work = FALSE
    BY <1>5, <1>d, SoundFields, HandedOverFields, UnclearedFields DEF AcceptsDetach
  <2>3. QED  BY <2>1, <2>2, SoundFields DEF AppStates
<1>6. QED  BY <1>1, <1>2, <1>3, <1>4, <1>5

LEMMA RequestOutcome ==
  ASSUME NEW d \in Sound \cup {Uncleared},
         NEW o \in clearStatus(d) \cup abort(d) \cup detach(d)
  PROVE  o.dev \in Sound \cup {Uncleared}
<1>1. CASE o \in clearStatus(d)
  <2>1. AcceptsClear(d) \in BOOLEAN  BY DEF AcceptsClear
  <2>2. o.dev \in {d, ToIdle(d), Stall(d)}  BY <1>1, <2>1, XferOutcome DEF clearStatus
  <2>3. QED  BY <2>2, KnownDevices, SoundDevices
<1>2. CASE o \in abort(d)
  <2>1. AcceptsAbort(d) \in BOOLEAN  BY DEF AcceptsAbort
  <2>2. o.dev \in {d, ToIdle(d), Stall(d)}  BY <1>2, <2>1, XferOutcome DEF abort
  <2>3. QED  BY <2>2, KnownDevices, SoundDevices
<1>3. CASE o \in detach(d)
  <2>1. AcceptsDetach(d) \in BOOLEAN  BY DEF AcceptsDetach
  <2>2. o.dev \in {d, Stall(d)} \/ (AcceptsDetach(d) /\ o.dev = TakeDetach(d))
    BY <1>3, <2>1, XferOutcome DEF detach
  <2>3. QED  BY <2>2, KnownDevices
<1>4. QED  BY <1>1, <1>2, <1>3

LEMMA ClearedOutcome ==
  ASSUME NEW d \in Devices, NEW o \in clearStatus(d), o.ret = "ok"
  PROVE  o.dev = ToIdle(d)
<1>1. AcceptsClear(d) \in BOOLEAN  BY DEF AcceptsClear
<1>2. QED  BY <1>1, XferOutcome DEF clearStatus

LEMMA StatusOutcome ==
  ASSUME NEW d \in Sound \cup {Uncleared}, NEW r \in getStatus(d)
  PROVE  r.dev \in Sound \cup {Uncleared}
BY GetStatusOutcome, KnownDevices, SoundDevices

-------------------------------------------------------------------------------
(* The device.                                                             *)

(* What a step of the device itself comes to.                              *)
LEMMA DeviceOutcome ==
  ASSUME Ctl!Device, dev \in Sound \cup {Uncleared}, job \in Jobs
  PROVE  /\ dev.work
         /\ dev' \in Sound
         /\ dev \in HandedOver => dev' \in HandedOver
         /\ UNCHANGED <<job, pc, transferSize, bytes_sent, chunk_size, transaction, progress, block>>
<1>d. dev \in Devices  BY SoundDevices
<1>1. /\ \/ Programming(dev) /\ dev' = Programmed(dev)
         \/ Manifesting(dev) /\ dev' = Manifested(dev, job.tolerant)
         \/ (Programming(dev) \/ Manifesting(dev)) /\ dev' = InError
      /\ UNCHANGED <<job, pc, transferSize, bytes_sent, chunk_size, transaction, progress, block>>
  BY DEF Ctl!Device, Ctl!DeviceProgram, Ctl!DeviceManifest, Ctl!DeviceFail, Ctl!Programming,
         Ctl!Manifesting, Ctl!Programmed, Ctl!Manifested, Ctl!InError, Ctl!hostVars,
         Programming, Manifesting, Programmed, Manifested, InError
<1>2. dev.work /\ dev.state \in {"dfuDNLOAD_SYNC", "dfuDNBUSY", "dfuMANIFEST"}
  BY <1>1 DEF Programming, Manifesting
<1>3. dev.ok = TRUE /\ dev.work # FALSE
  <2>1. dev.work # FALSE  BY <1>2
  <2>2. QED  BY <1>2, <2>1, <1>d, SoundFields, HandedOverFields, UnclearedFields DEF AppStates
<1>4. InError \in HandedOver  BY DEF HandedOver
<1>5. job.tolerant \in BOOLEAN  BY Assumptions
<1>6. ASSUME dev' = Programmed(dev) PROVE dev' \in HandedOver
  <2>1. dev' \in Devices  BY <1>6, <1>d, DeviceRecords
  <2>2. dev'.state = "dfuDNLOAD_SYNC" /\ dev'.work = FALSE /\ dev'.ok = TRUE
    BY <1>6, <1>3, <1>d, DeviceFields
  <2>3. QED  BY <2>1, <2>2, HandedOverFields
<1>7. ASSUME dev' = Manifested(dev, job.tolerant) PROVE dev' \in HandedOver
  <2>1. dev' \in Devices  BY <1>7, <1>d, <1>5, DeviceRecords
  <2>2. dev'.state \in {"dfuMANIFEST_SYNC", "dfuMANIFEST_WAIT_RST"} /\ dev'.work = FALSE
        /\ dev'.ok = TRUE
    BY <1>7, <1>3, <1>5, <1>d DEF Manifested, Devices
  <2>3. QED  BY <2>1, <2>2, HandedOverFields
<1>8. dev' \in HandedOver  BY <1>1, <1>4, <1>6, <1>7
<1>9. QED  BY <1>1, <1>2, <1>8, SoundDevices

(* What a request of the controller comes to.                              *)
LEMMA HostOutcome ==
  ASSUME Ctl!Host, dev \in Sound
  PROVE  dev' \in Sound /\ pc' # "start"
<1>d. dev \in Devices  BY SoundDevices
<1>1. Stall(dev) \in Sound
  <2>1. InError \in Sound  BY SoundDevices DEF HandedOver
  <2>2. Stall(dev) \in {dev, InError}  BY <1>d, DeviceFields
  <2>3. QED  BY <2>1, <2>2
<1>2. Sync(dev) \in Sound
  <2>1. Sync(dev) \in Devices /\ Sync(dev).ok = dev.ok /\ Sync(dev).work = dev.work
    BY <1>d, DeviceRecords, SyncFields
  <2>2. Sync(dev) # Uncleared
    <3>1. CASE dev.ok = TRUE  BY <3>1, <2>1, UnclearedFields
    <3>2. CASE dev.state = "dfuERROR"
      <4>1. Sync(dev).state = "dfuERROR"  BY <3>2, <1>d, SyncFields
      <4>2. QED  BY <4>1, <2>1, UnclearedFields
    <3>3. dev.ok = TRUE \/ dev.state = "dfuERROR"  BY <1>d, SoundFields, HandedOverFields
    <3>4. QED  BY <3>1, <3>2, <3>3
  <2>3. QED  BY <2>2, KnownDevices
<1>3. ASSUME AcceptsData(dev) PROVE TakeData(dev) \in Sound
  <2>1. dev.ok = TRUE  BY <1>3, <1>d, SoundFields, HandedOverFields DEF AcceptsData
  <2>2. TakeData(dev) \in Devices  BY <1>d, DeviceRecords
  <2>3. TakeData(dev).state = "dfuDNLOAD_SYNC" /\ TakeData(dev).work = TRUE
        /\ TakeData(dev).ok = TRUE
    BY <2>1, <1>d, DeviceFields
  <2>4. QED  BY <2>2, <2>3, SoundFields
<1>4. ASSUME AcceptsEnd(dev) PROVE TakeEnd(dev) \in Sound
  <2>1. dev.ok = TRUE  BY <1>4, <1>d, SoundFields, HandedOverFields DEF AcceptsEnd
  <2>2. TakeEnd(dev) \in Devices  BY <1>d, DeviceRecords
  <2>3. TakeEnd(dev).state = "dfuMANIFEST_SYNC" /\ TakeEnd(dev).work = TRUE
        /\ TakeEnd(dev).ok = TRUE
    BY <2>1, <1>d, DeviceFields
  <2>4. QED  BY <2>2, <2>3, SoundFields, HandedOverFields
<1>5. \A o \in download(dev) : o.dev \in Sound
  BY <1>1, <1>3, <1>d, DownloadOutcome DEF AcceptsData
<1>6. \A o \in downloadEnd(dev) : o.dev \in Sound
  BY <1>1, <1>4, <1>d, DownloadEndOutcome DEF AcceptsEnd
<1>7. \A r \in getStatus(dev) : r.dev \in Sound  BY <1>2, <1>d, GetStatusOutcome
<1>8. Ctl!download(dev) = download(dev) /\ Ctl!downloadEnd(dev) = downloadEnd(dev)
      /\ Ctl!getStatus(dev) = getStatus(dev)
  BY SameRequests DEF download, downloadEnd, dfuXferOut, AcceptsData, AcceptsEnd, TakeData,
     TakeEnd, Stall, InError, AppStates,
     Ctl!download, Ctl!downloadEnd, Ctl!dfuXferOut, Ctl!AcceptsData, Ctl!AcceptsEnd,
     Ctl!TakeData, Ctl!TakeEnd, Ctl!Stall, Ctl!InError, Ctl!AppStates
<1>9. CASE Ctl!Begin  BY <1>9 DEF Ctl!Begin
<1>10. CASE Ctl!SendChunk  BY <1>5, <1>8, <1>10 DEF Ctl!SendChunk, Ctl!Receive
<1>11. CASE Ctl!PollChunk  BY <1>7, <1>8, <1>11 DEF Ctl!PollChunk, Ctl!AfterPoll
<1>12. CASE Ctl!SendCompletion  BY <1>6, <1>8, <1>12 DEF Ctl!SendCompletion
<1>13. CASE Ctl!PollManifest  BY <1>7, <1>8, <1>13 DEF Ctl!PollManifest, Ctl!AfterManifestPoll
<1>14. QED  BY <1>9, <1>10, <1>11, <1>12, <1>13 DEF Ctl!Host

(* A status that sends run() on to "identify" shows a device that belongs  *)
(* to no transfer.                                                         *)
LEMMA StatusHandsOver ==
  ASSUME NEW d \in Sound \cup {Uncleared}, NEW r \in getStatus(d), AfterStatus(r) = "identify"
  PROVE  r.dev \in HandedOver
<1>d. d \in Devices  BY SoundDevices
<1>1. /\ r.ret # "error" /\ r.ok /\ r.bState \notin AppStates
      /\ r.bState \notin {"dfuERROR", "dfuDNLOAD_IDLE", "dfuUPLOAD_IDLE"}
  BY DEF AfterStatus
<1>2. r.dev = Sync(d) /\ r.bState = Sync(d).state /\ Sync(d).ok
  BY <1>1, <1>d, GetStatusOutcome
<1>3. Sync(d) \in Devices /\ Sync(d) \in Sound \cup {Uncleared}
  BY <1>d, KnownDevices, DeviceRecords
<1>4. Sync(d) # Uncleared
  <2>1. Sync(d).ok # FALSE  BY <1>2
  <2>2. QED  BY <2>1, <1>3, UnclearedFields
<1>5. Sync(d).state # "dfuDNLOAD_SYNC"
  BY <1>d, SyncFields
<1>6. QED  BY <1>1, <1>2, <1>3, <1>4, <1>5, SoundFields

LEMMA DevicesShowingKnown ==
  ASSUME NEW dfu, NEW d \in DevicesShowing(dfu)
  PROVE  d \in Sound \cup {Uncleared}
BY DEF DevicesShowing, Sound, Uncleared, HandedOver, Devs, AppStates

LEMMA IdleDevice ==
  ASSUME NEW d
  PROVE  ToIdle(d) \in HandedOver /\ Sync(ToIdle(d)) = ToIdle(d) /\ ~ToIdle(d).work
<1>1. ToIdle(d) \in HandedOver  BY DEF ToIdle, HandedOver
<1>2. Sync(ToIdle(d)) = ToIdle(d)
  <2>1. ToIdle(d) \in Devices  BY <1>1, SoundDevices
  <2>2. Sync(ToIdle(d)) \in Devices /\ Sync(ToIdle(d)).state = "dfuIDLE"
        /\ Sync(ToIdle(d)).ok = TRUE /\ Sync(ToIdle(d)).work = FALSE
    BY <2>1, DeviceRecords, SyncFields DEF ToIdle
  <2>3. QED  BY <2>2, DevsFields DEF ToIdle
<1>3. QED  BY <1>1, <1>2 DEF ToIdle

(* A controller that is done leaves its device in a state that another one *)
(* may start from.                                                         *)
LEMMA DoneHandsOver ==
  ASSUME dev \in Sound, pc = "done", Ctl!Delivery
  PROVE  dev \in HandedOver
<1>1. dev.state \in {"dfuMANIFEST_SYNC", "dfuMANIFEST", "dfuMANIFEST_WAIT_RST",
                     "dfuIDLE", "dfuERROR"}
  BY DEF Ctl!Delivery, Ctl!AfterLast
<1>2. dev \in Devices  BY SoundDevices
<1>3. QED  BY <1>1, <1>2, SoundFields DEF AppStates

LEMMA NextDeviceStands ==
  ASSUME DeviceStands, RunStands, job \in Jobs, [Next]_vars
  PROVE  DeviceStands'
<1>s. dev \in Sound \cup {Uncleared} /\ HandedOver \subseteq Sound /\ dev \in Devices
      /\ Uncleared \notin HandedOver
  BY SoundDevices, HandedOverFields, UnclearedFields DEF DeviceStands
<1> USE DEF Throw, Continue
<1>a. ASSUME dev' = dev,
             phase' \notin {"checkOnce", "identify", "dfuse", "run", "controller"}
      PROVE  DeviceStands'
  BY <1>a, <1>s DEF DeviceStands
<1>b. ASSUME dev' \in Sound \cup {Uncleared},
             phase' \notin {"checkOnce", "identify", "dfuse", "run", "controller"}
      PROVE  DeviceStands'
  BY <1>b DEF DeviceStands
<1>1. CASE Search \/ SearchAgain  BY <1>1, <1>a DEF Search, SearchAgain, Select
<1>2. CASE Open \/ Reopen
  BY <1>2, <1>a, <1>b, DevicesShowingKnown DEF Open, Reopen, openDevice
<1>3. CASE ClaimRuntime \/ Claim  BY <1>3, <1>a DEF ClaimRuntime, Claim, claimInterface
<1>4. CASE RuntimeStatus
  BY <1>4, <1>s, <1>a, <1>b, StatusOutcome DEF RuntimeStatus, ReleaseTo
<1>5. CASE ClearRuntime
  BY <1>5, <1>s, <1>b, RequestOutcome DEF ClearRuntime, ReleaseTo
<1>6. CASE Detach  BY <1>6, <1>s, <1>b, RequestOutcome DEF Detach
<1>7. CASE ResetRuntime  BY <1>7, <1>a DEF ResetRuntime
<1>8. CASE CloseRuntime \/ Close \/ FinalReset
  BY <1>8, <1>a DEF CloseRuntime, Close, FinalReset
<1>9. CASE Status
  <2>1. PICK r \in getStatus(dev) :
          /\ dev' = r.dev
          /\ phase' = AfterStatus(r)
    BY <1>9 DEF Status
  <2>2. phase' \in {"failed", "clear", "abort", "identify", "clearOnce"}
    BY <2>1 DEF AfterStatus
  <2>3. CASE phase' = "identify"
    BY <2>1, <2>3, <1>s, StatusHandsOver DEF DeviceStands
  <2>4. CASE phase' # "identify"
    BY <2>1, <2>2, <2>4, <1>s, <1>b, StatusOutcome
  <2>5. QED  BY <2>3, <2>4
<1>10. CASE ClearStatus \/ AbortPrevious
  BY <1>10, <1>s, <1>b, RequestOutcome DEF ClearStatus, AbortPrevious, Request
<1>11. CASE ClearOnce
  <2>1. PICK o \in clearStatus(dev) :
          /\ dev' = o.dev
          /\ IF o.ret = "error" THEN phase' = "failed" ELSE phase' = "checkOnce"
    BY <1>11 DEF ClearOnce, Request
  <2>2. CASE phase' = "failed"  BY <2>1, <2>2, <1>s, <1>b, RequestOutcome
  <2>3. CASE phase' = "checkOnce"
    <3>1. o.dev = ToIdle(dev) \/ o.ret = "error"
      <4>1. AcceptsClear(dev) \in BOOLEAN  BY DEF AcceptsClear
      <4>2. QED  BY <4>1, XferOutcome DEF clearStatus
    <3>2. dev' = ToIdle(dev)  BY <2>1, <2>3, <3>1
    <3>3. dev' = ToIdle(dev)  /\ ToIdle(dev) = ToIdle(dev')  BY <3>2 DEF ToIdle
    <3>4. QED  BY <2>3, <3>3, <1>s, IdleDevice DEF DeviceStands
  <2>4. QED  BY <2>1, <2>2, <2>3
<1>12. CASE CheckOnce
  <2>1. dev = ToIdle(dev)  BY <1>12 DEF CheckOnce, DeviceStands
  <2>2. dev' = dev
    <3>1. PICK r \in getStatus(dev) : dev' = r.dev  BY <1>12 DEF CheckOnce
    <3>2. r.dev \in {dev, Sync(dev)}  BY <1>s, GetStatusOutcome
    <3>3. QED  BY <3>1, <3>2, <2>1, IdleDevice
  <2>3. dev' \in HandedOver  BY <2>1, <2>2, IdleDevice
  <2>4. phase' \in {"identify", "failed"}  BY <1>12 DEF CheckOnce
  <2>5. QED  BY <2>3, <2>4, <1>s DEF DeviceStands
<1>13. CASE Identify
  BY <1>13, <1>s DEF Identify, DeviceStands
<1>14. CASE RunDfuse
  BY <1>14, <1>s, <1>b DEF RunDfuse, Downloaded
<1>15. CASE StartController
  BY <1>15, <1>s DEF StartController, DeviceStands
<1>16. CASE RunController
  <2>1. dev \in Sound /\ phase' = "controller"  BY <1>16, <1>s DEF RunController, DeviceStands
  <2>2. dev' \in Sound /\ pc' # "start"  BY <1>16, <2>1, HostOutcome DEF RunController
  <2>3. Uncleared \notin Sound
    <3>1. Uncleared \in Devices  BY SoundDevices
    <3>2. QED  BY <3>1, SoundFields, HandedOverFields, UnclearedFields DEF AppStates
  <2>4. QED  BY <2>1, <2>2, <2>3 DEF DeviceStands
<1>17. CASE ControllerEnds
  <2>1. CASE phase' = "run"
    <3>1. pc = "done" /\ dev' = dev /\ dev \in Sound /\ Ctl!Delivery
      BY <1>17, <2>1, <1>s DEF ControllerEnds, Returned, Downloaded, DeviceStands, RunStands
    <3>2. QED  BY <2>1, <3>1, <1>s, DoneHandsOver DEF DeviceStands
  <2>2. CASE phase' # "run"
    BY <1>17, <2>2, <1>a DEF ControllerEnds, Downloaded
  <2>3. QED  BY <2>1, <2>2
<1>18. CASE FinalDetach  BY <1>18, <1>s, <1>b, RequestOutcome DEF FinalDetach
<1>19. CASE Device
  <2>1. dev.work /\ dev' \in Sound /\ pc' = pc /\ phase' = phase
        /\ (dev \in HandedOver => dev' \in HandedOver)
    BY <1>19, <1>s, DeviceOutcome DEF Device
  <2>2. phase # "checkOnce"
    BY <2>1, IdleDevice DEF DeviceStands
  <2>3. Uncleared \notin Sound
    <3>1. Uncleared \in Devices  BY SoundDevices
    <3>2. QED  BY <3>1, SoundFields, HandedOverFields, UnclearedFields DEF AppStates
  <2>4. QED  BY <2>1, <2>2, <2>3 DEF DeviceStands
<1>20. CASE Bus \/ UNCHANGED vars
  BY <1>20, BusKeeps DEF vars, ctlVars, DeviceStands
<1>21. QED
  BY <1>1, <1>2, <1>3, <1>4, <1>5, <1>6, <1>7, <1>8, <1>9, <1>10, <1>11, <1>12, <1>13,
     <1>14, <1>15, <1>16, <1>17, <1>18, <1>19, <1>20 DEF Next, Host

-------------------------------------------------------------------------------
(* Types, continued.                                                       *)
LEMMA BusUnits ==
  ASSUME Bus, units \in [DOMAIN setup.units -> Units]
  PROVE  units' \in [DOMAIN setup.units -> Units] /\ DOMAIN units' = DOMAIN units
<1>1. PICK u \in DOMAIN units : Reenumerate(u) \/ Vanish(u) \/ PlugOrUnplug(u)
  BY DEF Bus
<1>2. units[u] \in Units  OBVIOUS
<1>3. [units[u] EXCEPT !.leaving = FALSE, !.showsDfu = TRUE] \in Units
      /\ [units[u] EXCEPT !.leaving = FALSE, !.present = FALSE] \in Units
      /\ [units[u] EXCEPT !.present = ~units[u].present] \in Units
  BY <1>2 DEF Units
<1>4. \E unit \in Units : units' = [units EXCEPT ![u] = unit]
  BY <1>1, <1>3 DEF Reenumerate, Vanish, PlugOrUnplug, SetUnit
<1>5. QED  BY <1>4

LEMMA LeavingUnits ==
  ASSUME units \in [DOMAIN setup.units -> Units], NEW b \in BOOLEAN, dif \in DOMAIN units,
         units' = [units EXCEPT ![dif].leaving = b]
  PROVE  units' \in [DOMAIN setup.units -> Units] /\ DOMAIN units' = DOMAIN units
<1>1. units[dif] \in Units  OBVIOUS
<1>2. [units[dif] EXCEPT !.leaving = b] \in Units  BY <1>1 DEF Units
<1>3. units' = [units EXCEPT ![dif] = [units[dif] EXCEPT !.leaving = b]]  OBVIOUS
<1>4. QED  BY <1>2, <1>3

LEMMA NextOwnTypes ==
  ASSUME OwnTypes, RunStands, UnitStands, [Next]_vars
  PROVE  OwnTypes'
<1>s. /\ setup.file \in [suffix : BOOLEAN, usbId : UsbIds]
      /\ getSearchId(setup.file) \in UsbIds
  BY SetupTypes, SearchIdType DEF OwnTypes
<1>d. phase \notin {"search", "searchAgain", "failed"} => dif \in DOMAIN units
  BY DEF UnitStands, OwnTypes
<1> USE DEF Throw, Continue, found
<1>1. CASE Search
  <2>1. match_usbId' \in UsbIds
    BY <1>1, <1>s, DefaultsType DEF Search, provideDefaultSearchId, OwnTypes
  <2>2. dif' \in {0} \cup DOMAIN units /\ phase' \in {"open", "failed"}
    BY <1>1, SelectType DEF Search
  <2>3. QED  BY <1>1, <2>1, <2>2 DEF Search, OwnTypes, Phases
<1>2. CASE Open
  <2>1. dif \in DOMAIN units  BY <1>2, <1>d DEF Open
  <2>2. runtime_usbId' \in UsbIds
    BY <1>2, <2>1, UsbIdType, DefaultsType DEF Open, OwnTypes
  <2>3. QED  BY <1>2, <2>2 DEF Open, openDevice, OwnTypes, Phases
<1>3. CASE ClaimRuntime \/ Claim \/ Reopen
  BY <1>3 DEF ClaimRuntime, Claim, claimInterface, Reopen, openDevice, OwnTypes, Phases
<1>4. CASE RuntimeStatus \/ ClearRuntime
  BY <1>4 DEF RuntimeStatus, ClearRuntime, ReleaseTo, OwnTypes, Phases
<1>5. CASE Detach \/ ResetRuntime
  <2>1. dif \in DOMAIN units  BY <1>5, <1>d DEF Detach, ResetRuntime
  <2>2. \/ units' = units
        \/ \E b \in BOOLEAN : units' = [units EXCEPT ![dif].leaving = b]
    BY <1>5 DEF Detach, ResetRuntime
  <2>3. units' \in [DOMAIN setup.units -> Units] /\ DOMAIN units' = DOMAIN units
    BY <2>1, <2>2, LeavingUnits DEF OwnTypes
  <2>4. phase' \in {"closeRuntime", "resetRuntime", "failed"}
        /\ UNCHANGED <<setup, match_usbId, dif, first, runtime_usbId, runs>>
    BY <1>5 DEF Detach, ResetRuntime
  <2>5. QED  BY <2>3, <2>4 DEF OwnTypes, Phases
<1>6. CASE CloseRuntime \/ Close
  BY <1>6 DEF CloseRuntime, Close, OwnTypes, Phases
<1>7. CASE SearchAgain
  <2>1. dif' \in {0} \cup DOMAIN units /\ phase' \in {"reopen", "failed"}
    BY <1>7, SelectType DEF SearchAgain
  <2>2. QED  BY <1>7, <2>1 DEF SearchAgain, OwnTypes, Phases
<1>8. CASE Status
  BY <1>8 DEF Status, AfterStatus, OwnTypes, Phases
<1>9. CASE ClearStatus \/ AbortPrevious \/ ClearOnce
  BY <1>9 DEF ClearStatus, AbortPrevious, ClearOnce, Request, OwnTypes, Phases
<1>10. CASE CheckOnce \/ Identify
  BY <1>10 DEF CheckOnce, Identify, OwnTypes, Phases
<1>11. CASE RunDfuse \/ RunController \/ ControllerEnds
  BY <1>11 DEF RunDfuse, RunController, ControllerEnds, Downloaded, OwnTypes, Phases
<1>12. CASE StartController
  <2>1. runs \in {0, 1}  BY <1>12 DEF StartController, RunStands
  <2>2. runs' \in 0 .. 2  BY <1>12, <2>1 DEF StartController
  <2>3. QED  BY <1>12, <2>2 DEF StartController, OwnTypes, Phases
<1>13. CASE FinalDetach \/ FinalReset
  BY <1>13 DEF FinalDetach, FinalReset, OwnTypes, Phases
<1>14. CASE Device \/ UNCHANGED vars
  BY <1>14 DEF Device, vars, OwnTypes
<1>15. CASE Bus
  BY <1>15, BusKeeps, BusUnits DEF OwnTypes
<1>16. QED
  BY <1>1, <1>2, <1>3, <1>4, <1>5, <1>6, <1>7, <1>8, <1>9, <1>10, <1>11, <1>12, <1>13,
     <1>14, <1>15 DEF Next, Host

(* The steps that leave the controller alone.                              *)
LEMMA QuietSteps ==
  ASSUME [Next]_vars
  PROVE  \/ UNCHANGED ctlVars
         \/ RunDfuse \/ StartController \/ RunController \/ Device
<1> USE DEF ctlVars
<1>1. CASE Search \/ SearchAgain \/ Open \/ Reopen  BY <1>1 DEF Search, SearchAgain, Open, Reopen
<1>2. CASE ClaimRuntime \/ Claim \/ RuntimeStatus \/ ClearRuntime
  BY <1>2 DEF ClaimRuntime, Claim, RuntimeStatus, ClearRuntime
<1>3. CASE Detach \/ ResetRuntime \/ CloseRuntime \/ Close \/ FinalDetach \/ FinalReset
  BY <1>3 DEF Detach, ResetRuntime, CloseRuntime, Close, FinalDetach, FinalReset
<1>4. CASE Status \/ ClearStatus \/ AbortPrevious \/ ClearOnce \/ CheckOnce \/ Identify
  BY <1>4 DEF Status, ClearStatus, AbortPrevious, ClearOnce, Request, CheckOnce, Identify
<1>5. CASE ControllerEnds  BY <1>5 DEF ControllerEnds
<1>6. CASE Bus \/ UNCHANGED vars  BY <1>6, BusKeeps DEF vars
<1>7. QED  BY <1>1, <1>2, <1>3, <1>4, <1>5, <1>6 DEF Next, Host

LEMMA ControllerSteps ==
  ASSUME P!TypeOK, RunController \/ Device
  PROVE  P!TypeOK' /\ [P!Next]_(P!vars)
<1>1. P!Next
  BY SameHostStep, SameDeviceStep DEF RunController, Device, P!Next
<1>2. P!TypeOK'  BY <1>1, StepTypes
<1>3. QED  BY <1>1, <1>2

(* The empty file and the whole one, as images.                            *)
LEMMA ImageTypes ==
  ASSUME P!TypeOK
  PROVE  /\ P!expected_size \in Nat
         /\ \A n \in Nat : /\ P!FirstBytes(n) \in Seq(Nat)
                           /\ Len(P!FirstBytes(n)) = n
                           /\ P!FirstBytes(n) \o [i \in 1 .. 0 |-> 0 + i - 1] = P!FirstBytes(n)
<1>1. P!expected_size \in Nat
  BY P!ExpectedSize, Assumptions, PageSizeAssumption DEF P!TypeOK
<1>2. \A n \in Nat : P!FirstBytes(n) \in Seq(Nat) /\ Len(P!FirstBytes(n)) = n
  BY P!FirstBytesType, Assumptions, PageSizeAssumption
<1>3. ASSUME NEW n \in Nat
      PROVE  P!FirstBytes(n) \o [i \in 1 .. 0 |-> 0 + i - 1] = P!FirstBytes(n)
  <2>1. P!FirstBytes(n) \o [i \in 1 .. 0 |-> n + i - 1] = P!FirstBytes(n + 0)
    BY P!FirstBytesAppend, Assumptions, PageSizeAssumption
  <2>2. [i \in 1 .. 0 |-> n + i - 1] = [i \in 1 .. 0 |-> 0 + i - 1]  OBVIOUS
  <2>3. n + 0 = n  OBVIOUS
  <2>4. QED  BY <2>1, <2>2, <2>3
<1>4. QED  BY <1>1, <1>2, <1>3

LEMMA NextControllerTypes ==
  ASSUME P!TypeOK, DeviceStands', [Next]_vars
  PROVE  P!TypeOK'
<1>d. dev' \in P!Devices  BY SoundDevices, SameDevices DEF DeviceStands
<1>1. CASE UNCHANGED ctlVars
  BY <1>1, <1>d DEF ctlVars, P!TypeOK, P!expected_size
<1>2. CASE RunDfuse
  <2>1. image' \in Seq(Nat)
    BY <1>2, ImageTypes, SameBytes DEF RunDfuse, P!TypeOK
  <2>2. UNCHANGED <<job, pc, transferSize, bytes_sent, chunk_size, transaction, progress, block>>
    BY <1>2 DEF RunDfuse
  <2>3. QED  BY <2>1, <2>2, <1>d DEF P!TypeOK, P!expected_size
<1>3. CASE StartController
  <2>1. image' \in Seq(Nat)
    BY <1>3, ImageTypes, SameBytes DEF StartController, P!TypeOK
  <2>2. block' \in [from : Nat, len : Nat, num : Nat]
    BY <1>3, SameBytes DEF StartController, P!NoBlock
  <2>3. pc' = "start" /\ bytes_sent' = 0 /\ transaction' = 0
        /\ UNCHANGED <<job, transferSize, chunk_size, progress>>
    BY <1>3 DEF StartController, FreshRun
  <2>4. 0 \in 0 .. BlockNums - 1 /\ 0 \in 0 .. P!expected_size
    BY Assumptions, ImageTypes
  <2>5. QED  BY <2>1, <2>2, <2>3, <2>4, <1>d DEF P!TypeOK, P!expected_size
<1>4. CASE RunController \/ Device  BY <1>4, ControllerSteps
<1>5. QED  BY <1>1, <1>2, <1>3, <1>4, QuietSteps

-------------------------------------------------------------------------------
(* The controller within run().                                            *)

(* A controller that starts on a device it may be handed keeps no block    *)
(* and no byte of an earlier run.                                          *)
LEMMA StartDelivery ==
  ASSUME P!TypeOK, StartController, dev \in HandedOver
  PROVE  P!Delivery'
<1>1. pc' = "start" /\ bytes_sent' = 0 /\ block' = P!NoBlock /\ image' = P!FirstBytes(0)
      /\ dev' = dev /\ P!expected_size' = P!expected_size
  BY SameBytes DEF StartController, FreshRun, P!expected_size
<1>2. /\ dev.state \in {"dfuIDLE", "dfuDNBUSY", "dfuDNLOAD_SYNC", "dfuMANIFEST",
                        "dfuMANIFEST_SYNC", "dfuMANIFEST_WAIT_RST", "dfuERROR"}
      /\ dev.ok <=> dev.state # "dfuERROR"
      /\ dev.state = "dfuERROR" => ~dev.work
  BY HandedOverDevices
<1>3. P!Prefix'
  <2>1. P!expected_size \in Nat /\ Len(P!FirstBytes(0)) = 0  BY ImageTypes
  <2>2. QED  BY <1>1, <2>1 DEF P!Prefix
<1>4. P!PendingBlock'  BY <1>1 DEF P!PendingBlock, P!NoBlock
<1>5. P!ErrorState'  BY <1>1, <1>2 DEF P!ErrorState
<1>6. P!BeforeFirst'  BY <1>1, <1>2 DEF P!BeforeFirst
<1>7. P!BetweenChunks' /\ P!WithinChunk' /\ P!AfterLast'
  BY <1>1 DEF P!BetweenChunks, P!WithinChunk, P!AfterLast
<1>8. QED  BY <1>3, <1>4, <1>5, <1>6, <1>7 DEF P!Delivery

LEMMA KeepDelivery ==
  ASSUME P!TypeOK, P!TypeOK', P!Delivery, [P!Next]_(P!vars)
  PROVE  P!Delivery'
BY P!NextDelivery, Assumptions, PageSizeAssumption

(* Whatever the device does on its own, it programs nothing while it holds *)
(* no block, nor after the whole file.                                     *)
LEMMA DeviceKeepsImage ==
  ASSUME P!TypeOK, Ctl!Device, NEW n \in Nat, block = Ctl!NoBlock, image = Ctl!FirstBytes(n)
  PROVE  image' = image
<1>1. \/ image' = image
      \/ image' = image \o [i \in 1 .. block.len |-> block.from + i - 1]
  BY DEF Ctl!Device, Ctl!DeviceProgram, Ctl!DeviceManifest, Ctl!DeviceFail
<1>2. block.len = 0 /\ block.from = 0  BY DEF Ctl!NoBlock
<1>3. QED  BY <1>1, <1>2, ImageTypes, SameBytes

LEMMA DeviceKeepsEverything ==
  ASSUME P!TypeOK, Ctl!Device, Everything
  PROVE  Everything'
<1>1. \/ image' = image /\ dev'.state \in {"dfuMANIFEST_SYNC", "dfuMANIFEST_WAIT_RST"}
      \/ image' = image /\ dev'.state = "dfuERROR"
  <2>1. dev \in Ctl!Devices  BY SameTypeOK DEF Ctl!TypeOK
  <2>2. ~Ctl!Programming(dev)  BY DEF Everything, Ctl!Programming
  <2>3. CASE Ctl!DeviceManifest
    BY <2>1, <2>3 DEF Ctl!DeviceManifest, Ctl!Manifested, Ctl!Devices
  <2>4. CASE Ctl!DeviceFail  BY <2>4 DEF Ctl!DeviceFail, Ctl!InError
  <2>5. QED  BY <2>2, <2>3, <2>4 DEF Ctl!Device, Ctl!DeviceProgram
<1>2. pc' = pc /\ job' = job
  BY DEF Ctl!Device, Ctl!DeviceProgram, Ctl!DeviceManifest, Ctl!DeviceFail, Ctl!hostVars
<1>3. QED  BY <1>1, <1>2 DEF Everything, Ctl!FirstBytes, Ctl!expected_size

LEMMA EverythingStays ==
  ASSUME Everything, UNCHANGED <<job, pc, image>>,
         dev' = dev \/ dev'.state = "dfuERROR"
  PROVE  Everything'
BY DEF Everything, Ctl!FirstBytes, Ctl!expected_size

LEMMA NothingStays == Nothing /\ UNCHANGED <<pc, block, image>> => Nothing'
BY DEF Nothing, Ctl!NoBlock, Ctl!FirstBytes

(* <1>a and <1>b are steps that leave the controller alone, before any run *)
(* of it and after the last one; <1>c is a step of the controller.         *)
LEMMA NextRunStands ==
  ASSUME OwnTypes, P!TypeOK, P!TypeOK', DeviceStands, RunStands, [Next]_vars
  PROVE  RunStands'
<1> USE DEF Throw, Continue
<1>a. ASSUME phase \in BeforeRun, UNCHANGED <<setup, runs, ctlVars>>,
             phase' \in (BeforeRun \ {"dfuse"}) \cup {"failed"}
      PROVE  RunStands'
  BY <1>a, NothingStays DEF RunStands, ctlVars, BeforeRun, AfterRun, Phases
<1>b. ASSUME phase \in AfterRun, UNCHANGED <<setup, ctlVars>>, phase' \in AfterRun \cup {"failed"},
             dev' = dev \/ (Everything => dev'.state = "dfuERROR")
      PROVE  RunStands'
  <2>1. Everything => Everything'  BY <1>b, EverythingStays DEF ctlVars
  <2>2. Ctl!expected_size' = Ctl!expected_size  BY <1>b DEF ctlVars, Ctl!expected_size
  <2>3. QED
    BY <1>b, <2>1, <2>2 DEF RunStands, ctlVars, BeforeRun, AfterRun, Phases, Ctl!FirstBytes,
                            Ctl!NoBlock
<1>1. CASE Search \/ SearchAgain
  BY <1>1, <1>a DEF Search, SearchAgain, Select, BeforeRun, Phases
<1>2. CASE Open \/ Reopen
  BY <1>2, <1>a DEF Open, Reopen, openDevice, BeforeRun, Phases
<1>3. CASE ClaimRuntime \/ Claim
  BY <1>3, <1>a DEF ClaimRuntime, Claim, claimInterface, BeforeRun, Phases
<1>4. CASE RuntimeStatus \/ ClearRuntime
  BY <1>4, <1>a DEF RuntimeStatus, ClearRuntime, ReleaseTo, BeforeRun, Phases
<1>5. CASE Detach \/ ResetRuntime \/ CloseRuntime
  BY <1>5, <1>a DEF Detach, ResetRuntime, CloseRuntime, BeforeRun, Phases
<1>6. CASE Status
  BY <1>6, <1>a DEF Status, AfterStatus, BeforeRun, Phases
<1>7. CASE ClearStatus \/ AbortPrevious \/ ClearOnce
  BY <1>7, <1>a DEF ClearStatus, AbortPrevious, ClearOnce, Request, BeforeRun, Phases
<1>8. CASE CheckOnce
  BY <1>8, <1>a DEF CheckOnce, BeforeRun, Phases
<1>9. CASE Identify
  <2>1. runs = 0 /\ Nothing /\ UNCHANGED <<setup, runs, ctlVars>>
    BY <1>9 DEF Identify, RunStands, BeforeRun, Phases
  <2>2. Nothing'  BY <2>1, NothingStays DEF ctlVars
  <2>3. setup' = setup /\ runs' = 0  BY <2>1
  <2>4. CASE phase' = "failed"  BY <2>4 DEF RunStands, BeforeRun, AfterRun, Phases
  <2>5. CASE phase' = "dfuse" /\ setup.dfuse
    BY <2>2, <2>3, <2>5 DEF RunStands, BeforeRun, AfterRun, Phases
  <2>6. CASE phase' = "run" /\ ~setup.dfuse
    BY <2>2, <2>3, <2>6 DEF RunStands, BeforeRun, AfterRun, Phases
  <2>7. QED  BY <1>9, <2>4, <2>5, <2>6 DEF Identify
<1>10. CASE RunDfuse
  <2>1. setup.dfuse /\ block = Ctl!NoBlock /\ UNCHANGED <<setup, job, block>>
    BY <1>10 DEF RunDfuse, RunStands, Nothing, BeforeRun, Phases
  <2>2. \/ phase' = "failed"
        \/ /\ phase' \in {"finalDetach", "close"}
           /\ image' = Ctl!FirstBytes(IF setup.unprotect THEN 0 ELSE Ctl!expected_size)
    BY <1>10 DEF RunDfuse, Downloaded
  <2>3. QED
    BY <2>1, <2>2 DEF RunStands, BeforeRun, AfterRun, Phases, Ctl!NoBlock, Ctl!FirstBytes,
                      Ctl!expected_size
<1>11. CASE StartController
  <2>1. phase' = "controller" /\ ~setup.dfuse /\ setup' = setup /\ runs' > 0
    BY <1>11 DEF StartController, RunStands, OwnTypes
  <2>2. Ctl!Delivery'
    BY <1>11, StartDelivery, SameDelivery DEF StartController, DeviceStands
  <2>3. QED  BY <2>1, <2>2 DEF RunStands, BeforeRun, AfterRun, Phases
<1>c. ASSUME phase = "controller", phase' = "controller", UNCHANGED <<setup, runs>>,
             RunController \/ Device
      PROVE  RunStands'
  <2>1. P!Delivery  BY <1>c, SameDelivery DEF RunStands
  <2>2. [P!Next]_(P!vars)  BY <1>c, ControllerSteps
  <2>3. Ctl!Delivery'  BY <2>1, <2>2, KeepDelivery, SameDelivery
  <2>4. QED  BY <1>c, <2>3 DEF RunStands, BeforeRun, AfterRun, Phases
<1>12. CASE RunController  BY <1>12, <1>c DEF RunController
<1>13. CASE ControllerEnds
  <2>1. ~setup.dfuse /\ Ctl!Delivery /\ UNCHANGED <<setup, runs, ctlVars, dev>>
    BY <1>13 DEF ControllerEnds, RunStands
  <2>2. \/ phase' = "failed"
        \/ pc = "done" /\ phase' = "run" /\ runs = 1
        \/ pc = "done" /\ phase' \in {"finalDetach", "close"}
    BY <1>13 DEF ControllerEnds, Returned, RunAgain, Downloaded
  <2>3. pc = "done" => Everything
    BY <2>1 DEF Ctl!Delivery, Ctl!AfterLast, Everything
  <2>4. pc = "done" => Everything'  BY <2>1, <2>3, EverythingStays DEF ctlVars
  <2>5. QED  BY <2>1, <2>2, <2>4 DEF RunStands, BeforeRun, AfterRun, Phases
<1>14. CASE FinalReset \/ Close
  BY <1>14, <1>b DEF FinalReset, Close, AfterRun
<1>15. CASE FinalDetach
  <2>1. PICK o \in detach(dev) : dev' = o.dev  BY <1>15 DEF FinalDetach
  <2>2. ASSUME Everything PROVE dev' = dev \/ dev'.state = "dfuERROR"
    <3>1. dev \in Devices  BY SoundDevices DEF DeviceStands
    <3>2. AcceptsDetach(dev) = FALSE  BY <2>2 DEF Everything, AcceptsDetach
    <3>3. o.dev \in {dev, Stall(dev)}
      BY <3>2, XferOutcome DEF detach
    <3>4. Stall(dev) \in {dev, InError} /\ InError.state = "dfuERROR"  BY <3>1, DeviceFields
    <3>5. QED  BY <2>1, <3>3, <3>4
  <2>3. phase \in AfterRun /\ phase' \in AfterRun /\ UNCHANGED <<setup, ctlVars>>
    BY <1>15 DEF FinalDetach, AfterRun
  <2>4. CASE Everything
    <3>1. Everything'  BY <2>2, <2>3, <2>4, EverythingStays DEF ctlVars
    <3>2. Ctl!expected_size' = Ctl!expected_size  BY <2>3 DEF ctlVars, Ctl!expected_size
    <3>3. QED
      BY <2>3, <3>1, <3>2 DEF RunStands, ctlVars, BeforeRun, AfterRun, Phases, Ctl!FirstBytes,
                              Ctl!NoBlock
  <2>5. CASE ~Everything  BY <2>3, <2>5, <1>b
  <2>6. QED  BY <2>4, <2>5
<1>16. CASE Device
  <2>1. Ctl!Device /\ UNCHANGED <<setup, phase, runs>>  BY <1>16 DEF Device
  <2>2. UNCHANGED <<job, pc, block>>
    BY <2>1 DEF Ctl!Device, Ctl!DeviceProgram, Ctl!DeviceManifest, Ctl!DeviceFail, Ctl!hostVars
  <2>3. Everything => Everything'  BY <2>1, DeviceKeepsEverything
  <2>4. Nothing => Nothing'
    BY <2>1, <2>2, DeviceKeepsImage DEF Nothing, Ctl!NoBlock, Ctl!FirstBytes
  <2>5. ASSUME NEW n \in Nat, block = Ctl!NoBlock, image = Ctl!FirstBytes(n)
        PROVE  image' = image
    BY <2>1, <2>5, DeviceKeepsImage
  <2>6. CASE phase = "controller"  BY <1>16, <2>1, <2>6, <1>c
  <2>7. CASE phase \in AfterRun /\ setup.dfuse
    <3>1. Ctl!expected_size \in Nat /\ Ctl!expected_size' = Ctl!expected_size
      BY <2>2, ImageTypes, SameBytes DEF Ctl!expected_size
    <3>2. block = Ctl!NoBlock
          /\ image = Ctl!FirstBytes(IF setup.unprotect THEN 0 ELSE Ctl!expected_size)
      BY <2>7 DEF RunStands
    <3>3. image' = image  BY <2>5, <3>1, <3>2
    <3>4. QED
      BY <2>1, <2>2, <2>7, <3>1, <3>2, <3>3 DEF RunStands, BeforeRun, AfterRun, Phases,
         Ctl!FirstBytes, Ctl!NoBlock
  <2>8. CASE phase # "controller" /\ ~(phase \in AfterRun /\ setup.dfuse)
    BY <2>1, <2>3, <2>4, <2>8 DEF RunStands
  <2>9. QED  BY <2>6, <2>7, <2>8
<1>17. CASE Bus \/ UNCHANGED vars
  <2>1. UNCHANGED <<setup, phase, runs, dev>> /\ UNCHANGED ctlVars
    BY <1>17, BusKeeps DEF vars, ctlVars
  <2>2. (Everything => Everything') /\ (Nothing => Nothing')
    BY <2>1, EverythingStays, NothingStays DEF ctlVars
  <2>3. Ctl!Delivery => Ctl!Delivery'
    BY <2>1 DEF ctlVars, Ctl!Delivery, Ctl!Prefix, Ctl!PendingBlock, Ctl!ErrorState,
       Ctl!BeforeFirst, Ctl!BetweenChunks, Ctl!WithinChunk, Ctl!AfterLast, Ctl!expected_size,
       Ctl!FirstBytes, Ctl!NoBlock
  <2>4. Ctl!expected_size' = Ctl!expected_size  BY <2>1 DEF ctlVars, Ctl!expected_size
  <2>5. QED
    BY <2>1, <2>2, <2>3, <2>4 DEF RunStands, ctlVars, Ctl!FirstBytes, Ctl!NoBlock
<1>18. QED
  BY <1>1, <1>2, <1>3, <1>4, <1>5, <1>6, <1>7, <1>8, <1>9, <1>10, <1>11, <1>12, <1>13,
     <1>14, <1>15, <1>16, <1>17 DEF Next, Host

-------------------------------------------------------------------------------
(* The unit.                                                               *)
LEMMA FindFinite ==
  ASSUME OwnTypes, NEW dfuOnly, NEW match
  PROVE  IsFiniteSet(find(dfuOnly, match))
<1> DEFINE M == Matching(dfuOnly, match)
           f == [u \in M |-> {u} \X (1 .. units[u].alts)]
           T == {{u} \X (1 .. units[u].alts) : u \in M}
<1>1. IsFiniteSet(M)
  <2>1. DOMAIN units = 1 .. Len(setup.units) /\ Len(setup.units) \in Nat
    BY SetupsAssumption DEF OwnTypes
  <2>2. IsFiniteSet(DOMAIN units)  BY <2>1, FS_Interval
  <2>3. QED  BY <2>2, FS_Subset DEF Matching
<1>2. f \in Surjection(M, T)  BY DEF Surjection
<1>3. IsFiniteSet(T)  BY <1>1, <1>2, FS_Surjection
<1>4. \A S \in T : IsFiniteSet(S)
  <2> SUFFICES ASSUME NEW u \in M PROVE IsFiniteSet({u} \X (1 .. units[u].alts))  OBVIOUS
  <2>1. units[u] \in Units  BY DEF Matching, OwnTypes
  <2>2. units[u].alts \in Int  BY <2>1 DEF Units
  <2>3. IsFiniteSet(1 .. units[u].alts)  BY <2>2, FS_Interval
  <2>4. IsFiniteSet({u})  BY FS_Singleton
  <2>5. QED  BY <2>3, <2>4, FS_Product
<1>5. IsFiniteSet(UNION T)  BY <1>3, <1>4, FS_UNION
<1>6. QED  BY <1>5 DEF find

LEMMA FindPairs ==
  ASSUME OwnTypes, NEW dfuOnly, NEW match, NEW r \in find(dfuOnly, match)
  PROVE  r = <<r[1], r[2]>> /\ r[1] \in Matching(dfuOnly, match) /\ r[2] \in Nat
<1>1. PICK u \in Matching(dfuOnly, match) : r \in {u} \X (1 .. units[u].alts)  BY DEF find
<1>2. units[u] \in Units  BY DEF Matching, OwnTypes
<1>3. units[u].alts \in Nat  BY <1>2 DEF Units
<1>4. QED  BY <1>1, <1>3

(* Asking for DFU mode alone finds nothing that the wider search would not *)
(* have found.                                                             *)
LEMMA FindNarrower ==
  ASSUME NEW match
  PROVE  find(TRUE, match) \subseteq find(FALSE, match)
<1>1. Matching(TRUE, match) \subseteq Matching(FALSE, match)
  BY DEF Matching, matchesProbe
<1>2. QED  BY <1>1 DEF find

(* If the search found one unit, no other one is to be found in DFU mode.  *)
LEMMA SearchFindsOne ==
  ASSUME OwnTypes, NEW match, NEW r \in find(FALSE, match), Unambiguous(find(FALSE, match))
  PROVE  find(TRUE, match) \subseteq {r[1]} \X Nat
<1>1. find(FALSE, match) = {r}
  <2>1. Cardinality(find(FALSE, match)) = 1  BY DEF Unambiguous
  <2>2. PICK x : find(FALSE, match) = {x}  BY <2>1, FindFinite, FS_Singleton
  <2>3. QED  BY <2>2
<1>2. r = <<r[1], r[2]>> /\ r[2] \in Nat  BY FindPairs
<1>3. r \in {r[1]} \X Nat  BY <1>2
<1>4. QED  BY <1>1, <1>3, FindNarrower

(* That stays so as long as only the first unit changes.                   *)
LEMMA OthersStay ==
  ASSUME OwnTypes', DOMAIN units' = DOMAIN units, setup' = setup, first' = first,
         match_usbId' = match_usbId,
         \A u \in DOMAIN units : u # first => units'[u] = units[u],
         find(TRUE, match_usbId) \subseteq {first} \X Nat
  PROVE  find(TRUE, match_usbId)' \subseteq {first'} \X Nat
<1> SUFFICES ASSUME NEW r \in find(TRUE, match_usbId)' PROVE r \in {first} \X Nat
  OBVIOUS
<1>1. PICK u \in Matching(TRUE, match_usbId)' : r \in {u} \X (1 .. units'[u].alts)
  BY DEF find
<1>2. u \in DOMAIN units  BY DEF Matching
<1>3. CASE u = first
  <2>1. units'[u] \in Units  BY <1>2 DEF OwnTypes
  <2>2. units'[u].alts \in Nat  BY <2>1 DEF Units
  <2>3. QED  BY <1>1, <1>3, <2>2
<1>4. CASE u # first
  <2>1. units'[u] = units[u]  BY <1>2, <1>4
  <2>2. usbId(u)' = usbId(u)  BY <2>1 DEF usbId
  <2>3. u \in Matching(TRUE, match_usbId)
    BY <1>1, <1>2, <2>1, <2>2 DEF Matching, matchesProbe
  <2>4. r \in find(TRUE, match_usbId)  BY <1>1, <2>1, <2>3 DEF find
  <2>5. QED  BY <2>4
<1>5. QED  BY <1>3, <1>4

(* A step that changes no unit, no id searched for and not the unit that   *)
(* run() is about.                                                         *)
LEMMA SameUnit ==
  ASSUME UnitStands, UNCHANGED <<setup, units, match_usbId, dif, first>>,
         phase' # "search", phase = "search" => phase' = "failed",
         phase = "failed" => phase' = "failed",
         phase' \notin {"searchAgain", "failed"} => dif # 0,
         dif = 0 => image' = image
  PROVE  UnitStands'
<1>1. find(TRUE, match_usbId)' = find(TRUE, match_usbId)
  BY DEF find, Matching, usbId
<1>2. ASSUME ~setup.hotplug, phase' \notin {"search", "failed"}
      PROVE  find(TRUE, match_usbId)' \subseteq {first'} \X Nat
  BY <1>1, <1>2 DEF UnitStands
<1>3. dif' = 0 => image' = Ctl!FirstBytes(0)'
  BY DEF UnitStands, Ctl!FirstBytes
<1>4. ASSUME ~setup.hotplug
      PROVE  dif' \in {0, first'} /\ \A u \in DOMAIN units' : units'[u].leaving => u = first'
  BY <1>4 DEF UnitStands
<1>5. QED  BY <1>2, <1>3, <1>4 DEF UnitStands

(* A step of a phase in which run() is about a unit.                       *)
LEMMA UnitKept ==
  ASSUME UnitStands, UNCHANGED <<setup, units, found>>,
         phase \notin {"search", "searchAgain", "failed"},
         phase' \notin {"search", "searchAgain"}
  PROVE  UnitStands'
BY SameUnit DEF UnitStands, found

(* The interface is only open while run() is about a unit, so nothing is   *)
(* programmed without one.                                                 *)
LEMMA NextUnitStands ==
  ASSUME OwnTypes, OwnTypes', HandleDiscipline, RunStands, UnitStands, [Next]_vars
  PROVE  UnitStands'
<1> USE DEF Throw, Continue
<1>1. CASE Open \/ Reopen
  <2>1. UNCHANGED <<setup, units, match_usbId, dif, first>> /\ image' = image
    BY <1>1 DEF Open, Reopen, found, ctlVars
  <2>2. dif # 0 /\ phase \in {"open", "reopen"}
        /\ phase' \in {"claim", "claimRuntime", "failed"}
    BY <1>1 DEF Open, Reopen, openDevice, UnitStands
  <2>3. QED  BY <2>1, <2>2, SameUnit
<1>2. CASE ClaimRuntime \/ Claim
  BY <1>2, UnitKept DEF ClaimRuntime, Claim, claimInterface
<1>3. CASE RuntimeStatus \/ ClearRuntime
  BY <1>3, UnitKept DEF RuntimeStatus, ClearRuntime, ReleaseTo
<1>4. CASE Status  BY <1>4, UnitKept DEF Status, AfterStatus
<1>5. CASE ClearStatus \/ AbortPrevious \/ ClearOnce
  BY <1>5, UnitKept DEF ClearStatus, AbortPrevious, ClearOnce, Request
<1>6. CASE CheckOnce \/ Identify  BY <1>6, UnitKept DEF CheckOnce, Identify
<1>7. CASE RunDfuse \/ StartController \/ RunController \/ ControllerEnds
  BY <1>7, UnitKept DEF RunDfuse, StartController, RunController, ControllerEnds, Downloaded
<1>8. CASE FinalDetach \/ FinalReset \/ Close
  BY <1>8, UnitKept DEF FinalDetach, FinalReset, Close, closeDevice
<1>9. CASE Search
  <2>1. phase = "search" /\ dif = 0 /\ image = Ctl!FirstBytes(0)
        /\ UNCHANGED <<setup, units, ctlVars>> /\ first' = dif'
    BY <1>9 DEF Search, UnitStands
  <2>2. Select(find(FALSE, match_usbId'), "open")  BY <1>9 DEF Search
  <2>3. 0 \notin DOMAIN units /\ DOMAIN units = DOMAIN setup.units
    BY SetupTypes DEF OwnTypes
  <2>4. ASSUME ~setup.hotplug PROVE \A u \in DOMAIN units' : units'[u].leaving => u = first'
    <3>1. \A u \in DOMAIN units : ~units[u].leaving  BY <2>1, <2>3, <2>4 DEF UnitStands
    <3>2. QED  BY <2>1, <3>1
  <2>5. image' = Ctl!FirstBytes(0)'  BY <2>1 DEF Ctl!FirstBytes, ctlVars
  <2>6. CASE ~Unambiguous(find(FALSE, match_usbId'))
    <3>1. phase' = "failed" /\ dif' = dif  BY <2>2, <2>6 DEF Select
    <3>2. QED  BY <2>1, <2>4, <2>5, <3>1 DEF UnitStands
  <2>7. CASE Unambiguous(find(FALSE, match_usbId'))
    <3>1. PICK r \in find(FALSE, match_usbId') : dif' = r[1]  BY <2>2, <2>7 DEF Select
    <3>2. phase' = "open"  BY <2>2, <2>7 DEF Select
    <3>3. dif' # 0  BY <3>1, <2>3, FindType
    <3>4. find(TRUE, match_usbId') \subseteq {r[1]} \X Nat  BY <2>7, SearchFindsOne
    <3>5. find(TRUE, match_usbId)' = find(TRUE, match_usbId')
      BY <2>1 DEF find, Matching, usbId
    <3>6. find(TRUE, match_usbId)' \subseteq {first'} \X Nat  BY <3>1, <3>4, <3>5, <2>1
    <3>7. QED  BY <2>1, <2>4, <3>2, <3>3, <3>6 DEF UnitStands
  <2>8. QED  BY <2>6, <2>7
<1>10. CASE SearchAgain
  <2>1. phase = "searchAgain" /\ UNCHANGED <<setup, units, match_usbId, first>>
        /\ image' = image
    BY <1>10 DEF SearchAgain, ctlVars
  <2>2. Select(find(TRUE, match_usbId), "reopen")  BY <1>10 DEF SearchAgain
  <2>3. CASE ~Unambiguous(find(TRUE, match_usbId))
    <3>1. phase' = "failed" /\ dif' = dif  BY <2>2, <2>3 DEF Select
    <3>2. QED  BY <2>1, <3>1, SameUnit
  <2>4. CASE Unambiguous(find(TRUE, match_usbId))
    <3>1. PICK r \in find(TRUE, match_usbId) : dif' = r[1]  BY <2>2, <2>4 DEF Select
    <3>2. phase' = "reopen"  BY <2>2, <2>4 DEF Select
    <3>3. dif' # 0
      <4>1. 0 \notin DOMAIN units  BY SetupTypes DEF OwnTypes
      <4>2. QED  BY <3>1, <4>1, FindType
    <3>4. ASSUME ~setup.hotplug
          PROVE  /\ dif' = first'
                 /\ \A u \in DOMAIN units' : units'[u].leaving => u = first'
                 /\ find(TRUE, match_usbId)' \subseteq {first'} \X Nat
      <4>1. find(TRUE, match_usbId) \subseteq {first} \X Nat
            /\ \A u \in DOMAIN units : units[u].leaving => u = first
        BY <3>4, <2>1 DEF UnitStands
      <4>2. r \in {first} \X Nat  BY <3>1, <4>1
      <4>3. find(TRUE, match_usbId)' = find(TRUE, match_usbId)
        BY <2>1 DEF find, Matching, usbId
      <4>4. QED  BY <2>1, <3>1, <4>1, <4>2, <4>3
    <3>5. setup' = setup  BY <2>1
    <3>6. QED  BY <3>2, <3>3, <3>4, <3>5 DEF UnitStands
  <2>5. QED  BY <2>3, <2>4
<1>11. CASE CloseRuntime
  <2>1. phase = "closeRuntime" /\ phase' = "searchAgain" /\ dif' = 0
        /\ UNCHANGED <<setup, units, match_usbId, first>> /\ image' = image
    BY <1>11 DEF CloseRuntime, ctlVars
  <2>2. image = Ctl!FirstBytes(0)  BY <2>1 DEF RunStands, Nothing, BeforeRun, Phases
  <2>3. image' = Ctl!FirstBytes(0)'  BY <2>1, <2>2 DEF Ctl!FirstBytes
  <2>4. find(TRUE, match_usbId)' = find(TRUE, match_usbId)
    BY <2>1 DEF find, Matching, usbId
  <2>5. ASSUME ~setup.hotplug
        PROVE  /\ \A u \in DOMAIN units' : units'[u].leaving => u = first'
               /\ find(TRUE, match_usbId)' \subseteq {first'} \X Nat
    BY <2>1, <2>4, <2>5 DEF UnitStands
  <2>6. setup' = setup  BY <2>1
  <2>7. QED  BY <2>1, <2>3, <2>5, <2>6 DEF UnitStands
<1>a. ASSUME UNCHANGED <<setup, match_usbId, dif, first>>, image' = image,
             phase' = phase \/ phase \in {"detach", "resetRuntime"},
             phase' \in {phase, "resetRuntime", "closeRuntime", "failed"},
             phase # "search" \/ first \notin DOMAIN units,
             DOMAIN units' = DOMAIN units,
             ~setup.hotplug => \A u \in DOMAIN units : u # first => units'[u] = units[u]
      PROVE  UnitStands'
  <2>1. ASSUME ~setup.hotplug, phase \notin {"search", "failed"}
        PROVE  find(TRUE, match_usbId)' \subseteq {first'} \X Nat
    BY <1>a, <2>1, OthersStay DEF UnitStands
  <2>2. ASSUME ~setup.hotplug PROVE \A u \in DOMAIN units' : units'[u].leaving => u = first'
    BY <1>a, <2>2 DEF UnitStands
  <2>3. dif' = 0 => image' = Ctl!FirstBytes(0)'  BY <1>a DEF UnitStands, Ctl!FirstBytes
  <2>4. phase' \notin {"search", "searchAgain", "failed"} => dif' # 0
    BY <1>a DEF UnitStands
  <2>5. phase' = "search" => dif' = 0 /\ first' = 0  BY <1>a DEF UnitStands
  <2>6. ~setup.hotplug => dif' \in {0, first'}  BY <1>a DEF UnitStands
  <2>7. phase' \notin {"search", "failed"} => phase \notin {"search", "failed"}
    BY <1>a
  <2>8. setup' = setup  BY <1>a
  <2>9. QED  BY <2>1, <2>2, <2>3, <2>4, <2>5, <2>6, <2>7, <2>8 DEF UnitStands
<1>12. CASE Detach \/ ResetRuntime
  <2>1. phase \in {"detach", "resetRuntime"}
        /\ phase' \in {"resetRuntime", "closeRuntime", "failed"}
        /\ UNCHANGED <<setup, match_usbId, dif, first>> /\ image' = image
    BY <1>12 DEF Detach, ResetRuntime, found, ctlVars
  <2>2. DOMAIN units' = DOMAIN units
        /\ \A u \in DOMAIN units : u # dif => units'[u] = units[u]
    BY <1>12 DEF Detach, ResetRuntime
  <2>3. ~setup.hotplug => dif = first  BY <2>1 DEF UnitStands
  <2>4. QED  BY <2>1, <2>2, <2>3, <1>a
<1>13. CASE Bus
  <2>1. PICK u \in DOMAIN units : Reenumerate(u) \/ Vanish(u) \/ PlugOrUnplug(u)
    BY <1>13 DEF Bus
  <2>2. DOMAIN units' = DOMAIN units /\ \A v \in DOMAIN units : v # u => units'[v] = units[v]
    BY <2>1 DEF Reenumerate, Vanish, PlugOrUnplug, SetUnit
  <2>3. ~setup.hotplug => u = first
    BY <2>1 DEF Reenumerate, Vanish, PlugOrUnplug, UnitStands
  <2>4. UNCHANGED <<setup, phase, match_usbId, dif, first>> /\ image' = image
    BY <1>13, BusKeeps
  <2>5. phase = "search" => first \notin DOMAIN units
    BY SetupTypes DEF OwnTypes, UnitStands
  <2>6. QED  BY <2>2, <2>3, <2>4, <2>5, <1>a
<1>14. CASE Device
  <2>1. isOpen /\ UNCHANGED <<setup, phase, units, found>>  BY <1>14 DEF Device
  <2>2. phase \notin {"search", "searchAgain", "failed"}
    BY <2>1 DEF HandleDiscipline, Ended
  <2>3. QED  BY <2>1, <2>2, UnitKept
<1>15. CASE UNCHANGED vars
  <2>1. UNCHANGED <<setup, units, match_usbId, dif, first, phase, image>>
    BY <1>15 DEF vars, found, ctlVars
  <2>2. phase = "search" => first \notin DOMAIN units
    BY SetupTypes DEF OwnTypes, UnitStands
  <2>3. QED  BY <2>1, <2>2, <1>a
<1>16. QED
  BY <1>1, <1>2, <1>3, <1>4, <1>5, <1>6, <1>7, <1>8, <1>9, <1>10, <1>11, <1>12, <1>13,
     <1>14, <1>15 DEF Next, Host

-------------------------------------------------------------------------------
(* The interface is open or not, claimed or not.                           *)
Flags == isOpen \in BOOLEAN /\ isClaimed \in BOOLEAN

LEMMA NextFlags == Flags /\ [Next]_vars => Flags'
<1> SUFFICES ASSUME Flags, [Next]_vars PROVE Flags'  OBVIOUS
<1> USE Zenon DEF Flags, Throw, Continue, handle
<1>1. CASE Search \/ SearchAgain  BY <1>1 DEF Search, SearchAgain, Select
<1>2. CASE Open \/ Reopen  BY <1>2 DEF Open, Reopen, openDevice
<1>3. CASE ClaimRuntime \/ Claim  BY <1>3 DEF ClaimRuntime, Claim, claimInterface
<1>4. CASE RuntimeStatus \/ ClearRuntime  BY <1>4 DEF RuntimeStatus, ClearRuntime, ReleaseTo
<1>5. CASE Detach \/ ResetRuntime  BY <1>5 DEF Detach, ResetRuntime
<1>6. CASE CloseRuntime \/ Close  BY <1>6 DEF CloseRuntime, Close, closeDevice
<1>7. CASE Status \/ CheckOnce \/ Identify  BY <1>7 DEF Status, CheckOnce, Identify
<1>8. CASE ClearStatus \/ AbortPrevious \/ ClearOnce
  BY <1>8 DEF ClearStatus, AbortPrevious, ClearOnce, Request
<1>9. CASE RunDfuse \/ StartController \/ RunController \/ ControllerEnds
  BY <1>9 DEF RunDfuse, StartController, RunController, ControllerEnds, Downloaded
<1>10. CASE FinalDetach \/ FinalReset  BY <1>10 DEF FinalDetach, FinalReset
<1>11. CASE Device \/ UNCHANGED vars  BY <1>11 DEF Device, vars
<1>12. CASE Bus  BY <1>12, BusKeeps
<1>13. QED
  BY <1>1, <1>2, <1>3, <1>4, <1>5, <1>6, <1>7, <1>8, <1>9, <1>10, <1>11, <1>12
  DEF Next, Host

(* The inductive invariant: the types, how the handle is held, and where   *)
(* the device, the download and the unit stand in each phase.              *)
IInv == OwnTypes /\ Flags /\ P!TypeOK /\ HandleDiscipline /\ Standing

LEMMA InitIInv == Init => IInv
<1> SUFFICES ASSUME Init PROVE IInv  OBVIOUS
<1>1. setup.units \in [DOMAIN setup.units -> Units] /\ setup.match_usbId \in UsbIds
      /\ \A u \in DOMAIN setup.units : setup.units[u].leaving = FALSE
  BY SetupTypes DEF Init
<1>2. OwnTypes  BY <1>1 DEF Init, OwnTypes, Phases, UsbIds, Unset
<1>3. Flags /\ HandleDiscipline  BY DEF Init, Flags, HandleDiscipline, Ended
<1>4. dev \in HandedOver \cup Devs(AppStates, TRUE, FALSE) /\ dev \in Sound
  <2>1. NoDevice \in Devs(AppStates \cup {"dfuDNLOAD_IDLE", "dfuUPLOAD_IDLE"}, TRUE, FALSE)
    BY DEF NoDevice, Devs, AppStates
  <2>2. NoDevice \in Devs(AppStates, TRUE, FALSE)  BY DEF NoDevice, Devs, AppStates
  <2>3. QED  BY <2>1, <2>2 DEF Init, Sound
<1>5. P!TypeOK
  <2>1. dev \in P!Devices  BY <1>4, SoundDevices, SameDevices
  <2>2. block = P!NoBlock /\ image = P!FirstBytes(0)  BY SameBytes DEF Init
  <2>3. P!expected_size \in Nat /\ P!FirstBytes(0) \in Seq(Nat)
        /\ 0 \in 0 .. P!expected_size
    <3>1. job \in Jobs  BY DEF Init
    <3>2. job.total \in Nat /\ job.suffix \in Nat /\ job.suffix <= job.total
      BY <3>1, Assumptions
    <3>3. P!expected_size \in Nat  BY <3>2 DEF P!expected_size
    <3>4. P!FirstBytes(0) \in Seq(Nat)  BY DEF P!FirstBytes
    <3>5. QED  BY <3>3, <3>4
  <2>4. 0 \in 0 .. BlockNums - 1  BY Assumptions
  <2>5. QED  BY <2>1, <2>2, <2>3, <2>4 DEF Init, P!TypeOK, P!NoBlock
<1>6. DeviceStands  BY <1>4 DEF Init, DeviceStands
<1>7. RunStands  BY DEF Init, RunStands, Nothing, BeforeRun, AfterRun, Phases
<1>8. UnitStands  BY <1>1 DEF Init, UnitStands
<1>9. QED  BY <1>2, <1>3, <1>5, <1>6, <1>7, <1>8 DEF IInv, Standing

LEMMA NextIInv == IInv /\ [Next]_vars => IInv'
<1> SUFFICES ASSUME IInv, [Next]_vars PROVE IInv'  OBVIOUS
<1>1. OwnTypes /\ Flags /\ P!TypeOK /\ HandleDiscipline
      /\ DeviceStands /\ RunStands /\ UnitStands
  BY DEF IInv, Standing
<1>2. OwnTypes'  BY <1>1, NextOwnTypes
<1>3. Flags' /\ HandleDiscipline'  BY <1>1, NextFlags, NextHandles
<1>4. DeviceStands'
  <2>1. job \in Jobs  BY <1>1 DEF P!TypeOK
  <2>2. QED  BY <1>1, <2>1, NextDeviceStands
<1>5. P!TypeOK'  BY <1>1, <1>4, NextControllerTypes
<1>6. RunStands'  BY <1>1, <1>5, NextRunStands
<1>7. UnitStands'  BY <1>1, <1>2, NextUnitStands
<1>8. QED  BY <1>2, <1>3, <1>4, <1>5, <1>6, <1>7 DEF IInv, Standing

(* It holds in every reachable state.                                      *)
THEOREM Invariant == Spec => []IInv
<1>1. QED  BY InitIInv, NextIInv, PTL DEF Spec

(* Whatever may be found, whatever happens on the bus and whatever fails,  *)
(* every variable keeps its type, and the controller is run twice at most. *)
THEOREM TypeCorrect == Spec => []TypeOK
<1>1. IInv => TypeOK
  <2> SUFFICES ASSUME IInv PROVE TypeOK  OBVIOUS
  <2>1. OwnTypes /\ Flags /\ Ctl!TypeOK  BY SameTypeOK DEF IInv
  <2>2. dev \in Devices  BY <2>1, SameDevices DEF Ctl!TypeOK
  <2>3. setup \in Setups /\ phase \in Phases /\ units \in [DOMAIN setup.units -> Units]
        /\ match_usbId \in UsbIds /\ runtime_usbId \in UsbIds
        /\ dif \in {0} \cup DOMAIN units /\ first \in {0} \cup DOMAIN units /\ runs \in 0 .. 2
    BY <2>1 DEF OwnTypes
  <2>4. isOpen \in BOOLEAN /\ isClaimed \in BOOLEAN  BY <2>1, Zenon DEF Flags
  <2>5. QED  BY <2>1, <2>2, <2>3, <2>4, Zenon DEF TypeOK
<1>2. QED  BY <1>1, Invariant, PTL

(* On every way through run(), the one for a device in application mode    *)
(* and every exception included, requests find the interface open and      *)
(* claimed, and the end finds it released.                                 *)
THEOREM HandlesReleased == Spec => []HandleDiscipline
<1>1. IInv => HandleDiscipline  BY DEF IInv
<1>2. QED  BY <1>1, Invariant, PTL

(* Where the device, the download and the unit stand in each phase.        *)
THEOREM StandingCorrect == Spec => []Standing
<1>1. IInv => Standing  BY DEF IInv
<1>2. QED  BY <1>1, Invariant, PTL

(* The status loop and a first run of a controller leave a device as the   *)
(* controllers' own theorems assume it.                                    *)
THEOREM HandOver == Spec => []HandsOver
<1>1. IInv => HandsOver  BY DEF IInv, Standing, DeviceStands, HandsOver
<1>2. QED  BY <1>1, Invariant, PTL

(* What DfuController promises of one run holds in both runs that          *)
(* DfuDownloader gives it, on the device as the first one left it.         *)
THEOREM ControllerStaysSound == Spec => []ControllerSound
<1>1. IInv => ControllerSound  BY DEF IInv, Standing, RunStands, ControllerSound
<1>2. QED  BY <1>1, Invariant, PTL

(* "Success" means that the whole file has been programmed, after one run  *)
(* of a controller or two, whatever the device was found doing.            *)
THEOREM SuccessMeansDelivered == Spec => []SuccessDelivers
<1>1. IInv => SuccessDelivers
  <2> SUFFICES ASSUME RunStands, phase = "success"
               PROVE  \/ image = Ctl!FirstBytes(Ctl!expected_size)
                      \/ setup.dfuse /\ setup.unprotect /\ image = Ctl!FirstBytes(0)
    BY DEF IInv, Standing, SuccessDelivers
  <2>1. CASE setup.dfuse  BY <2>1 DEF RunStands, AfterRun
  <2>2. CASE ~setup.dfuse  BY <2>2 DEF RunStands, AfterRun, Everything
  <2>3. QED  BY <2>1, <2>2
<1>2. QED  BY <1>1, Invariant, PTL

(* Unless something is plugged in meanwhile, the unit that is programmed   *)
(* is the one that was found first, whatever id it comes back with.        *)
THEOREM RightUnitProgrammed == Spec => []RightUnit
<1>1. IInv => RightUnit
  <2> SUFFICES ASSUME UnitStands, ~setup.hotplug, image # Ctl!FirstBytes(0)
               PROVE  dif = first
    BY DEF IInv, Standing, RightUnit
  <2>1. QED  BY DEF UnitStands
<1>2. QED  BY <1>1, Invariant, PTL

===============================================================================
