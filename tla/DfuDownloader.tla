------------------------------ MODULE DfuDownloader ------------------------------
(***************************************************************************)
(* DfuDownloader::run: finding the device, moving it from its application  *)
(* to DFU mode, bringing it to a state to start from, the download itself  *)
(* (twice, with the controller of module DfuController), and the reset     *)
(* that ends it, while devices come and go on the bus.                     *)
(*                                                                         *)
(* A unit is a device that is or may be plugged in: its ids in application *)
(* and in DFU mode, whether its descriptors show DFU mode at the moment,   *)
(* and alts, the number of its DFU interfaces that the rest of the probe's *)
(* filters lets through.  The variables of DfuController describe the      *)
(* device behind dif and the controller that works on it.                  *)
(***************************************************************************)
EXTENDS DfuControllerBase, UsbId, FiniteSets, Sequences

CONSTANTS
  Setups,           \* what a run may start with
  Jobs, BlockNums   \* see DfuController

Units == [app : UsbIds, dfu : UsbIds, showsDfu : BOOLEAN, alts : Nat,
          present : BOOLEAN, leaving : BOOLEAN]

ASSUME SetupsAssumption ==
  \A s \in Setups :
    /\ s.file \in [suffix : BOOLEAN, usbId : UsbIds]
    /\ s.match_usbId \in UsbIds /\ s.match_usbId_dfu \in UsbIds
    /\ {s.willDetach, s.dfuse, s.unprotect, s.finalReset, s.hotplug} \subseteq BOOLEAN
    /\ s.units \in Seq(Units)
    /\ \A u \in DOMAIN s.units : ~s.units[u].leaving

VARIABLES
  setup,
  phase,           \* where run() stands
  units,
  match_usbId,     \* of the probe
  dif,             \* the unit it is about, 0 for none
  first,           \* the unit that was found first
  isOpen, isClaimed,
  runtime_usbId,
  runs,            \* how often the controller has been run
  \* of the controller and its device
  job, pc, transferSize, bytes_sent, chunk_size, transaction, progress, dev, block, image

Ctl == INSTANCE DfuController

ASSUME ControllerAssumption ==
  Ctl!JobsAssumption /\ Ctl!SuffixAssumption /\ Ctl!BlockNumsAssumption

ctlVars == <<job, pc, transferSize, bytes_sent, chunk_size, transaction, progress, block, image>>
handle == <<isOpen, isClaimed>>
found == <<match_usbId, dif, first, runtime_usbId>>
vars == <<setup, phase, units, found, handle, runs, ctlVars, dev>>

NoDevice == [state |-> "appIDLE", ok |-> TRUE, work |-> FALSE]

usbId(u) == IF units[u].showsDfu THEN units[u].dfu ELSE units[u].app

Init ==
  /\ setup \in Setups
  /\ phase = "search"
  /\ units = setup.units
  /\ match_usbId = setup.match_usbId
  /\ dif = 0 /\ first = 0
  /\ isOpen = FALSE /\ isClaimed = FALSE
  /\ runtime_usbId = Unset
  /\ runs = 0
  /\ job \in Jobs
  /\ pc = "start"
  /\ transferSize = 0 /\ bytes_sent = 0 /\ chunk_size = 0 /\ transaction = 0
  /\ progress = 0
  /\ dev = NoDevice /\ block = Ctl!NoBlock /\ image = Ctl!FirstBytes(0)

(***************************************************************************)
(* An exception leaves run() through its catch block; the last reference   *)
(* to dif goes with it, and ~DfuInterface releases and closes.             *)
(***************************************************************************)
Throw == phase' = "failed" /\ isOpen' = FALSE /\ isClaimed' = FALSE

Continue(next) == phase' = next /\ UNCHANGED handle

(***************************************************************************)
(* DfuFinder::find (module DfuFinder): one result for each DFU interface   *)
(* of a unit that the probe matches.  A unit that cannot be opened is not  *)
(* found, as if it were not plugged in.                                    *)
(***************************************************************************)
Matching(dfuOnly, match) ==
  {u \in DOMAIN units :
     /\ units[u].present
     /\ matchesProbe(units[u].showsDfu, usbId(u), match, setup.match_usbId_dfu, dfuOnly)}

find(dfuOnly, match) ==
  UNION {{u} \X (1 .. units[u].alts) : u \in Matching(dfuOnly, match)}

Unambiguous_First(results) == results # {}
Unambiguous(results) == Cardinality(results) = 1

Select(results, next) ==
  IF Unambiguous(results)
    THEN /\ \E r \in results : dif' = r[1]
         /\ Continue(next)
    ELSE Throw /\ UNCHANGED dif

Search ==
  /\ phase = "search"
  /\ match_usbId' = provideDefaultSearchId(setup.file, match_usbId)
  /\ Select(find(FALSE, match_usbId'), "open")
  /\ first' = dif'
  /\ UNCHANGED <<setup, units, runtime_usbId, runs, ctlVars, dev>>

(* What a device may be doing when its handle is opened: an application    *)
(* may be one that is in a DFU state all the same, and the other way round *)
(* (find goes by the descriptors, with exceptions for some devices).       *)
Devs(S, ok, work) == [state : S, ok : {ok}, work : {work}]

DevicesShowing(dfu) ==
  Devs({"appIDLE", "dfuIDLE", "dfuDNLOAD_IDLE"}, TRUE, FALSE) \cup {InError} \cup
  IF dfu
    THEN Devs({"dfuUPLOAD_IDLE", "dfuDNLOAD_SYNC", "dfuMANIFEST_WAIT_RST"}, TRUE, FALSE)
         \cup Devs({"dfuDNBUSY", "dfuDNLOAD_SYNC", "dfuMANIFEST", "dfuMANIFEST_SYNC"}, TRUE, TRUE)
         \cup Devs({"dfuIDLE"}, FALSE, FALSE)
    ELSE Devs({"appDETACH"}, TRUE, FALSE)

openDevice(next) ==
  \/ Throw /\ UNCHANGED dev
  \/ /\ units[dif].present
     /\ dev' \in DevicesShowing(units[dif].showsDfu)
     /\ phase' = next /\ isOpen' = TRUE /\ UNCHANGED isClaimed

claimInterface(next) ==
  Throw \/ (phase' = next /\ isClaimed' = TRUE /\ UNCHANGED isOpen)

(* Opening the unit found; in application mode its id is the run-time id.  *)
Open ==
  /\ phase = "open"
  /\ openDevice(IF units[dif].showsDfu THEN "claim" ELSE "claimRuntime")
  /\ runtime_usbId' = IF units[dif].showsDfu THEN defaultsFrom(match_usbId, usbId(dif))
                      ELSE usbId(dif)
  /\ UNCHANGED <<setup, units, match_usbId, dif, first, runs, ctlVars>>

ClaimRuntime ==
  /\ phase = "claimRuntime"
  /\ claimInterface("runtimeStatus")
  /\ UNCHANGED <<setup, units, found, runs, ctlVars, dev>>

(* The application may stall the request, which counts as appIDLE.  In a   *)
(* DFU state the interface is released and goes on as if found in it.      *)
ReleaseTo(next) == phase' = next /\ isClaimed' = FALSE /\ UNCHANGED isOpen

RuntimeStatus ==
  /\ phase = "runtimeStatus"
  /\ \/ dev.state \in AppStates /\ Continue("detach") /\ UNCHANGED dev
     \/ \E r \in getStatus(dev) :
          /\ dev' = r.dev
          /\ \/ r.ret = "error" /\ Throw
             \/ r.ret = "ok" /\ r.bState \in AppStates /\ Continue("detach")
             \/ r.ret = "ok" /\ r.bState = "dfuERROR" /\ Continue("clearRuntime")
             \/ r.ret = "ok" /\ r.bState \in DfuStates \ {"dfuERROR"} /\ ReleaseTo("claim")
  /\ UNCHANGED <<setup, units, found, runs, ctlVars>>

ClearRuntime ==
  /\ phase = "clearRuntime"
  /\ \E o \in clearStatus(dev) :
       /\ dev' = o.dev
       /\ IF o.ret = "error" THEN Throw ELSE ReleaseTo("claim")
  /\ UNCHANGED <<setup, units, found, runs, ctlVars>>

(* A failed detach request is only logged.                                 *)
Detach ==
  /\ phase = "detach"
  /\ \E o \in detach(dev) :
       /\ dev' = o.dev
       /\ units' = IF o.got /\ setup.willDetach THEN [units EXCEPT ![dif].leaving = TRUE]
                   ELSE units
  /\ Continue(IF setup.willDetach THEN "closeRuntime" ELSE "resetRuntime")
  /\ UNCHANGED <<setup, found, runs, ctlVars>>

(* A reset makes a device that has been detached leave.                    *)
ResetRuntime ==
  /\ phase = "resetRuntime"
  /\ \/ Throw /\ UNCHANGED units
     \/ /\ Continue("closeRuntime")
        /\ units' = [units EXCEPT ![dif].leaving = (dev.state = "appDETACH")]
  /\ UNCHANGED <<setup, found, runs, ctlVars, dev>>

(* "keeping handles open might prevent re-enumeration"                     *)
closeDevice_ReleaseOnly == isClaimed' = FALSE /\ UNCHANGED isOpen
closeDevice == isOpen' = FALSE /\ isClaimed' = FALSE

CloseRuntime ==
  /\ phase = "closeRuntime"
  /\ closeDevice
  /\ dif' = 0 /\ phase' = "searchAgain"
  /\ UNCHANGED <<setup, units, match_usbId, first, runtime_usbId, runs, ctlVars, dev>>

SearchAgain ==
  /\ phase = "searchAgain"
  /\ Select(find(TRUE, match_usbId), "reopen")
  /\ UNCHANGED <<setup, units, match_usbId, first, runtime_usbId, runs, ctlVars, dev>>

Reopen ==
  /\ phase = "reopen"
  /\ openDevice("claim")
  /\ UNCHANGED <<setup, units, found, runs, ctlVars>>

Claim ==
  /\ phase = "claim"
  /\ claimInterface("status")
  /\ UNCHANGED <<setup, units, found, runs, ctlVars, dev>>

(***************************************************************************)
(* The loop at status_again.                                               *)
(***************************************************************************)
AfterStatus_NoAbort(r) ==
  IF r.ret = "error" \/ r.bState \in AppStates THEN "failed"
  ELSE IF r.bState = "dfuERROR" THEN "clear"
  ELSE IF r.ok THEN "identify" ELSE "clearOnce"
AfterStatus_UntilIdle(r) ==
  IF r.ret = "error" \/ r.bState \in AppStates THEN "failed"
  ELSE IF r.bState = "dfuERROR" THEN "clear"
  ELSE IF r.bState \in {"dfuDNLOAD_IDLE", "dfuUPLOAD_IDLE"} THEN "abort"
  ELSE IF r.bState # "dfuIDLE" THEN "status"
  ELSE IF r.ok THEN "identify" ELSE "clearOnce"
AfterStatus(r) ==
  IF r.ret = "error" \/ r.bState \in AppStates THEN "failed"
  ELSE IF r.bState = "dfuERROR" THEN "clear"
  ELSE IF r.bState \in {"dfuDNLOAD_IDLE", "dfuUPLOAD_IDLE"} THEN "abort"
  ELSE IF r.ok THEN "identify" ELSE "clearOnce"

Status ==
  /\ phase = "status"
  /\ \E r \in getStatus(dev) :
       /\ dev' = r.dev
       /\ IF AfterStatus(r) = "failed" THEN Throw ELSE Continue(AfterStatus(r))
  /\ UNCHANGED <<setup, units, found, runs, ctlVars>>

(* A request whose failure ends the run.                                   *)
Request(at, outcomes, next) ==
  /\ phase = at
  /\ \E o \in outcomes :
       /\ dev' = o.dev
       /\ IF o.ret = "error" THEN Throw ELSE Continue(next)
  /\ UNCHANGED <<setup, units, found, runs, ctlVars>>

ClearStatus == Request("clear", clearStatus(dev), "status")
AbortPrevious == Request("abort", abort(dev), "status")
ClearOnce == Request("clearOnce", clearStatus(dev), "checkOnce")

CheckOnce ==
  /\ phase = "checkOnce"
  /\ \E r \in getStatus(dev) :
       /\ dev' = r.dev
       /\ IF r.ret = "ok" /\ r.ok THEN Continue("identify") ELSE Throw
  /\ UNCHANGED <<setup, units, found, runs, ctlVars>>

Identify ==
  /\ phase = "identify"
  /\ IF \/ matchesSearch(runtime_usbId, getSearchId(setup.file))
        \/ matchesSearch(usbId(dif), getSearchId(setup.file))
       THEN Continue(IF setup.dfuse THEN "dfuse" ELSE "run")
       ELSE Throw
  /\ UNCHANGED <<setup, units, found, runs, ctlVars, dev>>

(***************************************************************************)
(* The download.  A DfuSe run is one step here, with the outcomes that     *)
(* FlashDownload gives it; a plain one is a run of DfuController's host,   *)
(* which starts with fresh local variables.                                *)
(***************************************************************************)
Downloaded == Continue(IF setup.finalReset THEN "finalDetach" ELSE "close")

RunDfuse ==
  /\ phase = "dfuse"
  /\ dev' \in HandedOver
  /\ \/ Throw /\ UNCHANGED image
     \/ /\ Downloaded
        /\ image' = Ctl!FirstBytes(IF setup.unprotect THEN 0 ELSE Ctl!expected_size)
  /\ UNCHANGED <<setup, units, found, runs, job, pc, transferSize, bytes_sent, chunk_size,
                 transaction, progress, block>>

FreshRun_BytesKept ==
  /\ pc' = "start" /\ transaction' = 0
  /\ UNCHANGED <<job, transferSize, bytes_sent, chunk_size, progress>>
FreshRun ==
  /\ pc' = "start" /\ bytes_sent' = 0 /\ transaction' = 0
  /\ UNCHANGED <<job, transferSize, chunk_size, progress>>

StartController ==
  /\ phase = "run"
  /\ FreshRun
  /\ block' = Ctl!NoBlock /\ image' = Ctl!FirstBytes(0)
  /\ runs' = runs + 1
  /\ Continue("controller")
  /\ UNCHANGED <<setup, units, found, dev>>

RunController ==
  /\ phase = "controller"
  /\ Ctl!Host
  /\ UNCHANGED <<setup, phase, units, found, handle, runs>>

(* What run() returns is never negative; it fails by an exception.         *)
Returned_Whatever == pc \in {"done", "failed"}
Returned == pc = "done"

RunAgain_NotCounted == runs > 0
RunAgain == runs = 1

ControllerEnds ==
  /\ phase = "controller" /\ pc \in {"done", "failed"}
  /\ IF ~Returned THEN Throw
     ELSE IF RunAgain THEN Continue("run")
     ELSE Downloaded
  /\ UNCHANGED <<setup, units, found, runs, ctlVars, dev>>

FinalDetach ==
  /\ phase = "finalDetach"
  /\ \E o \in detach(dev) : dev' = o.dev
  /\ Continue("finalReset")
  /\ UNCHANGED <<setup, units, found, runs, ctlVars>>

FinalReset ==
  /\ phase = "finalReset"
  /\ Throw \/ Continue("close")
  /\ UNCHANGED <<setup, units, found, runs, ctlVars, dev>>

Close ==
  /\ phase = "close"
  /\ closeDevice
  /\ phase' = "success"
  /\ UNCHANGED <<setup, units, found, runs, ctlVars, dev>>

Host == \/ Search \/ Open \/ ClaimRuntime \/ RuntimeStatus \/ ClearRuntime \/ Detach
        \/ ResetRuntime \/ CloseRuntime \/ SearchAgain \/ Reopen \/ Claim \/ Status
        \/ ClearStatus \/ AbortPrevious \/ ClearOnce \/ CheckOnce \/ Identify
        \/ RunDfuse \/ StartController \/ RunController \/ ControllerEnds
        \/ FinalDetach \/ FinalReset \/ Close

(* The device behind an open handle goes on with its work.                 *)
Device ==
  /\ isOpen
  /\ Ctl!Device
  /\ UNCHANGED <<setup, phase, units, found, handle, runs>>

-------------------------------------------------------------------------------
(* The bus: a unit told to leave comes back in DFU mode or not at all, and *)
(* where people may interfere other units come and go.                     *)
SetUnit(u, unit) ==
  /\ units' = [units EXCEPT ![u] = unit]
  /\ UNCHANGED <<setup, phase, found, handle, runs, ctlVars, dev>>

Reenumerate(u) ==
  /\ units[u].leaving
  /\ SetUnit(u, [units[u] EXCEPT !.leaving = FALSE, !.showsDfu = TRUE])

Vanish(u) ==
  /\ units[u].leaving
  /\ SetUnit(u, [units[u] EXCEPT !.leaving = FALSE, !.present = FALSE])

PlugOrUnplug(u) ==
  /\ setup.hotplug
  /\ phase \in {"search", "closeRuntime", "searchAgain"}
  /\ u # first
  /\ SetUnit(u, [units[u] EXCEPT !.present = ~units[u].present])

Bus == \E u \in DOMAIN units : Reenumerate(u) \/ Vanish(u) \/ PlugOrUnplug(u)

Next == Host \/ Device \/ Bus

Spec == Init /\ [][Next]_vars

(* The host thread keeps running, and the device gets its work done, well  *)
(* or badly.  Nothing is assumed of the bus, nor that a poll which finds   *)
(* the device busy must be lost in the end.                                *)
Answered ==
  /\ phase = "status" => phase' = AfterStatus(answer(dev))
  /\ phase = "controller" => Ctl!Answered

FairSpec == Spec /\ WF_vars(Host /\ Answered) /\ WF_vars(Device)

-------------------------------------------------------------------------------
Phases == {"search", "open", "claimRuntime", "runtimeStatus", "clearRuntime", "detach",
           "resetRuntime", "closeRuntime", "searchAgain", "reopen", "claim", "status",
           "clear", "abort", "clearOnce", "checkOnce", "identify", "dfuse", "run",
           "controller", "finalDetach", "finalReset", "close", "success", "failed"}

Ended == phase \in {"success", "failed"}

(* Every variable keeps its type; a handle is open when it is claimed, and *)
(* the controller is run twice at most.                                    *)
TypeOK ==
  /\ setup \in Setups /\ phase \in Phases
  /\ units \in [DOMAIN setup.units -> Units]
  /\ match_usbId \in UsbIds /\ runtime_usbId \in UsbIds
  /\ dif \in {0} \cup DOMAIN units /\ first \in {0} \cup DOMAIN units
  /\ isOpen \in BOOLEAN /\ isClaimed \in BOOLEAN
  /\ runs \in 0 .. 2
  /\ dev \in Devices
  /\ Ctl!TypeOK

(* Every request finds the interface open and claimed, on each way through *)
(* run(); none is held while the bus is searched again; and however run()  *)
(* ends, nothing stays open or claimed.                                    *)
HandleDiscipline ==
  /\ phase \in {"runtimeStatus", "clearRuntime", "detach", "resetRuntime", "status", "clear",
                "abort", "clearOnce", "checkOnce", "identify", "dfuse", "run", "controller",
                "finalDetach", "finalReset"} => isOpen /\ isClaimed
  /\ phase \in {"claimRuntime", "claim"} => isOpen /\ ~isClaimed
  /\ phase \in {"search", "open", "searchAgain", "reopen"} \/ Ended => ~isOpen /\ ~isClaimed

(* What the controllers assume of the device they are given, each time one *)
(* is run, holds: the status loop leaves it, and a first run() leaves it,  *)
(* in a state that belongs to no transfer.                                 *)
HandsOver ==
  \/ phase = "dfuse"
  \/ phase = "controller" /\ pc = "start"
  => dev \in HandedOver

(* Within this system, too, the controller's invariant holds, in its       *)
(* second run as in its first.                                             *)
ControllerSound == phase = "controller" => Ctl!Delivery

(* "Success" is only reported with the whole file on the device, unless    *)
(* removing a read protection was what had been asked for.                 *)
SuccessDelivers ==
  phase = "success" =>
    \/ image = Ctl!FirstBytes(Ctl!expected_size)
    \/ setup.dfuse /\ setup.unprotect /\ image = Ctl!FirstBytes(0)

(* As long as nothing is plugged in meanwhile, what is programmed is the   *)
(* unit that was found first: a bystander is not mistaken for it after the *)
(* reset, when it has changed its id.                                      *)
RightUnit == ~setup.hotplug /\ image # Ctl!FirstBytes(0) => dif = first

(* run() comes to an end.                                                  *)
Terminates == <>Ended

(* "Error: File ID does not match device" (src/dfu/DfuDownloader.cpp:225)  *)
(* keeps a file off a device whose ids are none of the file's.             *)
FileIdChecked ==
  image # Ctl!FirstBytes(0) =>
    \/ matchesSearch(units[dif].app, getSearchId(setup.file))
    \/ matchesSearch(units[dif].dfu, getSearchId(setup.file))

(* "send one zero sized download request to signalize end"                 *)
(* (src/dfu/DfuController.cpp:124): one, in one DfuDownloader::run.        *)
OneCompletion == ~(runs = 2 /\ pc = "manifest")
-------------------------------------------------------------------------------
(* Why HandsOver, ControllerSound, SuccessDelivers and RightUnit hold.     *)
(* The states a device can be in, those a controller is handed included,   *)
(* and the one that its status loop must clear first.                      *)
Sound ==
  HandedOver \cup Devs(AppStates \cup {"dfuDNLOAD_IDLE", "dfuUPLOAD_IDLE"}, TRUE, FALSE)
  \cup Devs({"dfuDNLOAD_SYNC"}, TRUE, TRUE)

Uncleared == [state |-> "dfuIDLE", ok |-> FALSE, work |-> FALSE]

DeviceStands ==
  /\ dev \in Sound \cup {Uncleared}
  /\ phase = "checkOnce" => dev = ToIdle(dev)
  /\ phase \in {"identify", "dfuse", "run"} => dev \in HandedOver
  /\ phase = "controller" => dev # Uncleared
  /\ phase = "controller" /\ pc = "start" => dev \in HandedOver

(* How much has been programmed when run() stands where it does.           *)
Nothing == pc = "start" /\ block = Ctl!NoBlock /\ image = Ctl!FirstBytes(0)

Everything ==
  /\ pc = "done" /\ image = Ctl!FirstBytes(Ctl!expected_size)
  /\ dev.state \in {"dfuMANIFEST_SYNC", "dfuMANIFEST", "dfuMANIFEST_WAIT_RST",
                    "dfuIDLE", "dfuERROR"}

BeforeRun == Phases \ {"run", "controller", "finalDetach", "finalReset", "close",
                       "success", "failed"}
AfterRun == {"finalDetach", "finalReset", "close", "success"}

RunStands ==
  /\ phase = "dfuse" => setup.dfuse
  /\ phase \in {"run", "controller"} => ~setup.dfuse
  /\ phase \in BeforeRun => runs = 0 /\ Nothing
  /\ phase = "run" => (runs = 0 /\ Nothing) \/ (runs = 1 /\ Everything)
  /\ phase = "controller" => runs > 0 /\ Ctl!Delivery
  /\ phase \in AfterRun /\ ~setup.dfuse => Everything
  /\ phase \in AfterRun /\ setup.dfuse =>
       /\ block = Ctl!NoBlock
       /\ image = Ctl!FirstBytes(IF setup.unprotect THEN 0 ELSE Ctl!expected_size)

(* The unit that run() is about, and, while nothing is plugged in, that no *)
(* other one leaves or can be found in DFU mode.                           *)
UnitStands ==
  /\ phase = "search" => dif = 0 /\ first = 0
  /\ phase \notin {"search", "searchAgain", "failed"} => dif # 0
  /\ dif = 0 => image = Ctl!FirstBytes(0)
  /\ ~setup.hotplug =>
       /\ dif \in {0, first}
       /\ \A u \in DOMAIN units : units[u].leaving => u = first
       /\ phase \notin {"search", "failed"} => find(TRUE, match_usbId) \subseteq {first} \X Nat

Standing == DeviceStands /\ RunStands /\ UnitStands
===============================================================================
