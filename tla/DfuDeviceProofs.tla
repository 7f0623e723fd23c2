----------------------------- MODULE DfuDeviceProofs -----------------------------
(***************************************************************************)
(* What the proofs about both controllers and about DfuDownloader need of  *)
(* the device: the records its steps leave, and what one request can come  *)
(* to.                                                                     *)
(***************************************************************************)
EXTENDS DfuControllerBase, TLAPS

(* What any request or step of its own leaves behind is a device.          *)
LEMMA DeviceRecords ==
  ASSUME NEW d \in Devices
  PROVE  /\ InError \in Devices /\ Stall(d) \in Devices
         /\ TakeData(d) \in Devices /\ TakeEnd(d) \in Devices
         /\ Sync(d) \in Devices /\ Programmed(d) \in Devices
         /\ \A t \in BOOLEAN : Manifested(d, t) \in Devices
<1> USE DEF Devices, AppStates, DfuStates
<1>1. InError \in Devices  BY DEF InError
<1>2. Stall(d) \in Devices  BY <1>1 DEF Stall
<1>3. TakeData(d) \in Devices  BY DEF TakeData
<1>4. TakeEnd(d) \in Devices  BY DEF TakeEnd
<1>5. Sync(d) \in Devices  BY DEF Sync
<1>6. Programmed(d) \in Devices  BY DEF Programmed
<1>7. \A t \in BOOLEAN : Manifested(d, t) \in Devices  BY DEF Manifested
<1>8. QED  BY <1>1, <1>2, <1>3, <1>4, <1>5, <1>6, <1>7

(* The fields of a device after each thing that can happen to it.          *)
LEMMA DeviceFields ==
  ASSUME NEW d \in Devices
  PROVE  /\ d.state \in AppStates \cup DfuStates /\ d.ok \in BOOLEAN /\ d.work \in BOOLEAN
         /\ InError.state = "dfuERROR" /\ InError.ok = FALSE /\ InError.work = FALSE
         /\ Stall(d) \in {d, InError}
         /\ TakeData(d).state = "dfuDNLOAD_SYNC" /\ TakeData(d).work = TRUE
         /\ TakeData(d).ok = d.ok
         /\ TakeEnd(d).state = "dfuMANIFEST_SYNC" /\ TakeEnd(d).work = TRUE
         /\ TakeEnd(d).ok = d.ok
         /\ Programmed(d).state = "dfuDNLOAD_SYNC" /\ Programmed(d).work = FALSE
         /\ Programmed(d).ok = d.ok
         /\ \A t \in BOOLEAN :
              /\ Manifested(d, t).state \in {"dfuMANIFEST_SYNC", "dfuMANIFEST_WAIT_RST"}
              /\ Manifested(d, t).work = FALSE /\ Manifested(d, t).ok = d.ok
<1> USE DEF Devices
<1>1. d.state \in AppStates \cup DfuStates /\ d.ok \in BOOLEAN /\ d.work \in BOOLEAN
  OBVIOUS
<1>2. Stall(d) \in {d, InError}  BY DEF Stall
<1>3. InError.state = "dfuERROR" /\ InError.ok = FALSE /\ InError.work = FALSE
  BY DEF InError
<1>4. /\ TakeData(d).state = "dfuDNLOAD_SYNC" /\ TakeData(d).work = TRUE
      /\ TakeData(d).ok = d.ok
  BY DEF TakeData
<1>5. /\ TakeEnd(d).state = "dfuMANIFEST_SYNC" /\ TakeEnd(d).work = TRUE
      /\ TakeEnd(d).ok = d.ok
  BY DEF TakeEnd
<1>6. /\ Programmed(d).state = "dfuDNLOAD_SYNC" /\ Programmed(d).work = FALSE
      /\ Programmed(d).ok = d.ok
  BY DEF Programmed
<1>7. \A t \in BOOLEAN :
        /\ Manifested(d, t).state \in {"dfuMANIFEST_SYNC", "dfuMANIFEST_WAIT_RST"}
        /\ Manifested(d, t).work = FALSE /\ Manifested(d, t).ok = d.ok
  BY DEF Manifested
<1>8. QED  BY <1>1, <1>2, <1>3, <1>4, <1>5, <1>6, <1>7

LEMMA SyncFields ==
  ASSUME NEW d \in Devices
  PROVE  /\ Sync(d).ok = d.ok /\ Sync(d).work = d.work
         /\ d.state \notin {"dfuDNLOAD_SYNC", "dfuMANIFEST_SYNC"} => Sync(d).state = d.state
         /\ d.state = "dfuDNLOAD_SYNC" /\ d.work => Sync(d).state = "dfuDNBUSY"
         /\ d.state = "dfuDNLOAD_SYNC" /\ ~d.work => Sync(d).state = "dfuDNLOAD_IDLE"
         /\ d.state = "dfuMANIFEST_SYNC" /\ d.work => Sync(d).state = "dfuMANIFEST"
         /\ d.state = "dfuMANIFEST_SYNC" /\ ~d.work => Sync(d).state = "dfuIDLE"
BY DEF Devices, Sync

(* The devices a run may start with are devices, in a state from which no  *)
(* block has been taken, and dfuERROR is the one that is not OK.           *)
LEMMA HandedOverDevices ==
  ASSUME NEW d \in HandedOver
  PROVE  /\ d \in Devices
         /\ d.state \in {"dfuIDLE", "dfuDNBUSY", "dfuDNLOAD_SYNC", "dfuMANIFEST",
                         "dfuMANIFEST_SYNC", "dfuMANIFEST_WAIT_RST", "dfuERROR"}
         /\ d.ok <=> d.state # "dfuERROR"
         /\ d.state = "dfuERROR" => ~d.work
<1>1. CASE d = InError  BY <1>1 DEF InError, Devices, DfuStates
<1>2. CASE \E s \in {"dfuIDLE", "dfuDNLOAD_SYNC", "dfuMANIFEST_SYNC", "dfuMANIFEST_WAIT_RST"} :
             d = [state |-> s, ok |-> TRUE, work |-> FALSE]
  BY <1>2 DEF Devices, DfuStates
<1>3. CASE \E s \in {"dfuDNBUSY", "dfuMANIFEST_SYNC", "dfuMANIFEST"} :
             d = [state |-> s, ok |-> TRUE, work |-> TRUE]
  BY <1>3 DEF Devices, DfuStates
<1>4. QED  BY <1>1, <1>2, <1>3 DEF HandedOver

(* What one control transfer can come to.                                  *)
LEMMA XferOutcome ==
  ASSUME NEW d, NEW accepts \in BOOLEAN, NEW after, NEW o \in dfuXferOut(d, accepts, after)
  PROVE  \/ o.ret = "error" /\ o.got = FALSE /\ o.dev = d
         \/ o.ret \in {"ok", "error"} /\ o.got = TRUE /\ accepts /\ o.dev = after
         \/ o.ret = "error" /\ o.got = FALSE /\ ~accepts /\ o.dev = Stall(d)
<1>1. CASE accepts = TRUE  BY <1>1 DEF dfuXferOut
<1>2. CASE accepts = FALSE  BY <1>2 DEF dfuXferOut
<1>3. QED  BY <1>1, <1>2

LEMMA DownloadOutcome ==
  ASSUME NEW d \in Devices, NEW o \in download(d)
  PROVE  /\ o.dev \in Devices
         /\ \/ o.ret = "error" /\ o.got = FALSE /\ o.dev = d
            \/ /\ o.ret \in {"ok", "error"} /\ o.got = TRUE
               /\ d.state \in {"dfuIDLE", "dfuDNLOAD_IDLE"} /\ o.dev = TakeData(d)
            \/ /\ o.ret = "error" /\ o.got = FALSE
               /\ d.state \notin {"dfuIDLE", "dfuDNLOAD_IDLE"} /\ o.dev = Stall(d)
<1> DEFINE acc == d.state \in {"dfuIDLE", "dfuDNLOAD_IDLE"}
<1>1. acc \in BOOLEAN  OBVIOUS
<1>2. o \in dfuXferOut(d, acc, TakeData(d))  BY DEF download, AcceptsData
<1>3. Stall(d) \in Devices /\ TakeData(d) \in Devices  BY DeviceRecords
<1> HIDE DEF acc
<1>4. \/ o.ret = "error" /\ o.got = FALSE /\ o.dev = d
      \/ o.ret \in {"ok", "error"} /\ o.got = TRUE /\ acc /\ o.dev = TakeData(d)
      \/ o.ret = "error" /\ o.got = FALSE /\ ~acc /\ o.dev = Stall(d)
  BY <1>1, <1>2, XferOutcome
<1>5. QED  BY <1>3, <1>4 DEF acc

LEMMA DownloadEndOutcome ==
  ASSUME NEW d \in Devices, NEW o \in downloadEnd(d)
  PROVE  /\ o.dev \in Devices
         /\ \/ o.ret = "error" /\ o.got = FALSE /\ o.dev = d
            \/ /\ o.ret \in {"ok", "error"} /\ o.got = TRUE
               /\ d.state = "dfuDNLOAD_IDLE" /\ o.dev = TakeEnd(d)
            \/ /\ o.ret = "error" /\ o.got = FALSE
               /\ d.state # "dfuDNLOAD_IDLE" /\ o.dev = Stall(d)
<1> DEFINE acc == d.state = "dfuDNLOAD_IDLE"
<1>1. acc \in BOOLEAN  OBVIOUS
<1>2. o \in dfuXferOut(d, acc, TakeEnd(d))  BY DEF downloadEnd, AcceptsEnd
<1>3. Stall(d) \in Devices /\ TakeEnd(d) \in Devices  BY DeviceRecords
<1> HIDE DEF acc
<1>4. \/ o.ret = "error" /\ o.got = FALSE /\ o.dev = d
      \/ o.ret \in {"ok", "error"} /\ o.got = TRUE /\ acc /\ o.dev = TakeEnd(d)
      \/ o.ret = "error" /\ o.got = FALSE /\ ~acc /\ o.dev = Stall(d)
  BY <1>1, <1>2, XferOutcome
<1>5. QED  BY <1>3, <1>4 DEF acc

(* What a status request can come to: an answer that is believed shows the *)
(* device as it is.                                                        *)
LEMMA GetStatusOutcome ==
  ASSUME NEW d \in Devices, NEW r \in getStatus(d)
  PROVE  /\ r.dev \in {d, Sync(d)} /\ r.dev \in Devices
         /\ r.ret \in {"ok", "error"}
         /\ r.ret = "ok" /\ r.bState # "dfuERROR" =>
              r.dev = Sync(d) /\ r.bState = Sync(d).state /\ r.ok = Sync(d).ok
         /\ r.ret = "ok" /\ r.ok =>
              r.dev = Sync(d) /\ r.bState = Sync(d).state /\ Sync(d).ok
<1>1. \/ r = [ret |-> "ok", bState |-> Sync(d).state, ok |-> Sync(d).ok, dev |-> Sync(d)]
      \/ r = [ret |-> "ok", bState |-> "dfuERROR", ok |-> FALSE, dev |-> Sync(d)]
      \/ r = [ret |-> "error", bState |-> "dfuERROR", ok |-> FALSE, dev |-> Sync(d)]
      \/ r = [ret |-> "error", bState |-> "dfuERROR", ok |-> FALSE, dev |-> d]
  BY DEF getStatus, answer
<1>2. d \in Devices /\ Sync(d) \in Devices  BY DeviceRecords
<1>3. Sync(d).ok \in BOOLEAN  BY <1>2 DEF Devices
<1>4. QED  BY <1>1, <1>2, <1>3
===============================================================================
