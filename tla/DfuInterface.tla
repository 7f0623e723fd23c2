------------------------------ MODULE DfuInterface ------------------------------
(***************************************************************************)
(* class DfuInterface: the requests it sends as control transfers, each as *)
(* the set of what one call can lead to.  An outcome says what the call    *)
(* returned (a negative libusb error or not), whether the device accepted  *)
(* the request, and the device afterwards.  A transfer that returns an     *)
(* error may have been lost on the way, refused, or carried out with only  *)
(* its acknowledgement lost.  One that returns a count has been taken      *)
(* whole: assert_usbXferOk looks for errors only, and counts on a device   *)
(* that stalls what it does not take whole.                                *)
(***************************************************************************)
EXTENDS DfuDevice

dfuXferOut(d, accepts, after) ==
  {[ret |-> "error", got |-> FALSE, dev |-> d]} \cup
  IF accepts
    THEN {[ret |-> "ok",    got |-> TRUE, dev |-> after],
          [ret |-> "error", got |-> TRUE, dev |-> after]}
    ELSE {[ret |-> "error", got |-> FALSE, dev |-> Stall(d)]}

download(d)    == dfuXferOut(d, AcceptsData(d), TakeData(d))
downloadEnd(d) == dfuXferOut(d, AcceptsEnd(d), TakeEnd(d))
clearStatus(d) == dfuXferOut(d, AcceptsClear(d), ToIdle(d))
abort(d)       == dfuXferOut(d, AcceptsAbort(d), ToIdle(d))
detach(d)      == dfuXferOut(d, AcceptsDetach(d), TakeDetach(d))

(***************************************************************************)
(* getStatus presets the result to dfuERROR with an unknown error and      *)
(* fills it in only from a full six-byte answer, so a short answer, which  *)
(* is not an error return, reads as a failed device.                       *)
(***************************************************************************)
answer(d) == [ret |-> "ok", bState |-> Sync(d).state, ok |-> Sync(d).ok, dev |-> Sync(d)]

getStatus_NotPreset(d) ==
  {answer(d),
   [ret |-> "ok",    bState |-> "dfuDNLOAD_IDLE", ok |-> TRUE,       dev |-> Sync(d)],
   [ret |-> "error", bState |-> "dfuERROR",       ok |-> FALSE,      dev |-> d]}
getStatus(d) ==
  {answer(d),
   [ret |-> "ok",    bState |-> "dfuERROR",    ok |-> FALSE,      dev |-> Sync(d)],
   [ret |-> "error", bState |-> "dfuERROR",    ok |-> FALSE,      dev |-> Sync(d)],
   [ret |-> "error", bState |-> "dfuERROR",    ok |-> FALSE,      dev |-> d]}
===============================================================================
