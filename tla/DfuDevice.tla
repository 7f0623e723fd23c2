------------------------------- MODULE DfuDevice -------------------------------
(***************************************************************************)
(* The device at the other end of the USB cable: the protocol state that a *)
(* DFU 1.1 device keeps and what each class request does to it.  Nothing   *)
(* here is code of this library; it is the behaviour the library relies on *)
(* when it interprets the states listed in src/dfu/usb_dfu.hpp.            *)
(*                                                                         *)
(* A device is a record: the protocol state, whether bStatus is OK, and    *)
(* whether it still has work to do for the last request it accepted        *)
(* (programming a block, erasing a page, manifesting).  What that work     *)
(* does to memory belongs to the modules that send the requests.           *)
(***************************************************************************)

AppStates == {"appIDLE", "appDETACH"}

DfuStates == {"dfuIDLE", "dfuDNLOAD_SYNC", "dfuDNBUSY", "dfuDNLOAD_IDLE",
              "dfuMANIFEST_SYNC", "dfuMANIFEST", "dfuMANIFEST_WAIT_RST",
              "dfuUPLOAD_IDLE", "dfuERROR"}

Devices == [state : AppStates \cup DfuStates, ok : BOOLEAN, work : BOOLEAN]

(***************************************************************************)
(* A request the current state does not allow is stalled: in DFU mode the  *)
(* device then shows dfuERROR, in application mode nothing changes.        *)
(***************************************************************************)
InError == [state |-> "dfuERROR", ok |-> FALSE, work |-> FALSE]

Stall(d) == IF d.state \in AppStates THEN d ELSE InError

(* DFU_DNLOAD with data, and the zero-length one that ends a transfer.     *)
AcceptsData(d) == d.state \in {"dfuIDLE", "dfuDNLOAD_IDLE"}
TakeData(d) == [d EXCEPT !.state = "dfuDNLOAD_SYNC", !.work = TRUE]

AcceptsEnd(d) == d.state = "dfuDNLOAD_IDLE"
TakeEnd(d) == [d EXCEPT !.state = "dfuMANIFEST_SYNC", !.work = TRUE]

(* DFU_GETSTATUS moves the two SYNC states on, and reports the new state.  *)
Sync(d) ==
  [d EXCEPT !.state =
     CASE d.state = "dfuDNLOAD_SYNC"   -> IF d.work THEN "dfuDNBUSY" ELSE "dfuDNLOAD_IDLE"
       [] d.state = "dfuMANIFEST_SYNC" -> IF d.work THEN "dfuMANIFEST" ELSE "dfuIDLE"
       [] OTHER                        -> d.state]

(* DFU_CLRSTATUS and DFU_ABORT.                                            *)
AcceptsClear(d) == d.state = "dfuERROR" \/ (d.state \in DfuStates /\ ~d.ok)
AcceptsAbort(d) == d.state \in {"dfuIDLE", "dfuDNLOAD_SYNC", "dfuDNLOAD_IDLE",
                                "dfuMANIFEST_SYNC", "dfuUPLOAD_IDLE"}
ToIdle(d) == [state |-> "dfuIDLE", ok |-> TRUE, work |-> FALSE]

(* DFU_DETACH, for a device that runs its application.                     *)
AcceptsDetach(d) == d.state = "appIDLE"
TakeDetach(d) == [d EXCEPT !.state = "appDETACH"]

(***************************************************************************)
(* The device's own progress.  It programs a block once it has it; it      *)
(* manifests once a status request has put it in dfuMANIFEST.              *)
(***************************************************************************)
Programming(d) == d.work /\ d.state \in {"dfuDNLOAD_SYNC", "dfuDNBUSY"}
Manifesting(d) == d.work /\ d.state = "dfuMANIFEST"

(* A DfuSe device starts on a block only when it is asked for its status.  *)
Executing(d) == d.work /\ d.state = "dfuDNBUSY"

Programmed(d) == [d EXCEPT !.state = "dfuDNLOAD_SYNC", !.work = FALSE]

Manifested(d, tolerant) ==
  [d EXCEPT !.state = IF tolerant THEN "dfuMANIFEST_SYNC" ELSE "dfuMANIFEST_WAIT_RST",
            !.work = FALSE]
===============================================================================
