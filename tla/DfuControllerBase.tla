---------------------------- MODULE DfuControllerBase ----------------------------
(***************************************************************************)
(* class DfuController: what the plain and the DfuSe download share, and   *)
(* the states in which DfuDownloader hands them a device.                  *)
(***************************************************************************)
EXTENDS DfuInterface, Naturals

CONSTANT PageSize   \* getpagesize() on the host

ASSUME PageSizeAssumption == PageSize \in Nat \ {0}

(***************************************************************************)
(* The wTransferSize that is used: at most a page, at least a packet.      *)
(***************************************************************************)
getDefaultTransferSize_NoPageLimit(j) ==
  IF j.wTransferSize < j.bMaxPacketSize0 THEN j.bMaxPacketSize0 ELSE j.wTransferSize
getDefaultTransferSize(j) ==
  LET limited == IF j.wTransferSize > PageSize THEN PageSize ELSE j.wTransferSize
  IN  IF limited < j.bMaxPacketSize0 THEN j.bMaxPacketSize0 ELSE limited

(***************************************************************************)
(* The states in which run() may find the device.  DfuDownloader hands     *)
(* over dfuIDLE and what falls into the default case of its switch, the    *)
(* device may have moved on from there, and after a first run() a second   *)
(* one follows at once.                                                    *)
(***************************************************************************)
HandedOver ==
  {[state |-> s, ok |-> TRUE, work |-> FALSE] :
     s \in {"dfuIDLE", "dfuDNLOAD_SYNC", "dfuMANIFEST_SYNC", "dfuMANIFEST_WAIT_RST"}} \cup
  {[state |-> s, ok |-> TRUE, work |-> TRUE] :
     s \in {"dfuDNBUSY", "dfuMANIFEST_SYNC", "dfuMANIFEST"}} \cup
  {InError}
===============================================================================
