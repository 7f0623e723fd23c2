----------------------------- MODULE MCDfuController -----------------------------
(* Small instances of DfuController for TLC.  Sizes are scaled down: a     *)
(* packet is 1 or 2 bytes, a page 3, and block numbers wrap after 2.       *)
EXTENDS DfuController

MCJobs ==
  {j \in [total : 0 .. 6, suffix : {0, 1, 2}, wTransferSize : {0, 1, 2, 5},
          bMaxPacketSize0 : {1, 2}, tolerant : BOOLEAN] : j.suffix <= j.total}

(* A single file, for the runs that show a disagreement.                   *)
OneJob == {[total |-> 5, suffix |-> 1, wTransferSize |-> 2, bMaxPacketSize0 |-> 1,
            tolerant |-> TRUE]}
===============================================================================
