------------------------------ MODULE FlashDownload ------------------------------
(***************************************************************************)
(* What a DfuSe download promises, with no protocol and no pages in it.    *)
(* wanted maps each address the file fills to the byte that belongs there; *)
(* flash maps the addresses that hold such a byte by now to it.  Bytes are *)
(* only ever added, and the download is reported done when all are there.  *)
(* Removing the read protection is the other thing that can be asked for,  *)
(* and downloads nothing.                                                  *)
(***************************************************************************)
EXTENDS Functions

VARIABLES wanted, flash, outcome
vars == <<wanted, flash, outcome>>

Init ==
  /\ flash = Restrict(wanted, {})
  /\ outcome = "running"

Store ==
  /\ DOMAIN flash \subseteq DOMAIN flash'
  /\ DOMAIN flash' \subseteq DOMAIN wanted
  /\ flash' = Restrict(wanted, DOMAIN flash')
  /\ UNCHANGED <<wanted, outcome>>

Finish ==
  /\ outcome = "running"
  /\ \/ flash = wanted /\ outcome' = "done"
     \/ DOMAIN flash = {} /\ outcome' = "unprotected"
  /\ UNCHANGED <<wanted, flash>>

Fail ==
  /\ outcome = "running"
  /\ outcome' = "failed"
  /\ UNCHANGED <<wanted, flash>>

Next == Store \/ Finish \/ Fail

Spec == Init /\ [][Next]_vars
===============================================================================
