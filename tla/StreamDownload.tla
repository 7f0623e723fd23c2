----------------------------- MODULE StreamDownload -----------------------------
(***************************************************************************)
(* What a plain DFU download promises, with no protocol in it: the device  *)
(* stores ever longer prefixes of the file, and the download is only       *)
(* reported done when the device has stored all of it.  A device that was  *)
(* given a block before the host gave up may still store that block.       *)
(***************************************************************************)
EXTENDS Naturals, Sequences

VARIABLES size, image, outcome
vars == <<size, image, outcome>>

(* The first n bytes of the file, each byte named by its offset.           *)
FirstBytes(n) == [i \in 1 .. n |-> i - 1]

Init ==
  /\ size \in Nat
  /\ image = FirstBytes(0)
  /\ outcome = "running"

Store ==
  /\ \E n \in Len(image) .. size : image' = FirstBytes(n)
  /\ UNCHANGED <<size, outcome>>

Finish ==
  /\ outcome = "running"
  /\ image = FirstBytes(size)
  /\ outcome' = "done"
  /\ UNCHANGED <<size, image>>

Fail ==
  /\ outcome = "running"
  /\ outcome' = "failed"
  /\ UNCHANGED <<size, image>>

Next == Store \/ Finish \/ Fail

Spec == Init /\ [][Next]_vars
===============================================================================
