---------------------------- MODULE MCDfuDownloader ----------------------------
(***************************************************************************)
(* Small instances of DfuDownloader: one or two units on the bus, two      *)
(* vendors, and a file of one or two chunks.                               *)
(***************************************************************************)
EXTENDS DfuDownloader

Id(v, p) == [vendor |-> v, product |-> p]

Unit(app, dfu, showsDfu) ==
  [app |-> app, dfu |-> dfu, showsDfu |-> showsDfu, alts |-> 1,
   present |-> TRUE, leaving |-> FALSE]

(* The device the user means, and another one.                             *)
Target(showsDfu) == Unit(Id(1, 1), Id(1, 2), showsDfu)
Other(showsDfu) == Unit(Id(2, 1), Id(2, 2), showsDfu)

File(id) == [suffix |-> TRUE, usbId |-> id]
Plain == [suffix |-> FALSE, usbId |-> Unset]

Setup(file, match, match_dfu, onBus) ==
  [file |-> file, match_usbId |-> match, match_usbId_dfu |-> match_dfu, units |-> onBus,
   willDetach |-> FALSE, dfuse |-> FALSE, unprotect |-> FALSE, finalReset |-> FALSE,
   hotplug |-> FALSE]

OnBus == {<<Target(dfu)>> : dfu \in BOOLEAN} \cup {<<Other(TRUE)>>} \cup
         {<<Target(dfu), Other(other)>> : dfu, other \in BOOLEAN} \cup
         {<<[Target(TRUE) EXCEPT !.alts = 2]>>}

(* Every bus with every way to name the device; the options on a few.      *)
Identified ==
  {Setup(file, match, match_dfu, bus) :
     file \in {Plain, File(Id(1, 1)), File(Id(1, FFFF)), File(Id(2, 1))},
     match \in {Unset, Id(1, 1)}, match_dfu \in {Unset, Id(1, 2)}, bus \in OnBus}

WithOptions ==
  {[Setup(File(Id(1, 1)), Unset, Id(1, 2), bus) EXCEPT
      !.willDetach = detaches, !.dfuse = dfuse, !.unprotect = unprotect,
      !.finalReset = final, !.hotplug = hotplug] :
     bus \in {<<Target(FALSE), Other(FALSE)>>},
     detaches, dfuse, unprotect, final, hotplug \in BOOLEAN}

MCSetups == Identified \cup WithOptions

MCJobs == {[total |-> 3, suffix |-> 1, wTransferSize |-> size, bMaxPacketSize0 |-> 1,
            tolerant |-> tolerant] : size \in {0, 1}, tolerant \in BOOLEAN}

(* One device in DFU mode that is not the one the file is for.             *)
WrongDevice == {Setup(File(Id(1, 1)), Unset, Unset, <<Other(TRUE)>>)}

OneSetup == {Setup(File(Id(1, 1)), Unset, Unset, <<Target(TRUE)>>)}
OneJob == {[total |-> 3, suffix |-> 1, wTransferSize |-> 2, bMaxPacketSize0 |-> 1,
            tolerant |-> TRUE]}
===============================================================================
