--------------------------------- MODULE UsbId ---------------------------------
(***************************************************************************)
(* class UsbId, and what DfuFile makes of the id in a file's suffix.  A    *)
(* part of an id is -1 when it is not set; in a suffix it is 16 bits wide  *)
(* and 0xFFFF stands for any.                                              *)
(***************************************************************************)
EXTENDS PackedData

UsbIds == [vendor : {-1} \cup Words, product : {-1} \cup Words]

Unset == [vendor |-> -1, product |-> -1]

(* Each set part of searchId must be equal to that part of id.             *)
matchesSearch(id, searchId) ==
  \A part \in {"vendor", "product"} : searchId[part] >= 0 => searchId[part] = id[part]

(* The set parts of id, and those of src for the others.                   *)
defaultsFrom(id, src) ==
  [part \in {"vendor", "product"} |-> IF id[part] >= 0 THEN id[part] ELSE src[part]]

(* What DfuFinderImpl takes of the id: a device that shows DFU mode is held *)
(* against the DFU id alone, another one against the run-time id, unless   *)
(* only the former are asked for.                                          *)
matchesProbe(showsDfu, id, match_usbId, match_usbId_dfu, matchDfuOnly) ==
  IF showsDfu THEN matchesSearch(id, match_usbId_dfu)
  ELSE ~matchDfuOnly /\ matchesSearch(id, match_usbId)

(* A file is a record: whether it has a suffix, and the id in it.          *)
getSearchId(file) ==
  IF file.suffix
    THEN [part \in {"vendor", "product"} |-> IF file.usbId[part] = FFFF THEN -1
                                             ELSE file.usbId[part]]
    ELSE Unset

provideDefaultSearchId(file, dst) ==
  IF file.suffix THEN defaultsFrom(dst, getSearchId(file)) ELSE dst
===============================================================================
