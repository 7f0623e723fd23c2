--------------------------------- MODULE quirks ---------------------------------
(***************************************************************************)
(* get_quirks: a table of devices known to break the rules.                *)
(***************************************************************************)
EXTENDS Integers

AnyRelease == 0 .. 65535

QuirkTable ==
  {[vendors |-> {\h1D50, \h1457}, products |-> \h5117 .. \h5126, releases |-> AnyRelease,
    quirk |-> "POLLTIMEOUT"],                              \* Openmoko Freerunner
   [vendors |-> {\h16C0}, products |-> {\h76B}, releases |-> AnyRelease,
    quirk |-> "POLLTIMEOUT"],                              \* OpenPCD
   [vendors |-> {\h1EAF}, products |-> {3}, releases |-> {\h200},
    quirk |-> "FORCE_DFU11"],                              \* Maple 3
   [vendors |-> {\h908}, products |-> {\h2C4, \h2C5}, releases |-> {0},
    quirk |-> "POLLTIMEOUT"],                              \* Siemens PXM 40, 50
   [vendors |-> {\h763}, products |-> {\h2806}, releases |-> AnyRelease,
    quirk |-> "POLLTIMEOUT"]}                              \* M-Audio Transit

get_quirks(id, bcdDevice) ==
  {row.quirk : row \in {r \in QuirkTable : /\ id.vendor \in r.vendors
                                           /\ id.product \in r.products
                                           /\ bcdDevice \in r.releases}}
===============================================================================
