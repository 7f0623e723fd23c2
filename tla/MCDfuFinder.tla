------------------------------ MODULE MCDfuFinder ------------------------------
(***************************************************************************)
(* Small instances of DfuFinder: buses of up to two devices with up to two *)
(* configurations, and one filter at a time.                               *)
(***************************************************************************)
EXTENDS DfuFinder

MCNames == {"", "a", "b", "UNKNOWN"}

(* Descriptors: whole ones of a version and a transfer size, a short one,  *)
(* one that is cut off, one that says zero, and one of another type.       *)
Dfu(version, size) ==
  <<9, USB_DT_DFU, 1, 0, 0>> \o write_u16l(size) \o write_u16l(version)
Dfu7 == <<7, USB_DT_DFU, 1, 0, 0, 64, 0>>
DfuCut == <<9, USB_DT_DFU, 1, 0, 0, 64>>
Zero == <<0, 5>>
Foreign == <<3, 5, USB_DT_DFU>>
Skewed == <<3, 5, USB_DT_DFU, 8, USB_DT_DFU>>   \* the walk lands inside of it

Alt(protocol, name, extra) ==
  [dfuClass |-> TRUE, protocol |-> protocol, name |-> name, extra |-> extra]
OtherAlt == [dfuClass |-> FALSE, protocol |-> 0, name |-> "a", extra |-> <<Dfu(\h0110, 9)>>]

Config(value, extra, interfaces) ==
  [bConfigurationValue |-> value, empty |-> FALSE, extra |-> extra, interfaces |-> interfaces]
NoConfig == [Config(0, << >>, << >>) EXCEPT !.empty = TRUE]

Device(id, port, serial, configs) ==
  [path |-> <<1, port, 4>>, usbId |-> id, bcdDevice |-> \h0200, serial |-> serial,
   answer |-> Dfu(\h0101, 32), configs |-> configs]

Id(vendor, product) == [vendor |-> vendor, product |-> product]
Lpc == Id(\h1FC9, \h000C)
Maple == Id(\h1EAF, 3)

(* An application with two settings, and two DFU interfaces of two.        *)
App == Device(Id(1, 1), 1, "a", <<Config(1, << >>,
         <<<<OtherAlt>>, <<Alt(1, "a", <<Foreign, Dfu(\h0110, 16)>>), OtherAlt, Alt(1, "", << >>)>>>>)>>)
Boot(id) == Device(id, 2, "b", <<Config(1, <<Foreign, Dfu(\h011A, 64)>>,
         <<<<Alt(2, "a", << >>), Alt(0, "b", << >>)>>, <<Alt(1, "b", << >>), Alt(2, "", << >>)>>>>)>>)

(* A second configuration that leaves something out which the first has.   *)
Second(extra, alts) ==
  Device(Id(1, 2), 3, "", <<Config(1, <<Dfu(\h0110, 64)>>, <<<<Alt(2, "a", << >>)>>>>),
                            Config(2, extra, <<alts>>)>>)

MCBuses ==
  {<< >>, <<App, Boot(Id(1, 2))>>, <<Boot(Maple)>>, <<Boot(Lpc)>>} \cup
  {<<Second(extra, alts)>> :
     extra \in {<< >>, <<Dfu7>>, <<DfuCut>>, <<Zero, Dfu(\h0110, 9)>>, <<Skewed>>, <<Foreign>>},
     alts \in {<<Alt(2, "a", << >>)>>, <<Alt(0, "b", <<Foreign, Dfu(\h011A, 8)>>), OtherAlt>>,
               <<OtherAlt>>}} \cup
  {<<Device(Id(1, 1), 1, "a", <<NoConfig, Config(1, << >>, <<<<Alt(1, "a", <<Dfu7>>)>>>>)>>),
     Boot(Id(1, 2))>>}

MCFilters ==
  {reset} \cup
  {[reset EXCEPT !.path = <<1, 1, 1, 4>>], [reset EXCEPT !.usbId = Id(1, -1)],
   [reset EXCEPT !.usbId_dfu = Id(1, 2)], [reset EXCEPT !.config_index = 2],
   [reset EXCEPT !.iface_index = 1], [reset EXCEPT !.iface_alt_index = 1],
   [reset EXCEPT !.iface_alt_name = "b"], [reset EXCEPT !.serial = "a"],
   [reset EXCEPT !.serial_dfu = "b"], [reset EXCEPT !.matchDfuOnly = TRUE]}

MCSearches ==
  {s \in [f : MCFilters, bus : MCBuses] :
     s.f.config_index = -1 \/ \A d \in DOMAIN s.bus : s.bus[d].configs[1] # NoConfig}
===============================================================================
