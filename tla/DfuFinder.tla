-------------------------------- MODULE DfuFinder --------------------------------
(***************************************************************************)
(* DfuFinder::find: the walk over the devices of the bus, their            *)
(* configurations and the alternate settings of their interfaces, one call *)
(* into libusb per step, any of which may fail.                            *)
(*                                                                         *)
(* A search is what one call of find() meets: the filters f that the       *)
(* caller has set, and the bus.  An alternate setting has its place        *)
(* <<device, configuration, interface, setting>>, counted from one.        *)
(* Descriptors are the bytes that the device sends; extra is a sequence of *)
(* descriptors, and a name that is not set is "".                          *)
(***************************************************************************)
EXTENDS UsbDfuFuncDescriptor, UsbId, quirks, SequencesExt, FiniteSetsExt

CONSTANTS Searches, Names

Settings == [dfuClass : BOOLEAN, protocol : 0 .. 2, extra : Seq(Seq(Byte)), name : Names]

Configurations ==
  [bConfigurationValue : Nat, empty : BOOLEAN, extra : Seq(Seq(Byte)),
   interfaces : Seq(Seq(Settings))]

USBDevices ==
  [path : Seq(Nat), usbId : UsbIds, bcdDevice : Words, serial : Names,
   answer : Seq(Byte), configs : Seq(Configurations)]

Filters ==
  [path : Seq(Nat), usbId : UsbIds, usbId_dfu : UsbIds, config_index : {-1} \cup Nat,
   iface_index : {-1} \cup Nat, iface_alt_index : {-1} \cup Nat, iface_alt_name : Names,
   serial : Names, serial_dfu : Names, matchDfuOnly : BOOLEAN]

(* DfuFinder::reset: nothing is asked for.                                 *)
reset ==
  [path |-> << >>, usbId |-> Unset, usbId_dfu |-> Unset, config_index |-> -1,
   iface_index |-> -1, iface_alt_index |-> -1, iface_alt_name |-> "", serial |-> "",
   serial_dfu |-> "", matchDfuOnly |-> FALSE]

(* An empty configuration is looked at before it is known to be empty when *)
(* a configuration is asked for; such a search is left out.                *)
ASSUME SearchesAssumption ==
  \A s \in Searches :
    /\ s.f \in Filters /\ s.bus \in Seq(USBDevices)
    /\ \A d \in DOMAIN s.bus : \A c \in DOMAIN s.bus[d].configs :
         s.bus[d].configs[c].empty => s.f.config_index = -1

VARIABLES
  search,
  pc,           \* where find() and probe_configuration() stand
  dev, cfg_idx, \* the device and the configuration looked at
  todo,         \* the places in it that are still to be gone through
  p,            \* the position in the list of descriptors
  func_dfu,
  cfg,          \* whether a configuration descriptor is held
  devh,         \* whether a handle is open
  refs,         \* references to each device beyond those the list came with
  results,
  lost          \* the places libusb could not be asked about

vars == <<search, pc, dev, cfg_idx, todo, p, func_dfu, cfg, devh, refs, results, lost>>
held == <<cfg, devh, refs, results>>

f == search.f
desc == search.bus[dev]
config == desc.configs[cfg_idx]
Setting(at) == search.bus[at[1]].configs[at[2]].interfaces[at[3]][at[4]]

Init ==
  /\ search \in Searches
  /\ pc = "device" /\ dev = 0 /\ cfg_idx = 0
  /\ todo = << >> /\ p = 0
  /\ func_dfu = cleared
  /\ cfg = FALSE /\ devh = FALSE
  /\ refs = [d \in DOMAIN search.bus |-> 0]
  /\ results = << >> /\ lost = {}

-------------------------------------------------------------------------------
(***************************************************************************)
(* find: the devices in the order of the list.  A list that cannot be had  *)
(* is an empty bus.                                                        *)
(***************************************************************************)
(* The ports on the way to the device; the first one is named twice.       *)
get_path(device) ==
  IF Len(device.path) < 2 THEN << >> ELSE SubSeq(device.path, 1, 2) \o Tail(device.path)

NextDevice ==
  /\ pc = "device" /\ dev < Len(search.bus)
  /\ dev' = dev + 1 /\ cfg_idx' = 0
  /\ IF f.path \in {<< >>, get_path(search.bus[dev'])}
       THEN \/ pc' = "config" /\ UNCHANGED lost
            \/ pc' = "device" /\ lost' = lost \cup {<<dev'>>}
       ELSE pc' = "device" /\ UNCHANGED lost
  /\ UNCHANGED <<search, todo, p, func_dfu, held>>

EndOfList ==
  /\ pc = "device" /\ dev = Len(search.bus)
  /\ pc' = "done"
  /\ UNCHANGED <<search, dev, cfg_idx, todo, p, func_dfu, held, lost>>

(***************************************************************************)
(* The next configuration, unless its descriptor cannot be had or is       *)
(* empty, which ends the device, or another one is asked for.              *)
(***************************************************************************)
FreshDescriptor_Kept == func_dfu
FreshDescriptor == cleared

SkipConfig_NotFreed == pc' = "config" /\ cfg' = TRUE
SkipConfig == pc' = "config" /\ cfg' = FALSE

GetConfig(c) ==
  IF f.config_index \notin {-1, c.bConfigurationValue} THEN SkipConfig
  ELSE IF c.empty THEN pc' = "device" /\ UNCHANGED cfg
  ELSE pc' = "scanConfig" /\ cfg' = TRUE

NextConfig ==
  /\ pc = "config" /\ cfg_idx < Len(desc.configs)
  /\ cfg_idx' = cfg_idx + 1
  /\ func_dfu' = FreshDescriptor
  /\ p' = 0
  /\ \/ pc' = "device" /\ lost' = lost \cup {<<dev, cfg_idx'>>} /\ UNCHANGED cfg
     \/ GetConfig(desc.configs[cfg_idx']) /\ UNCHANGED lost
  /\ UNCHANGED <<search, dev, todo, devh, refs, results>>

EndOfConfigs ==
  /\ pc = "config" /\ cfg_idx = Len(desc.configs)
  /\ pc' = "device"
  /\ UNCHANGED <<search, dev, cfg_idx, todo, p, func_dfu, held, lost>>

(* The places of all settings of the DFU class, in the order of the loops. *)
DfuPlaces_AnyClass ==
  FlattenSeq([i \in DOMAIN config.interfaces |->
                [a \in DOMAIN config.interfaces[i] |-> <<dev, cfg_idx, i, a>>]])
DfuPlaces ==
  FlattenSeq([i \in DOMAIN config.interfaces |->
    FlattenSeq([a \in DOMAIN config.interfaces[i] |->
      IF config.interfaces[i][a].dfuClass THEN <<<<dev, cfg_idx, i, a>>>> ELSE << >>])])

FreeConfig(next) == pc' = next /\ cfg' = FALSE

-------------------------------------------------------------------------------
(***************************************************************************)
(* find_descriptor: from one descriptor to the next by their lengths, to   *)
(* the first functional descriptor; the configuration's own list comes     *)
(* first, then those of its settings.                                      *)
(***************************************************************************)
list == FlattenSeq(IF pc = "scanConfig" THEN config.extra ELSE Setting(Head(todo)).extra)

USB_DT_DFU == 33

HasNext_ZeroLengthPassed == p + 1 < Len(list)
HasNext == p + 1 < Len(list) /\ list[p + 1] # 0

Taken == Min({list[p + 1], sizeInBytes, Len(list) - p})

(* What find() makes of a descriptor that is too short for its version or  *)
(* its transfer size.                                                      *)
Completed(d) ==
  IF d.bLength = 7 THEN [d EXCEPT !.bcdDFUVersion = \h0100]
  ELSE IF d.bLength < 9 THEN [d EXCEPT !.bcdDFUVersion = \h0100, !.wTransferSize = 0]
  ELSE d

Scanning == pc \in {"scanConfig", "scanSetting"}

PassDescriptor ==
  /\ Scanning /\ HasNext
  /\ list[p + 2] # USB_DT_DFU
  /\ p' = p + list[p + 1]
  /\ UNCHANGED <<search, pc, dev, cfg_idx, todo, func_dfu, held, lost>>

FindDescriptor ==
  /\ Scanning /\ HasNext
  /\ list[p + 2] = USB_DT_DFU
  /\ func_dfu' = Completed(parse(SubSeq(list, p + 1, p + Taken)))
  /\ pc' = "settings" /\ todo' = DfuPlaces
  /\ UNCHANGED <<search, dev, cfg_idx, p, held, lost>>

(* A configuration with settings of the DFU class and no descriptor in any *)
(* list is asked for it.                                                   *)
NoDescriptor ==
  /\ Scanning /\ ~HasNext
  /\ p' = 0
  /\ todo' = IF pc = "scanConfig" THEN DfuPlaces ELSE Tail(todo)
  /\ IF todo' # << >> THEN pc' = "scanSetting" /\ UNCHANGED cfg
     ELSE IF DfuPlaces # << >> THEN pc' = "ask" /\ UNCHANGED cfg
     ELSE FreeConfig("config")
  /\ UNCHANGED <<search, dev, cfg_idx, func_dfu, devh, refs, results, lost>>

(* "fake version 1.0"                                                      *)
Fake(d) == [d EXCEPT !.bLength = 7, !.bcdDFUVersion = \h0100]

AskDevice ==
  /\ pc = "ask"
  /\ todo' = DfuPlaces
  /\ \/ pc' = "asked" /\ devh' = TRUE /\ UNCHANGED <<func_dfu, lost>>
     \/ /\ pc' = "settings" /\ UNCHANGED devh
        /\ func_dfu' = Completed(Fake(func_dfu))
        /\ lost' = lost \cup {<<dev, cfg_idx, "descriptor">>}
  /\ UNCHANGED <<search, dev, cfg_idx, p, cfg, refs, results>>

Asked ==
  /\ pc = "asked"
  /\ pc' = "settings" /\ devh' = FALSE
  /\ \/ func_dfu' = Completed(parse(desc.answer)) /\ UNCHANGED lost
     \/ /\ func_dfu' = Completed(Fake(func_dfu))
        /\ lost' = lost \cup {<<dev, cfg_idx, "descriptor">>}
  /\ UNCHANGED <<search, dev, cfg_idx, todo, p, cfg, refs, results>>

-------------------------------------------------------------------------------
(***************************************************************************)
(* The settings of a configuration that has a descriptor.  Some devices    *)
(* show another protocol than that of DFU mode.                            *)
(***************************************************************************)
dfu_mode(id, protocol, version) ==
  \/ protocol = 2
  \/ protocol = 0 /\ version = \h011A
  \/ protocol = 1 /\ id = [vendor |-> \h1FC9, product |-> \h000C]

ShowsDfu(at, version) == dfu_mode(search.bus[at[1]].usbId, Setting(at).protocol, version)

Eligible(at, version) ==
  /\ f.iface_index \in {-1, at[3] - 1}
  /\ ShowsDfu(at, version) => f.iface_alt_index \in {-1, at[4] - 1}
  /\ matchesProbe(ShowsDfu(at, version), search.bus[at[1]].usbId, f.usbId, f.usbId_dfu,
                  f.matchDfuOnly)

(* The names count for what could be read of them.                         *)
Named(at, version, alt_name, serial_name) ==
  IF ShowsDfu(at, version)
    THEN f.iface_alt_name \in {"", alt_name} /\ f.serial_dfu \in {"", serial_name}
    ELSE f.serial \in {"", serial_name}

PassSetting ==
  /\ pc = "settings" /\ todo # << >>
  /\ ~Eligible(Head(todo), func_dfu.bcdDFUVersion)
  /\ todo' = Tail(todo)
  /\ UNCHANGED <<search, pc, dev, cfg_idx, p, func_dfu, held, lost>>

(* A device that cannot be opened is not tried again for this interface.   *)
OtherInterfaces_Given(places) == << >>
OtherInterfaces(places) ==
  FlattenSeq([k \in DOMAIN places |->
                IF places[k][3] = Head(places)[3] THEN << >> ELSE <<places[k]>>])

OpenSetting ==
  /\ pc = "settings" /\ todo # << >>
  /\ Eligible(Head(todo), func_dfu.bcdDFUVersion)
  /\ \/ pc' = "identify" /\ devh' = TRUE /\ UNCHANGED <<todo, lost>>
     \/ /\ todo' = OtherInterfaces(todo)
        /\ lost' = lost \cup {Head(todo)}
        /\ UNCHANGED <<pc, devh>>
  /\ UNCHANGED <<search, dev, cfg_idx, p, func_dfu, cfg, refs, results>>

(* A name that is set but cannot be read is lost.                          *)
Unread(at, which, name, read) ==
  {at \o <<w>> : w \in IF name # "" /\ read = "UNKNOWN" THEN {which} ELSE {}}

Identify ==
  /\ pc = "identify"
  /\ pc' = "settings" /\ devh' = FALSE /\ todo' = Tail(todo)
  /\ LET at == Head(todo)
         version == func_dfu.bcdDFUVersion
         quirky == get_quirks(desc.usbId, desc.bcdDevice)
         descriptor == IF "FORCE_DFU11" \in quirky
                         THEN [func_dfu EXCEPT !.bcdDFUVersion = \h0110] ELSE func_dfu
     IN  \E alt_name \in {Setting(at).name, "UNKNOWN"} \ {""},
            serial_name \in {desc.serial, "UNKNOWN"} \ {""} :
           /\ lost' = lost \cup Unread(at, "name", Setting(at).name, alt_name) \cup
                        Unread(at, "serial", desc.serial, serial_name)
           /\ IF Named(at, version, alt_name, serial_name)
                THEN /\ results' = Append(results, [at |-> at, dfu |-> ShowsDfu(at, version),
                                                   func_dfu |-> descriptor, quirks |-> quirky])
                     /\ refs' = [refs EXCEPT ![dev] = @ + 1]
                ELSE UNCHANGED <<results, refs>>
  /\ UNCHANGED <<search, dev, cfg_idx, p, func_dfu, cfg>>

EndOfSettings ==
  /\ pc = "settings" /\ todo = << >>
  /\ FreeConfig("config")
  /\ UNCHANGED <<search, dev, cfg_idx, todo, p, func_dfu, devh, refs, results, lost>>

Next == \/ NextDevice \/ EndOfList \/ NextConfig \/ EndOfConfigs \/ PassDescriptor
        \/ FindDescriptor \/ NoDescriptor \/ AskDevice \/ Asked \/ PassSetting
        \/ OpenSetting \/ Identify \/ EndOfSettings

Spec == Init /\ [][Next]_vars

(* find() is one thread that waits for nobody.                             *)
FairSpec == Spec /\ WF_vars(Next)

-------------------------------------------------------------------------------
(* What the search is held against: the bus as a whole, with its lists of  *)
(* descriptors as they were put together, and what got lost of it.         *)
PlacesIn(d, c) ==
  LET interfaces == search.bus[d].configs[c].interfaces
  IN  UNION {{<<d, c, i, a>> : a \in DOMAIN interfaces[i]} : i \in DOMAIN interfaces}

AllPlaces ==
  UNION {UNION {PlacesIn(d, c) : c \in DOMAIN search.bus[d].configs} : d \in DOMAIN search.bus}

(* The order of the loops over them.                                       *)
Before(x, y) == \E n \in 1 .. 4 : x[n] < y[n] /\ \A m \in 1 .. n - 1 : x[m] = y[m]

(* Every descriptor is as long as it says, up to one that says zero and    *)
(* ends its list, or the last one, which may be cut short.                 *)
WellFormed(extra) ==
  \A k \in DOMAIN extra :
    /\ Len(extra[k]) > 1
    /\ \/ extra[k][1] \in {0, Len(extra[k])}
       \/ k = Len(extra) /\ extra[k][1] > Len(extra[k])

Regular(d, c) ==
  /\ WellFormed(search.bus[d].configs[c].extra)
  /\ \A at \in PlacesIn(d, c) : Setting(at).dfuClass => WellFormed(Setting(at).extra)

(* The functional descriptors of a list, by their positions.               *)
Described(extra) ==
  {k \in DOMAIN extra : extra[k][2] = USB_DT_DFU /\ \A j \in 1 .. k : extra[j][1] # 0}

FirstIn(extra) == Completed(parse(extra[Min(Described(extra))]))

(* The descriptor of a configuration: its own, the first one of a setting, *)
(* what the device answers, or one that says version 1.0 and nothing else. *)
Describing(d, c) ==
  {at \in PlacesIn(d, c) : Setting(at).dfuClass /\ Described(Setting(at).extra) # {}}

FirstAmong(places) == CHOOSE at \in places : \A other \in places : ~Before(other, at)

DescriptorOf(d, c) ==
  LET extra == search.bus[d].configs[c].extra
  IN  IF Described(extra) # {} THEN FirstIn(extra)
      ELSE IF Describing(d, c) # {} THEN FirstIn(Setting(FirstAmong(Describing(d, c))).extra)
      ELSE IF <<d, c, "descriptor">> \in lost
        THEN [cleared EXCEPT !.bLength = 7, !.bcdDFUVersion = \h0100]
      ELSE Completed(parse(search.bus[d].answer))

ReadName(at, which, name) == IF name = "" \/ at \o <<which>> \in lost THEN "UNKNOWN" ELSE name

Wanted(at) ==
  LET device == search.bus[at[1]]
      version == DescriptorOf(at[1], at[2]).bcdDFUVersion
  IN  /\ f.path \in {<< >>, get_path(device)}
      /\ f.config_index \in {-1, device.configs[at[2]].bConfigurationValue}
      /\ Setting(at).dfuClass
      /\ Eligible(at, version)
      /\ Named(at, version, ReadName(at, "name", Setting(at).name),
               ReadName(at, "serial", device.serial))

OutOfReach(at) ==
  \/ <<at[1]>> \in lost
  \/ \E c \in 1 .. at[2] : <<at[1], c>> \in lost \/ search.bus[at[1]].configs[c].empty
  \/ \E a \in 1 .. at[4] : <<at[1], at[2], at[3], a>> \in lost

-------------------------------------------------------------------------------
(* Every variable keeps its type; while find() is at a setting, it is one  *)
(* of the DFU class of the configuration at hand.                          *)
TypeOK ==
  /\ search \in Searches
  /\ pc \in {"device", "config", "scanConfig", "scanSetting", "ask", "asked", "settings",
            "identify", "done"}
  /\ dev \in 0 .. Len(search.bus)
  /\ dev > 0 => cfg_idx \in 0 .. Len(desc.configs)
  /\ p \in Nat
  /\ func_dfu \in FuncDescriptors
  /\ cfg \in BOOLEAN /\ devh \in BOOLEAN
  /\ refs \in [DOMAIN search.bus -> Nat]
  /\ pc \in {"scanSetting", "settings", "identify"} =>
       \A k \in DOMAIN todo : /\ todo[k][1] = dev /\ todo[k][2] = cfg_idx
                              /\ Setting(todo[k]).dfuClass
  /\ pc \in {"scanSetting", "identify"} => todo # << >>

(* On whatever way find() leaves a device, it has closed the handle and    *)
(* freed the configuration descriptor, and the references it took to the   *)
(* device are those its results hold.                                      *)
NothingHeld ==
  /\ pc \in {"device", "done"} => ~cfg /\ ~devh
  /\ \A d \in DOMAIN refs :
       refs[d] = Cardinality({k \in DOMAIN results : results[k].at[1] = d})

(* find() ends with all the settings the filters ask for, once each and in *)
(* the order of the bus, but for those that libusb gave it no access to    *)
(* (OutOfReach).  Besides the settings it is made for, a call that fails   *)
(* costs only what find() then gives up: to open a device, the later       *)
(* settings of the interface; to get a configuration, or one without       *)
(* interfaces, the later configurations of the device.  A configuration    *)
(* whose lists are not as they should be costs no other one anything.      *)
FindsAll ==
  pc = "done" =>
    /\ {at \in {results[k].at : k \in DOMAIN results} : Regular(at[1], at[2])} =
         {at \in AllPlaces : Regular(at[1], at[2]) /\ Wanted(at) /\ ~OutOfReach(at)}
    /\ \A j, k \in DOMAIN results : j < k => Before(results[j].at, results[k].at)

(* A result carries the descriptor of its own configuration, never what is *)
(* left of one that was looked at before, and version 1.1 where the device *)
(* is known to report a wrong one.                                         *)
OwnDescriptor ==
  \A k \in DOMAIN results :
    LET at == results[k].at
        own == DescriptorOf(at[1], at[2])
    IN  Regular(at[1], at[2]) =>
          results[k].func_dfu = IF "FORCE_DFU11" \in results[k].quirks
                                  THEN [own EXCEPT !.bcdDFUVersion = \h0110] ELSE own

(* The search ends, whatever lengths the descriptors claim to have.        *)
Terminates == <>(pc = "done")
===============================================================================
