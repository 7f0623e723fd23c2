-------------------------------- MODULE DfuFile --------------------------------
(***************************************************************************)
(* class DfuFile with DfuFileReader and DfuFileWriter: a firmware file is  *)
(* loaded into an object, an application edits the fields, and the object  *)
(* is stored.  Files are sequences of bytes; between the calls the file on *)
(* disk may be replaced or damaged, and a store may be cut short.          *)
(*                                                                         *)
(* A file has a prefix of two kinds or none, a payload, and a suffix that  *)
(* ends in a checksum of all that stands before it, or none:               *)
(*   LMDFU   01 00, address in KiB (2), length of the payload (4)          *)
(*   LPCDFU  1a 3f, length in blocks (2), zeros (8), ff (4)                *)
(*   suffix  bcdDevice, product, vendor, bcdDFU (2 each), "UFD",           *)
(*           length of the suffix (1), CRC (4)                             *)
(***************************************************************************)
EXTENDS Integers, Sequences, UsbId, PackedData

CONSTANTS
  Crc(_),      \* class CRC32: four bytes, as write_u32l stores them
  Files,       \* what can stand on disk or come from stdin, but for stores
  Fresh,       \* contents that newly allocated memory may have
  Addresses,   \* what an application sets lmdfu_address to
  Ids,         \* what an application sets usbId to
  Cuts,        \* how many bytes may come to the disk, or from it, and no more
  MaxCalls     \* bound: how many calls there are, and changes from outside

ASSUME FileAssumption ==
  /\ Files \subseteq Seq(Byte)
  /\ Fresh \subseteq Seq(Byte)
  /\ Addresses \subseteq Nat
  /\ Ids \subseteq [vendor : Words, product : Words]
  /\ Cuts \subseteq Nat
  /\ MaxCalls \in Nat
  /\ \A bytes \in Files : Crc(bytes) \in [1 .. 4 -> Byte]

VARIABLES
  disk,      \* the bytes of the file
  memory,    \* the bytes at data.data(), as many as data has capacity for
  file,      \* the fields of the object
  status,    \* how the last call ended
  intended,  \* the bytes that whoever made the file meant to be there
  written,   \* the object that a storeFile wrote there, NotWritten if none
  load,      \* what the last load was given, and from where
  edited,    \* whether a field was set since then
  calls      \* how many calls there have been

vars == <<disk, memory, file, status, intended, written, load, edited, calls>>

SuffixLength == 16
PrefixLength == [None |-> 0, LMDFU |-> 8, LPCDFU |-> 16]
PrefixTypes == {"None", "LMDFU", "LPCDFU"}
Signature == <<85, 70, 68>>

Zeros(n) == [i \in 1 .. n |-> 0]
FirstOf(bytes, n) == SubSeq(bytes, 1, n)

(* memory after bytes have been put at its start; it never shrinks.        *)
Over(mem, bytes) == bytes \o SubSeq(mem, Len(bytes) + 1, Len(mem))

-------------------------------------------------------------------------------
(* data is the length of the vector, total the field size.total.           *)

(* Faulty: the id of the file before is kept.                              *)
reset_IdKept(f) ==
  [f EXCEPT !.data = 0, !.total = 0, !.prefix = 0, !.suffix = 0,
            !.lmdfu_address = 0, !.prefix_type = "None", !.dwCRC = <<255, 255, 255, 255>>,
            !.bcdDFU = 0, !.bcdDevice = FFFF]

reset(f) ==
  [f EXCEPT !.data = 0, !.total = 0, !.prefix = 0, !.suffix = 0,
            !.lmdfu_address = 0, !.prefix_type = "None", !.dwCRC = <<255, 255, 255, 255>>,
            !.bcdDFU = 0, !.usbId = Unset, !.bcdDevice = FFFF]

Blank ==
  [data |-> 0, total |-> 0, prefix |-> 0, suffix |-> 0, lmdfu_address |-> 0,
   prefix_type |-> "None", dwCRC |-> <<255, 255, 255, 255>>, bcdDFU |-> 0,
   usbId |-> Unset, bcdDevice |-> FFFF]

hasSuffix(f) == f.suffix > 0

Payload(f, mem) == SubSeq(mem, f.prefix + 1, f.total - f.suffix)

-------------------------------------------------------------------------------
(* DfuFileReader *)

LastOf(bytes) == SubSeq(bytes, Len(bytes) - SuffixLength + 1, Len(bytes))

HasSignature(bytes) ==
  Len(bytes) >= SuffixLength /\ SubSeq(LastOf(bytes), 9, 11) = Signature

(* Faulty: the checksum is not compared.                                   *)
CrcMatches_NotCompared(bytes) == Len(bytes) >= SuffixLength

CrcMatches(bytes) ==
  SubSeq(LastOf(bytes), 13, 16) = Crc(FirstOf(bytes, Len(bytes) - 4))

Believed(bytes) == HasSignature(bytes) /\ CrcMatches(bytes)

LengthOk(bytes) == LastOf(bytes)[12] \in SuffixLength .. Len(bytes)

(* Each check that succeeds has its fields set before the next one.        *)
probeSuffix(f, bytes) ==
  LET s == LastOf(bytes)
      signed == [f EXCEPT !.dwCRC = SubSeq(s, 13, 16)]
      believed == [signed EXCEPT !.bcdDFU = read_u16l(s, 7)]
  IN  IF ~HasSignature(bytes) THEN f
      ELSE IF ~Believed(bytes) THEN signed
      ELSE IF ~LengthOk(bytes) THEN believed
      ELSE [believed EXCEPT !.suffix = s[12], !.bcdDevice = read_u16l(s, 1),
                            !.usbId = [product |-> read_u16l(s, 3), vendor |-> read_u16l(s, 5)]]

(* Faulty: the prefix may take up all of the file, the suffix included.    *)
Fits_InTotal(f, type) == PrefixLength[type] <= f.total

Fits(f, type) == PrefixLength[type] <= f.total - f.suffix

IsLmdfu(f, bytes) == Fits(f, "LMDFU") /\ FirstOf(bytes, 2) = <<1, 0>>

IsLpcdfu(f, bytes) ==
  Fits(f, "LPCDFU") /\ bytes[1] % 64 = 26 /\ bytes[2] % 64 = 63

probePrefix(f, bytes) ==
  IF IsLmdfu(f, bytes)
    THEN [f EXCEPT !.prefix_type = "LMDFU", !.prefix = PrefixLength["LMDFU"],
                   !.lmdfu_address = 1024 * read_u16l(bytes, 3)]
  ELSE IF IsLpcdfu(f, bytes)
    THEN [f EXCEPT !.prefix_type = "LPCDFU", !.prefix = PrefixLength["LPCDFU"]]
  ELSE [f EXCEPT !.prefix = 0]

(* A suffix that is believed but has a bad length is thrown for.           *)
Throws(bytes) == Believed(bytes) /\ ~LengthOk(bytes)

read(f, bytes) ==
  IF Throws(bytes) THEN probeSuffix(f, bytes)
                   ELSE probePrefix(probeSuffix(f, bytes), bytes)

(* What reading gives an object that has just been reset.                  *)
ReadAlone(bytes) == read([Blank EXCEPT !.data = Len(bytes), !.total = Len(bytes)], bytes)

-------------------------------------------------------------------------------
(* DfuFileWriter *)

writePrefix(f) ==
  CASE f.prefix_type = "LMDFU" ->
         <<1, 0>> \o write_u16l(f.lmdfu_address \div 1024)
                  \o write_u32l(f.total - f.prefix - f.suffix)
    [] f.prefix_type = "LPCDFU" ->
         <<26, 63>> \o write_u16l((f.total - f.suffix + 511) \div 512)
                    \o Zeros(8) \o <<255, 255, 255, 255>>
    [] f.prefix_type = "None" -> <<>>

(* Faulty: vendor and product in the order in which UsbId has them.        *)
writeSuffix_VendorFirst(f, before) ==
  LET most == write_u16l(f.bcdDevice) \o write_u16l(f.usbId.vendor)
                \o write_u16l(f.usbId.product) \o write_u16l(f.bcdDFU)
                \o Signature \o <<SuffixLength>>
  IN  most \o Crc(before \o most)

writeSuffix(f, before) ==
  LET most == write_u16l(f.bcdDevice) \o write_u16l(f.usbId.product)
                \o write_u16l(f.usbId.vendor) \o write_u16l(f.bcdDFU)
                \o Signature \o <<SuffixLength>>
  IN  most \o Crc(before \o most)

Image(f, mem, withSuffix, withPrefix) ==
  LET most == (IF withPrefix THEN writePrefix(f) ELSE <<>>) \o Payload(f, mem)
  IN  IF withSuffix THEN most \o writeSuffix(f, most) ELSE most

-------------------------------------------------------------------------------
NotWritten == [done |-> FALSE]
NotLoaded == [from |-> "nowhere", bytes |-> <<>>, intended |-> <<>>]

(* An object that has been reset, and any file.                            *)
Init ==
  /\ disk \in Files /\ intended = disk /\ written = NotWritten
  /\ memory = <<>> /\ file = Blank /\ status = "idle"
  /\ load = NotLoaded /\ edited = FALSE /\ calls = 0

Counted == calls < MaxCalls /\ calls' = calls + 1

Loaded(outcome, from, bytes) ==
  /\ status' = outcome
  /\ load' = [from |-> from, bytes |-> bytes, intended |-> intended]
  /\ edited' = FALSE
  /\ UNCHANGED <<disk, intended, written>>

LoadNotOpened ==
  /\ Counted
  /\ file' = reset(file)
  /\ Loaded("threw", "file", disk)
  /\ UNCHANGED memory

(* Only the first n bytes come; the rest of the vector is zero.            *)
LoadNotRead ==
  /\ Counted
  /\ \E n \in Cuts \cap 0 .. Len(disk) - 1 :
       /\ memory' = Over(memory, FirstOf(disk, n) \o Zeros(Len(disk) - n))
       /\ file' = [reset(file) EXCEPT !.data = Len(disk)]
       /\ Loaded("threw", "file", disk)

LoadFile ==
  /\ Counted
  /\ memory' = Over(memory, disk)
  /\ file' = read([reset(file) EXCEPT !.data = Len(disk), !.total = Len(disk)], disk)
  /\ Loaded(IF Throws(disk) THEN "threw" ELSE "loaded", "file", disk)

(* Memory that reserve(n) leaves: what was there, or a new allocation.     *)
Reserved(n) ==
  IF n <= Len(memory) THEN {memory}
  ELSE {FirstOf(bytes, n) : bytes \in {b \in Fresh : Len(b) >= n}}

(* The loop copies data, which is empty, onto itself: what is probed is    *)
(* whatever the reserved memory holds.                                     *)
loadStdIn ==
  /\ Counted
  /\ \E input \in Files : \E reserved \in Reserved(Len(input)) :
       LET bytes == FirstOf(reserved, Len(input))
       IN  /\ memory' = reserved
           /\ file' = read([reset(file) EXCEPT !.total = Len(input)], bytes)
           /\ Loaded(IF Throws(bytes) THEN "threw" ELSE "loaded", "stdin", input)

Edited ==
  /\ status' = "idle" /\ edited' = TRUE
  /\ UNCHANGED <<disk, memory, intended, written, load>>

SetPrefix ==
  /\ Counted
  /\ \E type \in PrefixTypes, address \in Addresses :
       file' = [file EXCEPT !.prefix_type = type, !.lmdfu_address = address]
  /\ Edited

SetId ==
  /\ Counted
  /\ \E id \in Ids : file' = [file EXCEPT !.usbId = id]
  /\ Edited

(* Neither storing nor what happens outside changes the object.            *)
ObjectKept == UNCHANGED <<memory, file, load, edited>>

StoreNotOpened ==
  /\ Counted
  /\ status' = "threw"
  /\ ObjectKept /\ UNCHANGED <<disk, intended, written>>

(* The stream writes its buffer when it is full, which storeFile sees fail,*)
(* and when it is destroyed, which nobody sees fail.                       *)
storeFile ==
  /\ Counted
  /\ \E withSuffix, withPrefix \in BOOLEAN :
       LET image == Image(file, memory, withSuffix, withPrefix)
       IN  /\ intended' = image
           /\ written' = [done |-> TRUE, file |-> file, payload |-> Payload(file, memory),
                          suffix |-> withSuffix,
                          prefix |-> IF withPrefix THEN file.prefix_type ELSE "None"]
           /\ \/ disk' = image /\ status' = "stored"
              \/ \E n \in Cuts \cap 0 .. Len(image) - 1 :
                   disk' = FirstOf(image, n) /\ status' \in {"threw", "stored"}
           /\ ObjectKept

(* Outside: a byte of the file goes wrong, or another file takes its place.*)
Damage ==
  /\ Counted
  /\ disk = intended
  /\ \E i \in Cuts \cap DOMAIN disk : disk' = [disk EXCEPT ![i] = (@ + 1) % 256]
  /\ status' = "idle"
  /\ ObjectKept /\ UNCHANGED <<intended, written>>

Replace ==
  /\ Counted
  /\ disk' \in Files /\ intended' = disk' /\ written' = NotWritten
  /\ status' = "idle"
  /\ ObjectKept

Next ==
  \/ LoadNotOpened \/ LoadNotRead \/ LoadFile \/ loadStdIn
  \/ SetPrefix \/ SetId
  \/ StoreNotOpened \/ storeFile
  \/ Damage \/ Replace

Spec == Init /\ [][Next]_vars

-------------------------------------------------------------------------------
(* Properties *)

(* Every field has its type; sizes are those of the memory they are about, *)
(* and what is stored consists of bytes.                                   *)
TypeOK ==
  /\ disk \in Seq(Byte) /\ intended \in Seq(Byte) /\ memory \in Seq(Byte)
  /\ file.prefix_type \in PrefixTypes
  /\ file.lmdfu_address \in Nat
  /\ {file.bcdDFU, file.bcdDevice} \subseteq Words
  /\ file.usbId \in UsbIds
  /\ file.dwCRC \in [1 .. 4 -> Byte]
  /\ {file.data, file.total} \subseteq 0 .. Len(memory)
  /\ status \in {"idle", "loaded", "stored", "threw"}
  /\ edited \in BOOLEAN
  /\ calls \in 0 .. MaxCalls

(* Prefix and suffix never overlap, so that getPayload and the length that *)
(* the writer is given do not wrap around below zero: whatever was loaded, *)
(* also in part, and whatever was set since (DfuFile.cpp:206, 269, 369).   *)
PartsFit ==
  /\ file.prefix + file.suffix <= file.total
  /\ file.prefix \in {0, 8, 16}
  /\ file.suffix = 0 \/ file.suffix >= SuffixLength

(* A file in which a suffix is found is as it was meant to be: a byte that *)
(* went wrong is seen by the checksum, and so is a store that was cut      *)
(* short, also where what is left of it ends like a suffix                 *)
(* (DfuFile.cpp:248-255).  One case cannot be seen: the payload begins     *)
(* with a whole file that has a suffix of its own, and the store stopped   *)
(* just at the end of that one.                                            *)
SuffixMeansWhole ==
  load.from = "file" /\ hasSuffix(file) =>
    \/ load.bytes = load.intended
    \/ load.bytes \in Files /\ load.bytes = FirstOf(load.intended, Len(load.bytes))

(* After a load that threw, or of a file without suffix or prefix, nothing *)
(* of what an earlier load found is left (reset, DfuFile.cpp:40-57), so    *)
(* that no earlier file's id is searched for or stored in this one.        *)
NothingLeftOver ==
  ~edited =>
    /\ ~hasSuffix(file) => file.usbId = Unset /\ file.bcdDevice = FFFF
    /\ file.prefix = 0 => file.prefix_type = "None" /\ file.lmdfu_address = 0

(* A file stored in full with a suffix is read back as the object it was   *)
(* stored from: same id and versions, same payload, and if a prefix was    *)
(* written the same kind and address, in KiB below 64 MiB.  Without one    *)
(* the payload is the same unless it begins like a prefix.                 *)
ReadBack ==
  written.done /\ disk = intended /\ written.suffix =>
    LET was == written.file
        again == ReadAlone(disk)
    IN  /\ ~Throws(disk) /\ again.suffix = SuffixLength
        /\ again.bcdDevice = was.bcdDevice /\ again.bcdDFU = was.bcdDFU
        /\ \A part \in {"vendor", "product"} :
             again.usbId[part] = was.usbId[part] % 65536
        /\ written.prefix # "None" => again.prefix_type = written.prefix
        /\ written.prefix = "LMDFU" =>
             again.lmdfu_address = 1024 * ((was.lmdfu_address \div 1024) % 65536)
        /\ written.prefix # "None" \/ again.prefix = 0 =>
             Payload(again, disk) = written.payload

(* "Entire file contents loaded into memory (including prefix and suffix)" *)
(* (DfuFile.hpp:27): once a load has succeeded, data holds what was loaded.*)
(* The code breaks this for standard input (DfuFile.cpp:98).               *)
FileInMemory ==
  status = "loaded" => FirstOf(memory, file.data) = load.bytes
===============================================================================
