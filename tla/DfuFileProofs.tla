------------------------------ MODULE DfuFileProofs ------------------------------
(***************************************************************************)
(* Proofs about DfuFile, for files of any contents and length, all edits,  *)
(* stores that are cut short and damage done to them.                      *)
(*                                                                         *)
(* What a load finds fits the bytes it was found in, and stays as it is    *)
(* until the next one.  ReadBack is not inductive: that the object in      *)
(* written is the one whose image was meant for the disk is WrittenMeant.  *)
(* That this image is read as this object is no matter of behaviours, and  *)
(* is shown of any object: the lemma ImageReadAgain.                       *)
(***************************************************************************)
EXTENDS DfuFile, SequenceTheorems, TLAPS

(* CRC-32 is four bytes, of whatever bytes it is computed.                 *)
CrcBytes == \A bytes \in Seq(Byte) : Crc(bytes) \in [1 .. 4 -> Byte]

FileTypes ==
  [data : Nat, total : Nat, prefix : {0, 8, 16}, suffix : Nat, lmdfu_address : Nat,
   prefix_type : PrefixTypes, dwCRC : [1 .. 4 -> Byte], bcdDFU : Words, usbId : UsbIds,
   bcdDevice : Words]

Memories == /\ disk \in Seq(Byte) /\ intended \in Seq(Byte) /\ memory \in Seq(Byte)
            /\ file.data <= Len(memory) /\ file.total <= Len(memory)

Others == /\ status \in {"idle", "loaded", "stored", "threw"}
          /\ edited \in BOOLEAN /\ calls \in 0 .. MaxCalls

Types == file \in FileTypes /\ Memories /\ Others /\ PartsFit

-------------------------------------------------------------------------------
(***************************************************************************)
(* Bytes                                                                   *)
(***************************************************************************)

(* The parts of a sequence of bytes.                                       *)
LEMMA PartOfBytes ==
  ASSUME NEW bytes \in Seq(Byte), NEW i \in Nat, NEW j \in Int, 1 <= i, j <= Len(bytes)
  PROVE  /\ SubSeq(bytes, i, j) \in Seq(Byte)
         /\ Len(SubSeq(bytes, i, j)) = IF i <= j THEN j - i + 1 ELSE 0
         /\ \A k \in 1 .. j - i + 1 : SubSeq(bytes, i, j)[k] = bytes[i + k - 1]
<1>1. \A k \in i .. j : bytes[k] \in Byte  OBVIOUS
<1>2. QED  BY <1>1, SubSeqProperties

(* The first bytes of a sequence.                                          *)
LEMMA FirstBytes ==
  ASSUME NEW bytes \in Seq(Byte), NEW n \in Nat, n <= Len(bytes)
  PROVE  /\ FirstOf(bytes, n) \in Seq(Byte) /\ Len(FirstOf(bytes, n)) = n
         /\ \A k \in 1 .. n : FirstOf(bytes, n)[k] = bytes[k]
<1> DEFINE i == 1
<1>1. i \in Nat /\ 1 <= i /\ n \in Int /\ n - i + 1 = n /\ (i <= n \/ n = 0)  OBVIOUS
<1>2. \A k \in 1 .. n : i + k - 1 = k  OBVIOUS
<1> HIDE DEF i
<1>3. /\ SubSeq(bytes, i, n) \in Seq(Byte)
      /\ Len(SubSeq(bytes, i, n)) = IF i <= n THEN n - i + 1 ELSE 0
      /\ \A k \in 1 .. n - i + 1 : SubSeq(bytes, i, n)[k] = bytes[i + k - 1]
  BY <1>1, PartOfBytes
<1>4. Len(SubSeq(bytes, i, n)) = n  BY <1>1, <1>3
<1>5. \A k \in 1 .. n : SubSeq(bytes, i, n)[k] = bytes[k]  BY <1>1, <1>2, <1>3
<1>6. QED  BY <1>3, <1>4, <1>5 DEF FirstOf, i

(* Two bytes make a word.                                                  *)
LEMMA TopOfWords == FFFF = 65535
BY DEF FFFF

LEMMA SumInWords ==
  ASSUME NEW low \in Int, NEW high \in Int, 0 <= low, low <= 255, 0 <= high, high <= 255
  PROVE  low + 256 * high \in Words
<1>1. FFFF \in Int  BY TopOfWords
<1>2. 0 <= low + 256 * high /\ low + 256 * high <= FFFF  BY TopOfWords
<1>3. QED  BY <1>1, <1>2 DEF Words

LEMMA ReadWord ==
  ASSUME NEW bytes \in Seq(Byte), NEW i \in 1 .. Len(bytes) - 1
  PROVE  read_u16l(bytes, i) \in Words
<1>1. Len(bytes) \in Nat  OBVIOUS
<1>2. i \in 1 .. Len(bytes) /\ i + 1 \in 1 .. Len(bytes)  BY <1>1
<1>3. bytes[i] \in Byte /\ bytes[i + 1] \in Byte  BY <1>2, ElementOfSeq
<1>4. \A b \in Byte : b \in Int /\ 0 <= b /\ b <= 255  BY DEF Byte
<1> DEFINE low == bytes[i]
           high == bytes[i + 1]
<1>5. low \in Int /\ 0 <= low /\ low <= 255 /\ high \in Int /\ 0 <= high /\ high <= 255
  BY <1>3, <1>4
<1> HIDE DEF low, high
<1>6. low + 256 * high \in Words  BY <1>5, SumInWords
<1>7. QED  BY <1>6 DEF read_u16l, low, high

(* What writing a word gives, and that it is read back modulo its width.   *)
LEMMA WriteWord ==
  ASSUME NEW x \in Int
  PROVE  /\ write_u16l(x) \in Seq(Byte) /\ Len(write_u16l(x)) = 2
         /\ write_u16l(x)[1] + 256 * write_u16l(x)[2] = x % 65536
<1>1. x % 256 \in Byte /\ (x \div 256) % 256 \in Byte  BY DEF Byte
<1>2. (x % 256) + 256 * ((x \div 256) % 256) = x % 65536  OBVIOUS
<1>3. QED  BY <1>1, <1>2 DEF write_u16l

(* Four bytes, as a sequence.                                              *)
LEMMA FourBytes ==
  ASSUME NEW f \in [1 .. 4 -> Byte]
  PROVE  f \in Seq(Byte) /\ Len(f) = 4
<1>1. f \in Seq(Byte)  BY SeqDef
<1>2. DOMAIN f = 1 .. 4 /\ DOMAIN f = 1 .. Len(f) /\ Len(f) \in Nat  BY <1>1, LenProperties
<1>3. QED  BY <1>1, <1>2

(* Four bytes of a sequence.                                               *)
LEMMA FourOf ==
  ASSUME NEW bytes \in Seq(Byte), NEW i \in Nat, 1 <= i, i + 3 <= Len(bytes)
  PROVE  SubSeq(bytes, i, i + 3) \in [1 .. 4 -> Byte]
<1>1. i + 3 \in Int /\ i <= i + 3 /\ i + 3 - i + 1 = 4  OBVIOUS
<1>2. SubSeq(bytes, i, i + 3) \in Seq(Byte) /\ Len(SubSeq(bytes, i, i + 3)) = 4
  BY <1>1, PartOfBytes
<1>3. QED  BY <1>2, LenProperties

(* The checksum in a suffix.                                               *)
LEMMA LastFour ==
  ASSUME NEW s \in Seq(Byte), Len(s) = 16
  PROVE  SubSeq(s, 13, 16) \in [1 .. 4 -> Byte]
<1> DEFINE i == 13
<1>1. i \in Nat /\ 1 <= i /\ i + 3 <= Len(s)  OBVIOUS
<1> HIDE DEF i
<1>2. SubSeq(s, i, i + 3) \in [1 .. 4 -> Byte]  BY <1>1, FourOf
<1>3. QED  BY <1>2 DEF i

(* The last bytes of a file, and the beginning of it.                      *)
LEMMA LastBytes ==
  ASSUME NEW bytes \in Seq(Byte), Len(bytes) >= SuffixLength
  PROVE  /\ LastOf(bytes) \in Seq(Byte) /\ Len(LastOf(bytes)) = 16
         /\ \A k \in 1 .. 16 : LastOf(bytes)[k] = bytes[Len(bytes) - 16 + k]
<1>1. Len(bytes) \in Nat /\ Len(bytes) >= 16  BY DEF SuffixLength
<1>2. QED  BY <1>1, PartOfBytes DEF LastOf, SuffixLength

-------------------------------------------------------------------------------
(***************************************************************************)
(* What reading finds                                                      *)
(***************************************************************************)

(* An object of which no part has been found yet.                          *)
Empty(f) ==
  /\ f \in FileTypes /\ f.prefix = 0 /\ f.suffix = 0 /\ f.prefix_type = "None"
  /\ f.lmdfu_address = 0 /\ f.usbId = Unset /\ f.bcdDevice = FFFF

(* A suffix is at least its sixteen bytes, and no longer than the file.    *)
LEMMA SuffixFound ==
  ASSUME NEW f, Empty(f), NEW bytes \in Seq(Byte)
  PROVE  LET g == probeSuffix(f, bytes)
         IN  /\ g \in FileTypes /\ g.total = f.total /\ g.data = f.data
             /\ g.prefix = 0 /\ g.prefix_type = "None" /\ g.lmdfu_address = 0
             /\ \/ g.suffix = 0 /\ g.usbId = Unset /\ g.bcdDevice = FFFF
                \/ g.suffix \in SuffixLength .. Len(bytes) /\ ~Throws(bytes)
             /\ Throws(bytes) => g.suffix = 0
<1> DEFINE s == LastOf(bytes)
           g == probeSuffix(f, bytes)
           signed == [f EXCEPT !.dwCRC = SubSeq(s, 13, 16)]
           believed == [signed EXCEPT !.bcdDFU = read_u16l(s, 7)]
<1>1. CASE ~HasSignature(bytes)
  <2>1. g = f /\ ~Throws(bytes)  BY <1>1 DEF probeSuffix, Throws, Believed
  <2>2. QED  BY <2>1 DEF Empty
<1>2. CASE HasSignature(bytes)
  <2>1. s \in Seq(Byte) /\ Len(s) = 16  BY <1>2, LastBytes DEF HasSignature
  <2> HIDE DEF s
  <2>2. SubSeq(s, 13, 16) \in [1 .. 4 -> Byte]  BY <2>1, LastFour
  <2>3. /\ read_u16l(s, 7) \in Words /\ read_u16l(s, 1) \in Words
        /\ read_u16l(s, 3) \in Words /\ read_u16l(s, 5) \in Words
    <3>1. \A i \in Nat : i >= 1 /\ i <= 15 => read_u16l(s, i) \in Words
      <4>1. SUFFICES ASSUME NEW i \in Nat, i >= 1, i <= 15  PROVE read_u16l(s, i) \in Words
        OBVIOUS
      <4>2. i \in 1 .. Len(s) - 1  BY <2>1, <4>1
      <4>3. QED  BY <2>1, <4>2, ReadWord
    <3>2. QED  BY <3>1
  <2>4. /\ signed \in FileTypes /\ signed.total = f.total /\ signed.data = f.data
        /\ signed.prefix = 0 /\ signed.prefix_type = "None" /\ signed.lmdfu_address = 0
        /\ signed.suffix = 0 /\ signed.usbId = Unset /\ signed.bcdDevice = FFFF
    BY <2>2 DEF Empty, FileTypes
  <2> HIDE DEF signed
  <2>5. /\ believed \in FileTypes /\ believed.total = f.total /\ believed.data = f.data
        /\ believed.prefix = 0 /\ believed.prefix_type = "None" /\ believed.lmdfu_address = 0
        /\ believed.suffix = 0 /\ believed.usbId = Unset /\ believed.bcdDevice = FFFF
    BY <2>3, <2>4 DEF FileTypes
  <2> HIDE DEF believed
  <2>6. CASE ~Believed(bytes)
    <3>1. g = signed /\ ~Throws(bytes)  BY <1>2, <2>6 DEF probeSuffix, Throws, signed, s
    <3>2. QED  BY <2>4, <3>1
  <2>7. CASE Believed(bytes) /\ ~LengthOk(bytes)
    <3>1. g = believed  BY <1>2, <2>7 DEF probeSuffix, signed, s, believed
    <3>2. QED  BY <2>5, <3>1
  <2>8. CASE Believed(bytes) /\ LengthOk(bytes)
    <3>1. g = [believed EXCEPT !.suffix = s[12], !.bcdDevice = read_u16l(s, 1),
                 !.usbId = [product |-> read_u16l(s, 3), vendor |-> read_u16l(s, 5)]]
      BY <1>2, <2>8 DEF probeSuffix, signed, s, believed
    <3>2. s[12] \in SuffixLength .. Len(bytes) /\ s[12] \in Nat
      BY <2>8 DEF LengthOk, s, SuffixLength
    <3>3. [product |-> read_u16l(s, 3), vendor |-> read_u16l(s, 5)] \in UsbIds
      BY <2>3 DEF UsbIds
    <3> HIDE DEF g
    <3>4. g \in FileTypes  BY <2>3, <2>5, <3>1, <3>2, <3>3 DEF FileTypes
    <3>5. /\ g.total = f.total /\ g.data = f.data /\ g.prefix = 0 /\ g.prefix_type = "None"
          /\ g.lmdfu_address = 0 /\ g.suffix = s[12]
      BY <2>5, <3>1 DEF FileTypes
    <3>6. ~Throws(bytes)  BY <2>8 DEF Throws
    <3>7. QED  BY <3>2, <3>4, <3>5, <3>6 DEF g
  <2>9. QED  BY <2>6, <2>7, <2>8
<1>3. QED  BY <1>1, <1>2

(* Sizes that fit, and nothing of an earlier file.                         *)
Fitting(f) ==
  /\ f.prefix + f.suffix <= f.total
  /\ f.suffix = 0 \/ f.suffix >= SuffixLength
  /\ f.suffix = 0 => f.usbId = Unset /\ f.bcdDevice = FFFF
  /\ f.prefix = 0 => f.prefix_type = "None" /\ f.lmdfu_address = 0

(* A prefix is looked for in what the suffix leaves.                       *)
LEMMA ReadFound ==
  ASSUME NEW f, Empty(f), NEW bytes \in Seq(Byte), f.total = Len(bytes)
  PROVE  LET g == read(f, bytes)
         IN  g \in FileTypes /\ g.total = f.total /\ g.data = f.data /\ Fitting(g)
<1> DEFINE h == probeSuffix(f, bytes)
           g == read(f, bytes)
<1>1. /\ h \in FileTypes /\ h.total = f.total /\ h.data = f.data
      /\ h.prefix = 0 /\ h.prefix_type = "None" /\ h.lmdfu_address = 0
      /\ \/ h.suffix = 0 /\ h.usbId = Unset /\ h.bcdDevice = FFFF
         \/ h.suffix \in SuffixLength .. Len(bytes) /\ ~Throws(bytes)
      /\ Throws(bytes) => h.suffix = 0
  BY SuffixFound
<1> HIDE DEF h
<1>2. Len(bytes) \in Nat /\ SuffixLength = 16  BY DEF SuffixLength
<1>3. h.suffix \in Nat /\ (h.suffix = 0 \/ h.suffix >= SuffixLength)  BY <1>1, <1>2
<1>4. h.suffix <= h.total /\ h.total \in Nat  BY <1>1, <1>2
<1>5. h.suffix = 0 => h.usbId = Unset /\ h.bcdDevice = FFFF  BY <1>1, <1>2
<1>6. CASE Throws(bytes)
  <2>1. g = h  BY <1>6 DEF read, h
  <2>2. QED  BY <1>1, <1>3, <1>4, <1>5, <2>1 DEF Fitting
<1>7. CASE ~Throws(bytes)
  <2>1. g = probePrefix(h, bytes)  BY <1>7 DEF read, h
  <2>2. CASE IsLmdfu(h, bytes)
    <3>1. 8 <= h.total - h.suffix  BY <2>2 DEF IsLmdfu, Fits, PrefixLength
    <3>2. 3 \in 1 .. Len(bytes) - 1  BY <1>1, <1>2, <1>3, <1>4, <3>1
    <3>3. read_u16l(bytes, 3) \in Words  BY <3>2, ReadWord
    <3>4. read_u16l(bytes, 3) \in Nat
      <4>1. FFFF \in Int  BY TopOfWords
      <4>2. QED  BY <3>3, <4>1 DEF Words
    <3>5. 1024 * read_u16l(bytes, 3) \in Nat  BY <3>4
    <3>6. g = [h EXCEPT !.prefix_type = "LMDFU", !.prefix = 8,
                        !.lmdfu_address = 1024 * read_u16l(bytes, 3)]
      BY <2>1, <2>2 DEF probePrefix, PrefixLength
    <3> HIDE DEF g
    <3>7. g \in FileTypes
      <4> DEFINE w == 1024 * read_u16l(bytes, 3)
      <4>1. w \in Nat /\ g = [h EXCEPT !.prefix_type = "LMDFU", !.prefix = 8,
                                       !.lmdfu_address = w]
        BY <3>5, <3>6
      <4> HIDE DEF w
      <4>2. QED  BY <1>1, <4>1 DEF FileTypes, PrefixTypes
    <3>8. /\ g.total = h.total /\ g.data = h.data /\ g.prefix = 8
          /\ g.suffix = h.suffix /\ g.usbId = h.usbId /\ g.bcdDevice = h.bcdDevice
      BY <1>1, <3>6 DEF FileTypes
    <3>9. QED  BY <1>1, <1>3, <1>4, <1>5, <3>1, <3>7, <3>8 DEF Fitting, g
  <2>3. CASE ~IsLmdfu(h, bytes) /\ IsLpcdfu(h, bytes)
    <3>1. 16 <= h.total - h.suffix  BY <2>3 DEF IsLpcdfu, Fits, PrefixLength
    <3>2. g = [h EXCEPT !.prefix_type = "LPCDFU", !.prefix = 16]
      BY <2>1, <2>3 DEF probePrefix, PrefixLength
    <3> HIDE DEF g
    <3>3. /\ g \in FileTypes /\ g.total = h.total /\ g.data = h.data /\ g.prefix = 16
          /\ g.suffix = h.suffix /\ g.usbId = h.usbId /\ g.bcdDevice = h.bcdDevice
      BY <1>1, <3>2 DEF FileTypes, PrefixTypes
    <3>4. QED  BY <1>1, <1>3, <1>4, <1>5, <3>1, <3>3 DEF Fitting, g
  <2>4. CASE ~IsLmdfu(h, bytes) /\ ~IsLpcdfu(h, bytes)
    <3>1. g = [h EXCEPT !.prefix = 0]  BY <2>1, <2>4 DEF probePrefix
    <3>2. g = h  BY <1>1, <3>1 DEF FileTypes
    <3>3. QED  BY <1>1, <1>3, <1>4, <1>5, <3>2 DEF Fitting
  <2>5. QED  BY <2>2, <2>3, <2>4
<1>8. QED  BY <1>6, <1>7

(* reset() leaves nothing of an earlier file.                              *)
LEMMA ResetEmpty ==
  ASSUME NEW f \in FileTypes
  PROVE  Empty(reset(f)) /\ reset(f).data = 0 /\ reset(f).total = 0
<1>1. <<255, 255, 255, 255>> \in [1 .. 4 -> Byte]  BY DEF Byte
<1>2. Unset \in UsbIds /\ FFFF \in Words /\ 0 \in Words
  BY TopOfWords DEF Unset, UsbIds, Words
<1> DEFINE c == <<255, 255, 255, 255>>
           u == Unset
           w == FFFF
<1>3. reset(f) = [f EXCEPT !.data = 0, !.total = 0, !.prefix = 0, !.suffix = 0,
                           !.lmdfu_address = 0, !.prefix_type = "None", !.dwCRC = c,
                           !.bcdDFU = 0, !.usbId = u, !.bcdDevice = w]
  BY DEF reset
<1>4. reset(f) \in FileTypes
  <2>1. c \in [1 .. 4 -> Byte] /\ u \in UsbIds /\ w \in Words  BY <1>1, <1>2
  <2>2. 0 \in Words  BY <1>2
  <2> HIDE DEF c, u, w
  <2>3. [f EXCEPT !.data = 0, !.total = 0, !.prefix = 0, !.suffix = 0,
                  !.lmdfu_address = 0, !.prefix_type = "None", !.dwCRC = c,
                  !.bcdDFU = 0, !.usbId = u, !.bcdDevice = w] \in FileTypes
    BY <2>1, <2>2 DEF FileTypes, PrefixTypes
  <2>4. QED  BY <1>3, <2>3
<1>5. /\ reset(f).prefix = 0 /\ reset(f).suffix = 0 /\ reset(f).prefix_type = "None"
      /\ reset(f).lmdfu_address = 0 /\ reset(f).usbId = Unset /\ reset(f).bcdDevice = FFFF
      /\ reset(f).data = 0 /\ reset(f).total = 0
  BY DEF reset, FileTypes
<1>6. QED  BY <1>4, <1>5 DEF Empty

(* The sizes of data and file are set afterwards.                          *)
LEMMA DataSet ==
  ASSUME NEW f, Empty(f), NEW n \in Nat
  PROVE  LET g == [f EXCEPT !.data = n]
         IN  Empty(g) /\ g.data = n /\ g.total = f.total
BY DEF Empty, FileTypes

LEMMA TotalSet ==
  ASSUME NEW f, Empty(f), NEW n \in Nat
  PROVE  LET g == [f EXCEPT !.total = n]
         IN  Empty(g) /\ g.data = f.data /\ g.total = n
BY DEF Empty, FileTypes

LEMMA SizesSet ==
  ASSUME NEW f, Empty(f), NEW n \in Nat
  PROVE  LET g == [f EXCEPT !.data = n, !.total = n]
         IN  Empty(g) /\ g.data = n /\ g.total = n
BY DEF Empty, FileTypes

(* So it is when the object is made.                                       *)
LEMMA BlankEmpty == Empty(Blank) /\ Blank.data = 0 /\ Blank.total = 0
<1>1. <<255, 255, 255, 255>> \in [1 .. 4 -> Byte]  BY DEF Byte
<1>2. Unset \in UsbIds /\ FFFF \in Words /\ 0 \in Words
  BY TopOfWords DEF Unset, UsbIds, Words
<1>3. QED  BY <1>1, <1>2 DEF Blank, Empty, FileTypes, PrefixTypes

-------------------------------------------------------------------------------
(***************************************************************************)
(* What is written                                                         *)
(***************************************************************************)

(* Zeros, and all that stands at the start of memory, are bytes.           *)
LEMMA ZeroBytes ==
  ASSUME NEW n \in Nat
  PROVE  Zeros(n) \in Seq(Byte) /\ Len(Zeros(n)) = n
<1>1. 0 \in Byte  BY DEF Byte
<1>2. Zeros(n) \in [1 .. n -> Byte]  BY <1>1 DEF Zeros
<1>3. Zeros(n) \in Seq(Byte)  BY <1>2, SeqDef
<1>4. DOMAIN Zeros(n) = 1 .. n /\ DOMAIN Zeros(n) = 1 .. Len(Zeros(n)) /\ Len(Zeros(n)) \in Nat
  BY <1>2, <1>3, LenProperties
<1>5. QED  BY <1>3, <1>4

(* Memory does not shrink, and holds at least what is put there.           *)
LEMMA OverMemory ==
  ASSUME NEW mem \in Seq(Byte), NEW bytes \in Seq(Byte)
  PROVE  Over(mem, bytes) \in Seq(Byte) /\ Len(bytes) <= Len(Over(mem, bytes))
<1> DEFINE rest == SubSeq(mem, Len(bytes) + 1, Len(mem))
<1>1. Len(bytes) \in Nat /\ Len(mem) \in Nat  OBVIOUS
<1>2. rest \in Seq(Byte)  BY <1>1, PartOfBytes
<1> HIDE DEF rest
<1>3. /\ bytes \o rest \in Seq(Byte) /\ Len(bytes \o rest) = Len(bytes) + Len(rest)
      /\ Len(rest) \in Nat
  BY <1>2, ConcatProperties
<1>4. QED  BY <1>1, <1>3 DEF Over, rest

(* Bytes after bytes.                                                      *)
LEMMA Joined ==
  ASSUME NEW s \in Seq(Byte), NEW t \in Seq(Byte)
  PROVE  /\ s \o t \in Seq(Byte) /\ Len(s) \in Nat /\ Len(t) \in Nat
         /\ Len(s \o t) = Len(s) + Len(t)
         /\ \A i \in 1 .. Len(s) : (s \o t)[i] = s[i]
         /\ \A i \in 1 .. Len(t) : (s \o t)[Len(s) + i] = t[i]
<1>1. s \o t \in Seq(Byte) /\ Len(s) \in Nat /\ Len(t) \in Nat  OBVIOUS
<1>2. Len(s \o t) = Len(s) + Len(t)  BY ConcatProperties
<1>3. ASSUME NEW i \in 1 .. Len(s)  PROVE (s \o t)[i] = s[i]
  <2>1. i \in 1 .. Len(s) + Len(t) /\ i <= Len(s)  BY <1>1, <1>3
  <2>2. QED  BY <2>1, ConcatProperties
<1>4. ASSUME NEW i \in 1 .. Len(t)  PROVE (s \o t)[Len(s) + i] = t[i]
  <2>1. /\ Len(s) + i \in 1 .. Len(s) + Len(t) /\ ~(Len(s) + i <= Len(s))
        /\ Len(s) + i - Len(s) = i
    BY <1>1, <1>4
  <2>2. QED  BY <2>1, ConcatProperties
<1>5. QED  BY <1>1, <1>2, <1>3, <1>4

(* A double word is two words.                                             *)
LEMMA WriteDouble ==
  ASSUME NEW x \in Int
  PROVE  write_u32l(x) \in Seq(Byte) /\ Len(write_u32l(x)) = 4
<1> DEFINE a == write_u16l(x)
           b == write_u16l(x \div 65536)
<1>1. x \div 65536 \in Int  OBVIOUS
<1>2. a \in Seq(Byte) /\ Len(a) = 2 /\ b \in Seq(Byte) /\ Len(b) = 2  BY <1>1, WriteWord
<1>3. write_u32l(x) = a \o b  BY DEF write_u32l
<1> HIDE DEF a, b
<1>4. a \o b \in Seq(Byte) /\ Len(a \o b) = Len(a) + Len(b)  BY <1>2, Joined
<1>5. Len(a \o b) = 4  BY <1>2, <1>4
<1>6. QED  BY <1>3, <1>4, <1>5

(* A prefix has the length that its kind has.                              *)
LEMMA PrefixBytes ==
  ASSUME NEW f \in FileTypes
  PROVE  writePrefix(f) \in Seq(Byte) /\ Len(writePrefix(f)) = PrefixLength[f.prefix_type]
<1>1. CASE f.prefix_type = "LMDFU"
  <2> DEFINE a == <<1, 0>>
             b == write_u16l(f.lmdfu_address \div 1024)
             c == write_u32l(f.total - f.prefix - f.suffix)
  <2>1. writePrefix(f) = a \o b \o c  BY <1>1 DEF writePrefix
  <2>2. a \in Seq(Byte) /\ Len(a) = 2  BY DEF Byte
  <2>3. f.lmdfu_address \div 1024 \in Int /\ f.total - f.prefix - f.suffix \in Int
    BY DEF FileTypes
  <2>4. b \in Seq(Byte) /\ Len(b) = 2  BY <2>3, WriteWord
  <2>5. c \in Seq(Byte) /\ Len(c) = 4  BY <2>3, WriteDouble
  <2> HIDE DEF a, b, c
  <2>6. a \o b \in Seq(Byte) /\ Len(a \o b) = Len(a) + Len(b)  BY <2>2, <2>4, Joined
  <2>7. /\ (a \o b) \o c \in Seq(Byte)
        /\ Len((a \o b) \o c) = Len(a \o b) + Len(c)
    BY <2>5, <2>6, Joined
  <2>8. PrefixLength[f.prefix_type] = 8  BY <1>1 DEF PrefixLength
  <2>9. QED  BY <2>1, <2>2, <2>4, <2>5, <2>6, <2>7, <2>8
<1>2. CASE f.prefix_type = "LPCDFU"
  <2> DEFINE a == <<26, 63>>
             b == write_u16l((f.total - f.suffix + 511) \div 512)
             c == Zeros(8)
             d == <<255, 255, 255, 255>>
  <2>1. writePrefix(f) = a \o b \o c \o d  BY <1>2 DEF writePrefix
  <2>2. a \in Seq(Byte) /\ Len(a) = 2 /\ d \in Seq(Byte) /\ Len(d) = 4  BY DEF Byte
  <2>3. (f.total - f.suffix + 511) \div 512 \in Int  BY DEF FileTypes
  <2>4. b \in Seq(Byte) /\ Len(b) = 2  BY <2>3, WriteWord
  <2>5. c \in Seq(Byte) /\ Len(c) = 8  BY ZeroBytes
  <2> HIDE DEF a, b, c, d
  <2>6. a \o b \in Seq(Byte) /\ Len(a \o b) = Len(a) + Len(b)  BY <2>2, <2>4, Joined
  <2>7. /\ (a \o b) \o c \in Seq(Byte)
        /\ Len((a \o b) \o c) = Len(a \o b) + Len(c)
    BY <2>5, <2>6, Joined
  <2>8. /\ ((a \o b) \o c) \o d \in Seq(Byte)
        /\ Len(((a \o b) \o c) \o d) = Len((a \o b) \o c) + Len(d)
    BY <2>2, <2>7, Joined
  <2>9. PrefixLength[f.prefix_type] = 16  BY <1>2 DEF PrefixLength
  <2>10. QED  BY <2>1, <2>2, <2>4, <2>5, <2>6, <2>7, <2>8, <2>9
<1>3. CASE f.prefix_type = "None"
  <2>1. writePrefix(f) = << >>  BY <1>3 DEF writePrefix
  <2>2. PrefixLength[f.prefix_type] = 0  BY <1>3 DEF PrefixLength
  <2>3. QED  BY <2>1, <2>2, EmptySeq
<1>4. QED  BY <1>1, <1>2, <1>3 DEF FileTypes, PrefixTypes

(* The words of a suffix.                                                  *)
SuffixWords(f) ==
  write_u16l(f.bcdDevice) \o write_u16l(f.usbId.product)
    \o write_u16l(f.usbId.vendor) \o write_u16l(f.bcdDFU)

SuffixStart(f) == SuffixWords(f) \o Signature \o <<SuffixLength>>

LEMMA WordsOfSuffix ==
  ASSUME NEW f \in FileTypes
  PROVE  /\ SuffixWords(f) \in Seq(Byte) /\ Len(SuffixWords(f)) = 8
         /\ \A k \in {1, 2} :
              /\ SuffixWords(f)[k] = write_u16l(f.bcdDevice)[k]
              /\ SuffixWords(f)[2 + k] = write_u16l(f.usbId.product)[k]
              /\ SuffixWords(f)[4 + k] = write_u16l(f.usbId.vendor)[k]
              /\ SuffixWords(f)[6 + k] = write_u16l(f.bcdDFU)[k]
<1> DEFINE a == write_u16l(f.bcdDevice)
           b == write_u16l(f.usbId.product)
           c == write_u16l(f.usbId.vendor)
           d == write_u16l(f.bcdDFU)
<1>1. /\ f.bcdDevice \in Int /\ f.usbId.product \in Int /\ f.usbId.vendor \in Int
      /\ f.bcdDFU \in Int
  <2>1. FFFF \in Int  BY TopOfWords
  <2>2. \A w \in Words : w \in Int  BY <2>1 DEF Words
  <2>3. -1 \in Int  OBVIOUS
  <2>4. QED  BY <2>2, <2>3 DEF FileTypes, UsbIds
<1>2. /\ a \in Seq(Byte) /\ b \in Seq(Byte) /\ c \in Seq(Byte) /\ d \in Seq(Byte)
      /\ Len(a) = 2 /\ Len(b) = 2 /\ Len(c) = 2 /\ Len(d) = 2
  <2>1. \A x \in Int : write_u16l(x) \in Seq(Byte) /\ Len(write_u16l(x)) = 2  BY WriteWord
  <2>2. a \in Seq(Byte) /\ Len(a) = 2  BY <1>1, <2>1
  <2>3. b \in Seq(Byte) /\ Len(b) = 2  BY <1>1, <2>1
  <2>4. c \in Seq(Byte) /\ Len(c) = 2  BY <1>1, <2>1
  <2>5. d \in Seq(Byte) /\ Len(d) = 2  BY <1>1, <2>1
  <2> HIDE DEF a, b, c, d
  <2>6. QED  BY <2>2, <2>3, <2>4, <2>5
<1> HIDE DEF a, b, c, d
<1> DEFINE ab == a \o b
           abc == ab \o c
           all == abc \o d
<1>3. /\ ab \in Seq(Byte) /\ Len(ab) = Len(a) + Len(b)
      /\ \A i \in 1 .. Len(a) : ab[i] = a[i]
      /\ \A i \in 1 .. Len(b) : ab[Len(a) + i] = b[i]
  BY <1>2, Joined
<1> HIDE DEF ab
<1>4. /\ abc \in Seq(Byte) /\ Len(abc) = Len(ab) + Len(c)
      /\ \A i \in 1 .. Len(ab) : abc[i] = ab[i]
      /\ \A i \in 1 .. Len(c) : abc[Len(ab) + i] = c[i]
  <2>1. ab \in Seq(Byte) /\ c \in Seq(Byte)  BY <1>2, <1>3
  <2>2. QED  BY <2>1, Joined
<1> HIDE DEF abc
<1>5. /\ all \in Seq(Byte) /\ Len(all) = Len(abc) + Len(d)
      /\ \A i \in 1 .. Len(abc) : all[i] = abc[i]
      /\ \A i \in 1 .. Len(d) : all[Len(abc) + i] = d[i]
  <2>1. abc \in Seq(Byte) /\ d \in Seq(Byte)  BY <1>2, <1>4
  <2>2. QED  BY <2>1, Joined
<1> HIDE DEF all
<1>6. Len(ab) = 4 /\ Len(abc) = 6 /\ Len(all) = 8  BY <1>2, <1>3, <1>4, <1>5
<1>7. ASSUME NEW k \in {1, 2}
      PROVE  all[k] = a[k] /\ all[2 + k] = b[k] /\ all[4 + k] = c[k] /\ all[6 + k] = d[k]
  <2>1. /\ k \in 1 .. Len(a) /\ k \in 1 .. Len(b) /\ k \in 1 .. Len(c) /\ k \in 1 .. Len(d)
        /\ k \in 1 .. Len(ab) /\ 2 + k \in 1 .. Len(ab)
        /\ k \in 1 .. Len(abc) /\ 2 + k \in 1 .. Len(abc) /\ 4 + k \in 1 .. Len(abc)
    BY <1>2, <1>6, <1>7
  <2>2. /\ ab[k] = a[k] /\ ab[2 + k] = b[k]  BY <1>2, <1>3, <2>1
  <2>3. /\ abc[k] = a[k] /\ abc[2 + k] = b[k] /\ abc[4 + k] = c[k]
    BY <1>4, <1>6, <2>1, <2>2
  <2>4. QED  BY <1>5, <1>6, <2>1, <2>3
<1>8. SuffixWords(f) = all  BY DEF SuffixWords, all, abc, ab, a, b, c, d
<1>9. QED  BY <1>5, <1>6, <1>7, <1>8 DEF a, b, c, d

(* A suffix: its words, the signature, its length, and the checksum.       *)
LEMMA SuffixBytes ==
  ASSUME NEW f \in FileTypes
  PROVE  /\ SuffixStart(f) \in Seq(Byte) /\ Len(SuffixStart(f)) = 12
         /\ \A k \in 1 .. 8 : SuffixStart(f)[k] = SuffixWords(f)[k]
         /\ \A k \in {1, 2, 3} : SuffixStart(f)[8 + k] = Signature[k]
         /\ SuffixStart(f)[12] = SuffixLength
<1> DEFINE a == SuffixWords(f)
           b == Signature
           c == <<SuffixLength>>
<1>1. a \in Seq(Byte) /\ Len(a) = 8  BY WordsOfSuffix
<1>2. b \in Seq(Byte) /\ Len(b) = 3  BY DEF Byte, Signature
<1>3. c \in Seq(Byte) /\ Len(c) = 1 /\ c[1] = SuffixLength  BY DEF Byte, SuffixLength
<1> HIDE DEF a, b, c
<1> DEFINE ab == a \o b
           all == ab \o c
<1>4. /\ ab \in Seq(Byte) /\ Len(ab) = Len(a) + Len(b)
      /\ \A i \in 1 .. Len(a) : ab[i] = a[i]
      /\ \A i \in 1 .. Len(b) : ab[Len(a) + i] = b[i]
  BY <1>1, <1>2, Joined
<1> HIDE DEF ab
<1>5. /\ all \in Seq(Byte) /\ Len(all) = Len(ab) + Len(c)
      /\ \A i \in 1 .. Len(ab) : all[i] = ab[i]
      /\ \A i \in 1 .. Len(c) : all[Len(ab) + i] = c[i]
  BY <1>3, <1>4, Joined
<1> HIDE DEF all
<1>6. Len(ab) = 11 /\ Len(all) = 12  BY <1>1, <1>2, <1>3, <1>4, <1>5
<1>7. ASSUME NEW k \in 1 .. 8  PROVE all[k] = a[k]
  <2>1. k \in 1 .. Len(a) /\ k \in 1 .. Len(ab)  BY <1>1, <1>6, <1>7
  <2>2. QED  BY <1>4, <1>5, <2>1
<1>8. ASSUME NEW k \in {1, 2, 3}  PROVE all[8 + k] = b[k]
  <2>1. k \in 1 .. Len(b) /\ 8 + k \in 1 .. Len(ab) /\ Len(a) + k = 8 + k
    BY <1>1, <1>2, <1>6, <1>8
  <2>2. QED  BY <1>4, <1>5, <2>1
<1>9. all[12] = c[1]
  <2>1. 1 \in 1 .. Len(c) /\ Len(ab) + 1 = 12  BY <1>3, <1>6
  <2>2. QED  BY <1>5, <2>1
<1>10. SuffixStart(f) = all  BY DEF SuffixStart, all, ab, a, b, c
<1>11. QED  BY <1>3, <1>5, <1>6, <1>7, <1>8, <1>9, <1>10 DEF a, b, c

(* A suffix as it is written behind a file.                                *)
LEMMA SuffixWritten ==
  ASSUME CrcBytes, NEW f \in FileTypes, NEW before \in Seq(Byte)
  PROVE  /\ before \o SuffixStart(f) \in Seq(Byte)
         /\ Crc(before \o SuffixStart(f)) \in Seq(Byte) /\ Len(Crc(before \o SuffixStart(f))) = 4
         /\ writeSuffix(f, before) = SuffixStart(f) \o Crc(before \o SuffixStart(f))
         /\ writeSuffix(f, before) \in Seq(Byte) /\ Len(writeSuffix(f, before)) = 16
<1> DEFINE s == SuffixStart(f)
           c == Crc(before \o s)
<1>1. s \in Seq(Byte) /\ Len(s) = 12  BY SuffixBytes
<1>2. writeSuffix(f, before) = s \o c  BY DEF writeSuffix, SuffixStart, SuffixWords
<1> HIDE DEF s
<1>3. before \o s \in Seq(Byte)  BY <1>1, Joined
<1>4. c \in [1 .. 4 -> Byte]  BY <1>3 DEF CrcBytes
<1> HIDE DEF c
<1>5. c \in Seq(Byte) /\ Len(c) = 4  BY <1>4, FourBytes
<1>6. s \o c \in Seq(Byte) /\ Len(s \o c) = Len(s) + Len(c)  BY <1>1, <1>5, Joined
<1>7. Len(s \o c) = 16  BY <1>1, <1>5, <1>6
<1>8. QED  BY <1>2, <1>3, <1>5, <1>6, <1>7 DEF s, c

(* The payload lies in memory.                                             *)
LEMMA PayloadBytes ==
  ASSUME NEW f \in FileTypes, NEW mem \in Seq(Byte), f.total <= Len(mem),
         f.prefix + f.suffix <= f.total
  PROVE  /\ Payload(f, mem) \in Seq(Byte)
         /\ Len(Payload(f, mem)) = f.total - f.suffix - f.prefix
<1>1. /\ f.prefix + 1 \in Nat /\ 1 <= f.prefix + 1 /\ f.total - f.suffix \in Int
      /\ f.total - f.suffix <= Len(mem) /\ f.prefix \in Nat /\ f.suffix \in Nat /\ f.total \in Nat
  BY DEF FileTypes
<1>2. /\ Payload(f, mem) \in Seq(Byte)
      /\ Len(Payload(f, mem)) = IF f.prefix + 1 <= f.total - f.suffix
                                THEN f.total - f.suffix - (f.prefix + 1) + 1 ELSE 0
  BY <1>1, PartOfBytes DEF Payload
<1>3. \A i, j, k \in Int :
        i + k <= j =>
          (IF i + 1 <= j - k THEN j - k - (i + 1) + 1 ELSE 0) = j - k - i
  OBVIOUS
<1>4. (IF f.prefix + 1 <= f.total - f.suffix
       THEN f.total - f.suffix - (f.prefix + 1) + 1 ELSE 0) = f.total - f.suffix - f.prefix
  BY <1>1, <1>3
<1>5. QED  BY <1>2, <1>4

(* What storeFile writes.                                                  *)
LEMMA ImageBytes ==
  ASSUME CrcBytes, NEW f \in FileTypes, NEW mem \in Seq(Byte), f.total <= Len(mem),
         f.prefix + f.suffix <= f.total, NEW s \in BOOLEAN, NEW x \in BOOLEAN
  PROVE  Image(f, mem, s, x) \in Seq(Byte)
<1> DEFINE head == IF x THEN writePrefix(f) ELSE << >>
           most == head \o Payload(f, mem)
<1>1. head \in Seq(Byte)
  <2>1. writePrefix(f) \in Seq(Byte) /\ << >> \in Seq(Byte)  BY PrefixBytes, EmptySeq
  <2>2. QED  BY <2>1
<1> HIDE DEF head
<1>2. Payload(f, mem) \in Seq(Byte)  BY PayloadBytes
<1>3. most \in Seq(Byte)  BY <1>1, <1>2, Joined
<1> HIDE DEF most
<1>4. writeSuffix(f, most) \in Seq(Byte)  BY <1>3, SuffixWritten
<1>5. most \o writeSuffix(f, most) \in Seq(Byte)  BY <1>3, <1>4, Joined
<1>6. Image(f, mem, s, x) = IF s THEN most \o writeSuffix(f, most) ELSE most
  BY DEF Image, most, head
<1>7. QED  BY <1>3, <1>5, <1>6

-------------------------------------------------------------------------------
(***************************************************************************)
(* Steps                                                                   *)
(***************************************************************************)

(* What a load finds, or what is left when nothing came.                   *)
LEMMA Loading ==
  ASSUME Types, file' \in FileTypes, Fitting(file'), memory' \in Seq(Byte),
         file'.data <= Len(memory'), file'.total <= Len(memory'), Counted,
         NEW o, NEW from, NEW bytes, Loaded(o, from, bytes), o \in {"loaded", "threw"}
  PROVE  Types' /\ NothingLeftOver'
<1>1. /\ status' = o /\ edited' = FALSE /\ UNCHANGED <<disk, intended>>
  BY DEF Loaded
<1>2. calls' \in 0 .. MaxCalls  BY FileAssumption DEF Types, Others, Counted
<1>3. Memories'  BY <1>1 DEF Types, Memories
<1>4. Others'  BY <1>1, <1>2 DEF Others
<1>5. PartsFit'  BY DEF Fitting, PartsFit, FileTypes
<1>6. NothingLeftOver'
  <2>1. file'.suffix \in Nat  BY DEF FileTypes
  <2>2. ~(file'.suffix > 0) => file'.suffix = 0  BY <2>1
  <2>3. QED  BY <2>2 DEF NothingLeftOver, Fitting, hasSuffix
<1>7. QED  BY <1>3, <1>4, <1>5, <1>6 DEF Types

LEMMA LoadNotOpenedTypes == Types /\ LoadNotOpened => Types' /\ NothingLeftOver'
<1> SUFFICES ASSUME Types, LoadNotOpened  PROVE Types' /\ NothingLeftOver'  OBVIOUS
<1>1. /\ file' = reset(file) /\ memory' = memory /\ Counted /\ Loaded("threw", "file", disk)
  BY DEF LoadNotOpened
<1>2. file \in FileTypes /\ memory \in Seq(Byte) /\ Len(memory) \in Nat  BY DEF Types, Memories
<1>3. /\ reset(file) \in FileTypes /\ reset(file).data = 0 /\ reset(file).total = 0
      /\ Fitting(reset(file))
  <2>1. Empty(reset(file)) /\ reset(file).data = 0 /\ reset(file).total = 0
    BY <1>2, ResetEmpty
  <2>2. QED  BY <2>1 DEF Empty, Fitting
<1>4. QED  BY <1>1, <1>2, <1>3, Loading

LEMMA LoadNotReadTypes == Types /\ LoadNotRead => Types' /\ NothingLeftOver'
<1> SUFFICES ASSUME Types, LoadNotRead  PROVE Types' /\ NothingLeftOver'  OBVIOUS
<1>1. PICK n \in Cuts \cap 0 .. Len(disk) - 1 :
        /\ memory' = Over(memory, FirstOf(disk, n) \o Zeros(Len(disk) - n))
        /\ file' = [reset(file) EXCEPT !.data = Len(disk)]
        /\ Counted /\ Loaded("threw", "file", disk)
  BY DEF LoadNotRead
<1>2. /\ file \in FileTypes /\ memory \in Seq(Byte) /\ disk \in Seq(Byte) /\ Len(disk) \in Nat
  BY DEF Types, Memories
<1>3. n \in Nat /\ Len(disk) - n \in Nat /\ n <= Len(disk)  BY <1>2
<1>4. FirstOf(disk, n) \in Seq(Byte) /\ Len(FirstOf(disk, n)) = n
  BY <1>2, <1>3, FirstBytes
<1> DEFINE bytes == FirstOf(disk, n) \o Zeros(Len(disk) - n)
<1>5. bytes \in Seq(Byte) /\ Len(bytes) = Len(disk)
  <2>1. Zeros(Len(disk) - n) \in Seq(Byte) /\ Len(Zeros(Len(disk) - n)) = Len(disk) - n
    BY <1>3, ZeroBytes
  <2>2. bytes \in Seq(Byte) /\ Len(bytes) = Len(FirstOf(disk, n)) + Len(Zeros(Len(disk) - n))
    BY <1>4, <2>1, Joined
  <2>3. QED  BY <1>2, <1>3, <1>4, <2>1, <2>2
<1> HIDE DEF bytes
<1>6. memory' \in Seq(Byte) /\ Len(disk) <= Len(memory')
  BY <1>1, <1>2, <1>5, OverMemory DEF bytes
<1>7. /\ file' \in FileTypes /\ file'.data = Len(disk) /\ file'.total = 0 /\ Fitting(file')
  <2>1. Empty(reset(file)) /\ reset(file).total = 0  BY <1>2, ResetEmpty
  <2> DEFINE size == Len(disk)
             f == reset(file)
  <2>2. size \in Nat /\ Empty(f) /\ f.total = 0 /\ file' = [f EXCEPT !.data = size]
    BY <1>1, <1>2, <2>1
  <2> HIDE DEF size, f
  <2> DEFINE g == [f EXCEPT !.data = size]
  <2>3. Empty(g) /\ g.data = size /\ g.total = f.total
    <3>1. Empty(f) /\ size \in Nat  BY <2>2
    <3>2. QED  BY <3>1, DataSet
  <2>4. Empty(file') /\ file'.data = size /\ file'.total = 0  BY <2>2, <2>3
  <2>5. QED  BY <2>4 DEF Empty, Fitting, size
<1>8. 0 <= Len(memory')  BY <1>6
<1>9. QED  BY <1>1, <1>6, <1>7, <1>8, Loading

LEMMA LoadFileTypes == Types /\ LoadFile => Types' /\ NothingLeftOver'
<1> SUFFICES ASSUME Types, LoadFile  PROVE Types' /\ NothingLeftOver'  OBVIOUS
<1> DEFINE f == [reset(file) EXCEPT !.data = Len(disk), !.total = Len(disk)]
<1>1. /\ memory' = Over(memory, disk) /\ file' = read(f, disk) /\ Counted
      /\ Loaded(IF Throws(disk) THEN "threw" ELSE "loaded", "file", disk)
  BY DEF LoadFile
<1>2. /\ file \in FileTypes /\ memory \in Seq(Byte) /\ disk \in Seq(Byte) /\ Len(disk) \in Nat
  BY DEF Types, Memories
<1>3. Empty(f) /\ f.data = Len(disk) /\ f.total = Len(disk)
  BY <1>2, ResetEmpty, SizesSet
<1> HIDE DEF f
<1>4. /\ file' \in FileTypes /\ file'.total = Len(disk) /\ file'.data = Len(disk) /\ Fitting(file')
  BY <1>1, <1>2, <1>3, ReadFound
<1>5. memory' \in Seq(Byte) /\ Len(disk) <= Len(memory')  BY <1>1, <1>2, OverMemory
<1>6. QED  BY <1>1, <1>4, <1>5, Loading

LEMMA LoadStdInTypes == Types /\ loadStdIn => Types' /\ NothingLeftOver'
<1> SUFFICES ASSUME Types, loadStdIn  PROVE Types' /\ NothingLeftOver'  OBVIOUS
<1>1. PICK input \in Files : \E r \in Reserved(Len(input)) :
        LET bytes == FirstOf(r, Len(input))
        IN  /\ memory' = r
            /\ file' = read([reset(file) EXCEPT !.total = Len(input)], bytes)
            /\ Loaded(IF Throws(bytes) THEN "threw" ELSE "loaded", "stdin", input)
  BY DEF loadStdIn
<1>2. PICK r \in Reserved(Len(input)) :
        LET bytes == FirstOf(r, Len(input))
        IN  /\ memory' = r
            /\ file' = read([reset(file) EXCEPT !.total = Len(input)], bytes)
            /\ Loaded(IF Throws(bytes) THEN "threw" ELSE "loaded", "stdin", input)
  BY <1>1
<1>3. /\ file \in FileTypes /\ memory \in Seq(Byte) /\ Len(memory) \in Nat
      /\ input \in Seq(Byte) /\ Len(input) \in Nat
  BY FileAssumption DEF Types, Memories
<1>4. ASSUME NEW bytes \in Seq(Byte), Len(input) <= Len(bytes)
      PROVE  FirstOf(bytes, Len(input)) \in Seq(Byte) /\ Len(FirstOf(bytes, Len(input))) = Len(input)
  BY <1>3, <1>4, FirstBytes
<1>5. r \in Seq(Byte) /\ Len(input) <= Len(r)
  <2>1. CASE Len(input) <= Len(memory)  BY <1>3, <2>1 DEF Reserved
  <2>2. CASE ~(Len(input) <= Len(memory))
    <3>1. PICK b \in Fresh : Len(b) >= Len(input) /\ r = FirstOf(b, Len(input))
      BY <2>2 DEF Reserved
    <3>2. b \in Seq(Byte) /\ Len(b) \in Nat  BY FileAssumption
    <3>3. Len(input) <= Len(b)  BY <1>3, <3>1, <3>2
    <3>4. r \in Seq(Byte) /\ Len(r) = Len(input)  BY <1>4, <3>1, <3>2, <3>3
    <3>5. QED  BY <1>3, <3>4
  <2>3. QED  BY <2>1, <2>2
<1> DEFINE bytes == FirstOf(r, Len(input))
           f == [reset(file) EXCEPT !.total = Len(input)]
<1>6. bytes \in Seq(Byte) /\ Len(bytes) = Len(input)  BY <1>4, <1>5
<1>7. /\ memory' = r /\ file' = read(f, bytes)
      /\ Loaded(IF Throws(bytes) THEN "threw" ELSE "loaded", "stdin", input)
  BY <1>2
<1>8. Empty(f) /\ f.data = 0 /\ f.total = Len(input)
  <2>1. Empty(reset(file)) /\ reset(file).data = 0  BY <1>3, ResetEmpty
  <2>2. QED  BY <1>3, <2>1, TotalSet
<1> HIDE DEF f, bytes
<1>9. /\ file' \in FileTypes /\ file'.total = Len(input) /\ file'.data = 0 /\ Fitting(file')
  BY <1>6, <1>7, <1>8, ReadFound
<1>10. Counted  BY DEF loadStdIn
<1>11. 0 <= Len(memory')  BY <1>5, <1>7
<1>12. QED  BY <1>5, <1>7, <1>9, <1>10, <1>11, Loading

(* What setting fields or storing leaves alone.                            *)
LEMMA OutsideTypes ==
  ASSUME Types, Counted, UNCHANGED <<memory, file>>, disk' \in Seq(Byte),
         intended' \in Seq(Byte), status' \in {"idle", "stored", "threw"}, edited' \in BOOLEAN
  PROVE  Types'
<1>1. calls' \in 0 .. MaxCalls  BY FileAssumption DEF Types, Others, Counted
<1>2. Memories'  BY DEF Types, Memories
<1>3. Others'  BY <1>1 DEF Others
<1>4. PartsFit'  BY DEF Types, PartsFit
<1>5. file' \in FileTypes  BY DEF Types
<1>6. QED  BY <1>2, <1>3, <1>4, <1>5 DEF Types

(* An edit leaves the sizes as they are.                                   *)
LEMMA EditTypes ==
  ASSUME Types, Counted, Edited, file' \in FileTypes,
         file'.data = file.data, file'.total = file.total,
         file'.prefix = file.prefix, file'.suffix = file.suffix
  PROVE  Types' /\ NothingLeftOver'
<1>1. calls' \in 0 .. MaxCalls  BY FileAssumption DEF Types, Others, Counted
<1>2. Memories'  BY DEF Types, Memories, Edited
<1>3. Others'  BY <1>1 DEF Others, Edited
<1>4. PartsFit'  BY DEF Types, PartsFit
<1>5. NothingLeftOver'  BY DEF NothingLeftOver, Edited
<1>6. QED  BY <1>2, <1>3, <1>4, <1>5 DEF Types

LEMMA SetPrefixTypes == Types /\ SetPrefix => Types' /\ NothingLeftOver'
<1> SUFFICES ASSUME Types, SetPrefix  PROVE Types' /\ NothingLeftOver'  OBVIOUS
<1>1. PICK type \in PrefixTypes, address \in Addresses :
        file' = [file EXCEPT !.prefix_type = type, !.lmdfu_address = address]
  BY DEF SetPrefix
<1>2. file \in FileTypes /\ address \in Nat  BY FileAssumption DEF Types
<1>3. /\ file' \in FileTypes /\ file'.data = file.data /\ file'.total = file.total
      /\ file'.prefix = file.prefix /\ file'.suffix = file.suffix
  BY <1>1, <1>2 DEF FileTypes
<1>4. Counted /\ Edited  BY DEF SetPrefix
<1>5. QED  BY <1>3, <1>4, EditTypes

LEMMA SetIdTypes == Types /\ SetId => Types' /\ NothingLeftOver'
<1> SUFFICES ASSUME Types, SetId  PROVE Types' /\ NothingLeftOver'  OBVIOUS
<1>1. PICK id \in Ids : file' = [file EXCEPT !.usbId = id]
  BY DEF SetId
<1>2. file \in FileTypes /\ id \in UsbIds  BY FileAssumption DEF Types, UsbIds
<1>3. /\ file' \in FileTypes /\ file'.data = file.data /\ file'.total = file.total
      /\ file'.prefix = file.prefix /\ file'.suffix = file.suffix
  BY <1>1, <1>2 DEF FileTypes
<1>4. Counted /\ Edited  BY DEF SetId
<1>5. QED  BY <1>3, <1>4, EditTypes

(* As long as the object is kept, so is what it has of an earlier file.    *)
LEMMA KeptClean == NothingLeftOver /\ UNCHANGED <<file, edited>> => NothingLeftOver'
BY DEF NothingLeftOver, hasSuffix

LEMMA StoreNotOpenedTypes == Types /\ StoreNotOpened => Types'
<1> SUFFICES ASSUME Types, StoreNotOpened  PROVE Types'  OBVIOUS
<1>1. /\ Counted /\ UNCHANGED <<memory, file, edited, disk, intended>> /\ status' = "threw"
  BY DEF StoreNotOpened, ObjectKept
<1>2. disk \in Seq(Byte) /\ intended \in Seq(Byte) /\ edited \in BOOLEAN
  BY DEF Types, Memories, Others
<1>3. QED  BY <1>1, <1>2, OutsideTypes

LEMMA StoreTypes == ASSUME CrcBytes PROVE Types /\ storeFile => Types'
<1> SUFFICES ASSUME Types, storeFile  PROVE Types'  OBVIOUS
<1>1. PICK s \in BOOLEAN, x \in BOOLEAN :
        /\ intended' = Image(file, memory, s, x)
        /\ \/ disk' = Image(file, memory, s, x) /\ status' = "stored"
           \/ \E n \in Cuts \cap 0 .. Len(Image(file, memory, s, x)) - 1 :
                disk' = FirstOf(Image(file, memory, s, x), n) /\ status' \in {"threw", "stored"}
        /\ ObjectKept
  BY DEF storeFile
<1>2. /\ file \in FileTypes /\ memory \in Seq(Byte) /\ file.total <= Len(memory)
      /\ file.prefix + file.suffix <= file.total /\ edited \in BOOLEAN
  BY DEF Types, Memories, PartsFit, Others
<1>3. Image(file, memory, s, x) \in Seq(Byte)  BY <1>2, ImageBytes
<1>4. disk' \in Seq(Byte) /\ status' \in {"threw", "stored"}
  <2>1. CASE disk' = Image(file, memory, s, x) /\ status' = "stored"  BY <1>3, <2>1
  <2>2. CASE \E n \in Cuts \cap 0 .. Len(Image(file, memory, s, x)) - 1 :
               disk' = FirstOf(Image(file, memory, s, x), n) /\ status' \in {"threw", "stored"}
    <3>1. PICK n \in 0 .. Len(Image(file, memory, s, x)) - 1 :
            disk' = FirstOf(Image(file, memory, s, x), n) /\ status' \in {"threw", "stored"}
      BY <2>2
    <3>2. n \in Nat /\ n <= Len(Image(file, memory, s, x))  BY <1>3
    <3>3. QED  BY <1>3, <3>1, <3>2, FirstBytes
  <2>3. QED  BY <1>1, <2>1, <2>2
<1>5. Counted /\ UNCHANGED <<memory, file, edited>>  BY <1>1 DEF storeFile, ObjectKept
<1>6. QED  BY <1>1, <1>2, <1>3, <1>4, <1>5, OutsideTypes

LEMMA DamageTypes == Types /\ Damage => Types'
<1> SUFFICES ASSUME Types, Damage  PROVE Types'  OBVIOUS
<1>1. /\ Counted /\ UNCHANGED <<memory, file, edited, intended>> /\ status' = "idle"
  BY DEF Damage, ObjectKept
<1>2. disk \in Seq(Byte) /\ intended \in Seq(Byte) /\ edited \in BOOLEAN
  BY DEF Types, Memories, Others
<1>3. PICK i \in DOMAIN disk : disk' = [disk EXCEPT ![i] = (@ + 1) % 256]
  BY DEF Damage
<1>4. i \in 1 .. Len(disk) /\ disk[i] \in Byte  BY <1>2, ElementOfSeq
<1>5. (disk[i] + 1) % 256 \in Byte
  <2>1. \A b \in Byte : (b + 1) % 256 \in Byte  BY DEF Byte
  <2>2. QED  BY <1>4, <2>1
<1>6. disk' \in Seq(Byte)  BY <1>2, <1>3, <1>4, <1>5, ExceptSeq
<1>7. QED  BY <1>1, <1>2, <1>6, OutsideTypes

LEMMA ReplaceTypes == Types /\ Replace => Types'
<1> SUFFICES ASSUME Types, Replace  PROVE Types'  OBVIOUS
<1>1. /\ Counted /\ UNCHANGED <<memory, file, edited>> /\ status' = "idle"
      /\ disk' \in Files /\ intended' = disk'
  BY DEF Replace, ObjectKept
<1>2. disk' \in Seq(Byte) /\ edited \in BOOLEAN  BY <1>1, FileAssumption DEF Types, Others
<1>3. QED  BY <1>1, <1>2, OutsideTypes

LEMMA InitTypes == Init => Types /\ NothingLeftOver
<1> SUFFICES ASSUME Init  PROVE Types /\ NothingLeftOver  OBVIOUS
<1>1. Empty(Blank) /\ Blank.data = 0 /\ Blank.total = 0  BY BlankEmpty
<1>2. << >> \in Seq(Byte) /\ Len(<< >>) = 0  OBVIOUS
<1>3. Memories  BY <1>1, <1>2, FileAssumption DEF Init, Memories
<1>4. Others
  <2>1. MaxCalls \in Nat  BY FileAssumption
  <2>2. status = "idle" /\ edited = FALSE /\ calls = 0  BY DEF Init
  <2>3. calls \in 0 .. MaxCalls  BY <2>1, <2>2
  <2>4. status \in {"idle", "loaded", "stored", "threw"} /\ edited \in BOOLEAN  BY <2>2
  <2>5. QED  BY <2>3, <2>4 DEF Others
<1>5. PartsFit  BY <1>1 DEF Init, Empty, PartsFit
<1>6. NothingLeftOver  BY <1>1 DEF Init, Empty, NothingLeftOver
<1>7. QED  BY <1>1, <1>3, <1>4, <1>5, <1>6 DEF Init, Empty, Types

LEMMA TypesKept ==
  ASSUME CrcBytes
  PROVE  Types /\ NothingLeftOver /\ [Next]_vars => Types' /\ NothingLeftOver'
<1> SUFFICES ASSUME Types, NothingLeftOver, [Next]_vars  PROVE Types' /\ NothingLeftOver'
  OBVIOUS
<1>1. CASE LoadNotOpened  BY <1>1, LoadNotOpenedTypes
<1>2. CASE LoadNotRead  BY <1>2, LoadNotReadTypes
<1>3. CASE LoadFile  BY <1>3, LoadFileTypes
<1>4. CASE loadStdIn  BY <1>4, LoadStdInTypes
<1>5. CASE SetPrefix  BY <1>5, SetPrefixTypes
<1>6. CASE SetId  BY <1>6, SetIdTypes
<1>7. CASE StoreNotOpened
  BY <1>7, StoreNotOpenedTypes, KeptClean DEF StoreNotOpened, ObjectKept
<1>8. CASE storeFile
  <2>1. Types'  BY <1>8, StoreTypes
  <2>2. UNCHANGED <<file, edited>>  BY <1>8 DEF storeFile, ObjectKept
  <2>3. QED  BY <2>1, <2>2, KeptClean
<1>9. CASE Damage  BY <1>9, DamageTypes, KeptClean DEF Damage, ObjectKept
<1>10. CASE Replace  BY <1>10, ReplaceTypes, KeptClean DEF Replace, ObjectKept
<1>11. CASE UNCHANGED vars
  BY <1>11 DEF vars, Types, Memories, Others, PartsFit, NothingLeftOver, hasSuffix
<1>12. QED
  BY <1>1, <1>2, <1>3, <1>4, <1>5, <1>6, <1>7, <1>8, <1>9, <1>10, <1>11 DEF Next

(* TypeOK, PartsFit and NothingLeftOver, of the module DfuFile.            *)
LEMMA TypesSound == ASSUME CrcBytes PROVE Spec => [](Types /\ NothingLeftOver)
<1>1. Init => Types /\ NothingLeftOver  BY InitTypes
<1>2. Types /\ NothingLeftOver /\ [Next]_vars => (Types /\ NothingLeftOver)'
  BY TypesKept
<1>3. QED  BY <1>1, <1>2, PTL DEF Spec

(* The bytes on disk, in memory and in the object are bytes, and the sizes *)
(* that the object has are never larger than the memory they are about.    *)
THEOREM TypeCorrect == ASSUME CrcBytes PROVE Spec => []TypeOK
<1>1. Types => TypeOK
  <2> SUFFICES ASSUME Types  PROVE TypeOK  OBVIOUS
  <2>1. /\ file.prefix_type \in PrefixTypes /\ file.lmdfu_address \in Nat
        /\ file.bcdDFU \in Words /\ file.bcdDevice \in Words
        /\ file.usbId \in UsbIds /\ file.dwCRC \in [1 .. 4 -> Byte]
        /\ file.data \in Nat /\ file.total \in Nat
    BY DEF Types, FileTypes
  <2>2. Len(memory) \in Nat /\ file.data <= Len(memory) /\ file.total <= Len(memory)
    BY DEF Types, Memories
  <2>3. {file.data, file.total} \subseteq 0 .. Len(memory)  BY <2>1, <2>2
  <2>4. {file.bcdDFU, file.bcdDevice} \subseteq Words  BY <2>1
  <2>5. QED  BY <2>1, <2>3, <2>4 DEF Types, Memories, Others, TypeOK
<1>2. QED  BY <1>1, TypesSound, PTL

(* Prefix and suffix never overlap, whatever the files are, also after     *)
(* loads that failed in part: getPayload and writePrefix subtract the two  *)
(* from the length of the file and never wrap around (DfuFile.cpp:206, 269,*)
(* 369).                                                                   *)
THEOREM PartsAlwaysFit == ASSUME CrcBytes PROVE Spec => []PartsFit
<1>1. Types => PartsFit  BY DEF Types
<1>2. QED  BY <1>1, TypesSound, PTL

(* Until a field is set, nothing in the object comes from an earlier load  *)
(* than the last (reset, DfuFile.cpp:40-57).                               *)
THEOREM NothingOfEarlierFiles == ASSUME CrcBytes PROVE Spec => []NothingLeftOver
<1>1. QED  BY TypesSound, PTL

-------------------------------------------------------------------------------
(***************************************************************************)
(* Reading back what was written                                           *)
(***************************************************************************)

(* Two sequences one behind the other are found again.                     *)
LEMMA JoinedParts ==
  ASSUME NEW s \in Seq(Byte), NEW t \in Seq(Byte)
  PROVE  /\ FirstOf(s \o t, Len(s)) = s
         /\ SubSeq(s \o t, Len(s) + 1, Len(s) + Len(t)) = t
<1> DEFINE st == s \o t
<1>1. /\ st \in Seq(Byte) /\ Len(s) \in Nat /\ Len(t) \in Nat /\ Len(st) = Len(s) + Len(t)
      /\ \A i \in 1 .. Len(s) : st[i] = s[i]
      /\ \A i \in 1 .. Len(t) : st[Len(s) + i] = t[i]
  BY Joined
<1> HIDE DEF st
<1>2. FirstOf(st, Len(s)) = s
  <2>1. /\ FirstOf(st, Len(s)) \in Seq(Byte) /\ Len(FirstOf(st, Len(s))) = Len(s)
        /\ \A k \in 1 .. Len(s) : FirstOf(st, Len(s))[k] = st[k]
    <3>1. Len(s) <= Len(st)  BY <1>1
    <3>2. QED  BY <1>1, <3>1, FirstBytes
  <2>2. QED  BY <1>1, <2>1, SeqEqual
<1>3. SubSeq(st, Len(s) + 1, Len(s) + Len(t)) = t
  <2> DEFINE i == Len(s) + 1
             j == Len(s) + Len(t)
             u == SubSeq(st, i, j)
  <2>1. i \in Nat /\ j \in Int /\ 1 <= i /\ j <= Len(st) /\ j - i + 1 = Len(t)
        /\ (i <= j \/ Len(t) = 0)
    BY <1>1
  <2>2. \A k \in 1 .. Len(t) : i + k - 1 = Len(s) + k  BY <1>1
  <2> HIDE DEF i, j
  <2>3. /\ u \in Seq(Byte) /\ Len(u) = IF i <= j THEN j - i + 1 ELSE 0
        /\ \A k \in 1 .. j - i + 1 : u[k] = st[i + k - 1]
    BY <1>1, <2>1, PartOfBytes
  <2> HIDE DEF u
  <2>4. Len(u) = Len(t)  BY <2>1, <2>3
  <2>5. \A k \in 1 .. Len(t) : u[k] = t[k]  BY <1>1, <2>1, <2>2, <2>3
  <2>6. u = t  BY <2>3, <2>4, <2>5, SeqEqual
  <2>7. QED  BY <2>6 DEF u, i, j
<1>4. QED  BY <1>2, <1>3 DEF st

(* The middle one of three.                                                *)
LEMMA JoinedMiddle ==
  ASSUME NEW s \in Seq(Byte), NEW t \in Seq(Byte), NEW u \in Seq(Byte)
  PROVE  SubSeq((s \o t) \o u, Len(s) + 1, Len(s) + Len(t)) = t
<1> DEFINE st == s \o t
           i == Len(s) + 1
           j == Len(s) + Len(t)
<1>1. /\ st \in Seq(Byte) /\ Len(s) \in Nat /\ Len(t) \in Nat /\ Len(st) = Len(s) + Len(t)
  BY Joined
<1>2. SubSeq(st, i, j) = t  BY JoinedParts
<1> HIDE DEF st
<1>3. /\ st \o u \in Seq(Byte) /\ Len(u) \in Nat /\ Len(st \o u) = Len(st) + Len(u)
      /\ \A k \in 1 .. Len(st) : (st \o u)[k] = st[k]
  BY <1>1, Joined
<1>4. /\ i \in Nat /\ j \in Int /\ 1 <= i /\ j <= Len(st) /\ j <= Len(st \o u)
      /\ \A k \in 1 .. j - i + 1 : i + k - 1 \in 1 .. Len(st)
  BY <1>1, <1>3
<1> HIDE DEF i, j
<1> DEFINE a == SubSeq(st, i, j)
           b == SubSeq(st \o u, i, j)
<1>5. /\ a \in Seq(Byte) /\ Len(a) = IF i <= j THEN j - i + 1 ELSE 0
      /\ \A k \in 1 .. j - i + 1 : a[k] = st[i + k - 1]
  BY <1>1, <1>4, PartOfBytes
<1>6. /\ b \in Seq(Byte) /\ Len(b) = IF i <= j THEN j - i + 1 ELSE 0
      /\ \A k \in 1 .. j - i + 1 : b[k] = (st \o u)[i + k - 1]
  BY <1>3, <1>4, PartOfBytes
<1> HIDE DEF a, b
<1>7. Len(a) = Len(b)  BY <1>5, <1>6
<1>8. \A k \in 1 .. Len(a) : a[k] = b[k]
  <2> SUFFICES ASSUME NEW k \in 1 .. Len(a)  PROVE a[k] = b[k]  OBVIOUS
  <2>1. k \in 1 .. j - i + 1  BY <1>4, <1>5
  <2>2. i + k - 1 \in 1 .. Len(st)  BY <1>4, <2>1
  <2>3. QED  BY <1>3, <1>5, <1>6, <2>1, <2>2
<1>9. a = b  BY <1>5, <1>6, <1>7, <1>8, SeqEqual
<1>10. QED  BY <1>2, <1>9 DEF a, b, i, j, st

(* A word that is written is read back, modulo its width.                  *)
LEMMA WordAgain ==
  ASSUME NEW x \in Int, NEW a, NEW b, a = write_u16l(x)[1], b = write_u16l(x)[2]
  PROVE  /\ a + 256 * b = x % 65536
         /\ x \in Words => a + 256 * b = x
<1>1. a + 256 * b = x % 65536
  <2> DEFINE w == write_u16l(x)
  <2>1. w[1] + 256 * w[2] = x % 65536  BY WriteWord
  <2>2. a = w[1] /\ b = w[2]  OBVIOUS
  <2> HIDE DEF w
  <2>3. QED  BY <2>1, <2>2
<1>2. ASSUME x \in Words  PROVE x % 65536 = x
  <2>1. FFFF \in Int  BY TopOfWords
  <2>2. 0 <= x /\ x <= FFFF  BY <1>2, <2>1 DEF Words
  <2>3. 0 <= x /\ x <= 65535  BY <2>2, TopOfWords
  <2>4. QED  BY <2>3
<1>3. QED  BY <1>1, <1>2

(* A suffix that was written is believed.                                  *)
LEMMA SuffixBelieved ==
  ASSUME CrcBytes, NEW f \in FileTypes, NEW most \in Seq(Byte)
  PROVE  LET s == writeSuffix(f, most)
         IN  /\ most \o s \in Seq(Byte) /\ Len(most \o s) = Len(most) + 16
             /\ LastOf(most \o s) = s
             /\ Believed(most \o s) /\ LengthOk(most \o s) /\ ~Throws(most \o s)
             /\ \A k \in 1 .. 8 : s[k] = SuffixWords(f)[k]
             /\ s[12] = SuffixLength
<1> DEFINE start == SuffixStart(f)
           c == Crc(most \o start)
           s == writeSuffix(f, most)
           bytes == most \o s
<1>1. /\ start \in Seq(Byte) /\ Len(start) = 12
      /\ \A k \in 1 .. 8 : start[k] = SuffixWords(f)[k]
      /\ \A k \in {1, 2, 3} : start[8 + k] = Signature[k]
      /\ start[12] = SuffixLength
  BY SuffixBytes
<1>2. /\ most \o start \in Seq(Byte) /\ c \in Seq(Byte) /\ Len(c) = 4 /\ s = start \o c
      /\ s \in Seq(Byte) /\ Len(s) = 16
  BY SuffixWritten
<1> HIDE DEF start, s, c
<1>3. /\ \A k \in 1 .. 12 : s[k] = start[k]
      /\ \A k \in 1 .. 4 : s[12 + k] = c[k]
  <2>1. /\ \A k \in 1 .. Len(start) : (start \o c)[k] = start[k]
        /\ \A k \in 1 .. Len(c) : (start \o c)[Len(start) + k] = c[k]
    BY <1>1, <1>2, Joined
  <2>2. QED  BY <1>1, <1>2, <2>1
<1>4. /\ bytes \in Seq(Byte) /\ Len(bytes) = Len(most) + 16 /\ Len(most) \in Nat
      /\ SubSeq(bytes, Len(most) + 1, Len(most) + 16) = s
  <2>1. /\ bytes \in Seq(Byte) /\ Len(bytes) = Len(most) + Len(s) /\ Len(most) \in Nat
    BY <1>2, Joined
  <2>2. SubSeq(bytes, Len(most) + 1, Len(most) + Len(s)) = s  BY <1>2, JoinedParts
  <2>3. QED  BY <1>2, <2>1, <2>2
<1>5. bytes = (most \o start) \o c
  <2>1. start \in Seq(Byte) /\ c \in Seq(Byte)  BY <1>1, <1>2
  <2>2. (most \o start) \o c = most \o (start \o c)  BY <2>1, ConcatAssociative
  <2>3. QED  BY <1>2, <2>2
<1>6. FirstOf(bytes, Len(bytes) - 4) = most \o start
  <2>1. Len(most \o start) = Len(most) + 12
    <3>1. Len(most \o start) = Len(most) + Len(start)  BY <1>1, Joined
    <3>2. QED  BY <1>1, <3>1
  <2>2. Len(bytes) - 4 = Len(most \o start)  BY <1>4, <2>1
  <2>3. FirstOf((most \o start) \o c, Len(most \o start)) = most \o start
    BY <1>2, JoinedParts
  <2>4. QED  BY <1>5, <2>2, <2>3
<1> HIDE DEF bytes
<1>7. LastOf(bytes) = s
  <2>1. Len(bytes) - 16 + 1 = Len(most) + 1 /\ Len(bytes) = Len(most) + 16  BY <1>4
  <2>2. QED  BY <1>4, <2>1 DEF LastOf, SuffixLength
<1>8. HasSignature(bytes)
  <2>1. Len(bytes) >= SuffixLength  BY <1>4 DEF SuffixLength
  <2>2. SubSeq(s, 9, 11) = Signature
    <3> DEFINE i == 9
               j == 11
               u == SubSeq(s, i, j)
    <3>1. i \in Nat /\ j \in Int /\ 1 <= i /\ j <= Len(s) /\ j - i + 1 = 3 /\ i <= j  BY <1>2
    <3>2. \A k \in 1 .. 3 : i + k - 1 = 8 + k /\ 8 + k \in 1 .. 12 /\ k \in {1, 2, 3}
      OBVIOUS
    <3> HIDE DEF i, j
    <3>3. /\ u \in Seq(Byte) /\ Len(u) = IF i <= j THEN j - i + 1 ELSE 0
          /\ \A k \in 1 .. j - i + 1 : u[k] = s[i + k - 1]
      BY <1>2, <3>1, PartOfBytes
    <3> HIDE DEF u
    <3>4. Len(u) = 3  BY <3>1, <3>3
    <3>5. ASSUME NEW k \in 1 .. 3  PROVE u[k] = Signature[k]
      <4>1. u[k] = s[i + k - 1]  BY <3>1, <3>3
      <4>2. i + k - 1 = 8 + k /\ 8 + k \in 1 .. 12 /\ k \in {1, 2, 3}  BY <3>2
      <4>3. s[8 + k] = start[8 + k]  BY <1>3, <4>2
      <4>4. start[8 + k] = Signature[k]  BY <1>1, <4>2
      <4>5. QED  BY <4>1, <4>2, <4>3, <4>4
    <3>6. Signature \in Seq(Byte) /\ Len(Signature) = 3  BY DEF Byte, Signature
    <3>7. u = Signature  BY <3>3, <3>4, <3>5, <3>6, SeqEqual
    <3>8. QED  BY <3>7 DEF u, i, j
  <2>3. QED  BY <1>7, <2>1, <2>2 DEF HasSignature
<1>9. CrcMatches(bytes)
  <2>1. SubSeq(s, 13, 16) = c
    <3>1. SubSeq(start \o c, Len(start) + 1, Len(start) + Len(c)) = c
      BY <1>1, <1>2, JoinedParts
    <3>2. Len(start) + 1 = 13 /\ Len(start) + Len(c) = 16  BY <1>1, <1>2
    <3>3. QED  BY <1>2, <3>1, <3>2
  <2>2. Crc(FirstOf(bytes, Len(bytes) - 4)) = c  BY <1>6 DEF c
  <2>3. QED  BY <1>7, <2>1, <2>2 DEF CrcMatches
<1>10. s[12] = SuffixLength  BY <1>1, <1>3
<1>11. LengthOk(bytes)  BY <1>4, <1>7, <1>10 DEF LengthOk, SuffixLength
<1>12. ASSUME NEW k \in 1 .. 8  PROVE s[k] = SuffixWords(f)[k]
  <2>1. k \in 1 .. 12  OBVIOUS
  <2>2. s[k] = start[k]  BY <1>3, <2>1
  <2>3. QED  BY <1>1, <2>2
<1>13. QED
  BY <1>4, <1>7, <1>8, <1>9, <1>10, <1>11, <1>12 DEF Believed, Throws, bytes, s

(* The fields that it says are those of the object it was written from.    *)
LEMMA SuffixReadAgain ==
  ASSUME CrcBytes, NEW f \in FileTypes, NEW most \in Seq(Byte), NEW e, Empty(e)
  PROVE  LET bytes == most \o writeSuffix(f, most)
             g == probeSuffix(e, bytes)
         IN  /\ g \in FileTypes /\ g.total = e.total
             /\ g.prefix = 0 /\ g.prefix_type = "None" /\ g.lmdfu_address = 0
             /\ g.suffix = SuffixLength
             /\ g.bcdDevice = f.bcdDevice /\ g.bcdDFU = f.bcdDFU
             /\ \A part \in {"vendor", "product"} :
                  g.usbId[part] = f.usbId[part] % 65536
<1> DEFINE s == writeSuffix(f, most)
           bytes == most \o s
           g == probeSuffix(e, bytes)
<1>1. /\ bytes \in Seq(Byte) /\ LastOf(bytes) = s
      /\ Believed(bytes) /\ LengthOk(bytes) /\ ~Throws(bytes)
      /\ \A k \in 1 .. 8 : s[k] = SuffixWords(f)[k]
      /\ s[12] = SuffixLength
  BY SuffixBelieved
<1>2. \A k \in {1, 2} : /\ SuffixWords(f)[k] = write_u16l(f.bcdDevice)[k]
                        /\ SuffixWords(f)[2 + k] = write_u16l(f.usbId.product)[k]
                        /\ SuffixWords(f)[4 + k] = write_u16l(f.usbId.vendor)[k]
                        /\ SuffixWords(f)[6 + k] = write_u16l(f.bcdDFU)[k]
  BY WordsOfSuffix
<1> HIDE DEF s
<1>3. /\ f.bcdDevice \in Words /\ f.bcdDFU \in Words
      /\ f.bcdDevice \in Int /\ f.bcdDFU \in Int
      /\ f.usbId.product \in Int /\ f.usbId.vendor \in Int
  <2>1. FFFF \in Int  BY TopOfWords
  <2>2. \A w \in Words : w \in Int  BY <2>1 DEF Words
  <2>3. -1 \in Int  OBVIOUS
  <2>4. QED  BY <2>2, <2>3 DEF FileTypes, UsbIds
<1>4. /\ s[1] = write_u16l(f.bcdDevice)[1] /\ s[2] = write_u16l(f.bcdDevice)[2]
      /\ s[3] = write_u16l(f.usbId.product)[1] /\ s[4] = write_u16l(f.usbId.product)[2]
      /\ s[5] = write_u16l(f.usbId.vendor)[1] /\ s[6] = write_u16l(f.usbId.vendor)[2]
      /\ s[7] = write_u16l(f.bcdDFU)[1] /\ s[8] = write_u16l(f.bcdDFU)[2]
  <2>1. /\ s[1] = SuffixWords(f)[1] /\ s[2] = SuffixWords(f)[2]
        /\ s[3] = SuffixWords(f)[3] /\ s[4] = SuffixWords(f)[4]
        /\ s[5] = SuffixWords(f)[5] /\ s[6] = SuffixWords(f)[6]
        /\ s[7] = SuffixWords(f)[7] /\ s[8] = SuffixWords(f)[8]
    BY <1>1
  <2>2. 1 \in {1, 2} /\ 2 \in {1, 2}  OBVIOUS
  <2>3. QED  BY <1>2, <2>1, <2>2
<1>5. read_u16l(s, 1) = f.bcdDevice
  <2> DEFINE x == f.bcdDevice
  <2>1. /\ x \in Int /\ s[1] = write_u16l(x)[1] /\ s[2] = write_u16l(x)[2]
        /\ x \in Words
    BY <1>3, <1>4
  <2> HIDE DEF x
  <2>2. s[1] + 256 * s[2] = x  BY <2>1, WordAgain
  <2>3. QED  BY <2>2 DEF read_u16l, x
<1>6. read_u16l(s, 3) = f.usbId.product % 65536
  <2> DEFINE x == f.usbId.product
  <2>1. /\ x \in Int /\ s[3] = write_u16l(x)[1] /\ s[4] = write_u16l(x)[2]
    BY <1>3, <1>4
  <2> HIDE DEF x
  <2>2. s[3] + 256 * s[4] = x % 65536  BY <2>1, WordAgain
  <2>3. QED  BY <2>2 DEF read_u16l, x
<1>7. read_u16l(s, 5) = f.usbId.vendor % 65536
  <2> DEFINE x == f.usbId.vendor
  <2>1. /\ x \in Int /\ s[5] = write_u16l(x)[1] /\ s[6] = write_u16l(x)[2]
    BY <1>3, <1>4
  <2> HIDE DEF x
  <2>2. s[5] + 256 * s[6] = x % 65536  BY <2>1, WordAgain
  <2>3. QED  BY <2>2 DEF read_u16l, x
<1>8. read_u16l(s, 7) = f.bcdDFU
  <2> DEFINE x == f.bcdDFU
  <2>1. /\ x \in Int /\ s[7] = write_u16l(x)[1] /\ s[8] = write_u16l(x)[2]
        /\ x \in Words
    BY <1>3, <1>4
  <2> HIDE DEF x
  <2>2. s[7] + 256 * s[8] = x  BY <2>1, WordAgain
  <2>3. QED  BY <2>2 DEF read_u16l, x
<1>9. /\ g \in FileTypes /\ g.total = e.total
      /\ g.prefix = 0 /\ g.prefix_type = "None" /\ g.lmdfu_address = 0
  BY <1>1, SuffixFound
<1> HIDE DEF bytes
<1>10. g = [[[e EXCEPT !.dwCRC = SubSeq(s, 13, 16)] EXCEPT !.bcdDFU = read_u16l(s, 7)]
             EXCEPT !.suffix = s[12], !.bcdDevice = read_u16l(s, 1),
                    !.usbId = [product |-> read_u16l(s, 3), vendor |-> read_u16l(s, 5)]]
  BY <1>1 DEF probeSuffix, Believed
<1> HIDE DEF g
<1>11. /\ g.suffix = s[12] /\ g.bcdDevice = read_u16l(s, 1) /\ g.bcdDFU = read_u16l(s, 7)
       /\ g.usbId = [product |-> read_u16l(s, 3), vendor |-> read_u16l(s, 5)]
  BY <1>10 DEF Empty, FileTypes
<1>12. /\ g.suffix = SuffixLength /\ g.bcdDevice = f.bcdDevice /\ g.bcdDFU = f.bcdDFU
       /\ \A part \in {"vendor", "product"} : g.usbId[part] = f.usbId[part] % 65536
  BY <1>1, <1>5, <1>6, <1>7, <1>8, <1>11
<1>13. QED  BY <1>9, <1>12 DEF g, bytes, s

(* How the two kinds of prefix begin.                                      *)
LEMMA PrefixBegins ==
  ASSUME NEW f \in FileTypes
  PROVE  LET p == writePrefix(f)
             b == write_u16l(f.lmdfu_address \div 1024)
         IN  /\ f.prefix_type = "LMDFU" => /\ p[1] = 1 /\ p[2] = 0
                                           /\ p[3] = b[1] /\ p[4] = b[2]
             /\ f.prefix_type = "LPCDFU" => p[1] = 26 /\ p[2] = 63
<1>1. ASSUME f.prefix_type = "LMDFU"
      PROVE  LET p == writePrefix(f)
                 b == write_u16l(f.lmdfu_address \div 1024)
             IN  p[1] = 1 /\ p[2] = 0 /\ p[3] = b[1] /\ p[4] = b[2]
  <2> DEFINE a == <<1, 0>>
             b == write_u16l(f.lmdfu_address \div 1024)
             c == write_u32l(f.total - f.prefix - f.suffix)
  <2>1. writePrefix(f) = (a \o b) \o c  BY <1>1 DEF writePrefix
  <2>2. a \in Seq(Byte) /\ Len(a) = 2 /\ a[1] = 1 /\ a[2] = 0  BY DEF Byte
  <2>3. f.lmdfu_address \div 1024 \in Int /\ f.total - f.prefix - f.suffix \in Int
    BY DEF FileTypes
  <2>4. b \in Seq(Byte) /\ Len(b) = 2  BY <2>3, WriteWord
  <2>5. c \in Seq(Byte) /\ Len(c) = 4  BY <2>3, WriteDouble
  <2> HIDE DEF a, b, c
  <2> DEFINE ab == a \o b
  <2>6. /\ ab \in Seq(Byte) /\ Len(ab) = Len(a) + Len(b)
        /\ \A i \in 1 .. Len(a) : ab[i] = a[i]
        /\ \A i \in 1 .. Len(b) : ab[Len(a) + i] = b[i]
    BY <2>2, <2>4, Joined
  <2> HIDE DEF ab
  <2>7. \A i \in 1 .. Len(ab) : (ab \o c)[i] = ab[i]  BY <2>5, <2>6, Joined
  <2>8. ab[1] = 1 /\ ab[2] = 0 /\ ab[3] = b[1] /\ ab[4] = b[2]
    <3>1. /\ 1 \in 1 .. Len(a) /\ 2 \in 1 .. Len(a) /\ 1 \in 1 .. Len(b) /\ 2 \in 1 .. Len(b)
          /\ Len(a) + 1 = 3 /\ Len(a) + 2 = 4
      BY <2>2, <2>4
    <3>2. ab[1] = a[1] /\ ab[2] = a[2]  BY <2>6, <3>1
    <3>3. ab[3] = b[1] /\ ab[4] = b[2]  BY <2>6, <3>1
    <3>4. QED  BY <2>2, <3>2, <3>3
  <2>9. Len(ab) = 4  BY <2>2, <2>4, <2>6
  <2>10. (ab \o c)[1] = 1 /\ (ab \o c)[2] = 0 /\ (ab \o c)[3] = b[1] /\ (ab \o c)[4] = b[2]
    <3>1. 1 \in 1 .. Len(ab) /\ 2 \in 1 .. Len(ab) /\ 3 \in 1 .. Len(ab) /\ 4 \in 1 .. Len(ab)
      BY <2>9
    <3>2. QED  BY <2>7, <2>8, <3>1
  <2>11. writePrefix(f) = ab \o c  BY <2>1 DEF ab
  <2>12. /\ writePrefix(f)[1] = 1 /\ writePrefix(f)[2] = 0
         /\ writePrefix(f)[3] = b[1] /\ writePrefix(f)[4] = b[2]
    BY <2>10, <2>11
  <2>13. QED  BY <2>12 DEF b
<1>2. ASSUME f.prefix_type = "LPCDFU"
      PROVE  writePrefix(f)[1] = 26 /\ writePrefix(f)[2] = 63
  <2> DEFINE a == <<26, 63>>
             b == write_u16l((f.total - f.suffix + 511) \div 512)
             c == Zeros(8)
             d == <<255, 255, 255, 255>>
  <2>1. writePrefix(f) = ((a \o b) \o c) \o d  BY <1>2 DEF writePrefix
  <2>2. a \in Seq(Byte) /\ Len(a) = 2 /\ a[1] = 26 /\ a[2] = 63 /\ d \in Seq(Byte)
    BY DEF Byte
  <2>3. (f.total - f.suffix + 511) \div 512 \in Int  BY DEF FileTypes
  <2>4. b \in Seq(Byte) /\ Len(b) = 2  BY <2>3, WriteWord
  <2>5. c \in Seq(Byte)  BY ZeroBytes
  <2> HIDE DEF a, b, c, d
  <2> DEFINE ab == a \o b
             abc == ab \o c
  <2>6. /\ ab \in Seq(Byte) /\ Len(ab) = Len(a) + Len(b)
        /\ \A i \in 1 .. Len(a) : ab[i] = a[i]
    <3>1. a \in Seq(Byte) /\ b \in Seq(Byte)  BY <2>2, <2>4
    <3>2. QED  BY <3>1, Joined
  <2> HIDE DEF ab
  <2>7. /\ abc \in Seq(Byte) /\ Len(abc) = Len(ab) + Len(c) /\ Len(c) \in Nat
        /\ \A i \in 1 .. Len(ab) : abc[i] = ab[i]
    BY <2>5, <2>6, Joined
  <2> HIDE DEF abc
  <2>8. \A i \in 1 .. Len(abc) : (abc \o d)[i] = abc[i]  BY <2>2, <2>7, Joined
  <2>9. /\ 1 \in 1 .. Len(a) /\ 2 \in 1 .. Len(a) /\ 1 \in 1 .. Len(ab) /\ 2 \in 1 .. Len(ab)
        /\ 1 \in 1 .. Len(abc) /\ 2 \in 1 .. Len(abc)
    BY <2>2, <2>4, <2>6, <2>7
  <2>10. (abc \o d)[1] = 26 /\ (abc \o d)[2] = 63
    <3>1. ab[1] = a[1] /\ ab[2] = a[2]  BY <2>6, <2>9
    <3>2. abc[1] = ab[1] /\ abc[2] = ab[2]  BY <2>7, <2>9
    <3>3. (abc \o d)[1] = abc[1] /\ (abc \o d)[2] = abc[2]  BY <2>8, <2>9
    <3>4. QED  BY <2>2, <3>1, <3>2, <3>3
  <2>11. QED  BY <2>1, <2>10 DEF abc, ab
<1>3. QED  BY <1>1, <1>2

(* A prefix that was written is found, and says what it was written from.  *)
LEMMA PrefixReadAgain ==
  ASSUME NEW f \in FileTypes, f.prefix_type # "None", NEW rest \in Seq(Byte),
         NEW h \in FileTypes, PrefixLength[f.prefix_type] <= h.total - h.suffix
  PROVE  LET g == probePrefix(h, writePrefix(f) \o rest)
         IN  /\ g.prefix_type = f.prefix_type /\ g.prefix = PrefixLength[f.prefix_type]
             /\ f.prefix_type = "LMDFU" =>
                  g.lmdfu_address = 1024 * ((f.lmdfu_address \div 1024) % 65536)
<1> DEFINE p == writePrefix(f)
           bytes == p \o rest
           g == probePrefix(h, bytes)
<1>1. p \in Seq(Byte) /\ Len(p) = PrefixLength[f.prefix_type]  BY PrefixBytes
<1>2. f.prefix_type \in {"LMDFU", "LPCDFU"}  BY DEF FileTypes, PrefixTypes
<1>3. Len(p) \in Nat /\ Len(p) >= 8
  <2>1. CASE f.prefix_type = "LMDFU"
    <3>1. PrefixLength[f.prefix_type] = 8  BY <2>1 DEF PrefixLength
    <3> HIDE DEF p
    <3>2. QED  BY <1>1, <3>1
  <2>2. CASE f.prefix_type = "LPCDFU"
    <3>1. PrefixLength[f.prefix_type] = 16  BY <2>2 DEF PrefixLength
    <3> HIDE DEF p
    <3>2. QED  BY <1>1, <3>1
  <2>3. QED  BY <1>2, <2>1, <2>2
<1> DEFINE b == write_u16l(f.lmdfu_address \div 1024)
<1>4. /\ f.prefix_type = "LMDFU" => p[1] = 1 /\ p[2] = 0 /\ p[3] = b[1] /\ p[4] = b[2]
      /\ f.prefix_type = "LPCDFU" => p[1] = 26 /\ p[2] = 63
  BY PrefixBegins
<1> HIDE DEF p, b
<1>5. /\ bytes \in Seq(Byte) /\ Len(bytes) = Len(p) + Len(rest) /\ Len(rest) \in Nat
      /\ \A i \in 1 .. Len(p) : bytes[i] = p[i]
  BY <1>1, Joined
<1> HIDE DEF bytes
<1>6. bytes[1] = p[1] /\ bytes[2] = p[2] /\ bytes[3] = p[3] /\ bytes[4] = p[4]
  <2>1. 1 \in 1 .. Len(p) /\ 2 \in 1 .. Len(p) /\ 3 \in 1 .. Len(p) /\ 4 \in 1 .. Len(p)
    BY <1>3
  <2>2. QED  BY <1>5, <2>1
<1> DEFINE two == FirstOf(bytes, 2)
<1>7. two \in Seq(Byte) /\ Len(two) = 2 /\ two[1] = p[1] /\ two[2] = p[2]
  <2> DEFINE n == 2
  <2>1. n \in Nat /\ n <= Len(bytes) /\ 1 \in 1 .. n /\ 2 \in 1 .. n  BY <1>3, <1>5
  <2> HIDE DEF n
  <2>2. /\ FirstOf(bytes, n) \in Seq(Byte) /\ Len(FirstOf(bytes, n)) = n
        /\ \A k \in 1 .. n : FirstOf(bytes, n)[k] = bytes[k]
    BY <1>5, <2>1, FirstBytes
  <2>3. FirstOf(bytes, n)[1] = bytes[1] /\ FirstOf(bytes, n)[2] = bytes[2]  BY <2>1, <2>2
  <2>4. QED  BY <1>6, <2>2, <2>3 DEF n
<1> HIDE DEF two
<1>8. CASE f.prefix_type = "LMDFU"
  <2>1. two = <<1, 0>>
    <3> DEFINE t == <<1, 0>>
    <3>1. t \in Seq(Byte) /\ Len(t) = 2 /\ t[1] = 1 /\ t[2] = 0  BY DEF Byte
    <3> HIDE DEF t
    <3>2. \A i \in 1 .. Len(two) : two[i] = t[i]
      <4>1. \A i \in 1 .. 2 : i = 1 \/ i = 2  OBVIOUS
      <4>2. two[1] = t[1] /\ two[2] = t[2]  BY <1>4, <1>7, <1>8, <3>1
      <4>3. QED  BY <1>7, <4>1, <4>2
    <3>3. two = t  BY <1>7, <3>1, <3>2, SeqEqual
    <3>4. QED  BY <3>3 DEF t
  <2>2. Fits(h, "LMDFU")  BY <1>8 DEF Fits
  <2>3. IsLmdfu(h, bytes)  BY <2>1, <2>2 DEF IsLmdfu, two
  <2>4. read_u16l(bytes, 3) = (f.lmdfu_address \div 1024) % 65536
    <3> DEFINE x == f.lmdfu_address \div 1024
    <3>1. x \in Int  BY DEF FileTypes
    <3>2. bytes[3] = write_u16l(x)[1] /\ bytes[4] = write_u16l(x)[2]
      BY <1>4, <1>6, <1>8 DEF b
    <3> HIDE DEF x
    <3> DEFINE low == bytes[3]
               high == bytes[4]
    <3>3. low = write_u16l(x)[1] /\ high = write_u16l(x)[2]  BY <3>2
    <3> HIDE DEF low, high
    <3>4. low + 256 * high = x % 65536  BY <3>1, <3>3, WordAgain
    <3>5. QED  BY <3>4 DEF read_u16l, x, low, high
  <2>5. g = [h EXCEPT !.prefix_type = "LMDFU", !.prefix = PrefixLength["LMDFU"],
                      !.lmdfu_address = 1024 * read_u16l(bytes, 3)]
    BY <2>3 DEF probePrefix
  <2> HIDE DEF g
  <2>6. /\ g.prefix_type = "LMDFU" /\ g.prefix = PrefixLength["LMDFU"]
        /\ g.lmdfu_address = 1024 * read_u16l(bytes, 3)
    BY <2>5 DEF FileTypes
  <2>7. QED  BY <1>8, <2>4, <2>6 DEF g, bytes, p
<1>9. CASE f.prefix_type = "LPCDFU"
  <2>1. two # <<1, 0>>
    <3>1. two[1] = 26  BY <1>4, <1>7, <1>9
    <3>2. <<1, 0>>[1] = 1  OBVIOUS
    <3>3. QED  BY <3>1, <3>2
  <2>2. ~IsLmdfu(h, bytes)  BY <2>1 DEF IsLmdfu, two
  <2>3. Fits(h, "LPCDFU")  BY <1>9 DEF Fits
  <2>4. bytes[1] = 26 /\ bytes[2] = 63  BY <1>4, <1>6, <1>9
  <2>5. bytes[1] % 64 = 26 /\ bytes[2] % 64 = 63
    <3>1. 26 % 64 = 26 /\ 63 % 64 = 63  OBVIOUS
    <3>2. QED  BY <2>4, <3>1
  <2>6. IsLpcdfu(h, bytes)  BY <2>3, <2>5 DEF IsLpcdfu
  <2>7. g = [h EXCEPT !.prefix_type = "LPCDFU", !.prefix = PrefixLength["LPCDFU"]]
    BY <2>2, <2>6 DEF probePrefix
  <2> HIDE DEF g
  <2>8. g.prefix_type = "LPCDFU" /\ g.prefix = PrefixLength["LPCDFU"]
    BY <2>7 DEF FileTypes
  <2>9. QED  BY <1>9, <2>8 DEF g, bytes, p
<1>10. QED  BY <1>2, <1>8, <1>9

(* Looking for a prefix changes nothing that the suffix said.              *)
LEMMA PrefixChanges ==
  ASSUME NEW h \in FileTypes, NEW bytes
  PROVE  LET g == probePrefix(h, bytes)
         IN  /\ g.total = h.total /\ g.suffix = h.suffix /\ g.usbId = h.usbId
             /\ g.bcdDevice = h.bcdDevice /\ g.bcdDFU = h.bcdDFU
<1>1. CASE IsLmdfu(h, bytes)  BY <1>1 DEF probePrefix, FileTypes
<1>2. CASE ~IsLmdfu(h, bytes) /\ IsLpcdfu(h, bytes)  BY <1>2 DEF probePrefix, FileTypes
<1>3. CASE ~IsLmdfu(h, bytes) /\ ~IsLpcdfu(h, bytes)  BY <1>3 DEF probePrefix, FileTypes
<1>4. QED  BY <1>1, <1>2, <1>3

(* What ReadBack says of an image: an object is read from it again.        *)
ReadsBack(image, f, kind, payload) ==
  LET again == ReadAlone(image)
  IN  /\ ~Throws(image) /\ again.suffix = SuffixLength
      /\ again.bcdDevice = f.bcdDevice /\ again.bcdDFU = f.bcdDFU
      /\ \A part \in {"vendor", "product"} : again.usbId[part] = f.usbId[part] % 65536
      /\ kind # "None" => again.prefix_type = kind
      /\ kind = "LMDFU" =>
           again.lmdfu_address = 1024 * ((f.lmdfu_address \div 1024) % 65536)
      /\ kind # "None" \/ again.prefix = 0 => Payload(again, image) = payload

(* It is so of any object.                                                 *)
LEMMA ImageReadAgain ==
  ASSUME CrcBytes, NEW f \in FileTypes, NEW mem \in Seq(Byte), f.total <= Len(mem),
         f.prefix + f.suffix <= f.total, NEW x \in BOOLEAN
  PROVE  ReadsBack(Image(f, mem, TRUE, x), f, IF x THEN f.prefix_type ELSE "None",
                   Payload(f, mem))
<1> DEFINE kind == IF x THEN f.prefix_type ELSE "None"
           head == IF x THEN writePrefix(f) ELSE << >>
           payload == Payload(f, mem)
           most == head \o payload
           tail == writeSuffix(f, most)
           image == most \o tail
           e == [Blank EXCEPT !.data = Len(image), !.total = Len(image)]
           h == probeSuffix(e, image)
           again == ReadAlone(image)
<1>1. /\ head \in Seq(Byte) /\ Len(head) = PrefixLength[kind]
      /\ kind = "None" => Len(head) = 0
      /\ kind # "None" => head = writePrefix(f) /\ kind = f.prefix_type
      /\ Len(head) \in Nat
  <2>1. writePrefix(f) \in Seq(Byte) /\ Len(writePrefix(f)) = PrefixLength[f.prefix_type]
    BY PrefixBytes
  <2>2. << >> \in Seq(Byte) /\ Len(<< >>) = 0 /\ PrefixLength["None"] = 0
    BY EmptySeq DEF PrefixLength
  <2>3. CASE x
    <3>1. head = writePrefix(f) /\ kind = f.prefix_type  BY <2>3
    <3> HIDE DEF head, kind
    <3>2. QED  BY <2>1, <2>2, <3>1
  <2>4. CASE ~x
    <3>1. head = << >> /\ kind = "None"  BY <2>4
    <3> HIDE DEF head, kind
    <3>2. QED  BY <2>2, <3>1
  <2>5. QED  BY <2>3, <2>4
<1>2. payload \in Seq(Byte) /\ Len(payload) \in Nat  BY PayloadBytes
<1> HIDE DEF head, payload, kind
<1>3. most \in Seq(Byte) /\ Len(most) = Len(head) + Len(payload)  BY <1>1, <1>2, Joined
<1> HIDE DEF most
<1>4. tail \in Seq(Byte) /\ Len(tail) = 16  BY <1>3, SuffixWritten
<1>5. image \in Seq(Byte) /\ Len(image) = Len(most) + 16 /\ ~Throws(image)
  BY <1>3, SuffixBelieved
<1>6. Empty(e) /\ e.total = Len(image)
  <2>1. Empty(Blank) /\ Len(image) \in Nat  BY <1>5, BlankEmpty
  <2> DEFINE size == Len(image)
  <2>2. Empty(Blank) /\ size \in Nat  BY <2>1
  <2> HIDE DEF size
  <2>3. /\ Empty([Blank EXCEPT !.data = size, !.total = size])
        /\ [Blank EXCEPT !.data = size, !.total = size].total = size
    BY <2>2, SizesSet
  <2>4. QED  BY <2>3 DEF size
<1> HIDE DEF e
<1>7. /\ h \in FileTypes /\ h.total = e.total
      /\ h.prefix = 0 /\ h.prefix_type = "None" /\ h.lmdfu_address = 0
      /\ h.suffix = SuffixLength
      /\ h.bcdDevice = f.bcdDevice /\ h.bcdDFU = f.bcdDFU
      /\ \A part \in {"vendor", "product"} : h.usbId[part] = f.usbId[part] % 65536
  BY <1>3, <1>6, SuffixReadAgain
<1> HIDE DEF tail, h
<1>8. again = probePrefix(h, image)
  <2>1. again = read(e, image)  BY DEF ReadAlone, e
  <2>2. QED  BY <1>5, <2>1 DEF read, h
<1>9. /\ again.total = h.total /\ again.suffix = h.suffix /\ again.usbId = h.usbId
      /\ again.bcdDevice = h.bcdDevice /\ again.bcdDFU = h.bcdDFU
  BY <1>7, <1>8, PrefixChanges
<1>10. image = head \o (payload \o tail)
  <2>1. head \in Seq(Byte) /\ payload \in Seq(Byte) /\ tail \in Seq(Byte)  BY <1>1, <1>2, <1>4
  <2>2. (head \o payload) \o tail = head \o (payload \o tail)  BY <2>1, ConcatAssociative
  <2>3. QED  BY <2>2 DEF most
<1>11. kind # "None" =>
         /\ again.prefix_type = kind /\ again.prefix = Len(head)
         /\ kind = "LMDFU" =>
              again.lmdfu_address = 1024 * ((f.lmdfu_address \div 1024) % 65536)
  <2> SUFFICES ASSUME kind # "None"
               PROVE  /\ again.prefix_type = kind /\ again.prefix = Len(head)
                      /\ kind = "LMDFU" =>
                           again.lmdfu_address = 1024 * ((f.lmdfu_address \div 1024) % 65536)
    OBVIOUS
  <2>1. head = writePrefix(f) /\ kind = f.prefix_type /\ Len(head) = PrefixLength[f.prefix_type]
    BY <1>1
  <2> DEFINE rest == payload \o tail
  <2>2. rest \in Seq(Byte)  BY <1>2, <1>4, Joined
  <2>3. h.total - h.suffix = Len(head) + Len(payload)
    <3>1. h.total = Len(most) + 16 /\ h.suffix = 16  BY <1>5, <1>6, <1>7 DEF SuffixLength
    <3>2. QED  BY <1>1, <1>2, <1>3, <3>1
  <2>4. Len(head) <= h.total - h.suffix  BY <1>1, <1>2, <2>3
  <2>5. PrefixLength[f.prefix_type] <= h.total - h.suffix  BY <2>1, <2>4
  <2>6. again = probePrefix(h, writePrefix(f) \o rest)  BY <1>8, <1>10, <2>1
  <2> HIDE DEF again, rest
  <2>7. /\ again.prefix_type = f.prefix_type /\ again.prefix = PrefixLength[f.prefix_type]
        /\ f.prefix_type = "LMDFU" =>
             again.lmdfu_address = 1024 * ((f.lmdfu_address \div 1024) % 65536)
    <3>1. h \in FileTypes /\ f.prefix_type # "None"  BY <1>7, <2>1
    <3>2. QED  BY <2>2, <2>5, <2>6, <3>1, PrefixReadAgain
  <2>8. QED  BY <2>1, <2>7
<1>12. kind # "None" \/ again.prefix = 0 => Payload(again, image) = payload
  <2> SUFFICES ASSUME kind # "None" \/ again.prefix = 0
               PROVE  Payload(again, image) = payload
    OBVIOUS
  <2>1. again.prefix = Len(head)  BY <1>1, <1>11
  <2>2. again.total - again.suffix = Len(head) + Len(payload)
    <3>1. again.total = Len(most) + 16 /\ again.suffix = 16
      BY <1>5, <1>6, <1>7, <1>9 DEF SuffixLength
    <3>2. QED  BY <1>1, <1>2, <1>3, <3>1
  <2>3. SubSeq((head \o payload) \o tail, Len(head) + 1, Len(head) + Len(payload)) = payload
    BY <1>1, <1>2, <1>4, JoinedMiddle
  <2>4. image = (head \o payload) \o tail  BY DEF most
  <2> HIDE DEF again, image
  <2>5. QED  BY <2>1, <2>2, <2>3, <2>4 DEF Payload
<1>13. Image(f, mem, TRUE, x) = image  BY DEF Image, image, tail, most, head, payload
<1>14. /\ ~Throws(image) /\ again.suffix = SuffixLength
       /\ again.bcdDevice = f.bcdDevice /\ again.bcdDFU = f.bcdDFU
       /\ \A part \in {"vendor", "product"} : again.usbId[part] = f.usbId[part] % 65536
  BY <1>5, <1>7, <1>9
<1> HIDE DEF image
<1>15. ReadsBack(image, f, kind, payload)  BY <1>11, <1>12, <1>14 DEF ReadsBack
<1>16. QED  BY <1>13, <1>15 DEF kind, payload

-------------------------------------------------------------------------------
(***************************************************************************)
(* What stands on disk is the image of the object that was stored          *)
(***************************************************************************)

WrittenMeant ==
  written.done =>
    /\ written.file \in FileTypes /\ written.suffix \in BOOLEAN
    /\ written.file.prefix + written.file.suffix <= written.file.total
    /\ \E mem \in Seq(Byte), x \in BOOLEAN :
         /\ written.file.total <= Len(mem)
         /\ written.payload = Payload(written.file, mem)
         /\ written.prefix = IF x THEN written.file.prefix_type ELSE "None"
         /\ intended = Image(written.file, mem, written.suffix, x)

LEMMA MeantKept == Types /\ WrittenMeant /\ [Next]_vars => WrittenMeant'
<1> SUFFICES ASSUME Types, WrittenMeant, [Next]_vars  PROVE WrittenMeant'  OBVIOUS
<1>1. CASE storeFile
  <2>1. PICK s \in BOOLEAN, x \in BOOLEAN :
          /\ intended' = Image(file, memory, s, x)
          /\ written' = [done |-> TRUE, file |-> file, payload |-> Payload(file, memory),
                         suffix |-> s, prefix |-> IF x THEN file.prefix_type ELSE "None"]
    BY <1>1 DEF storeFile
  <2>2. /\ file \in FileTypes /\ memory \in Seq(Byte) /\ file.total <= Len(memory)
        /\ file.prefix + file.suffix <= file.total
    BY DEF Types, Memories, PartsFit
  <2>3. /\ written'.file = file /\ written'.payload = Payload(file, memory)
        /\ written'.suffix = s /\ written'.prefix = IF x THEN file.prefix_type ELSE "None"
    BY <2>1
  <2>4. /\ file.total <= Len(memory)
        /\ written'.payload = Payload(written'.file, memory)
        /\ written'.prefix = IF x THEN written'.file.prefix_type ELSE "None"
        /\ intended' = Image(written'.file, memory, written'.suffix, x)
    BY <2>1, <2>2, <2>3
  <2>5. QED  BY <2>2, <2>3, <2>4 DEF WrittenMeant
<1>2. CASE Replace
  <2>1. ~written'.done  BY <1>2 DEF Replace, NotWritten
  <2>2. QED  BY <2>1 DEF WrittenMeant
<1>3. CASE \/ LoadNotOpened \/ LoadNotRead \/ LoadFile \/ loadStdIn \/ SetPrefix \/ SetId
           \/ StoreNotOpened \/ Damage \/ UNCHANGED vars
  <2>1. UNCHANGED <<intended, written>>
    BY <1>3 DEF LoadNotOpened, LoadNotRead, LoadFile, loadStdIn, Loaded, SetPrefix, SetId,
                Edited, StoreNotOpened, Damage, vars
  <2>2. QED  BY <2>1 DEF WrittenMeant
<1>4. QED  BY <1>1, <1>2, <1>3 DEF Next

(* A file stored in full with a suffix is read back as the object it was   *)
(* stored from, whatever the object, its payload and the checksum are: the *)
(* reader believes what the writer writes (DfuFile.cpp:224-309 against     *)
(* 350-375).                                                               *)
THEOREM WrittenIsReadBack == ASSUME CrcBytes PROVE Spec => []ReadBack
<1>1. Init => WrittenMeant  BY DEF Init, WrittenMeant, NotWritten
<1>2. Types /\ WrittenMeant /\ [Next]_vars => WrittenMeant'  BY MeantKept
<1>3. WrittenMeant => ReadBack
  <2> SUFFICES ASSUME WrittenMeant, written.done, disk = intended, written.suffix
               PROVE  ReadBack
    BY DEF ReadBack
  <2>1. /\ written.file \in FileTypes /\ written.suffix = TRUE
        /\ written.file.prefix + written.file.suffix <= written.file.total
    BY DEF WrittenMeant
  <2>2. PICK mem \in Seq(Byte), x \in BOOLEAN :
          /\ written.file.total <= Len(mem)
          /\ written.payload = Payload(written.file, mem)
          /\ written.prefix = IF x THEN written.file.prefix_type ELSE "None"
          /\ intended = Image(written.file, mem, written.suffix, x)
    BY DEF WrittenMeant
  <2> DEFINE f == written.file
  <2>3. /\ f \in FileTypes /\ f.prefix + f.suffix <= f.total /\ f.total <= Len(mem)
        /\ disk = Image(f, mem, TRUE, x) /\ written.payload = Payload(f, mem)
        /\ written.prefix = IF x THEN f.prefix_type ELSE "None"
    BY <2>1, <2>2
  <2> HIDE DEF f
  <2>4. ReadsBack(disk, f, written.prefix, written.payload)
    <3>1. ReadsBack(Image(f, mem, TRUE, x), f, IF x THEN f.prefix_type ELSE "None",
                    Payload(f, mem))
      BY <2>3, ImageReadAgain
    <3>2. QED  BY <2>3, <3>1
  <2>5. QED  BY <2>4 DEF ReadBack, ReadsBack, f
<1>4. QED  BY <1>1, <1>2, <1>3, TypesSound, PTL DEF Spec
===============================================================================
