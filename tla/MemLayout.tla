-------------------------------- MODULE MemLayout --------------------------------
(***************************************************************************)
(* class MemLayout: the memory map of a DfuSe device, a sequence of        *)
(* segments with inclusive address ranges.                                 *)
(***************************************************************************)
EXTENDS Integers, Sequences

CONSTANT AddressSpace   \* 2^32 in the code

ASSUME AddressSpaceAssumption == AddressSpace \in Nat \ {0}

MemSegments == [firstAddr : Nat, lastAddr : Nat, pagesize : Nat \ {0},
                eraseable : BOOLEAN, writeable : BOOLEAN]

SegmentsAt(layout, address) ==
  {i \in DOMAIN layout : layout[i].firstAddr <= address /\ address <= layout[i].lastAddr}

(* The first segment that holds the address; there must be one.            *)
findSegment(layout, address) ==
  layout[CHOOSE i \in SegmentsAt(layout, address) :
           \A j \in SegmentsAt(layout, address) : i <= j]

isAddressWriteable(layout, address) ==
  SegmentsAt(layout, address) # {} /\ findSegment(layout, address).writeable

isAddressEraseable(layout, address) ==
  SegmentsAt(layout, address) # {} /\ findSegment(layout, address).eraseable

Bit(n, k) == (n \div 2^k) % 2

IsPowerOfTwo(n) == \E k \in 0 .. n : n = 2^k

(* The numbers that have only bits of the address, and none of the mask.   *)
Unmasked(address, mask) ==
  {x \in 0 .. address :
     \A k \in 0 .. x - 1 : Bit(x, k) = 1 => Bit(address, k) = 1 /\ Bit(mask, k) = 0}

(***************************************************************************)
(* address & ~(pagesize - 1): the last multiple of the page size if that   *)
(* is a power of two.  For another one, 3 KiB for example, which parseDesc *)
(* takes as well, it is what bits remain, and the start of no page.        *)
(***************************************************************************)
PageStart(address, pagesize) ==
  IF IsPowerOfTwo(pagesize) THEN address - (address % pagesize)
  ELSE CHOOSE x \in Unmasked(address, pagesize - 1) :
         \A y \in Unmasked(address, pagesize - 1) : y <= x

(* External: the addresses that an erase command for this address clears.  *)
(* The device counts its pages from the start of the segment.              *)
PageAt(layout, address) ==
  LET seg == findSegment(layout, address)
      first == address - ((address - seg.firstAddr) % seg.pagesize)
  IN  first .. first + seg.pagesize - 1

-------------------------------------------------------------------------------
(***************************************************************************)
(* parseDesc reads the map from the name of the interface, a sequence of   *)
(* characters: "@Flash/0x08000000/04*016Kg,01*064Kg".  What else sscanf    *)
(* takes for a number (upper case, blanks and signs in front) is left out. *)
(***************************************************************************)
HexDigits == <<"0", "1", "2", "3", "4", "5", "6", "7", "8", "9", "a", "b", "c", "d", "e", "f">>
Letters == <<"a", "b", "c", "d", "e", "f", "g", "h", "i", "j", "k", "l", "m", "n", "o", "p",
             "q", "r", "s", "t", "u", "v", "w", "x", "y", "z">>
Chars(s) == {s[i] : i \in DOMAIN s}
Decimal == Chars(SubSeq(HexDigits, 1, 10))
Position(c, s) == CHOOSE i \in DOMAIN s : s[i] = c

At(s, i, c) == i \in DOMAIN s /\ s[i] = c

(* How many characters of s from i on are in S.                            *)
Span(s, i, S) ==
  LET length[k \in Nat] == IF i + k \in DOMAIN s /\ s[i + k] \in S THEN length[k + 1] ELSE k
  IN  length[0]

(* The number that n digits from i on stand for.                           *)
Number(s, i, n, base) ==
  LET value[k \in Nat] ==
        IF k = 0 THEN 0 ELSE base * value[k - 1] + Position(s[i + k - 1], HexDigits) - 1
  IN  value[n]

DeviceFeature ==
  <<"D", "e", "v", "i", "c", "e", " ", "F", "e", "a", "t", "u", "r", "e">>

(***************************************************************************)
(* The three formats.  ret counts the conversions; scanned is how many     *)
(* characters were read, which sscanf only stores at the %n at the end of  *)
(* the format: a scan that does not get there leaves the last value.       *)
(***************************************************************************)
NameLength(s) == IF At(s, 1, "@") THEN Span(s, 2, Chars(s) \ {"/"}) ELSE 0

ScanAddress(s, i, scanned) ==
  LET n == Span(s, i + 3, Chars(HexDigits))
  IN  IF At(s, i, "/") /\ At(s, i + 1, "0") /\ At(s, i + 2, "x") /\ n > 0
        THEN [ret |-> 1, address |-> Number(s, i + 3, n, 16),
              scanned |-> IF At(s, i + 3 + n, "/") THEN 4 + n ELSE scanned]
        ELSE [ret |-> 0]

ScanSegment(s, i, scanned) ==
  LET m == Span(s, i, Decimal)
      n == Span(s, i + m + 1, Decimal)
      multiplier == i + m + 1 + n
      type == Span(s, multiplier + 1, Chars(s) \ {",", "/"})
  IN  IF m > 0 /\ At(s, i + m, "*") /\ n > 0 /\ multiplier \in DOMAIN s
        THEN [ret |-> IF type > 0 THEN 4 ELSE 3,
              sectors |-> Number(s, i, m, 10), size |-> Number(s, i + m + 1, n, 10),
              multiplier |-> s[multiplier],
              type |-> SubSeq(s, multiplier + 1, multiplier + type),
              scanned |-> IF type > 0 THEN multiplier + 1 + type - i ELSE scanned]
        ELSE [ret |-> 0]

(* The type of a segment, "" for none, and its size: a letter that is no   *)
(* multiplier is taken for the type if there is none.                      *)
TypeOf(name, r) ==
  IF name = DeviceFeature THEN "e"
  ELSE IF r.ret = 4 THEN r.type[1]
  ELSE IF r.multiplier \in Chars(SubSeq(Letters, 1, 7)) THEN r.multiplier
  ELSE ""

SizeOf(r) ==
  r.size * (CASE r.multiplier = "K" -> 1024 [] r.multiplier = "M" -> 1048576 [] OTHER -> 1)

(* The lower three bits of the type are readable, eraseable, writeable.    *)
SegmentOf(address, r, type) ==
  [firstAddr |-> address,
   lastAddr |-> (address + r.sectors * SizeOf(r) - 1) % AddressSpace,
   pagesize |-> SizeOf(r),
   eraseable |-> (Position(type, Letters) \div 2) % 2 = 1,
   writeable |-> (Position(type, Letters) \div 4) % 2 = 1]

NextAddress_SameForAll(address, r) == address
NextAddress(address, r) == (address + r.sectors * SizeOf(r)) % AddressSpace

(***************************************************************************)
(* The two loops, as the states they go through: where in s they are, and  *)
(* what the last scans left behind.  in is the loop; "overrun" stands for  *)
(* reading on behind the end of s, with what is found there.               *)
(***************************************************************************)
ScanName(s) ==
  [in |-> IF NameLength(s) = 0 THEN "noName" ELSE "addresses", i |-> 2 + NameLength(s),
   scanned |-> 1 + NameLength(s), address |-> 0, segments |-> << >>]

InSegments(s, st, r) ==
  LET next == [st EXCEPT !.i = @ + r.scanned, !.scanned = r.scanned]
      type == TypeOf(SubSeq(s, 2, 1 + NameLength(s)), r)
      added == [next EXCEPT !.address = NextAddress(@, r),
                            !.segments = Append(@, SegmentOf(st.address, r, type))]
  IN  IF next.i > Len(s) + 1 THEN [next EXCEPT !.in = "overrun"]
      ELSE IF r.ret = 4 /\ Len(r.type) # 1 THEN next
      ELSE IF type = "" THEN next
      ELSE IF At(s, next.i, ",") THEN [added EXCEPT !.i = @ + 1]
      ELSE [added EXCEPT !.in = "addresses"]

Scan(s, st) ==
  CASE st.in = "addresses" ->
         LET r == ScanAddress(s, st.i, st.scanned)
         IN  IF r.ret = 0 THEN [st EXCEPT !.in = "parsed"]
             ELSE [st EXCEPT !.in = IF st.i + r.scanned > Len(s) + 1 THEN "overrun" ELSE "segments",
                             !.i = @ + r.scanned, !.scanned = r.scanned, !.address = r.address]
    [] st.in = "segments" ->
         LET r == ScanSegment(s, st.i, st.scanned)
         IN  IF r.ret = 0 THEN [st EXCEPT !.in = "addresses"] ELSE InSegments(s, st, r)
    [] OTHER -> st

(* Every other scan at least moves on by a character.                      *)
parseDesc(s) ==
  LET after[k \in Nat] == IF k = 0 THEN ScanName(s) ELSE Scan(s, after[k - 1])
      end == after[2 * Len(s) + 2]
  IN  [ret |-> end.in # "noName", overrun |-> end.in = "overrun",
       segments |-> IF end.in = "noName" THEN << >> ELSE end.segments]
===============================================================================
