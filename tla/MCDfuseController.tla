---------------------------- MODULE MCDfuseController ----------------------------
(***************************************************************************)
(* Small instances of DfuseController: memories of up to sixteen bytes in  *)
(* pages of two to four, files of up to three images, transfers of one to  *)
(* five bytes.  A name that describes a memory is written out from it, so  *)
(* that the map which is parsed can be held against it.                    *)
(***************************************************************************)
EXTENDS DfuseController, SequencesExt

Segment(first, last, page, eraseable, writeable) ==
  [firstAddr |-> first, lastAddr |-> last, pagesize |-> page,
   eraseable |-> eraseable, writeable |-> writeable]

Uniform == <<Segment(0, 11, 4, TRUE, TRUE)>>
Growing == <<Segment(0, 3, 2, TRUE, TRUE), Segment(4, 11, 4, TRUE, TRUE)>>
FlashAndRam == <<Segment(0, 3, 2, TRUE, TRUE), Segment(4, 5, 2, TRUE, FALSE),
                 Segment(8, 13, 2, FALSE, TRUE)>>
Shrinking == <<Segment(0, 3, 4, TRUE, TRUE), Segment(4, 15, 2, TRUE, TRUE)>>
Large == <<Segment(0, 24575, 1024, TRUE, TRUE), Segment(40960, 43007, 2048, FALSE, FALSE)>>
OneMega == <<Segment(16, 1048591, 1048576, TRUE, TRUE)>>

-------------------------------------------------------------------------------
(* The name of an interface: a title and, for each stretch of memory, its  *)
(* address and its segments.                                               *)
RECURSIVE Digits(_, _)
Digits(n, base) ==
  (IF n < base THEN << >> ELSE Digits(n \div base, base)) \o <<HexDigits[1 + (n % base)]>>

Size(page) ==
  IF page % 1048576 = 0 THEN Digits(page \div 1048576, 10) \o <<"M">>
  ELSE IF page % 1024 = 0 THEN Digits(page \div 1024, 10) \o <<"K">>
  ELSE Digits(page, 10) \o <<"B">>

Type(seg) ==
  Letters[1 + (IF seg.eraseable THEN 2 ELSE 0) + (IF seg.writeable THEN 4 ELSE 0)]

Written(seg, size, type) ==
  Digits((seg.lastAddr + 1 - seg.firstAddr) \div seg.pagesize, 10) \o <<"*">> \o size \o type

Starts(map, i) == i = 1 \/ map[i].firstAddr # map[i - 1].lastAddr + 1

Before(map, i) ==
  IF Starts(map, i) THEN <<"/", "0", "x">> \o Digits(map[i].firstAddr, 16) \o <<"/">> ELSE <<",">>

Title == <<"@", "F">>

(* The name of a memory; the k-th segment is written with the given parts. *)
NameWith(map, k, size, type) ==
  Title \o FlattenSeq([i \in DOMAIN map |->
             Before(map, i) \o (IF i = k THEN Written(map[i], size, type)
                                ELSE Written(map[i], Size(map[i].pagesize), <<Type(map[i])>>))])

Name(map) == NameWith(map, 0, << >>, << >>)

-------------------------------------------------------------------------------
Image(alt, elements) == [signed |-> TRUE, alternateSetting |-> alt, elements |-> elements]
Element(a, size) == [address |-> a, size |-> size]

PartLength(part) ==
  TargetPrefixSize + FoldLeft(LAMBDA n, e : n + ElementHeaderSize + e.size, 0, part.elements)

File(parts) ==
  [DfuSe |-> TRUE, targetsCount |-> Len(parts), images |-> parts,
   length |-> FoldLeft(LAMBDA n, part : n + PartLength(part), PrefixSize, parts)]

(* Files whose elements come in the order of their addresses.              *)
Ascending ==
  {File(<<Image(0, <<Element(a, s)>>)>>) : a \in {0, 1, 6, 8}, s \in {0, 1, 3, 5}} \cup
  {File(<<Image(0, <<Element(0, s), Element(s + gap, t)>>)>>) :
     s \in {1, 3, 6}, gap \in {0, 1}, t \in {2, 5}} \cup
  {File(<<Image(0, <<Element(0, 3)>>), Image(1, <<Element(3, 2)>>), Image(0, << >>)>>)}

TwoElements == File(<<Image(0, <<Element(1, 3), Element(6, 4)>>)>>)
SkipFirst == File(<<Image(1, <<Element(4, 2)>>), Image(0, <<Element(1, 4)>>)>>)

(* Files that are not what they should be.                                 *)
Torn ==
  {[TwoElements EXCEPT !.length = @ - cut] : cut \in {1, 4, 5, 16}} \cup
  {[TwoElements EXCEPT !.length = @ + 3], [TwoElements EXCEPT !.targetsCount = 2],
   [SkipFirst EXCEPT !.targetsCount = 1], [SkipFirst EXCEPT !.length = @ - 12],
   [SkipFirst EXCEPT !.length = @ - 13],
   [SkipFirst EXCEPT !.images[2].signed = FALSE], [TwoElements EXCEPT !.DfuSe = FALSE],
   [File(<< >>) EXCEPT !.length = 300], File(<< >>)}

(* As many images as the counter can count to, and one less.               *)
Many == {File([k \in 1 .. n |-> Image(0, <<Element(k, 1)>>)]) :
           n \in {ImageNumbers - 2, ImageNumbers - 1}}

Options == {"plain", "leave", "erase", "unforced", "unprotect", "old file", "no map"}

Job(map, file, size, option) ==
  [wTransferSize |-> size, bMaxPacketSize0 |-> 1, altsetting |-> 0,
   memory |-> map, named |-> option # "no map", alt_name |-> IF option = "no map" THEN <<"F">> ELSE Name(map),
   bcd11a |-> option # "old file", file |-> file,
   force |-> option # "unforced", leave |-> option = "leave",
   unprotect |-> option = "unprotect", massErase |-> option \in {"erase", "unforced"}]

(* Names with a segment whose type is unreadable, or of a device that is   *)
(* known to give a wrong one.                                              *)
Unreadable ==
  {[Job(map, TwoElements, 3, "unforced") EXCEPT !.named = FALSE,
      !.alt_name = NameWith(map, k, Size(map[k].pagesize), <<"g", "g">>)] :
     map \in {Growing, FlashAndRam}, k \in {1, 2}}

Feature ==
  LET memory == <<Segment(8, 13, 2, FALSE, TRUE)>>
  IN  [Job(memory, TwoElements, 3, "unforced") EXCEPT
         !.alt_name = <<"@">> \o DeviceFeature \o
                      Tail(Tail(NameWith(memory, 1, Size(2), <<"c">>)))]

(* Pages of three bytes, where the mask of the code is not the start of a  *)
(* page; the chunk lies in one of the few pages that are erased all the    *)
(* same.                                                                   *)
OddPages ==
  Job(<<Segment(0, 11, 3, TRUE, TRUE)>>, File(<<Image(0, <<Element(0, 2)>>)>>), 3, "plain")

(* Every file on every map; the options and the ways to fail on a few.     *)
MCJobs ==
  {Job(map, file, size, "plain") : map \in {Uniform, Growing, FlashAndRam},
     file \in Ascending, size \in {2, 5}} \cup
  {Job(map, file, 3, option) : map \in {Uniform, FlashAndRam},
     file \in {TwoElements, SkipFirst, [File(<< >>) EXCEPT !.length = 300]}, option \in Options} \cup
  {Job(Uniform, file, 3, "leave") : file \in Torn \cup Many} \cup
  {Job(map, TwoElements, 3, "unforced") : map \in {Shrinking, Large, OneMega, << >>}} \cup
  Unreadable \cup {Feature, Job(Uniform, TwoElements, 0, "plain"), OddPages}

ShrinkingJobs == {Job(Shrinking, File(<<Image(0, <<Element(0, 12)>>)>>), 12, "plain")}

(* A name that leaves the multiplier of a segment out.                     *)
NoMultiplierJobs ==
  {[Job(Growing, TwoElements, 3, "plain") EXCEPT
      !.alt_name = NameWith(Growing, 1, Digits(2, 10), <<"g">>)]}
===============================================================================
