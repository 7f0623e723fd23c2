----------------------------- MODULE MemLayoutProofs -----------------------------
(***************************************************************************)
(* Maps and pages: what findSegment finds, and how the pages of a regular  *)
(* map lie.                                                                *)
(***************************************************************************)
EXTENDS MemLayout, WellFoundedInduction, TLAPS

(***************************************************************************)
(* A map is regular if its segments come in order and do not overlap, have *)
(* whole pages of more than one byte that do not get smaller as addresses  *)
(* grow, and none that is not eraseable goes over into one that is.  The   *)
(* sizes of pages are powers of two: with any other the mask of the code   *)
(* is not the start of a page.                                             *)
(***************************************************************************)
RegularSegment(seg) ==
  /\ seg.pagesize > 1 /\ IsPowerOfTwo(seg.pagesize) /\ seg.firstAddr <= seg.lastAddr
  /\ seg.firstAddr % seg.pagesize = 0 /\ (seg.lastAddr + 1) % seg.pagesize = 0

RegularMap(m) ==
  /\ \A i \in DOMAIN m : RegularSegment(m[i])
  /\ \A i, j \in DOMAIN m : i < j =>
       /\ m[i].lastAddr < m[j].firstAddr
       /\ m[i].eraseable /\ m[j].eraseable => m[i].pagesize <= m[j].pagesize
       /\ m[i].lastAddr + 1 = m[j].firstAddr /\ m[j].eraseable => m[i].eraseable

-------------------------------------------------------------------------------
(* A set of numbers that is not empty has a least one.                     *)
LEMMA LeastExists ==
  ASSUME NEW S \in SUBSET Nat, S # {}
  PROVE  \E n \in S : \A k \in S : n <= k
<1> DEFINE R == {ss \in Nat \X Nat : ss[1] < ss[2]}
<1>1. IsWellFoundedOn(R, Nat)  BY NatLessThanWellFounded DEF OpToRel
<1>2. PICK n \in S : \A k \in S : <<k, n>> \notin R
  <2> HIDE DEF R
  <2>1. QED  BY <1>1, WFMin
<1>3. \A k \in S : k \in Nat /\ n \in Nat /\ ~(k < n)  BY <1>2
<1>4. QED  BY <1>3

LEMMA SegmentFields ==
  ASSUME NEW seg \in MemSegments
  PROVE  /\ {seg.firstAddr, seg.lastAddr, seg.pagesize} \subseteq Nat
         /\ seg.pagesize # 0 /\ {seg.eraseable, seg.writeable} \subseteq BOOLEAN
BY DEF MemSegments

(* What findSegment finds is the first segment that holds the address.     *)
LEMMA Found ==
  ASSUME NEW m \in Seq(MemSegments), NEW a, SegmentsAt(m, a) # {}
  PROVE  /\ findSegment(m, a) \in MemSegments
         /\ \E i \in DOMAIN m : /\ findSegment(m, a) = m[i]
                                /\ m[i].firstAddr <= a /\ a <= m[i].lastAddr
<1> DEFINE S == SegmentsAt(m, a)
<1>1. S \in SUBSET Nat /\ S \subseteq DOMAIN m  BY DEF SegmentsAt
<1>2. \E i \in S : \A j \in S : i <= j  BY <1>1, LeastExists
<1>3. PICK i \in S : findSegment(m, a) = m[i]
  <2> HIDE DEF S
  <2>1. QED  BY <1>2 DEF findSegment, S
<1>4. m[i] \in MemSegments /\ m[i].firstAddr <= a /\ a <= m[i].lastAddr /\ i \in DOMAIN m
  BY <1>1, <1>3 DEF SegmentsAt
<1>5. QED  BY <1>3, <1>4

(* The mask leaves an address, of pages of any size.                       *)
LEMMA StartIsAddress ==
  ASSUME NEW a \in Nat, NEW n \in Nat \ {0}
  PROVE  PageStart(a, n) \in Nat
<1>1. CASE IsPowerOfTwo(n)
  <2>1. a - (a % n) \in Nat  OBVIOUS
  <2>2. QED  BY <1>1, <2>1 DEF PageStart
<1>2. CASE ~IsPowerOfTwo(n)
  <2> DEFINE S == Unmasked(a, n - 1)
             T == {a - x : x \in S}
  <2>1. S \subseteq 0 .. a /\ 0 \in S  BY DEF Unmasked
  <2>2. T \in SUBSET Nat /\ T # {}  BY <2>1
  <2>3. PICK t \in T : \A u \in T : t <= u
    <3> HIDE DEF T
    <3>1. QED  BY <2>2, LeastExists
  <2>4. PICK x \in S : t = a - x  BY <2>3
  <2>5. \A y \in S : y <= x
    <3>1. SUFFICES ASSUME NEW y \in S  PROVE y <= x  OBVIOUS
    <3>2. a - y \in T  OBVIOUS
    <3>3. a - x <= a - y  BY <2>3, <2>4, <3>2
    <3>4. x \in Int /\ y \in Int  BY <2>1
    <3>5. QED  BY <3>3, <3>4
  <2>6. PageStart(a, n) = CHOOSE z \in S : \A y \in S : y <= z  BY <1>2 DEF PageStart
  <2>7. PageStart(a, n) \in S
    <3> HIDE DEF S, T
    <3>1. QED  BY <2>5, <2>6
  <2>8. QED  BY <2>1, <2>7
<1>3. QED  BY <1>1, <1>2

(* The last multiple of n up to a number is at most n before it.           *)
LEMMA LastMultiple ==
  ASSUME NEW a \in Nat, NEW n \in Nat \ {0}
  PROVE  a - (a % n) = n * (a \div n) /\ a - (a % n) <= a /\ a < a - (a % n) + n
OBVIOUS

(* The page size of a regular map.                                         *)
LEMMA PageSizes ==
  ASSUME NEW m \in Seq(MemSegments), RegularMap(m), NEW a, SegmentsAt(m, a) # {},
         NEW n, n = findSegment(m, a).pagesize
  PROVE  n \in Nat \ {0} /\ n > 1 /\ IsPowerOfTwo(n)
<1>1. PICK i \in DOMAIN m : findSegment(m, a) = m[i]  BY Found
<1>2. m[i] \in MemSegments /\ RegularSegment(m[i])  BY DEF RegularMap
<1>3. n = m[i].pagesize  BY <1>1
<1>4. n \in Nat \ {0}  BY <1>2, <1>3, SegmentFields
<1>5. QED  BY <1>2, <1>3, <1>4 DEF RegularSegment

(* The start of a page is at most a page before the address.               *)
LEMMA StartOfPage ==
  ASSUME NEW a \in Nat, NEW n \in Nat \ {0}, IsPowerOfTwo(n)
  PROVE  /\ PageStart(a, n) \in Nat /\ PageStart(a, n) <= a /\ a < PageStart(a, n) + n
         /\ PageStart(a, n) = n * (a \div n)
<1>1. PageStart(a, n) = a - (a % n)  BY DEF PageStart
<1>2. QED  BY <1>1, StartIsAddress, LastMultiple

(* Of two multiples of n, the greater is at least n more.                  *)
LEMMA Apart ==
  ASSUME NEW n \in Nat \ {0}, NEW i \in Int, NEW j \in Int, n * i < n * j
  PROVE  n * i + n <= n * j
<1>1. i < j  OBVIOUS
<1>2. i + 1 <= j  BY <1>1
<1>3. n * (i + 1) <= n * j  BY <1>2
<1>4. QED  BY <1>3

(* A multiple of n leaves no remainder.                                    *)
LEMMA Multiple ==
  ASSUME NEW n \in Nat \ {0}, NEW q \in Int
  PROVE  (n * q) % n = 0
OBVIOUS

(* Pages start at multiples of their size.                                 *)
LEMMA PageStartWhole ==
  ASSUME NEW a \in Nat, NEW n \in Nat \ {0}, IsPowerOfTwo(n)
  PROVE  PageStart(a, n) % n = 0
<1>1. a \div n \in Int  OBVIOUS
<1>2. (n * (a \div n)) % n = 0  BY <1>1, Multiple
<1>3. PageStart(a, n) = n * (a \div n)  BY StartOfPage
<1>4. QED  BY <1>2, <1>3

(* A multiple of n is its own quotient times n.                            *)
LEMMA MultipleOf ==
  ASSUME NEW a \in Nat, NEW n \in Nat \ {0}, a % n = 0
  PROVE  a = n * (a \div n) /\ a \div n \in Nat
<1>1. a = n * (a \div n)  BY LastMultiple
<1>2. a \div n \in Nat  OBVIOUS
<1>3. QED  BY <1>1, <1>2

(* What starts a page is the start of it.                                  *)
LEMMA StartOfStart ==
  ASSUME NEW a \in Nat, NEW n \in Nat \ {0}, IsPowerOfTwo(n), a % n = 0
  PROVE  PageStart(a, n) = a
<1>1. PageStart(a, n) = a - (a % n)  BY DEF PageStart
<1>2. QED  BY <1>1

(* Counting pages from a first address that is itself a multiple of the    *)
(* page size gives the same pages as counting them from zero.              *)
LEMMA CountedFrom ==
  ASSUME NEW a \in Nat, NEW n \in Nat \ {0}, IsPowerOfTwo(n),
         NEW f \in Nat, f % n = 0, f <= a
  PROVE  a - ((a - f) % n) = PageStart(a, n)
<1> DEFINE i == f \div n
           j == a \div n
           d == (a - f) \div n
           g == a - ((a - f) % n)
<1>1. a - f \in Nat  OBVIOUS
<1>2. f = n * i /\ i \in Int  BY MultipleOf
<1>3. (a - f) - ((a - f) % n) = n * d /\ (a - f) % n \in 0 .. n - 1
  <2>1. \A b \in Nat : b % n \in 0 .. n - 1  OBVIOUS
  <2>2. QED  BY <1>1, <2>1, LastMultiple
<1>4. d \in Int /\ j \in Int  BY <1>1
<1>5. PageStart(a, n) = n * j /\ PageStart(a, n) \in Nat /\ PageStart(a, n) <= a /\ a < PageStart(a, n) + n
  BY StartOfPage
<1>6. g \in Int /\ g <= a /\ a < g + n /\ g = n * d + f
  <2>1. n * d \in Int  BY <1>4
  <2>2. \A r \in 0 .. n - 1 : (a - f) - r = n * d =>
          a - r \in Int /\ a - r <= a /\ a < (a - r) + n /\ a - r = n * d + f
    <3> HIDE DEF d
    <3>1. QED  BY <2>1
  <2>3. QED  BY <1>3, <2>2
<1>7. g = n * (d + i)
  <2> HIDE DEF i, d, g
  <2>1. QED  BY <1>2, <1>4, <1>6
<1> HIDE DEF i, j, d, g
<1>8. d + i \in Int  BY <1>2, <1>4
<1>9. ~(n * (d + i) < n * j)
  <2>1. SUFFICES ASSUME n * (d + i) < n * j  PROVE FALSE  OBVIOUS
  <2>2. n * (d + i) + n <= n * j  BY <1>4, <1>8, <2>1, Apart
  <2>3. QED  BY <1>5, <1>6, <1>7, <2>2
<1>10. ~(n * j < n * (d + i))
  <2>1. SUFFICES ASSUME n * j < n * (d + i)  PROVE FALSE  OBVIOUS
  <2>2. n * j + n <= n * (d + i)  BY <1>4, <1>8, <2>1, Apart
  <2>3. QED  BY <1>5, <1>6, <1>7, <2>2
<1>11. g = PageStart(a, n)  BY <1>5, <1>6, <1>7, <1>9, <1>10
<1>12. QED  BY <1>11 DEF g

(* A multiple of the page size up to an address is not behind the start of *)
(* its page, and one behind it is behind the page.                         *)
LEMMA PageBetween ==
  ASSUME NEW a \in Nat, NEW n \in Nat \ {0}, IsPowerOfTwo(n), NEW f \in Nat, f % n = 0
  PROVE  /\ f <= a => f <= PageStart(a, n)
         /\ a < f => PageStart(a, n) + n <= f
<1>1. f = n * (f \div n) /\ f \div n \in Nat  BY MultipleOf
<1>2. PageStart(a, n) = n * (a \div n)  BY StartOfPage
<1>0. a \div n \in Int  OBVIOUS
<1> DEFINE i == f \div n
           j == a \div n
<1>3. f = n * i /\ i \in Int /\ PageStart(a, n) = n * j /\ j \in Int  BY <1>0, <1>1, <1>2
<1>4. PageStart(a, n) <= a /\ a < PageStart(a, n) + n  BY StartOfPage
<1> HIDE DEF i, j
<1>5. ASSUME f <= a  PROVE f <= PageStart(a, n)
  <2>1. SUFFICES ASSUME n * j < n * i  PROVE FALSE  BY <1>3
  <2>2. n * j + n <= n * i  BY <1>3, <2>1, Apart
  <2>3. QED  BY <1>3, <1>4, <1>5, <2>2
<1>6. ASSUME a < f  PROVE PageStart(a, n) + n <= f
  <2>1. n * j < n * i  BY <1>3, <1>4, <1>6
  <2>2. QED  BY <1>3, <2>1, Apart
<1>7. QED  BY <1>5, <1>6
-------------------------------------------------------------------------------
(* An address of a regular map lies in one segment only, the one that is   *)
(* found for it.                                                           *)
LEMMA OneSegment ==
  ASSUME NEW m \in Seq(MemSegments), RegularMap(m), NEW a \in Nat,
         NEW i \in DOMAIN m, m[i].firstAddr <= a, a <= m[i].lastAddr
  PROVE  SegmentsAt(m, a) # {} /\ findSegment(m, a) = m[i]
<1>1. SegmentsAt(m, a) # {}  BY DEF SegmentsAt
<1>2. PICK j \in DOMAIN m : findSegment(m, a) = m[j] /\ m[j].firstAddr <= a /\ a <= m[j].lastAddr
  BY <1>1, Found
<1>3. m[i] \in MemSegments /\ m[j] \in MemSegments /\ i \in Nat /\ j \in Nat  OBVIOUS
<1>4. {m[i].firstAddr, m[i].lastAddr, m[j].firstAddr, m[j].lastAddr} \subseteq Nat
  BY <1>3, SegmentFields
<1>5. ~(i < j) /\ ~(j < i)  BY <1>2, <1>4 DEF RegularMap
<1>6. i = j  BY <1>3, <1>5
<1>7. QED  BY <1>1, <1>2, <1>6

(* The page of an address lies in its segment, around the address.         *)
LEMMA PageOf ==
  ASSUME NEW m \in Seq(MemSegments), RegularMap(m), NEW a \in Nat, SegmentsAt(m, a) # {},
         NEW n, n = findSegment(m, a).pagesize, NEW f, f = PageStart(a, n)
  PROVE  /\ PageAt(m, a) = f .. f + n - 1 /\ f \in Nat /\ n \in Nat /\ n > 1 /\ IsPowerOfTwo(n)
         /\ f % n = 0 /\ f <= a /\ a < f + n
         /\ findSegment(m, a).firstAddr <= f /\ f + n <= findSegment(m, a).lastAddr + 1
<1> DEFINE seg == findSegment(m, a)
<1>1. PICK i \in DOMAIN m : seg = m[i] /\ m[i].firstAddr <= a /\ a <= m[i].lastAddr
  BY Found
<1>2. seg \in MemSegments /\ RegularSegment(seg)  BY <1>1 DEF RegularMap
<1>0. PageAt(m, a) = (a - ((a - seg.firstAddr) % n)) .. (a - ((a - seg.firstAddr) % n)) + n - 1
  BY DEF PageAt
<1> HIDE DEF seg
<1>4. n = seg.pagesize  BY DEF seg
<1>5. {seg.firstAddr, seg.lastAddr} \subseteq Nat /\ n \in Nat \ {0}  BY <1>2, <1>4, SegmentFields
<1>6. n > 1 /\ IsPowerOfTwo(n) /\ seg.firstAddr % n = 0 /\ (seg.lastAddr + 1) % n = 0
  BY <1>2, <1>4 DEF RegularSegment
<1>3. PageAt(m, a) = f .. f + n - 1
  <2>1. a - ((a - seg.firstAddr) % n) = f  BY <1>1, <1>5, <1>6, CountedFrom
  <2>2. QED  BY <1>0, <2>1
<1>7. f \in Nat /\ f <= a /\ a < f + n /\ f = n * (a \div n)  BY <1>5, <1>6, StartOfPage
<1>8. f % n = 0
  <2>1. a \div n \in Int  BY <1>5
  <2>2. QED  BY <1>5, <1>7, <2>1, Multiple
<1>9. seg.firstAddr <= f  BY <1>1, <1>5, <1>6, PageBetween
<1>10. f + n <= seg.lastAddr + 1
  <2>1. seg.lastAddr + 1 \in Nat /\ a < seg.lastAddr + 1  BY <1>1, <1>5
  <2>2. QED  BY <1>5, <1>6, <2>1, PageBetween
<1>11. QED  BY <1>3, <1>5, <1>6, <1>7, <1>8, <1>9, <1>10 DEF seg

LEMMA InOwnPage ==
  ASSUME NEW m \in Seq(MemSegments), RegularMap(m), NEW a \in Nat, SegmentsAt(m, a) # {}
  PROVE  a \in PageAt(m, a)
<1> DEFINE n == findSegment(m, a).pagesize
           f == PageStart(a, n)
<1>1. /\ PageAt(m, a) = f .. f + n - 1 /\ f \in Nat /\ n \in Nat
      /\ f <= a /\ a < f + n
  BY PageOf
<1> HIDE DEF n, f
<1>2. QED  BY <1>1

(* Every address of a page has that page for its own.                      *)
LEMMA PageShared ==
  ASSUME NEW m \in Seq(MemSegments), RegularMap(m), NEW a \in Nat, SegmentsAt(m, a) # {},
         NEW b \in PageAt(m, a)
  PROVE  /\ b \in Nat /\ SegmentsAt(m, b) # {} /\ findSegment(m, b) = findSegment(m, a)
         /\ PageStart(b, findSegment(m, a).pagesize) = PageStart(a, findSegment(m, a).pagesize)
         /\ PageAt(m, b) = PageAt(m, a)
<1> DEFINE n == findSegment(m, a).pagesize
           f == PageStart(a, n)
           g == PageStart(b, n)
<1>1. PICK i \in DOMAIN m : findSegment(m, a) = m[i] /\ m[i].firstAddr <= a /\ a <= m[i].lastAddr
  BY Found
<1>2. m[i] \in MemSegments  BY <1>1
<1>3. {m[i].firstAddr, m[i].lastAddr} \subseteq Nat  BY <1>2, SegmentFields
<1> HIDE DEF n, f, g
<1>4. /\ PageAt(m, a) = f .. f + n - 1 /\ f \in Nat /\ n \in Nat /\ n > 1 /\ IsPowerOfTwo(n)
      /\ f % n = 0 /\ m[i].firstAddr <= f /\ f + n <= m[i].lastAddr + 1
  BY <1>1, PageOf DEF n, f
<1>5. b \in Nat /\ f <= b /\ b < f + n  BY <1>4
<1>6. m[i].firstAddr <= b /\ b <= m[i].lastAddr  BY <1>3, <1>4, <1>5
<1>7. SegmentsAt(m, b) # {} /\ findSegment(m, b) = findSegment(m, a)
  BY <1>1, <1>5, <1>6, OneSegment
<1>8. g = f
  <2>0. n \in Nat \ {0} /\ IsPowerOfTwo(n)  BY <1>4
  <2>1. g \in Nat /\ g <= b /\ b < g + n /\ g = n * (b \div n)  BY <2>0, <1>5, StartOfPage DEF g
  <2>2. f <= g  BY <1>4, <1>5, PageBetween DEF g
  <2>3. g % n = 0  BY <2>0, <2>1, <1>5, PageStartWhole DEF g
  <2>4. /\ g <= a => g <= f
        /\ a < g => f + n <= g
    BY <2>0, <2>1, <2>3, PageBetween DEF f
  <2>5. QED  BY <1>4, <1>5, <2>1, <2>2, <2>4
<1>9. PageAt(m, b) = PageAt(m, a)
  <2>1. PageAt(m, b) = g .. g + n - 1  BY <1>5, <1>7, PageOf DEF n, g
  <2>2. QED  BY <1>4, <1>8, <2>1
<1>10. QED  BY <1>5, <1>7, <1>8, <1>9 DEF n, f, g

(* Pages that meet are one page.                                           *)
LEMMA PagesMeet ==
  ASSUME NEW m \in Seq(MemSegments), RegularMap(m),
         NEW a \in Nat, SegmentsAt(m, a) # {}, NEW b \in Nat, SegmentsAt(m, b) # {},
         NEW w, w \in PageAt(m, a), w \in PageAt(m, b)
  PROVE  /\ PageAt(m, a) = PageAt(m, b) /\ findSegment(m, a) = findSegment(m, b)
         /\ PageStart(a, findSegment(m, a).pagesize) = PageStart(b, findSegment(m, b).pagesize)
<1>1. /\ findSegment(m, w) = findSegment(m, a) /\ PageAt(m, w) = PageAt(m, a)
      /\ PageStart(w, findSegment(m, a).pagesize) = PageStart(a, findSegment(m, a).pagesize)
  BY PageShared
<1>2. /\ findSegment(m, w) = findSegment(m, b) /\ PageAt(m, w) = PageAt(m, b)
      /\ PageStart(w, findSegment(m, b).pagesize) = PageStart(b, findSegment(m, b).pagesize)
  BY PageShared
<1>3. QED  BY <1>1, <1>2

(* A page is an interval.                                                  *)
LEMMA PageInterval ==
  ASSUME NEW m \in Seq(MemSegments), RegularMap(m), NEW a \in Nat, SegmentsAt(m, a) # {},
         NEW x \in PageAt(m, a), NEW z \in PageAt(m, a), NEW y \in Nat, x <= y, y <= z
  PROVE  y \in PageAt(m, a)
<1> DEFINE n == findSegment(m, a).pagesize
           f == PageStart(a, n)
<1>1. PageAt(m, a) = f .. f + n - 1 /\ f \in Nat /\ n \in Nat  BY PageOf
<1> HIDE DEF n, f
<1>2. QED  BY <1>1

(* Segments come in the order of their addresses.                          *)
LEMMA InOrder ==
  ASSUME NEW m \in Seq(MemSegments), RegularMap(m),
         NEW i \in DOMAIN m, NEW j \in DOMAIN m, NEW a \in Nat, NEW b \in Nat, a <= b,
         m[i].firstAddr <= a, a <= m[i].lastAddr, m[j].firstAddr <= b, b <= m[j].lastAddr
  PROVE  i = j \/ (i < j /\ m[i].lastAddr < m[j].firstAddr)
<1>1. m[i] \in MemSegments /\ m[j] \in MemSegments /\ i \in Nat /\ j \in Nat  OBVIOUS
<1>2. {m[i].firstAddr, m[i].lastAddr, m[j].firstAddr, m[j].lastAddr} \subseteq Nat
  BY <1>1, SegmentFields
<1>3. ~(j < i)  BY <1>2 DEF RegularMap
<1>4. i < j => m[i].lastAddr < m[j].firstAddr  BY DEF RegularMap
<1>5. QED  BY <1>1, <1>3, <1>4

(* The pages of eraseable segments do not get smaller.                     *)
LEMMA NotSmaller ==
  ASSUME NEW m \in Seq(MemSegments), RegularMap(m), NEW a \in Nat, NEW b \in Nat, a <= b,
         isAddressEraseable(m, a), isAddressEraseable(m, b)
  PROVE  findSegment(m, a).pagesize <= findSegment(m, b).pagesize
<1>1. SegmentsAt(m, a) # {} /\ SegmentsAt(m, b) # {}  BY DEF isAddressEraseable
<1>2. PICK i \in DOMAIN m : findSegment(m, a) = m[i] /\ m[i].firstAddr <= a /\ a <= m[i].lastAddr
  BY <1>1, Found
<1>3. PICK j \in DOMAIN m : findSegment(m, b) = m[j] /\ m[j].firstAddr <= b /\ b <= m[j].lastAddr
  BY <1>1, Found
<1>4. m[i].eraseable /\ m[j].eraseable  BY <1>2, <1>3 DEF isAddressEraseable
<1>5. i = j \/ i < j  BY <1>2, <1>3, InOrder
<1>6. m[i].pagesize <= m[j].pagesize
  <2>1. CASE i = j
    <3>1. m[i].pagesize \in Nat  BY SegmentFields
    <3>2. QED  BY <2>1, <3>1
  <2>2. CASE i < j  BY <1>4, <2>2 DEF RegularMap
  <2>3. QED  BY <1>5, <2>1, <2>2
<1>7. QED  BY <1>2, <1>3, <1>6

(* An eraseable address that the run of pages of one size from a on skips  *)
(* is in a larger page that reaches as far as the run.                     *)
LEMMA SkippedInPage ==
  ASSUME NEW m \in Seq(MemSegments), RegularMap(m), NEW a \in Nat, isAddressEraseable(m, a),
         NEW e \in Nat, a <= e, SegmentsAt(m, e) # {},
         NEW x \in Nat, e <= x, x < e + findSegment(m, a).pagesize,
         isAddressEraseable(m, x), x \notin PageAt(m, e)
  PROVE  \A y \in Nat : x <= y /\ y <= e + findSegment(m, a).pagesize => y \in PageAt(m, x)
<1> DEFINE n == findSegment(m, a).pagesize
           k == findSegment(m, x).pagesize
           f == PageStart(x, k)
<1>1. SegmentsAt(m, x) # {} /\ SegmentsAt(m, a) # {}  BY DEF isAddressEraseable
<1>2. a <= x  OBVIOUS
<1>3. n <= k  BY <1>2, NotSmaller
<1>4. n \in Nat  BY <1>1, PageOf
<1>5. PageAt(m, x) = f .. f + k - 1 /\ f \in Nat /\ k \in Nat /\ f <= x  BY <1>1, PageOf
<1> HIDE DEF n, k, f
<1>6. ~(f <= e)
  <2>1. SUFFICES ASSUME f <= e  PROVE FALSE  OBVIOUS
  <2>2. x \in PageAt(m, x)  BY <1>1, InOwnPage
  <2>3. e \in PageAt(m, x)  BY <1>5, <2>1, <2>2
  <2>4. PageAt(m, e) = PageAt(m, x)  BY <1>1, <2>3, PageShared
  <2>5. QED  BY <2>2, <2>4
<1>7. \A y \in Nat : x <= y /\ y <= e + n => y \in PageAt(m, x)  BY <1>3, <1>4, <1>5, <1>6
<1>8. QED  BY <1>7 DEF n

(* Where the start of a page, computed with the page size at an address    *)
(* before, is that of an eraseable page, it is the page's own.             *)
LEMMA StartMatches ==
  ASSUME NEW m \in Seq(MemSegments), RegularMap(m), NEW a \in Nat, isAddressEraseable(m, a),
         NEW e \in Nat, a <= e,
         NEW l \in Nat, isAddressEraseable(m, l), l % findSegment(m, l).pagesize = 0,
         PageStart(e, findSegment(m, a).pagesize) = l
  PROVE  e \in PageAt(m, l)
<1> DEFINE n == findSegment(m, a).pagesize
           k == findSegment(m, l).pagesize
<1>1. SegmentsAt(m, l) # {} /\ SegmentsAt(m, a) # {}  BY DEF isAddressEraseable
<1>2. PICK i \in DOMAIN m : findSegment(m, a) = m[i] /\ m[i].firstAddr <= a /\ a <= m[i].lastAddr
  BY <1>1, Found
<1>3. PICK j \in DOMAIN m : findSegment(m, l) = m[j] /\ m[j].firstAddr <= l /\ l <= m[j].lastAddr
  BY <1>1, Found
<1>4. n \in Nat \ {0} /\ k \in Nat \ {0} /\ IsPowerOfTwo(n) /\ IsPowerOfTwo(k)
  <2>1. n \in Nat \ {0} /\ IsPowerOfTwo(n)  BY <1>1, PageSizes
  <2>2. k \in Nat \ {0} /\ IsPowerOfTwo(k)  BY <1>1, PageSizes
  <2>3. QED  BY <2>1, <2>2
<1>5. PageAt(m, l) = l .. l + k - 1
  <2>1. PageStart(l, k) = l  BY <1>4, StartOfStart
  <2>2. QED  BY <1>1, <2>1, PageOf
<1>6. l <= e /\ e < l + n /\ l = n * (e \div n)
  BY <1>4, StartOfPage
<1>7. {m[i].firstAddr, m[i].lastAddr, m[j].firstAddr, m[j].lastAddr} \subseteq Nat
  <2>1. m[i] \in MemSegments /\ m[j] \in MemSegments  OBVIOUS
  <2>2. QED  BY <2>1, SegmentFields
<1>8. CASE a <= l
  <2>1. n <= k  BY <1>8, NotSmaller
  <2> HIDE DEF n, k
  <2>2. QED  BY <1>4, <1>5, <1>6, <2>1
<1>9. CASE l < a
  <2>1. j = i \/ (j < i /\ m[j].lastAddr < m[i].firstAddr)  BY <1>2, <1>3, <1>9, InOrder
  <2>2. ~(m[j].lastAddr < m[i].firstAddr)
    <3>1. SUFFICES ASSUME l < m[i].firstAddr  PROVE FALSE  BY <1>3, <1>7
    <3>2. m[i].firstAddr % n = 0
      BY <1>2 DEF RegularMap, RegularSegment
    <3>3. m[i].firstAddr <= e  BY <1>2, <1>7
    <3>4. m[i].firstAddr <= l  BY <1>4, <1>7, <3>2, <3>3, PageBetween
    <3>5. QED  BY <1>7, <3>1, <3>4
  <2>3. k = n  BY <1>2, <1>3, <2>1, <2>2
  <2> HIDE DEF n, k
  <2>4. QED  BY <1>4, <1>5, <1>6, <2>3
<1>10. QED  BY <1>8, <1>9

(* A page that holds an address before a, but is not before the page l,    *)
(* which begins before e, is that page; a has the same page size.          *)
LEMMA PageRevisited ==
  ASSUME NEW m \in Seq(MemSegments), RegularMap(m), NEW a \in Nat,
         NEW e \in Nat, a <= e, SegmentsAt(m, e) # {},
         NEW l \in Nat, SegmentsAt(m, l) # {}, l % findSegment(m, l).pagesize = 0, l <= e,
         NEW w \in PageAt(m, e), w < a, w < l + findSegment(m, l).pagesize
  PROVE  PageStart(e, findSegment(m, a).pagesize) = l
<1> DEFINE n == findSegment(m, e).pagesize
           k == findSegment(m, l).pagesize
           f == PageStart(e, n)
<1>1. PageAt(m, e) = f .. f + n - 1 /\ f \in Nat /\ n \in Nat /\ f <= e /\ e < f + n
  BY PageOf
<1>2. k \in Nat \ {0} /\ IsPowerOfTwo(k)  BY PageSizes
<1>3. PageStart(l, k) = l  BY <1>2, StartOfStart
<1>4. PageAt(m, l) = l .. l + k - 1  BY <1>3, PageOf
<1>5. w \in Nat /\ a \in PageAt(m, e)
  <2> HIDE DEF n, f
  <2>1. QED  BY <1>1
<1>6. findSegment(m, a) = findSegment(m, e)  BY <1>5, PageShared
<1>7. \E y \in PageAt(m, e) : y \in PageAt(m, l)
  <2>0. w < l + k  OBVIOUS
  <2> HIDE DEF n, k, f
  <2>1. CASE f <= l
    <3>1. l \in PageAt(m, e) /\ l \in PageAt(m, l)  BY <1>1, <1>2, <1>4, <2>1
    <3>2. QED  BY <3>1
  <2>2. CASE l < f
    <3>1. f \in PageAt(m, e) /\ f \in PageAt(m, l)  BY <1>1, <1>2, <1>4, <2>0, <2>2
    <3>2. QED  BY <3>1
  <2>3. QED  BY <1>1, <2>1, <2>2
<1>8. f = PageStart(l, k)  BY <1>7, PagesMeet
<1>9. QED  BY <1>3, <1>6, <1>8

(* From an address that is not eraseable, addresses of the map one after   *)
(* the other never lead to one that is.                                    *)
LEMMA StaysPlain ==
  ASSUME NEW m \in Seq(MemSegments), RegularMap(m), NEW a \in Nat, ~isAddressEraseable(m, a),
         NEW x \in Nat, a <= x, \A y \in Nat : a <= y /\ y <= x => SegmentsAt(m, y) # {}
  PROVE  ~isAddressEraseable(m, x)
<1>1. SUFFICES ASSUME isAddressEraseable(m, x)  PROVE FALSE  OBVIOUS
<1> DEFINE S == {y \in Nat : a <= y /\ y <= x /\ isAddressEraseable(m, y)}
<1>2. S \in SUBSET Nat /\ x \in S  BY <1>1
<1>3. PICK y \in S : \A z \in S : y <= z  BY <1>2, LeastExists
<1>4. y \in Nat /\ a <= y /\ y <= x /\ isAddressEraseable(m, y) /\ y # a  BY <1>3
<1>5. y - 1 \in Nat /\ a <= y - 1 /\ y - 1 <= x /\ y - 1 < y  BY <1>4
<1>6. ~isAddressEraseable(m, y - 1)  BY <1>3, <1>4, <1>5
<1>7. SegmentsAt(m, y) # {} /\ SegmentsAt(m, y - 1) # {}  BY <1>4, <1>5
<1>8. PICK i \in DOMAIN m : /\ findSegment(m, y - 1) = m[i]
                            /\ m[i].firstAddr <= y - 1 /\ y - 1 <= m[i].lastAddr
  BY <1>7, Found
<1>9. PICK j \in DOMAIN m : findSegment(m, y) = m[j] /\ m[j].firstAddr <= y /\ y <= m[j].lastAddr
  BY <1>7, Found
<1>10. ~m[i].eraseable /\ m[j].eraseable  BY <1>4, <1>6, <1>7, <1>8, <1>9 DEF isAddressEraseable
<1>11. i < j /\ m[i].lastAddr < m[j].firstAddr  BY <1>4, <1>5, <1>8, <1>9, <1>10, InOrder
<1>12. {m[i].firstAddr, m[i].lastAddr, m[j].firstAddr, m[j].lastAddr} \subseteq Nat
  <2>1. m[i] \in MemSegments /\ m[j] \in MemSegments  OBVIOUS
  <2>2. QED  BY <2>1, SegmentFields
<1>13. m[i].lastAddr + 1 = m[j].firstAddr  BY <1>4, <1>8, <1>9, <1>11, <1>12
<1>14. QED  BY <1>10, <1>11, <1>13 DEF RegularMap
===============================================================================
