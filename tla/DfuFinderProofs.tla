----------------------------- MODULE DfuFinderProofs -----------------------------
(***************************************************************************)
(* Proofs about DfuFinder, for every bus of any number of devices, all     *)
(* filters and all calls into libusb that fail.                            *)
(*                                                                         *)
(* TypeOK is not inductive: that the walk is at a setting of the DFU class *)
(* of the configuration at hand follows from the list of them it still has *)
(* to do having been one all along, while it asks the device as well, and  *)
(* that it holds a handle and a configuration from where it stands.        *)
(*                                                                         *)
(* What is found is only held against the bus at the end.  SInv says of    *)
(* every state before it what has been passed so far, that all of it that  *)
(* is to be found was found, that no call has failed for anything else,    *)
(* and that the walk over the lists has passed no functional descriptor.   *)
(***************************************************************************)
EXTENDS DfuFinder, SequenceTheorems, WellFoundedInduction, FiniteSetTheorems, TLAPS

-------------------------------------------------------------------------------
(***************************************************************************)
(* FlattenSeq of the community modules, of which no theorem library speaks *)
(***************************************************************************)

(* A set of numbers that has zero and the successor of each of its numbers *)
(* has them all.                                                           *)
LEMMA Induction ==
  ASSUME NEW S \in SUBSET Nat, 0 \in S, \A n \in S : n + 1 \in S
  PROVE  S = Nat
<1> DEFINE T == Nat \ S
           R == {ss \in Nat \X Nat : ss[1] < ss[2]}
<1>1. SUFFICES ASSUME T # {} PROVE FALSE  OBVIOUS
<1>2. IsWellFoundedOn(R, Nat)  BY NatLessThanWellFounded DEF OpToRel
<1>3. T \subseteq Nat  OBVIOUS
<1>4. PICK x \in T : \A y \in T : <<y, x>> \notin R
  <2> HIDE DEF T, R
  <2>1. QED  BY <1>1, <1>2, <1>3, WFMin
<1>5. x - 1 \in Nat /\ <<x - 1, x>> \in R  OBVIOUS
<1>6. x - 1 \in S  BY <1>4, <1>5
<1>7. (x - 1) + 1 \in S  BY <1>6
<1>8. QED  BY <1>5, <1>7

(* One step of the recursive function in FlattenSeq.                       *)
LEMMA Appended ==
  ASSUME NEW g, NEW s, NEW m \in Nat, m # 0
  PROVE  (IF m + 1 = 1 THEN s[m + 1] ELSE g[(m + 1) - 1] \o s[m + 1]) = g[m] \o s[m + 1]
<1>1. g[(m + 1) - 1] = g[m]  OBVIOUS
<1>2. g[(m + 1) - 1] \o s[m + 1] = g[m] \o s[m + 1]  BY <1>1
<1>3. m + 1 # 1  OBVIOUS
<1>4. QED  BY <1>2, <1>3

LEMMA Alone == ASSUME NEW S, NEW s \in Seq(S) PROVE << >> \o s = s
OBVIOUS

(* A sequence of sequences is put together one after the other.  The       *)
(* function that FlattenSeq chooses exists for each length, by induction,  *)
(* and so does each of its values.                                         *)
LEMMA FlattenPrefixes ==
  ASSUME NEW S, NEW s \in Seq(Seq(S))
  PROVE  \E flat \in [0 .. Len(s) -> Seq(S)] :
           /\ flat[0] = << >>
           /\ \A k \in 1 .. Len(s) : flat[k] = flat[k - 1] \o s[k]
           /\ FlattenSeq(s) = flat[Len(s)]
<1> DEFINE n == Len(s)
           next(g, i) == IF i = 1 THEN s[i] ELSE g[i - 1] \o s[i]
           upto(m) == [1 .. m -> Seq(S)]
<1>1. n \in Nat /\ \A i \in 1 .. n : s[i] \in Seq(S)  OBVIOUS
<1>2. CASE n = 0
  <2> DEFINE whole == [k \in 0 .. 0 |-> << >>]
  <2>1. s = << >>  BY <1>2
  <2>2. FlattenSeq(s) = << >>  BY <1>2, <2>1 DEF FlattenSeq
  <2>3. whole \in [0 .. Len(s) -> Seq(S)] /\ whole[0] = << >>  BY <1>2
  <2>4. \A k \in 1 .. Len(s) : whole[k] = whole[k - 1] \o s[k]  BY <1>2
  <2>5. FlattenSeq(s) = whole[Len(s)]  BY <1>2, <2>2
  <2> HIDE DEF whole
  <2>6. QED  BY <2>3, <2>4, <2>5
<1>3. CASE n # 0
  <2> DEFINE Built(k) == \E g \in upto(k) : \A i \in 1 .. k : g[i] = next(g, i)
             M == {m \in Nat : m <= n => Built(m)}
  <2> HIDE DEF n
  <2>1. 0 \in M
    <3> DEFINE g == [i \in 1 .. 0 |-> << >>]
    <3>1. g \in upto(0) /\ \A i \in 1 .. 0 : g[i] = next(g, i)  OBVIOUS
    <3>2. QED  BY <3>1, <1>1
  <2>2. ASSUME NEW m \in M  PROVE m + 1 \in M
    <3>1. SUFFICES ASSUME m + 1 <= n  PROVE Built(m + 1)
      <4> HIDE DEF Built
      <4>1. QED  OBVIOUS
    <3>2. m \in Nat /\ m <= n  BY <1>1, <3>1
    <3>3. PICK g \in upto(m) : \A i \in 1 .. m : g[i] = next(g, i)  BY <3>2
    <3> DEFINE h == [i \in 1 .. m + 1 |-> IF i = m + 1 THEN next(g, m + 1) ELSE g[i]]
    <3>4. s[m + 1] \in Seq(S)  BY <1>1, <3>1, <3>2
    <3>5. next(g, m + 1) \in Seq(S)
      <4>1. CASE m = 0  BY <3>4, <4>1
      <4>2. CASE m # 0
        <5>1. g[m] \in Seq(S)  BY <3>2, <4>2
        <5>2. next(g, m + 1) = g[m] \o s[m + 1]
          <6> HIDE DEF M, Built, upto, h
          <6>1. QED  BY <3>2, <4>2, Appended
        <5>3. QED  BY <3>4, <5>1, <5>2, ConcatProperties
      <4>3. QED  BY <4>1, <4>2
    <3>6. h \in upto(m + 1)
      <4>1. \A i \in 1 .. m + 1 : i # m + 1 => i \in 1 .. m  BY <3>2
      <4>2. QED  BY <3>5, <4>1
    <3>7. ASSUME NEW i \in 1 .. m + 1  PROVE h[i] = next(h, i)
      <4>0. i \in Nat /\ i <= m + 1 /\ i >= 1  BY <3>2
      <4>1. CASE i = m + 1
        <5>1. h[i] = next(g, i)  BY <4>1, <3>2
        <5>2. i # 1 => h[i - 1] = g[i - 1]  BY <4>1, <3>2
        <5>3. QED  BY <5>1, <5>2
      <4>2. CASE i # m + 1
        <5>1. i \in 1 .. m /\ h[i] = g[i]  BY <4>2, <3>2
        <5>2. i # 1 => h[i - 1] = g[i - 1]  BY <5>1, <3>2
        <5>3. QED  BY <5>1, <5>2, <3>3
      <4>3. QED  BY <4>1, <4>2
    <3>8. QED  BY <3>6, <3>7
  <2>3. n \in M
    <3> HIDE DEF M
    <3>1. M \subseteq Nat  BY DEF M
    <3>2. QED  BY <1>1, <2>1, <2>2, <3>1, Induction
  <2>4. PICK g \in upto(n) : \A i \in 1 .. n : g[i] = next(g, i)
    <3>1. Built(n)
      <4> HIDE DEF Built
      <4>1. QED  BY <1>1, <2>3
    <3>2. QED  BY <3>1
  <2>5. g = [i \in 1 .. n |-> IF i = 1 THEN s[i] ELSE g[i - 1] \o s[i]]  BY <2>4
  <2> DEFINE F(fl) == fl = [i \in 1 .. n |-> IF i = 1 THEN s[i] ELSE fl[i - 1] \o s[i]]
             flat == CHOOSE fl : F(fl)
  <2>6. F(flat)
    <3>1. F(g) BY <2>5
    <3> HIDE DEF F
    <3>2. QED  BY <3>1
  <2>7. FlattenSeq(s) = flat[n]  BY <1>3 DEF FlattenSeq, n
  <2> DEFINE N == {m \in Nat : m \in 1 .. n => flat[m] \in Seq(S)}
  <2> HIDE DEF flat
  <2>8. 0 \in N  BY <1>1
  <2>9. ASSUME NEW m \in N  PROVE m + 1 \in N
    <3>1. SUFFICES ASSUME m + 1 \in 1 .. n  PROVE flat[m + 1] \in Seq(S)  OBVIOUS
    <3>2. flat[m + 1] = next(flat, m + 1)  BY <2>6, <3>1
    <3>3. s[m + 1] \in Seq(S)  BY <1>1, <3>1
    <3>4. CASE m = 0  BY <3>2, <3>3, <3>4
    <3>5. CASE m # 0
      <4>1. flat[m] \in Seq(S)  BY <1>1, <3>1, <3>5
      <4>2. m \in Nat  OBVIOUS
      <4>3. next(flat, m + 1) = flat[m] \o s[m + 1]  BY <3>5, <4>2, Appended
      <4>4. flat[m + 1] = flat[m] \o s[m + 1]
        <5> HIDE DEF next
        <5>1. QED  BY <3>2, <4>3
      <4>5. QED  BY <3>3, <4>1, <4>4, ConcatProperties
    <3>6. QED  BY <3>4, <3>5
  <2> DEFINE whole == [k \in 0 .. n |-> IF k = 0 THEN << >> ELSE flat[k]]
  <2>11. N = Nat
    <3> HIDE DEF N
    <3>1. N \subseteq Nat  BY DEF N
    <3>2. QED  BY <2>8, <2>9, <3>1, Induction
  <2>12. \A k \in 1 .. n : flat[k] \in Seq(S)
    <3>1. SUFFICES ASSUME NEW k \in 1 .. n  PROVE flat[k] \in Seq(S)  OBVIOUS
    <3>2. k \in N
      <4> HIDE DEF N
      <4>1. QED  BY <1>1, <2>11
    <3>3. QED  BY <3>2
  <2> HIDE DEF N
  <2>13. whole \in [0 .. n -> Seq(S)]
    <3>1. \A k \in 0 .. n : k # 0 => k \in 1 .. n  BY <1>1
    <3>2. QED  BY <2>12, <3>1
  <2>14. whole[0] = << >> /\ whole[n] = flat[n]  BY <1>1, <1>3
  <2>15. ASSUME NEW k \in 1 .. n  PROVE whole[k] = whole[k - 1] \o s[k]
    <3>1. k \in Nat /\ k # 0 /\ k \in 0 .. n /\ k - 1 \in 0 .. n  BY <1>1
    <3>2. flat[k] = next(flat, k)  BY <2>6
    <3>3. whole[k] = flat[k]  BY <3>1
    <3>4. CASE k = 1
      <4>1. flat[k] = s[k]  BY <3>2, <3>4
      <4>2. whole[k - 1] = << >>  BY <3>1, <3>4
      <4>3. s[k] \in Seq(S)  BY <1>1
      <4>4. << >> \o s[k] = s[k]  BY <4>3, Alone
      <4>5. QED  BY <3>3, <4>1, <4>2, <4>4
    <3>5. CASE k # 1
      <4>1. flat[k] = flat[k - 1] \o s[k]  BY <3>2, <3>5
      <4>2. whole[k - 1] = flat[k - 1]  BY <3>1, <3>5
      <4>3. QED  BY <3>3, <4>1, <4>2
    <3>6. QED  BY <3>4, <3>5
  <2> HIDE DEF whole
  <2>16. QED  BY <2>7, <2>13, <2>14, <2>15 DEF n
<1>4. QED  BY <1>2, <1>3

LEMMA FlattenType ==
  ASSUME NEW S, NEW s \in Seq(Seq(S))
  PROVE  FlattenSeq(s) \in Seq(S)
<1>1. PICK flat \in [0 .. Len(s) -> Seq(S)] : FlattenSeq(s) = flat[Len(s)]
  BY FlattenPrefixes
<1>2. Len(s) \in 0 .. Len(s)  OBVIOUS
<1>3. QED  BY <1>1, <1>2

(* What is in it is what is in one of them.                                *)
LEMMA FlattenRange ==
  ASSUME NEW S, NEW s \in Seq(Seq(S))
  PROVE  Range(FlattenSeq(s)) = UNION {Range(s[k]) : k \in DOMAIN s}
<1> DEFINE n == Len(s)
           upto(m) == UNION {Range(s[k]) : k \in 1 .. m}
<1>1. PICK flat \in [0 .. n -> Seq(S)] :
        /\ flat[0] = << >>
        /\ \A k \in 1 .. n : flat[k] = flat[k - 1] \o s[k]
        /\ FlattenSeq(s) = flat[n]
  BY FlattenPrefixes
<1>2. n \in Nat /\ DOMAIN s = 1 .. n /\ \A k \in 1 .. n : s[k] \in Seq(S)  OBVIOUS
<1> DEFINE N == {m \in Nat : m <= n => Range(flat[m]) = upto(m)}
<1> HIDE DEF n
<1>3. 0 \in N
  <2>1. Range(flat[0]) = {}  BY <1>1 DEF Range
  <2>2. upto(0) = {}  OBVIOUS
  <2>3. QED  BY <2>1, <2>2
<1>4. ASSUME NEW m \in N  PROVE m + 1 \in N
  <2>1. SUFFICES ASSUME m + 1 <= n  PROVE Range(flat[m + 1]) = upto(m + 1)  OBVIOUS
  <2>2. m \in Nat /\ m <= n /\ m \in 0 .. n /\ m + 1 \in 1 .. n
    <3>1. m \in Nat  OBVIOUS
    <3> HIDE DEF N
    <3>2. QED  BY <1>2, <2>1, <3>1
  <2>3. flat[m] \in Seq(S) /\ s[m + 1] \in Seq(S)  BY <1>1, <1>2, <2>2
  <2>4. flat[m + 1] = flat[m] \o s[m + 1]
    <3>1. flat[m + 1] = flat[(m + 1) - 1] \o s[m + 1]  BY <1>1, <2>2
    <3>2. (m + 1) - 1 = m  BY <2>2
    <3>3. QED  BY <3>1, <3>2
  <2>5. Range(flat[m] \o s[m + 1]) = Range(flat[m]) \cup Range(s[m + 1])
    BY <2>3, RangeConcatenation
  <2>6. Range(flat[m]) = upto(m)  BY <2>2
  <2>7. upto(m + 1) = upto(m) \cup Range(s[m + 1])
    <3>1. 1 .. m + 1 = (1 .. m) \cup {m + 1}  BY <2>2
    <3>2. QED  BY <3>1
  <2>8. QED  BY <2>4, <2>5, <2>6, <2>7
<1>5. n \in N
  <2> HIDE DEF N
  <2>1. N \subseteq Nat  BY DEF N
  <2>2. QED  BY <1>2, <1>3, <1>4, <2>1, Induction
<1>6. Range(flat[n]) = upto(n)  BY <1>2, <1>5
<1>7. QED  BY <1>1, <1>2, <1>6

(* It is in the order of the places when each of them is, and they are.    *)
Sorted(s) == \A j, k \in DOMAIN s : j < k => Before(s[j], s[k])

LEMMA SortedConcat ==
  ASSUME NEW S, NEW s \in Seq(S), NEW t \in Seq(S), Sorted(s), Sorted(t),
         \A x \in Range(s), y \in Range(t) : Before(x, y)
  PROVE  Sorted(s \o t)
<1> DEFINE n == Len(s)
           m == Len(t)
<1>1. /\ n \in Nat /\ m \in Nat /\ DOMAIN s = 1 .. n /\ DOMAIN t = 1 .. m
      /\ DOMAIN (s \o t) = 1 .. n + m
  OBVIOUS
<1>2. /\ \A j \in 1 .. n : (s \o t)[j] = s[j] /\ s[j] \in Range(s)
      /\ \A j \in n + 1 .. n + m : /\ (s \o t)[j] = t[j - n] /\ j - n \in 1 .. m
                                  /\ t[j - n] \in Range(t)
  BY DEF Range
<1> HIDE DEF n, m
<1>3. ASSUME NEW j \in 1 .. n + m, NEW k \in 1 .. n + m, j < k
      PROVE  Before((s \o t)[j], (s \o t)[k])
  <2>1. CASE k <= n
    <3>1. j \in 1 .. n /\ k \in 1 .. n  BY <1>1, <1>3, <2>1
    <3>2. Before(s[j], s[k])  BY <1>1, <1>3, <3>1 DEF Sorted
    <3>3. QED  BY <1>2, <3>1, <3>2
  <2>2. CASE n < j
    <3>1. j \in n + 1 .. n + m /\ k \in n + 1 .. n + m /\ j - n < k - n
      BY <1>1, <1>3, <2>2
    <3>2. j - n \in 1 .. m /\ k - n \in 1 .. m  BY <1>2, <3>1
    <3>3. Before(t[j - n], t[k - n])  BY <1>1, <3>1, <3>2 DEF Sorted
    <3>4. QED  BY <1>2, <3>1, <3>3
  <2>3. CASE j <= n /\ n < k
    <3>1. j \in 1 .. n /\ k \in n + 1 .. n + m  BY <1>1, <1>3, <2>3
    <3>2. /\ (s \o t)[j] = s[j] /\ s[j] \in Range(s)
          /\ (s \o t)[k] = t[k - n] /\ t[k - n] \in Range(t)
      BY <1>2, <3>1
    <3>3. QED  BY <3>2
  <2>4. QED  BY <1>1, <1>3, <2>1, <2>2, <2>3
<1>4. QED  BY <1>1, <1>3 DEF Sorted

LEMMA FlattenSorted ==
  ASSUME NEW S, NEW s \in Seq(Seq(S)),
         \A k \in DOMAIN s : Sorted(s[k]),
         \A j, k \in DOMAIN s : \A x \in Range(s[j]), y \in Range(s[k]) :
           j < k => Before(x, y)
  PROVE  Sorted(FlattenSeq(s))
<1> DEFINE n == Len(s)
           upto(m) == UNION {Range(s[k]) : k \in 1 .. m}
<1>1. PICK flat \in [0 .. n -> Seq(S)] :
        /\ flat[0] = << >>
        /\ \A k \in 1 .. n : flat[k] = flat[k - 1] \o s[k]
        /\ FlattenSeq(s) = flat[n]
  BY FlattenPrefixes
<1>2. n \in Nat /\ DOMAIN s = 1 .. n /\ \A k \in 1 .. n : s[k] \in Seq(S)  OBVIOUS
<1> DEFINE N == {m \in Nat : m <= n => Range(flat[m]) = upto(m) /\ Sorted(flat[m])}
<1> HIDE DEF n
<1>3. 0 \in N
  <2>1. Range(flat[0]) = {} /\ Sorted(flat[0])  BY <1>1 DEF Range, Sorted
  <2>2. upto(0) = {}  OBVIOUS
  <2>3. QED  BY <2>1, <2>2
<1>4. ASSUME NEW m \in N  PROVE m + 1 \in N
  <2>1. SUFFICES ASSUME m + 1 <= n
                 PROVE  Range(flat[m + 1]) = upto(m + 1) /\ Sorted(flat[m + 1])
    OBVIOUS
  <2>2. m \in Nat /\ m <= n /\ m \in 0 .. n /\ m + 1 \in 1 .. n
    <3>1. m \in Nat  OBVIOUS
    <3> HIDE DEF N
    <3>2. QED  BY <1>2, <2>1, <3>1
  <2>3. flat[m] \in Seq(S) /\ s[m + 1] \in Seq(S)  BY <1>1, <1>2, <2>2
  <2>4. flat[m + 1] = flat[m] \o s[m + 1]
    <3>1. flat[m + 1] = flat[(m + 1) - 1] \o s[m + 1]  BY <1>1, <2>2
    <3>2. (m + 1) - 1 = m  BY <2>2
    <3>3. QED  BY <3>1, <3>2
  <2>5. Range(flat[m] \o s[m + 1]) = Range(flat[m]) \cup Range(s[m + 1])
    BY <2>3, RangeConcatenation
  <2>6. Range(flat[m]) = upto(m) /\ Sorted(flat[m])  BY <2>2
  <2> HIDE DEF N
  <2>7. upto(m + 1) = upto(m) \cup Range(s[m + 1])
    <3>1. 1 .. m + 1 = (1 .. m) \cup {m + 1}  BY <2>2
    <3>2. QED  BY <3>1
  <2>8. ASSUME NEW x \in Range(flat[m]), NEW y \in Range(s[m + 1])  PROVE Before(x, y)
    <3>1. PICK j \in 1 .. m : x \in Range(s[j])  BY <2>6
    <3>2. j \in DOMAIN s /\ m + 1 \in DOMAIN s /\ j < m + 1  BY <1>2, <2>2
    <3>3. QED  BY <3>1, <3>2
  <2>9. Sorted(s[m + 1])  BY <1>2, <2>2
  <2>10. Sorted(flat[m] \o s[m + 1])  BY <2>3, <2>6, <2>8, <2>9, SortedConcat
  <2> HIDE DEF upto
  <2>11. QED  BY <2>4, <2>5, <2>6, <2>7, <2>10
<1>5. n \in N
  <2> HIDE DEF N
  <2>1. N \subseteq Nat  BY DEF N
  <2>2. QED  BY <1>2, <1>3, <1>4, <2>1, Induction
<1>6. Sorted(flat[n])  BY <1>2, <1>5
<1>7. QED  BY <1>1, <1>6

(* Where each of them starts.                                              *)
Starts(s) ==
  LET g[k \in 0 .. Len(s)] == IF k = 0 THEN 0 ELSE g[k - 1] + Len(s[k]) IN g

LEMMA FlattenStarts ==
  ASSUME NEW S, NEW s \in Seq(Seq(S))
  PROVE  /\ Starts(s) \in [0 .. Len(s) -> Nat] /\ Starts(s)[0] = 0
         /\ Starts(s)[Len(s)] = Len(FlattenSeq(s))
         /\ \A k \in 1 .. Len(s) :
              /\ Starts(s)[k] = Starts(s)[k - 1] + Len(s[k])
              /\ Starts(s)[k] <= Len(FlattenSeq(s))
              /\ \A j \in 1 .. Len(s[k]) : FlattenSeq(s)[Starts(s)[k - 1] + j] = s[k][j]
<1> DEFINE n == Len(s)
           F(g) == g = [k \in 0 .. n |-> IF k = 0 THEN 0 ELSE g[k - 1] + Len(s[k])]
<1>1. PICK flat \in [0 .. n -> Seq(S)] :
        /\ flat[0] = << >>
        /\ \A k \in 1 .. n : flat[k] = flat[k - 1] \o s[k]
        /\ FlattenSeq(s) = flat[n]
  BY FlattenPrefixes
<1>2. n \in Nat /\ \A k \in 1 .. n : s[k] \in Seq(S) /\ Len(s[k]) \in Nat  OBVIOUS
<1> DEFINE h == [k \in 0 .. n |-> Len(flat[k])]
           g == CHOOSE g : F(g)
<1>3. Starts(s) = g  BY DEF Starts
<1> HIDE DEF n
<1>4. ASSUME NEW k \in 1 .. n
      PROVE  /\ k - 1 \in 0 .. n /\ k \in 0 .. n /\ flat[k - 1] \in Seq(S)
             /\ Len(flat[k]) = Len(flat[k - 1]) + Len(s[k])
  <2>1. k - 1 \in 0 .. n /\ k \in 0 .. n  BY <1>2
  <2>2. flat[k - 1] \in Seq(S) /\ s[k] \in Seq(S)  BY <1>1, <1>2, <2>1
  <2>3. flat[k] = flat[k - 1] \o s[k]  BY <1>1
  <2>4. QED  BY <2>1, <2>2, <2>3, ConcatProperties
<1>5. F(h)
  <2>1. ASSUME NEW k \in 0 .. n
        PROVE  h[k] = IF k = 0 THEN 0 ELSE h[k - 1] + Len(s[k])
    <3>1. CASE k = 0
      <4>1. h[k] = Len(flat[0])  BY <3>1
      <4>2. QED  BY <1>1, <3>1, <4>1
    <3>2. CASE k # 0
      <4>1. k \in 1 .. n  BY <1>2, <3>2
      <4>2. h[k] = Len(flat[k]) /\ h[k - 1] = Len(flat[k - 1])  BY <1>4, <4>1
      <4>3. h[k] = h[k - 1] + Len(s[k])  BY <1>4, <4>1, <4>2
      <4>4. QED  BY <3>2, <4>3
    <3>3. QED  BY <3>1, <3>2
  <2>2. h = [k \in 0 .. n |-> h[k]]  OBVIOUS
  <2> HIDE DEF h
  <2>3. QED  BY <2>1, <2>2
<1>6. F(g)
  <2> HIDE DEF F, h
  <2>1. QED  BY <1>5
<1> HIDE DEF g
<1> DEFINE N == {m \in Nat : m <= n => g[m] = Len(flat[m])}
<1>7. 0 \in N
  <2>1. 0 \in 0 .. n  BY <1>2
  <2>2. g[0] = 0  BY <1>6, <2>1
  <2>3. Len(flat[0]) = 0  BY <1>1
  <2>4. QED  BY <2>2, <2>3
<1>8. ASSUME NEW m \in N  PROVE m + 1 \in N
  <2>1. SUFFICES ASSUME m + 1 <= n  PROVE g[m + 1] = Len(flat[m + 1])  OBVIOUS
  <2>2. m \in Nat /\ m <= n /\ m + 1 \in 1 .. n /\ m + 1 \in 0 .. n /\ (m + 1) - 1 = m
    <3>1. m \in Nat  OBVIOUS
    <3> HIDE DEF N
    <3>2. QED  BY <1>2, <2>1, <3>1
  <2>3. g[m + 1] = g[(m + 1) - 1] + Len(s[m + 1])
    <3>1. m + 1 # 0  BY <2>2
    <3>2. g[m + 1] = IF m + 1 = 0 THEN 0 ELSE g[(m + 1) - 1] + Len(s[m + 1])
      BY <1>6, <2>2
    <3>3. QED  BY <3>1, <3>2
  <2>4. g[m] = Len(flat[m])  BY <2>2
  <2>5. Len(flat[m + 1]) = Len(flat[(m + 1) - 1]) + Len(s[m + 1])  BY <1>4, <2>2
  <2> HIDE DEF N
  <2>6. g[(m + 1) - 1] = Len(flat[(m + 1) - 1])  BY <2>2, <2>4
  <2>7. QED  BY <2>3, <2>5, <2>6
<1>9. ASSUME NEW k \in 0 .. n  PROVE g[k] = Len(flat[k]) /\ g[k] \in Nat
  <2>1. N = Nat
    <3> HIDE DEF N
    <3>1. N \subseteq Nat  BY DEF N
    <3>2. QED  BY <1>7, <1>8, <3>1, Induction
  <2>2. k \in Nat /\ k <= n  BY <1>2
  <2>3. k \in N
    <3> HIDE DEF N
    <3>1. QED  BY <2>1, <2>2
  <2>4. g[k] = Len(flat[k])  BY <2>2, <2>3
  <2>5. flat[k] \in Seq(S)  BY <1>1
  <2>6. QED  BY <2>4, <2>5, LenProperties
<1> HIDE DEF N
<1>10. ASSUME NEW k \in 1 .. n  PROVE g[k] = g[k - 1] + Len(s[k])
  BY <1>4, <1>9
<1> DEFINE M == {m \in Nat : m <= n => \A k \in 1 .. m :
                    /\ g[k] <= g[m]
                    /\ \A j \in 1 .. Len(s[k]) : flat[m][g[k - 1] + j] = s[k][j]}
<1>11. 0 \in M  OBVIOUS
<1>12. ASSUME NEW m \in M  PROVE m + 1 \in M
  <2>1. SUFFICES ASSUME m + 1 <= n, NEW k \in 1 .. m + 1
                 PROVE  /\ g[k] <= g[m + 1]
                        /\ \A j \in 1 .. Len(s[k]) : flat[m + 1][g[k - 1] + j] = s[k][j]
    OBVIOUS
  <2>2. /\ m \in Nat /\ m <= n /\ m + 1 \in 1 .. n /\ m \in 0 .. n /\ m + 1 \in 0 .. n
        /\ (m + 1) - 1 = m
    <3>1. m \in Nat  OBVIOUS
    <3> HIDE DEF M
    <3>2. QED  BY <1>2, <2>1, <3>1
  <2>3. \A i \in 1 .. m : /\ g[i] <= g[m]
                         /\ \A j \in 1 .. Len(s[i]) : flat[m][g[i - 1] + j] = s[i][j]
    BY <2>2
  <2> HIDE DEF M, F, h
  <2>4. flat[m] \in Seq(S) /\ s[m + 1] \in Seq(S)  BY <1>1, <1>2, <2>2
  <2>5. flat[m + 1] = flat[m] \o s[m + 1]
    <3>1. flat[m + 1] = flat[(m + 1) - 1] \o s[m + 1]  BY <1>1, <2>2
    <3>2. QED  BY <3>1, <2>2
  <2>6. g[m + 1] = g[m] + Len(s[m + 1])
    <3>1. g[m + 1] = g[(m + 1) - 1] + Len(s[m + 1])  BY <1>10, <2>2
    <3>2. QED  BY <3>1, <2>2
  <2>7. g[m] = Len(flat[m]) /\ g[m] \in Nat /\ g[m + 1] \in Nat /\ Len(s[m + 1]) \in Nat
    BY <1>2, <1>9, <2>2
  <2> DEFINE before == g[m]
             more == Len(s[m + 1])
             after == g[m + 1]
             before_k == g[k - 1]
             more_k == Len(s[k])
             after_k == g[k]
  <2>8. /\ before \in Nat /\ more \in Nat /\ after \in Nat /\ after = before + more
        /\ Len(flat[m]) = before
    BY <2>6, <2>7
  <2>9. CASE k = m + 1
    <3>1. k - 1 = m  BY <2>2, <2>9
    <3>2. ASSUME NEW j \in 1 .. more  PROVE flat[m + 1][before + j] = s[m + 1][j]
      <4> HIDE DEF before, more, after
      <4>1. before + j \in 1 .. before + more /\ before + j > before /\ (before + j) - before = j
        BY <2>8
      <4>2. \A i \in 1 .. Len(flat[m]) + Len(s[m + 1]) :
              (flat[m] \o s[m + 1])[i] =
                IF i <= Len(flat[m]) THEN flat[m][i] ELSE s[m + 1][i - Len(flat[m])]
        BY <2>4, ConcatProperties
      <4>3. (flat[m] \o s[m + 1])[before + j] =
              IF before + j <= before THEN flat[m][before + j] ELSE s[m + 1][(before + j) - before]
        BY <2>8, <4>1, <4>2 DEF more
      <4>4. ~(before + j <= before)  BY <2>8, <4>1
      <4>5. QED  BY <2>5, <4>1, <4>3, <4>4
    <3>3. g[k] <= g[m + 1]
      <4>1. after <= after
        <5> HIDE DEF after
        <5>1. QED  BY <2>8
      <4>2. QED  BY <2>9, <4>1
    <3>4. QED  BY <2>9, <3>1, <3>2, <3>3
  <2>10. CASE k # m + 1
    <3>1. k \in 1 .. m /\ k \in 1 .. n  BY <1>2, <2>1, <2>2, <2>10
    <3>2. after_k <= before  BY <2>3, <3>1
    <3>3. k \in 0 .. n /\ k - 1 \in 0 .. n  BY <1>4, <3>1
    <3>4. after_k \in Nat /\ before_k \in Nat  BY <1>9, <3>3
    <3>5. after_k = before_k + more_k /\ more_k \in Nat  BY <1>2, <1>10, <3>1
    <3>6. g[k] <= g[m + 1]
      <4>1. after_k <= after
        <5> HIDE DEF before, more, after, after_k
        <5>1. QED  BY <2>8, <3>2, <3>4
      <4>2. QED  BY <4>1
    <3>7. ASSUME NEW j \in 1 .. more_k  PROVE flat[m + 1][before_k + j] = s[k][j]
      <4> HIDE DEF before, more, after, after_k, before_k, more_k
      <4>1. before_k + j \in 1 .. before + more /\ before_k + j <= before
        BY <2>8, <3>2, <3>4, <3>5
      <4>2. \A i \in 1 .. Len(flat[m]) + Len(s[m + 1]) :
              (flat[m] \o s[m + 1])[i] =
                IF i <= Len(flat[m]) THEN flat[m][i] ELSE s[m + 1][i - Len(flat[m])]
        BY <2>4, ConcatProperties
      <4>3. (flat[m] \o s[m + 1])[before_k + j] = flat[m][before_k + j]
        BY <2>8, <4>1, <4>2 DEF more
      <4>4. flat[m][before_k + j] = s[k][j]  BY <2>3, <3>1 DEF before_k, more_k
      <4>5. QED  BY <2>5, <4>3, <4>4
    <3>8. QED  BY <3>6, <3>7
  <2>11. QED  BY <2>9, <2>10
<1>13. n \in M
  <2> HIDE DEF M
  <2>1. M \subseteq Nat  BY DEF M
  <2>2. QED  BY <1>2, <1>11, <1>12, <2>1, Induction
<1>14. \A k \in 1 .. n : /\ g[k] <= g[n]
                        /\ \A j \in 1 .. Len(s[k]) : flat[n][g[k - 1] + j] = s[k][j]
  BY <1>2, <1>13
<1> HIDE DEF M
<1>15. 0 \in 0 .. n /\ n \in 0 .. n  BY <1>2
<1>16. g[0] = 0  BY <1>6, <1>15
<1>17. g \in [0 .. n -> Nat]
  <2>1. \A k \in 0 .. n : g[k] \in Nat  BY <1>9
  <2> HIDE DEF h
  <2>2. g = [k \in 0 .. n |-> g[k]]  BY <1>6
  <2>3. QED  BY <2>1, <2>2
<1>18. g[n] = Len(FlattenSeq(s))  BY <1>1, <1>9, <1>15
<1> HIDE DEF F
<1>19. QED  BY <1>1, <1>3, <1>10, <1>14, <1>16, <1>17, <1>18 DEF n

-------------------------------------------------------------------------------
(* The bus, and what is read from it.                                      *)
Places == Nat \X Nat \X Nat \X Nat

(* The places of the settings that DfuPlaces is to name.                   *)
Here ==
  {at \in Places :
     /\ at[1] = dev /\ at[2] = cfg_idx
     /\ at[3] \in DOMAIN config.interfaces
     /\ at[4] \in DOMAIN config.interfaces[at[3]]
     /\ config.interfaces[at[3]][at[4]].dfuClass}

Quirks == {row.quirk : row \in QuirkTable}

Results == [at : Places, dfu : BOOLEAN, func_dfu : FuncDescriptors, quirks : SUBSET Quirks]

WithConfig == {"scanConfig", "scanSetting", "ask", "asked", "settings", "identify"}
WithTodo == {"scanSetting", "asked", "settings", "identify"}

Types ==
  /\ search \in Searches
  /\ pc \in {"device", "config", "done"} \cup WithConfig
  /\ dev \in 0 .. Len(search.bus)
  /\ pc \notin {"device", "done"} => dev # 0
  /\ dev # 0 => cfg_idx \in 0 .. Len(desc.configs)
  /\ pc \in WithConfig => cfg_idx # 0
  /\ p \in Nat
  /\ func_dfu \in FuncDescriptors
  /\ refs \in [DOMAIN search.bus -> Nat]
  /\ results \in Seq(Results)

AtHand ==
  /\ pc \in WithTodo => todo \in Seq(Here)
  /\ pc \in {"scanSetting", "identify"} => todo # << >>

Held ==
  /\ cfg \in BOOLEAN /\ devh \in BOOLEAN
  /\ cfg <=> pc \in WithConfig
  /\ devh <=> pc \in {"asked", "identify"}

Found(d) == {k \in DOMAIN results : results[k].at[1] = d}

Referenced == \A d \in DOMAIN refs : refs[d] = Cardinality(Found(d))

IInv == Types /\ AtHand /\ Held /\ Referenced

LEMMA BusTypes ==
  ASSUME search \in Searches
  PROVE  search.f \in Filters /\ search.bus \in Seq(USBDevices)
BY SearchesAssumption

LEMMA DeviceTypes ==
  ASSUME search \in Searches, NEW d \in 1 .. Len(search.bus)
  PROVE  /\ search.bus[d] \in USBDevices
         /\ search.bus[d].configs \in Seq(Configurations)
         /\ search.bus[d].answer \in Seq(Byte)
<1>1. search.bus[d] \in USBDevices  BY BusTypes
<1>2. QED  BY <1>1 DEF USBDevices

LEMMA ConfigTypes ==
  ASSUME Types, pc \in WithConfig
  PROVE  /\ dev \in 1 .. Len(search.bus) /\ dev \in DOMAIN search.bus
         /\ cfg_idx \in 1 .. Len(desc.configs)
         /\ desc \in USBDevices /\ desc.answer \in Seq(Byte)
         /\ config \in Configurations
         /\ config.extra \in Seq(Seq(Byte))
         /\ config.interfaces \in Seq(Seq(Settings))
<1>1. search \in Searches  BY DEF Types
<1>2. search.bus \in Seq(USBDevices)  BY <1>1, BusTypes
<1>3. Len(search.bus) \in Nat /\ DOMAIN search.bus = 1 .. Len(search.bus)
  BY <1>2, LenProperties
<1>4. dev \in 1 .. Len(search.bus)  BY <1>3 DEF Types, WithConfig
<1>5. /\ desc \in USBDevices /\ desc.answer \in Seq(Byte)
      /\ desc.configs \in Seq(Configurations)
  BY <1>1, <1>4, DeviceTypes DEF desc
<1>6. Len(desc.configs) \in Nat  BY <1>5, LenProperties
<1>7. cfg_idx \in 1 .. Len(desc.configs)  BY <1>4, <1>6 DEF Types, WithConfig
<1>8. config \in Configurations  BY <1>5, <1>7 DEF config
<1>9. QED  BY <1>3, <1>4, <1>5, <1>7, <1>8 DEF Configurations

LEMMA HereTypes ==
  ASSUME Types, pc \in WithConfig, NEW at \in Here
  PROVE  /\ at[1] = dev /\ at[2] = cfg_idx /\ at \in Places
         /\ Setting(at) \in Settings /\ Setting(at).dfuClass
         /\ Setting(at).extra \in Seq(Seq(Byte))
<1>1. config.interfaces \in Seq(Seq(Settings))  BY ConfigTypes
<1>2. /\ at \in Places /\ at[1] = dev /\ at[2] = cfg_idx
      /\ at[3] \in DOMAIN config.interfaces
      /\ at[4] \in DOMAIN config.interfaces[at[3]]
      /\ config.interfaces[at[3]][at[4]].dfuClass
  BY DEF Here
<1>3. config.interfaces[at[3]] \in Seq(Settings)  BY <1>1, <1>2
<1>4. config.interfaces[at[3]][at[4]] \in Settings  BY <1>2, <1>3
<1>5. Setting(at) = config.interfaces[at[3]][at[4]]  BY <1>2 DEF Setting, config, desc
<1>6. QED  BY <1>2, <1>4, <1>5 DEF Settings

LEMMA DfuPlacesType ==
  ASSUME Types, pc \in WithConfig
  PROVE  DfuPlaces \in Seq(Here)
<1> DEFINE one(i, a) == IF config.interfaces[i][a].dfuClass THEN <<<<dev, cfg_idx, i, a>>>>
                        ELSE << >>
           ofInterface(i) == [a \in DOMAIN config.interfaces[i] |-> one(i, a)]
           all == [i \in DOMAIN config.interfaces |-> FlattenSeq(ofInterface(i))]
<1>1. config.interfaces \in Seq(Seq(Settings)) /\ dev \in Nat /\ cfg_idx \in Nat
  BY ConfigTypes
<1>0. DOMAIN config.interfaces = 1 .. Len(config.interfaces) /\ Len(config.interfaces) \in Nat
  BY <1>1, LenProperties
<1>2. ASSUME NEW i \in DOMAIN config.interfaces
      PROVE  FlattenSeq(ofInterface(i)) \in Seq(Here)
  <2>1. config.interfaces[i] \in Seq(Settings) /\ i \in Nat  BY <1>1
  <2>2. DOMAIN config.interfaces[i] = 1 .. Len(config.interfaces[i])
    BY <2>1, LenProperties
  <2>3. ASSUME NEW a \in DOMAIN config.interfaces[i]  PROVE one(i, a) \in Seq(Here)
    <3>1. a \in Nat  BY <2>1, <2>2
    <3>2. CASE config.interfaces[i][a].dfuClass
      <4>1. <<dev, cfg_idx, i, a>> \in Here  BY <1>1, <2>1, <3>1, <3>2 DEF Here, Places
      <4>2. QED  BY <3>2, <4>1
    <3>3. CASE ~config.interfaces[i][a].dfuClass  BY <3>3
    <3>4. QED  BY <3>2, <3>3
  <2> HIDE DEF one
  <2>4. ofInterface(i) \in Seq(Seq(Here))  BY <2>1, <2>2, <2>3
  <2>5. QED  BY <2>4, FlattenType
<1> HIDE DEF ofInterface
<1>3. all \in Seq(Seq(Here))  BY <1>0, <1>2
<1> HIDE DEF all
<1>4. FlattenSeq(all) \in Seq(Here)  BY <1>3, FlattenType
<1>5. QED  BY <1>4 DEF DfuPlaces, all, ofInterface

LEMMA OtherInterfacesType ==
  ASSUME NEW S, NEW places \in Seq(S)
  PROVE  OtherInterfaces(places) \in Seq(S)
<1> DEFINE kept(k) == IF places[k][3] = Head(places)[3] THEN << >> ELSE <<places[k]>>
           all == [k \in DOMAIN places |-> kept(k)]
<1>1. \A k \in DOMAIN places : kept(k) \in Seq(S)  OBVIOUS
<1> HIDE DEF kept
<1>2. all \in Seq(Seq(S))  BY <1>1
<1> HIDE DEF all
<1>3. FlattenSeq(all) \in Seq(S)  BY <1>2, FlattenType
<1>4. QED  BY <1>3 DEF OtherInterfaces, all, kept

-------------------------------------------------------------------------------
(* Descriptors.                                                            *)
LEMMA TopOfWords == FFFF = 65535
BY DEF FFFF

LEMMA BoundsOfByte ==
  ASSUME NEW b \in Byte
  PROVE  b \in Int /\ 0 <= b /\ b <= 255
BY DEF Byte

LEMMA SumInWords ==
  \A low, high \in Int :
    0 <= low /\ low <= 255 /\ 0 <= high /\ high <= 255 => low + 256 * high \in Words
<1> SUFFICES ASSUME NEW low \in Int, NEW high \in Int,
                    0 <= low, low <= 255, 0 <= high, high <= 255
             PROVE  low + 256 * high \in Words
  OBVIOUS
<1>1. FFFF \in Int  BY TopOfWords
<1>2. 0 <= low + 256 * high /\ low + 256 * high <= FFFF  BY TopOfWords
<1>3. QED  BY <1>1, <1>2 DEF Words

LEMMA ReadType ==
  ASSUME NEW data \in Seq(Byte), NEW i \in Nat \ {0}, i + 1 <= Len(data)
  PROVE  read_u16l(data, i) \in Words
<1>1. data[i] \in Byte /\ data[i + 1] \in Byte  OBVIOUS
<1>2. QED  BY <1>1, BoundsOfByte, SumInWords DEF read_u16l

LEMMA SmallNumbers == {0, 7} \subseteq Byte /\ {0, \h0100, \h0110} \subseteq Words
<1>1. 0 \in Byte /\ 7 \in Byte  BY DEF Byte
<1>2. 0 \in Words /\ \h0100 \in Words /\ \h0110 \in Words  BY TopOfWords DEF Words
<1>3. QED  BY <1>1, <1>2

(* parse gives a descriptor, however few bytes there are.                  *)
LEMMA ParseType ==
  ASSUME NEW data \in Seq(Byte)
  PROVE  parse(data) \in FuncDescriptors
<1> DEFINE u8(i) == IF i <= Len(data) THEN data[i] ELSE 0
           u16(i) == IF i + 1 <= Len(data) THEN read_u16l(data, i) ELSE 0
<1>1. ASSUME NEW i \in Nat \ {0}  PROVE u8(i) \in Byte
  BY <1>1, SmallNumbers
<1>2. ASSUME NEW i \in Nat \ {0}  PROVE u16(i) \in Words
  <2>1. CASE i + 1 <= Len(data)  BY <1>2, <2>1, ReadType
  <2>2. CASE ~(i + 1 <= Len(data))  BY <2>2, SmallNumbers
  <2>3. QED  BY <2>1, <2>2
<1> HIDE DEF u8, u16
<1>3. [bLength |-> u8(1), bDescriptorType |-> u8(2), bmAttributes |-> u8(3),
       wDetachTimeOut |-> u16(4), wTransferSize |-> u16(6), bcdDFUVersion |-> u16(8)]
      \in FuncDescriptors
  BY <1>1, <1>2 DEF FuncDescriptors
<1>4. QED  BY <1>3 DEF parse, u8, u16

LEMMA ChangedType ==
  ASSUME NEW e \in FuncDescriptors, NEW n \in Byte, NEW x \in Words, NEW y \in Words
  PROVE  /\ [e EXCEPT !.bcdDFUVersion = y] \in FuncDescriptors
         /\ [e EXCEPT !.bcdDFUVersion = y, !.wTransferSize = x] \in FuncDescriptors
         /\ [e EXCEPT !.bLength = n, !.bcdDFUVersion = y] \in FuncDescriptors
<1>1. [e EXCEPT !.bcdDFUVersion = y] \in FuncDescriptors
  BY DEF FuncDescriptors
<1>2. [e EXCEPT !.bcdDFUVersion = y, !.wTransferSize = x] \in FuncDescriptors
  BY DEF FuncDescriptors
<1>3. [e EXCEPT !.bLength = n, !.bcdDFUVersion = y] \in FuncDescriptors
  BY DEF FuncDescriptors
<1>4. QED  BY <1>1, <1>2, <1>3

LEMMA CompletedType ==
  ASSUME NEW d \in FuncDescriptors
  PROVE  Completed(d) \in FuncDescriptors /\ Completed(Fake(d)) \in FuncDescriptors
<1> DEFINE zero == 0
           seven == 7
           version == \h0100
<1>1. seven \in Byte /\ zero \in Words /\ version \in Words  BY SmallNumbers
<1> HIDE DEF zero, seven, version
<1>2. ASSUME NEW e \in FuncDescriptors  PROVE Completed(e) \in FuncDescriptors
  <2>1. [e EXCEPT !.bcdDFUVersion = version] \in FuncDescriptors
    BY <1>1, ChangedType
  <2>2. [e EXCEPT !.bcdDFUVersion = version, !.wTransferSize = zero] \in FuncDescriptors
    BY <1>1, ChangedType
  <2>3. Completed(e) \in {[e EXCEPT !.bcdDFUVersion = version],
                          [e EXCEPT !.bcdDFUVersion = version, !.wTransferSize = zero], e}
    BY DEF Completed, version, zero
  <2>4. QED  BY <2>1, <2>2, <2>3
<1>3. [d EXCEPT !.bLength = seven, !.bcdDFUVersion = version] \in FuncDescriptors
  BY <1>1, ChangedType
<1>4. Fake(d) \in FuncDescriptors  BY <1>3 DEF Fake, seven, version
<1>5. QED  BY <1>2, <1>4

LEMMA ClearedType == cleared \in FuncDescriptors
BY SmallNumbers DEF cleared, FuncDescriptors

(* The list that is walked holds bytes, and what is taken of it lies in it. *)
LEMMA ListType ==
  ASSUME Types, AtHand, pc \in {"scanConfig", "scanSetting"}
  PROVE  list \in Seq(Byte)
<1>1. CASE pc = "scanConfig"
  <2>1. config.extra \in Seq(Seq(Byte))  BY <1>1, ConfigTypes DEF WithConfig
  <2>2. list = FlattenSeq(config.extra)  BY <1>1 DEF list
  <2>3. QED  BY <2>1, <2>2, FlattenType
<1>2. CASE pc = "scanSetting"
  <2>1. todo \in Seq(Here) /\ todo # << >>  BY <1>2 DEF AtHand, WithTodo
  <2>2. Head(todo) \in Here  BY <2>1
  <2>3. Setting(Head(todo)).extra \in Seq(Seq(Byte))
    BY <1>2, <2>2, HereTypes DEF WithConfig
  <2>4. list = FlattenSeq(Setting(Head(todo)).extra)  BY <1>2 DEF list
  <2>5. QED  BY <2>3, <2>4, FlattenType
<1>3. QED  BY <1>1, <1>2

(* Even the last descriptor is taken from within the list.                 *)
LEMMA TakenFits ==
  ASSUME Types, AtHand, Scanning, HasNext
  PROVE  parse(SubSeq(list, p + 1, p + Taken)) \in FuncDescriptors
<1>1. list \in Seq(Byte)  BY ListType DEF Scanning
<1>2. p \in Nat /\ Len(list) \in Nat /\ p + 1 < Len(list)
  BY <1>1, LenProperties DEF Types, HasNext
<1>3. list[p + 1] \in Byte  BY <1>1, <1>2
<1>4. list[p + 1] \in Int /\ 0 <= list[p + 1]  BY <1>3, BoundsOfByte
<1> DEFINE n == list[p + 1]
           left == Len(list) - p
<1>5. n \in Int /\ 0 <= n /\ left \in Int /\ 0 <= left  BY <1>2, <1>4
<1>6. Taken = CHOOSE x \in {n, 9, left} : \A y \in {n, 9, left} : x <= y
  BY DEF Taken, Min, sizeInBytes
<1> HIDE DEF n, left
<1>7. \E x \in {n, 9, left} : \A y \in {n, 9, left} : x <= y  BY <1>5
<1>8. Taken \in {n, 9, left} /\ \A y \in {n, 9, left} : Taken <= y  BY <1>6, <1>7
<1>9. Taken \in Int /\ 0 <= Taken /\ Taken <= left  BY <1>5, <1>8
<1>10. p + 1 \in 1 .. Len(list) + 1 /\ p + Taken \in (p + 1) - 1 .. Len(list)
  BY <1>2, <1>9 DEF left
<1>11. SubSeq(list, p + 1, p + Taken) \in Seq(Byte)
  BY <1>1, <1>10, SubSeqProperties
<1>12. QED  BY <1>11, ParseType

-------------------------------------------------------------------------------
(* The inductive invariant.                                                *)
LEMMA SamePlace ==
  ASSUME UNCHANGED <<search, dev, cfg_idx>>
  PROVE  Here' = Here /\ desc' = desc /\ f' = f
<1>1. desc' = desc /\ f' = f  BY DEF desc, f
<1>2. config' = config  BY <1>1 DEF config
<1>3. QED  BY <1>1, <1>2 DEF Here

(* Types after a step that stays with the configuration.                   *)
LEMMA TypesKept ==
  ASSUME Types, UNCHANGED <<search, dev, cfg_idx>>,
         pc \in {"config"} \cup WithConfig,
         pc' \in {"device", "config"} \cup WithConfig,
         pc' \in WithConfig => pc \in WithConfig,
         p' \in Nat, func_dfu' \in FuncDescriptors,
         refs' \in [DOMAIN search.bus -> Nat], results' \in Seq(Results)
  PROVE  Types'
<1>1. desc' = desc  BY SamePlace
<1>2. search' \in Searches /\ dev' \in 0 .. Len(search'.bus)  BY DEF Types
<1>3. pc' \in {"device", "config", "done"} \cup WithConfig  OBVIOUS
<1>4. dev' # 0  BY DEF Types, WithConfig
<1>5. cfg_idx' \in 0 .. Len(desc'.configs)  BY <1>1, <1>4 DEF Types
<1>6. pc' \in WithConfig => cfg_idx' # 0  BY DEF Types
<1>7. refs' \in [DOMAIN search'.bus -> Nat]  OBVIOUS
<1>8. QED  BY <1>2, <1>3, <1>4, <1>5, <1>6, <1>7 DEF Types

LEMMA ReferencedKept ==
  ASSUME Referenced, UNCHANGED <<refs, results>>
  PROVE  Referenced'
BY DEF Referenced, Found

LEMMA InitHolds ==
  ASSUME Init
  PROVE  IInv
<1>1. search.bus \in Seq(USBDevices)  BY BusTypes DEF Init
<1>2. Len(search.bus) \in Nat  BY <1>1, LenProperties
<1>3. refs \in [DOMAIN search.bus -> Nat]  BY DEF Init
<1>4. results \in Seq(Results)  BY DEF Init
<1>5. Types  BY <1>2, <1>3, <1>4, ClearedType DEF Init, Types, WithConfig
<1>6. AtHand /\ Held  BY DEF Init, AtHand, Held, WithTodo, WithConfig
<1>7. Referenced
  <2>1. ASSUME NEW d \in DOMAIN refs  PROVE refs[d] = 0 /\ Found(d) = {}
    BY <2>1 DEF Init, Found
  <2>2. QED  BY <2>1, FS_EmptySet DEF Referenced
<1>8. QED  BY <1>5, <1>6, <1>7 DEF IInv

LEMMA NextDeviceStep ==
  ASSUME IInv, NextDevice
  PROVE  IInv'
<1>1. search.bus \in Seq(USBDevices) /\ search \in Searches  BY BusTypes DEF IInv, Types
<1>2. dev' \in 1 .. Len(search.bus) /\ dev' # 0
  BY <1>1, LenProperties DEF IInv, Types, NextDevice
<1>3. desc'.configs \in Seq(Configurations)
  BY <1>1, <1>2, DeviceTypes DEF NextDevice, desc
<1>4. 0 \in 0 .. Len(desc'.configs)  BY <1>3, LenProperties
<1>5. Types'
  <2>1. pc' \in {"device", "config"}  BY DEF NextDevice
  <2>2. UNCHANGED <<search, p, func_dfu, refs, results>>  BY DEF NextDevice, held
  <2>3. cfg_idx' = 0  BY DEF NextDevice
  <2>4. dev' \in 0 .. Len(search.bus)  BY <1>1, <1>2, LenProperties
  <2>5. QED  BY <1>2, <1>4, <2>1, <2>2, <2>3, <2>4 DEF IInv, Types, WithConfig
<1>6. AtHand' /\ Held'
  BY DEF NextDevice, IInv, AtHand, Held, held, WithTodo, WithConfig
<1>7. Referenced'  BY ReferencedKept DEF NextDevice, held, IInv
<1>8. QED  BY <1>5, <1>6, <1>7 DEF IInv

LEMMA EndOfListStep ==
  ASSUME IInv, EndOfList
  PROVE  IInv'
<1>1. desc' = desc  BY SamePlace DEF EndOfList
<1>2. Types'  BY <1>1 DEF EndOfList, held, IInv, Types, WithConfig
<1>3. AtHand' /\ Held'
  BY DEF EndOfList, IInv, AtHand, Held, held, WithTodo, WithConfig
<1>4. Referenced'  BY ReferencedKept DEF EndOfList, held, IInv
<1>5. QED  BY <1>2, <1>3, <1>4 DEF IInv

LEMMA NextConfigStep ==
  ASSUME IInv, NextConfig
  PROVE  IInv'
<1>1. search.bus \in Seq(USBDevices) /\ search \in Searches  BY BusTypes DEF IInv, Types
<1>2. dev \in 1 .. Len(search.bus) /\ dev # 0
  BY <1>1, LenProperties DEF IInv, Types, NextConfig
<1>3. desc.configs \in Seq(Configurations)  BY <1>1, <1>2, DeviceTypes DEF desc
<1>4. Len(desc.configs) \in Nat  BY <1>3, LenProperties
<1>5. cfg_idx' \in 0 .. Len(desc.configs) /\ cfg_idx' # 0
  BY <1>2, <1>4 DEF IInv, Types, NextConfig
<1>6. /\ pc' \in {"device", "config", "scanConfig"}
      /\ cfg' = (pc' = "scanConfig")
  BY DEF NextConfig, GetConfig, SkipConfig, IInv, Held, WithConfig
<1>7. Types'
  <2>1. desc' = desc  BY DEF NextConfig, desc
  <2>2. UNCHANGED <<search, dev, refs, results>> /\ p' = 0  BY DEF NextConfig
  <2>3. func_dfu' \in FuncDescriptors  BY ClearedType DEF NextConfig, FreshDescriptor
  <2>4. QED  BY <1>2, <1>5, <1>6, <2>1, <2>2, <2>3 DEF IInv, Types, WithConfig
<1>8. AtHand'  BY <1>6 DEF AtHand, WithTodo
<1>9. Held'  BY <1>6 DEF NextConfig, IInv, Held, WithConfig
<1>10. Referenced'  BY ReferencedKept DEF NextConfig, IInv
<1>11. QED  BY <1>7, <1>8, <1>9, <1>10 DEF IInv

LEMMA EndOfConfigsStep ==
  ASSUME IInv, EndOfConfigs
  PROVE  IInv'
<1>1. Types'  BY TypesKept DEF EndOfConfigs, held, IInv, Types, WithConfig
<1>2. AtHand' /\ Held'
  BY DEF EndOfConfigs, IInv, AtHand, Held, held, WithTodo, WithConfig
<1>3. Referenced'  BY ReferencedKept DEF EndOfConfigs, held, IInv
<1>4. QED  BY <1>1, <1>2, <1>3 DEF IInv

LEMMA PassDescriptorStep ==
  ASSUME IInv, PassDescriptor
  PROVE  IInv'
<1>1. list \in Seq(Byte)  BY ListType DEF PassDescriptor, Scanning, IInv
<1>2. p \in Nat /\ p + 1 < Len(list)  BY DEF IInv, Types, PassDescriptor, HasNext
<1>3. p' = p + list[p + 1]  BY DEF PassDescriptor
<1>4. list[p + 1] \in Byte  BY <1>1, <1>2, LenProperties
<1>5. list[p + 1] \in Nat  BY <1>4, BoundsOfByte
<1>6. p' \in Nat  BY <1>2, <1>3, <1>5
<1>7. pc \in WithConfig  BY DEF PassDescriptor, Scanning, WithConfig
<1>8. Types'  BY <1>6, <1>7, TypesKept DEF PassDescriptor, held, IInv, Types
<1>9. Here' = Here  BY SamePlace DEF PassDescriptor
<1>10. AtHand' /\ Held'  BY <1>9 DEF PassDescriptor, IInv, AtHand, Held, held
<1>11. Referenced'  BY ReferencedKept DEF PassDescriptor, held, IInv
<1>12. QED  BY <1>8, <1>10, <1>11 DEF IInv

LEMMA FindDescriptorStep ==
  ASSUME IInv, FindDescriptor
  PROVE  IInv'
<1>1. Scanning /\ HasNext /\ pc \in WithConfig
  BY DEF FindDescriptor, Scanning, WithConfig
<1>2. func_dfu' \in FuncDescriptors
  BY <1>1, TakenFits, CompletedType DEF FindDescriptor, IInv
<1>3. Types'
  BY <1>1, <1>2, TypesKept DEF FindDescriptor, held, IInv, Types, WithConfig
<1>4. Here' = Here  BY SamePlace DEF FindDescriptor
<1>5. todo' \in Seq(Here)  BY <1>1, DfuPlacesType DEF FindDescriptor, IInv
<1>6. AtHand'  BY <1>4, <1>5 DEF FindDescriptor, AtHand
<1>7. Held'  BY <1>1 DEF FindDescriptor, Scanning, IInv, Held, held, WithConfig
<1>8. Referenced'  BY ReferencedKept DEF FindDescriptor, held, IInv
<1>9. QED  BY <1>3, <1>6, <1>7, <1>8 DEF IInv

LEMMA NoDescriptorStep ==
  ASSUME IInv, NoDescriptor
  PROVE  IInv'
<1>1. pc \in {"scanConfig", "scanSetting"} /\ pc \in WithConfig
  BY DEF NoDescriptor, Scanning, WithConfig
<1>2. /\ pc' \in {"scanSetting", "ask", "config"}
      /\ cfg' = (pc' # "config")
      /\ pc' = "scanSetting" => todo' # << >>
  BY <1>1 DEF NoDescriptor, FreeConfig, IInv, Held
<1>3. Types'
  BY <1>1, <1>2, TypesKept DEF NoDescriptor, IInv, Types, WithConfig
<1>4. Here' = Here  BY SamePlace DEF NoDescriptor
<1>5. todo' \in Seq(Here)
  <2>1. CASE pc = "scanConfig"  BY <1>1, <2>1, DfuPlacesType DEF NoDescriptor, IInv
  <2>2. CASE pc = "scanSetting"
    <3>1. todo \in Seq(Here) /\ todo # << >>  BY <2>2 DEF IInv, AtHand, WithTodo
    <3>2. todo' = Tail(todo)  BY <2>2 DEF NoDescriptor
    <3>3. QED  BY <3>1, <3>2
  <2>3. QED  BY <1>1, <2>1, <2>2
<1>6. AtHand'  BY <1>2, <1>4, <1>5 DEF AtHand
<1>7. Held'  BY <1>1, <1>2 DEF NoDescriptor, IInv, Held, WithConfig
<1>8. Referenced'  BY ReferencedKept DEF NoDescriptor, IInv
<1>9. QED  BY <1>3, <1>6, <1>7, <1>8 DEF IInv

LEMMA AskDeviceStep ==
  ASSUME IInv, AskDevice
  PROVE  IInv'
<1>1. pc = "ask" /\ pc \in WithConfig  BY DEF AskDevice, WithConfig
<1>2. func_dfu' \in FuncDescriptors
  BY CompletedType DEF AskDevice, IInv, Types
<1>3. pc' \in {"asked", "settings"} /\ devh' = (pc' = "asked")
  BY <1>1 DEF AskDevice, IInv, Held
<1>4. Types'
  BY <1>1, <1>2, <1>3, TypesKept DEF AskDevice, IInv, Types, WithConfig
<1>5. Here' = Here  BY SamePlace DEF AskDevice
<1>6. todo' \in Seq(Here)  BY <1>1, DfuPlacesType DEF AskDevice, IInv
<1>7. AtHand'  BY <1>3, <1>5, <1>6 DEF AtHand
<1>8. Held'  BY <1>1, <1>3 DEF AskDevice, IInv, Held, WithConfig
<1>9. Referenced'  BY ReferencedKept DEF AskDevice, IInv
<1>10. QED  BY <1>4, <1>7, <1>8, <1>9 DEF IInv

LEMMA AskedStep ==
  ASSUME IInv, Asked
  PROVE  IInv'
<1>1. pc = "asked" /\ pc \in WithConfig  BY DEF Asked, WithConfig
<1>2. func_dfu' \in FuncDescriptors
  <2>1. parse(desc.answer) \in FuncDescriptors  BY <1>1, ConfigTypes, ParseType DEF IInv
  <2>2. func_dfu \in FuncDescriptors  BY DEF IInv, Types
  <2>3. QED  BY <2>1, <2>2, CompletedType DEF Asked
<1>3. Types'
  BY <1>1, <1>2, TypesKept DEF Asked, IInv, Types, WithConfig
<1>4. Here' = Here  BY SamePlace DEF Asked
<1>5. AtHand'  BY <1>1, <1>4 DEF Asked, IInv, AtHand, WithTodo
<1>6. Held'  BY <1>1 DEF Asked, IInv, Held, WithConfig
<1>7. Referenced'  BY ReferencedKept DEF Asked, IInv
<1>8. QED  BY <1>3, <1>5, <1>6, <1>7 DEF IInv

LEMMA PassSettingStep ==
  ASSUME IInv, PassSetting
  PROVE  IInv'
<1>1. pc = "settings" /\ pc' = pc /\ pc \in WithConfig /\ pc \in WithTodo
  BY DEF PassSetting, WithConfig, WithTodo
<1>2. Types'
  BY <1>1, TypesKept DEF PassSetting, held, IInv, Types, WithConfig
<1>3. Here' = Here  BY SamePlace DEF PassSetting
<1>4. todo \in Seq(Here) /\ todo # << >>  BY <1>1 DEF PassSetting, IInv, AtHand
<1>5. todo' \in Seq(Here)  BY <1>4 DEF PassSetting
<1>6. AtHand'  BY <1>1, <1>3, <1>5 DEF AtHand
<1>7. Held'  BY <1>1 DEF PassSetting, held, IInv, Held, WithConfig
<1>8. Referenced'  BY ReferencedKept DEF PassSetting, held, IInv
<1>9. QED  BY <1>2, <1>6, <1>7, <1>8 DEF IInv

LEMMA OpenSettingStep ==
  ASSUME IInv, OpenSetting
  PROVE  IInv'
<1>1. pc = "settings" /\ pc \in WithConfig /\ pc \in WithTodo
  BY DEF OpenSetting, WithConfig, WithTodo
<1>2. pc' \in {"settings", "identify"} /\ devh' = (pc' = "identify")
  <2>1. devh = FALSE  BY <1>1 DEF IInv, Held
  <2>2. \/ pc' = "identify" /\ devh' = TRUE
        \/ pc' = pc /\ devh' = devh
    BY DEF OpenSetting
  <2>3. QED  BY <1>1, <2>1, <2>2
<1>3. Types'
  BY <1>1, <1>2, TypesKept DEF OpenSetting, IInv, Types, WithConfig
<1>4. Here' = Here  BY SamePlace DEF OpenSetting
<1>5. todo \in Seq(Here) /\ todo # << >>  BY <1>1 DEF OpenSetting, IInv, AtHand
<1>6. OtherInterfaces(todo) \in Seq(Here)  BY <1>5, OtherInterfacesType
<1>7. todo' \in Seq(Here) /\ (pc' = "identify" => todo' # << >>)
  BY <1>1, <1>5, <1>6 DEF OpenSetting
<1>8. AtHand'  BY <1>2, <1>4, <1>7 DEF AtHand
<1>9. Held'  BY <1>1, <1>2 DEF OpenSetting, IInv, Held, WithConfig
<1>10. Referenced'  BY ReferencedKept DEF OpenSetting, IInv
<1>11. QED  BY <1>3, <1>8, <1>9, <1>10 DEF IInv

LEMMA EndOfSettingsStep ==
  ASSUME IInv, EndOfSettings
  PROVE  IInv'
<1>1. pc = "settings" /\ pc \in WithConfig /\ pc' = "config" /\ cfg' = FALSE
  BY DEF EndOfSettings, FreeConfig, WithConfig
<1>2. Types'
  BY <1>1, TypesKept DEF EndOfSettings, IInv, Types
<1>3. AtHand'  BY <1>1 DEF AtHand, WithTodo
<1>4. Held'  BY <1>1 DEF EndOfSettings, IInv, Held, WithConfig
<1>5. Referenced'  BY ReferencedKept DEF EndOfSettings, IInv
<1>6. QED  BY <1>2, <1>3, <1>4, <1>5 DEF IInv

(* A result that is added is one more of its device's, and of no other.    *)
LEMMA ResultAdded ==
  ASSUME Types, Referenced, NEW result \in Results, result.at[1] = dev,
         dev \in DOMAIN search.bus,
         results' = Append(results, result), refs' = [refs EXCEPT ![dev] = @ + 1]
  PROVE  Referenced'
<1>1. results \in Seq(Results) /\ refs \in [DOMAIN search.bus -> Nat]  BY DEF Types
<1> DEFINE n == Len(results)
<1>2. /\ n \in Nat /\ DOMAIN results = 1 .. n /\ DOMAIN results' = 1 .. n + 1
      /\ \A k \in 1 .. n : results'[k] = results[k]
      /\ results'[n + 1] = result
  BY <1>1
<1>3. DOMAIN refs' = DOMAIN refs /\ DOMAIN refs = DOMAIN search.bus  BY <1>1
<1> HIDE DEF n
<1>4. ASSUME NEW d \in DOMAIN refs  PROVE refs'[d] = Cardinality(Found(d)')
  <2>1. refs[d] = Cardinality(Found(d))  BY DEF Referenced
  <2>2. Found(d) \subseteq 1 .. n  BY <1>2 DEF Found
  <2>3. IsFiniteSet(Found(d))
    <3>1. IsFiniteSet(1 .. n)  BY <1>2, FS_Interval
    <3>2. QED  BY <2>2, <3>1, FS_Subset
  <2>4. CASE d = dev
    <3>1. Found(d)' = Found(d) \cup {n + 1}  BY <1>2, <2>4 DEF Found
    <3>2. n + 1 \notin Found(d)  BY <1>2, <2>2
    <3>3. Cardinality(Found(d) \cup {n + 1}) = Cardinality(Found(d)) + 1
      BY <2>3, <3>2, FS_AddElement
    <3>4. refs'[d] = refs[d] + 1  BY <1>1, <1>3, <2>4
    <3>5. QED  BY <2>1, <3>1, <3>3, <3>4
  <2>5. CASE d # dev
    <3>1. Found(d)' = Found(d)  BY <1>2, <2>5 DEF Found
    <3>2. refs'[d] = refs[d]  BY <1>1, <1>3, <2>5
    <3>3. QED  BY <2>1, <3>1, <3>2
  <2>6. QED  BY <2>4, <2>5
<1>5. QED  BY <1>3, <1>4 DEF Referenced

LEMMA IdentifyStep ==
  ASSUME IInv, Identify
  PROVE  IInv'
<1> DEFINE at == Head(todo)
           quirky == get_quirks(desc.usbId, desc.bcdDevice)
           descriptor == IF "FORCE_DFU11" \in quirky
                           THEN [func_dfu EXCEPT !.bcdDFUVersion = \h0110] ELSE func_dfu
           result == [at |-> at, dfu |-> ShowsDfu(at, func_dfu.bcdDFUVersion),
                      func_dfu |-> descriptor, quirks |-> quirky]
<1>1. pc = "identify" /\ pc \in WithConfig /\ pc \in WithTodo
  BY DEF Identify, WithConfig, WithTodo
<1>2. /\ pc' = "settings" /\ devh' = FALSE /\ todo' = Tail(todo)
      /\ UNCHANGED <<search, dev, cfg_idx, p, func_dfu, cfg>>
  BY DEF Identify
<1>3. \/ results' = Append(results, result) /\ refs' = [refs EXCEPT ![dev] = @ + 1]
      \/ UNCHANGED <<results, refs>>
  BY DEF Identify
<1>4. todo \in Seq(Here) /\ todo # << >>  BY <1>1 DEF IInv, AtHand, WithTodo
<1>5. at \in Here  BY <1>4
<1>6. at \in Places /\ at[1] = dev /\ dev \in DOMAIN search.bus
  BY <1>1, <1>5, HereTypes, ConfigTypes DEF IInv
<1>7. result \in Results
  <2>1. quirky \in SUBSET Quirks  BY DEF get_quirks, Quirks
  <2>2. descriptor \in FuncDescriptors
    <3> DEFINE version == \h0110
    <3>1. version \in Words /\ func_dfu \in FuncDescriptors
      BY SmallNumbers DEF IInv, Types
    <3> HIDE DEF version
    <3>2. [func_dfu EXCEPT !.bcdDFUVersion = version] \in FuncDescriptors
      BY <3>1 DEF FuncDescriptors
    <3>3. QED  BY <3>1, <3>2 DEF version
  <2>3. ShowsDfu(at, func_dfu.bcdDFUVersion) \in BOOLEAN
    BY DEF ShowsDfu, dfu_mode
  <2> HIDE DEF at, quirky, descriptor
  <2>4. QED  BY <1>6, <2>1, <2>2, <2>3 DEF Results
<1>8. result.at = at  OBVIOUS
<1> HIDE DEF result, at
<1>9. Types'
  <2>1. results \in Seq(Results) /\ refs \in [DOMAIN search.bus -> Nat]
    BY DEF IInv, Types
  <2>2. results' \in Seq(Results)  BY <1>3, <1>7, <2>1
  <2>3. refs' \in [DOMAIN search.bus -> Nat]  BY <1>3, <1>6, <2>1
  <2>4. QED  BY <1>1, <1>2, <2>2, <2>3, TypesKept DEF IInv, Types, WithConfig
<1>10. Here' = Here  BY <1>2, SamePlace
<1>11. AtHand'  BY <1>2, <1>4, <1>10 DEF AtHand
<1>12. Held'  BY <1>1, <1>2 DEF IInv, Held, WithConfig
<1>13. Referenced'
  BY <1>3, <1>6, <1>7, <1>8, ResultAdded, ReferencedKept DEF IInv
<1>14. QED  BY <1>9, <1>11, <1>12, <1>13 DEF IInv

LEMMA StepKeeps ==
  ASSUME IInv, [Next]_vars
  PROVE  IInv'
<1>1. CASE UNCHANGED vars
  <2>1. Here' = Here /\ desc' = desc  BY <1>1, SamePlace DEF vars
  <2>2. Types'  BY <1>1, <2>1 DEF vars, IInv, Types
  <2>3. AtHand' /\ Held'  BY <1>1, <2>1 DEF vars, IInv, AtHand, Held
  <2>4. Referenced'  BY <1>1, ReferencedKept DEF vars, IInv
  <2>5. QED  BY <2>2, <2>3, <2>4 DEF IInv
<1>2. CASE Next
  BY <1>2, NextDeviceStep, EndOfListStep, NextConfigStep, EndOfConfigsStep,
     PassDescriptorStep, FindDescriptorStep, NoDescriptorStep, AskDeviceStep, AskedStep,
     PassSettingStep, OpenSettingStep, IdentifyStep, EndOfSettingsStep DEF Next
<1>3. QED  BY <1>1, <1>2

LEMMA Invariance == Spec => []IInv
<1>1. Init => IInv  BY InitHolds
<1>2. IInv /\ [Next]_vars => IInv'  BY StepKeeps
<1>3. QED  BY <1>1, <1>2, PTL DEF Spec

(* For every bus and all filters: the variables keep their types, and what *)
(* the walk is about to look at is a setting of the DFU class of the       *)
(* configuration at hand.                                                  *)
THEOREM TypeCorrect == Spec => []TypeOK
<1>1. IInv => TypeOK
  <2>1. SUFFICES ASSUME IInv PROVE TypeOK  OBVIOUS
  <2>2. ASSUME pc \in {"scanSetting", "settings", "identify"}, NEW k \in DOMAIN todo
        PROVE  /\ todo[k][1] = dev /\ todo[k][2] = cfg_idx
               /\ Setting(todo[k]).dfuClass
    <3>1. todo \in Seq(Here) /\ pc \in WithConfig
      BY <2>1, <2>2 DEF IInv, AtHand, WithTodo, WithConfig
    <3>2. todo[k] \in Here  BY <3>1, <2>2, LenProperties
    <3>3. QED  BY <2>1, <3>1, <3>2, HereTypes DEF IInv
  <2>3. pc \in {"scanSetting", "identify"} => todo # << >>  BY <2>1 DEF IInv, AtHand
  <2>4. pc \in {"device", "config", "scanConfig", "scanSetting", "ask", "asked", "settings",
               "identify", "done"}
    BY <2>1 DEF IInv, Types, WithConfig
  <2>5. dev > 0 => cfg_idx \in 0 .. Len(desc.configs)
    BY <2>1, BusTypes, LenProperties DEF IInv, Types
  <2>6. QED  BY <2>1, <2>2, <2>3, <2>4, <2>5 DEF IInv, Types, Held, TypeOK
<1>2. QED  BY <1>1, Invariance, PTL

(* For every bus, all filters and any calls into libusb that fail: when    *)
(* find() leaves a device it holds neither handle nor configuration, and   *)
(* each device is referenced once for each result that holds it.           *)
THEOREM NothingKept == Spec => []NothingHeld
<1>1. IInv => NothingHeld
  <2>1. SUFFICES ASSUME IInv PROVE NothingHeld  OBVIOUS
  <2>2. pc \in {"device", "done"} => ~cfg /\ ~devh  BY <2>1 DEF IInv, Held, WithConfig
  <2>3. QED  BY <2>1, <2>2 DEF IInv, Referenced, Found, NothingHeld
<1>2. QED  BY <1>1, Invariance, PTL

-------------------------------------------------------------------------------
(***************************************************************************)
(* Places and their order.                                                 *)
(***************************************************************************)
LEMMA PlaceShape ==
  ASSUME NEW at \in Places
  PROVE  /\ at = <<at[1], at[2], at[3], at[4]>>
         /\ at[1] \in Nat /\ at[2] \in Nat /\ at[3] \in Nat /\ at[4] \in Nat
BY DEF Places

LEMMA BeforeIs ==
  ASSUME NEW x \in Places, NEW y \in Places
  PROVE  Before(x, y) <=>
           \/ x[1] < y[1]
           \/ x[1] = y[1] /\ x[2] < y[2]
           \/ x[1] = y[1] /\ x[2] = y[2] /\ x[3] < y[3]
           \/ x[1] = y[1] /\ x[2] = y[2] /\ x[3] = y[3] /\ x[4] < y[4]
<1> DEFINE At(n) == x[n] < y[n] /\ \A m \in 1 .. n - 1 : x[m] = y[m]
<1>1. Before(x, y) <=> At(1) \/ At(2) \/ At(3) \/ At(4)
  <2>1. 1 .. 4 = {1, 2, 3, 4}  OBVIOUS
  <2>2. Before(x, y) <=> \E n \in 1 .. 4 : At(n)  BY DEF Before
  <2> HIDE DEF At
  <2>3. QED  BY <2>1, <2>2
<1>2. At(1) <=> x[1] < y[1]  OBVIOUS
<1>3. At(2) <=> x[1] = y[1] /\ x[2] < y[2]
  <2>1. 1 .. 2 - 1 = {1}  OBVIOUS
  <2>2. QED  BY <2>1
<1>4. At(3) <=> x[1] = y[1] /\ x[2] = y[2] /\ x[3] < y[3]
  <2>1. 1 .. 3 - 1 = {1, 2}  OBVIOUS
  <2>2. QED  BY <2>1
<1>5. At(4) <=> x[1] = y[1] /\ x[2] = y[2] /\ x[3] = y[3] /\ x[4] < y[4]
  <2>1. 1 .. 4 - 1 = {1, 2, 3}  OBVIOUS
  <2>2. QED  BY <2>1
<1> HIDE DEF At
<1>6. QED  BY <1>1, <1>2, <1>3, <1>4, <1>5

LEMMA BeforeOrder ==
  ASSUME NEW x \in Places, NEW y \in Places
  PROVE  ~Before(x, x) /\ (Before(x, y) => ~Before(y, x))
<1>1. /\ x[1] \in Nat /\ x[2] \in Nat /\ x[3] \in Nat /\ x[4] \in Nat
      /\ y[1] \in Nat /\ y[2] \in Nat /\ y[3] \in Nat /\ y[4] \in Nat
  BY PlaceShape
<1>2. QED  BY <1>1, BeforeIs

LEMMA FirstIsFirst ==
  ASSUME NEW places \in SUBSET Places, NEW x \in places,
         \A y \in places : y = x \/ Before(x, y)
  PROVE  FirstAmong(places) = x
<1> DEFINE First(y) == y \in places /\ \A z \in places : ~Before(z, y)
<1>1. FirstAmong(places) = CHOOSE y \in places : \A z \in places : ~Before(z, y)
  BY DEF FirstAmong
<1>2. \A z \in places : ~Before(z, x)
  BY BeforeOrder
<1> DEFINE y == CHOOSE y \in places : \A z \in places : ~Before(z, y)
<1>3. y \in places /\ \A z \in places : ~Before(z, y)
  BY <1>2
<1> HIDE DEF y
<1>4. y = x  BY <1>3
<1>5. QED  BY <1>1, <1>4 DEF y

(* The places of a configuration, and all of them.                         *)
LEMMA PlacesInIs ==
  ASSUME search \in Searches, NEW d \in DOMAIN search.bus,
         NEW c \in DOMAIN search.bus[d].configs
  PROVE  \A at : at \in PlacesIn(d, c) <=>
           /\ at \in Places /\ at[1] = d /\ at[2] = c
           /\ at[3] \in DOMAIN search.bus[d].configs[c].interfaces
           /\ at[4] \in DOMAIN search.bus[d].configs[c].interfaces[at[3]]
<1> DEFINE interfaces == search.bus[d].configs[c].interfaces
<1>1. search.bus \in Seq(USBDevices)  BY BusTypes
<1>2. d \in 1 .. Len(search.bus) /\ d \in Nat  BY <1>1, LenProperties
<1>3. search.bus[d].configs \in Seq(Configurations)  BY <1>2, DeviceTypes
<1>4. c \in Nat /\ search.bus[d].configs[c] \in Configurations  BY <1>3, LenProperties
<1>5. interfaces \in Seq(Seq(Settings))  BY <1>4 DEF Configurations
<1>6. PlacesIn(d, c) = UNION {{<<d, c, i, a>> : a \in DOMAIN interfaces[i]} :
                                i \in DOMAIN interfaces}
  BY DEF PlacesIn
<1> HIDE DEF interfaces
<1>7. ASSUME NEW i \in DOMAIN interfaces, NEW a \in DOMAIN interfaces[i]
      PROVE  <<d, c, i, a>> \in Places
  <2>1. i \in Nat /\ interfaces[i] \in Seq(Settings)  BY <1>5, LenProperties
  <2>2. a \in Nat  BY <2>1, LenProperties
  <2>3. QED  BY <1>2, <1>4, <2>1, <2>2 DEF Places
<1>8. ASSUME NEW at
      PROVE  at \in PlacesIn(d, c) <=>
               /\ at \in Places /\ at[1] = d /\ at[2] = c
               /\ at[3] \in DOMAIN interfaces /\ at[4] \in DOMAIN interfaces[at[3]]
  <2>1. ASSUME at \in PlacesIn(d, c)
        PROVE  /\ at \in Places /\ at[1] = d /\ at[2] = c
               /\ at[3] \in DOMAIN interfaces /\ at[4] \in DOMAIN interfaces[at[3]]
    <3>1. PICK i \in DOMAIN interfaces : at \in {<<d, c, i, a>> : a \in DOMAIN interfaces[i]}
      BY <1>6, <2>1
    <3>2. PICK a \in DOMAIN interfaces[i] : at = <<d, c, i, a>>  BY <3>1
    <3>3. QED  BY <1>7, <3>2
  <2>2. ASSUME at \in Places, at[1] = d, at[2] = c,
               at[3] \in DOMAIN interfaces, at[4] \in DOMAIN interfaces[at[3]]
        PROVE  at \in PlacesIn(d, c)
    <3>1. at = <<d, c, at[3], at[4]>>  BY <2>2, PlaceShape
    <3>2. at \in {<<d, c, at[3], a>> : a \in DOMAIN interfaces[at[3]]}  BY <2>2, <3>1
    <3>3. QED  BY <1>6, <2>2, <3>2
  <2>3. QED  BY <2>1, <2>2
<1>9. QED  BY <1>8 DEF interfaces

LEMMA AllPlacesIs ==
  ASSUME search \in Searches, NEW at
  PROVE  at \in AllPlaces <=>
           /\ at[1] \in DOMAIN search.bus
           /\ at[2] \in DOMAIN search.bus[at[1]].configs
           /\ at \in PlacesIn(at[1], at[2])
<1>1. ASSUME at \in AllPlaces
      PROVE  /\ at[1] \in DOMAIN search.bus /\ at[2] \in DOMAIN search.bus[at[1]].configs
             /\ at \in PlacesIn(at[1], at[2])
  <2>1. PICK d \in DOMAIN search.bus :
          at \in UNION {PlacesIn(d, c) : c \in DOMAIN search.bus[d].configs}
    BY <1>1 DEF AllPlaces
  <2>2. PICK c \in DOMAIN search.bus[d].configs : at \in PlacesIn(d, c)  BY <2>1
  <2>3. at[1] = d /\ at[2] = c  BY <2>2, PlacesInIs
  <2>4. QED  BY <2>2, <2>3
<1>2. ASSUME at[1] \in DOMAIN search.bus, at[2] \in DOMAIN search.bus[at[1]].configs,
             at \in PlacesIn(at[1], at[2])
      PROVE  at \in AllPlaces
  BY <1>2 DEF AllPlaces
<1>3. QED  BY <1>1, <1>2

LEMMA PlacesTyped ==
  ASSUME search \in Searches, NEW at \in AllPlaces
  PROVE  /\ at \in Places /\ at[1] \in 1 .. Len(search.bus)
         /\ at[2] \in 1 .. Len(search.bus[at[1]].configs)
         /\ at \in PlacesIn(at[1], at[2])
<1>1. /\ at[1] \in DOMAIN search.bus /\ at[2] \in DOMAIN search.bus[at[1]].configs
      /\ at \in PlacesIn(at[1], at[2])
  BY AllPlacesIs
<1>2. at \in Places  BY <1>1, PlacesInIs
<1>3. search.bus \in Seq(USBDevices)  BY BusTypes
<1>4. at[1] \in 1 .. Len(search.bus)  BY <1>1, <1>3, LenProperties
<1>5. search.bus[at[1]].configs \in Seq(Configurations)  BY <1>4, DeviceTypes
<1>6. QED  BY <1>1, <1>2, <1>4, <1>5, LenProperties

LEMMA HereIs ==
  ASSUME Types, pc \in WithConfig
  PROVE  /\ Here = {at \in PlacesIn(dev, cfg_idx) : Setting(at).dfuClass}
         /\ PlacesIn(dev, cfg_idx) \subseteq AllPlaces
<1>1. /\ search \in Searches /\ dev \in DOMAIN search.bus
      /\ cfg_idx \in DOMAIN search.bus[dev].configs
  <2>1. search \in Searches /\ dev \in DOMAIN search.bus  BY ConfigTypes DEF Types
  <2>2. dev \in 1 .. Len(search.bus) /\ cfg_idx \in 1 .. Len(search.bus[dev].configs)
    BY ConfigTypes DEF desc
  <2>3. search.bus[dev].configs \in Seq(Configurations)  BY <2>1, <2>2, DeviceTypes
  <2>4. QED  BY <2>1, <2>2, <2>3, LenProperties
<1>2. \A at : at \in PlacesIn(dev, cfg_idx) <=>
        /\ at \in Places /\ at[1] = dev /\ at[2] = cfg_idx
        /\ at[3] \in DOMAIN config.interfaces
        /\ at[4] \in DOMAIN config.interfaces[at[3]]
  BY <1>1, PlacesInIs DEF config, desc
<1>3. \A at \in PlacesIn(dev, cfg_idx) : Setting(at) = config.interfaces[at[3]][at[4]]
  BY <1>2 DEF Setting, config, desc
<1>4. Here = {at \in PlacesIn(dev, cfg_idx) : Setting(at).dfuClass}
  BY <1>2, <1>3 DEF Here
<1>5. PlacesIn(dev, cfg_idx) \subseteq AllPlaces  BY <1>1 DEF AllPlaces
<1>6. QED  BY <1>4, <1>5

LEMMA OneElement ==
  ASSUME NEW x
  PROVE  Range(<<x>>) = {x} /\ Sorted(<<x>>) /\ Range(<< >>) = {} /\ Sorted(<< >>)
<1>1. DOMAIN <<x>> = {1} /\ <<x>>[1] = x  OBVIOUS
<1>2. \A j, k \in {1} : ~(j < k)  OBVIOUS
<1>3. Range(<<x>>) = {x}  BY <1>1 DEF Range
<1>4. Sorted(<<x>>)  BY <1>1, <1>2 DEF Sorted
<1>5. Range(<< >>) = {} /\ Sorted(<< >>)  BY DEF Range, Sorted
<1>6. QED  BY <1>3, <1>4, <1>5

(* The loops name each setting of the DFU class of the configuration, in   *)
(* the order of the bus.                                                   *)
LEMMA DfuPlacesAll ==
  ASSUME Types, pc \in WithConfig
  PROVE  Range(DfuPlaces) = Here /\ Sorted(DfuPlaces)
<1> DEFINE interfaces == config.interfaces
           one(i, a) == IF interfaces[i][a].dfuClass THEN <<<<dev, cfg_idx, i, a>>>> ELSE << >>
           ofInterface(i) == [a \in DOMAIN interfaces[i] |-> one(i, a)]
           all == [i \in DOMAIN interfaces |-> FlattenSeq(ofInterface(i))]
           HereIn(i) == {at \in Here : at[3] = i}
<1>1. interfaces \in Seq(Seq(Settings)) /\ dev \in Nat /\ cfg_idx \in Nat
  BY ConfigTypes
<1>2. \A at : at \in Here <=>
        /\ at \in Places /\ at[1] = dev /\ at[2] = cfg_idx
        /\ at[3] \in DOMAIN interfaces /\ at[4] \in DOMAIN interfaces[at[3]]
        /\ interfaces[at[3]][at[4]].dfuClass
  BY DEF Here
<1>3. DfuPlaces = FlattenSeq(all)  BY DEF DfuPlaces
<1> HIDE DEF interfaces
<1>4. DOMAIN interfaces = 1 .. Len(interfaces) /\ Len(interfaces) \in Nat
  BY <1>1, LenProperties
<1>5. ASSUME NEW i \in DOMAIN interfaces
      PROVE  /\ FlattenSeq(ofInterface(i)) \in Seq(Here)
             /\ Range(FlattenSeq(ofInterface(i))) = HereIn(i)
             /\ Sorted(FlattenSeq(ofInterface(i)))
  <2> DEFINE m == Len(interfaces[i])
             s == ofInterface(i)
  <2>1. interfaces[i] \in Seq(Settings) /\ i \in Nat  BY <1>1, <1>4
  <2>2. m \in Nat /\ DOMAIN interfaces[i] = 1 .. m  BY <2>1, LenProperties
  <2> HIDE DEF m
  <2>3. ASSUME NEW a \in 1 .. m
        PROVE  /\ one(i, a) \in Seq(Here) /\ Sorted(one(i, a))
               /\ Range(one(i, a)) = {at \in HereIn(i) : at[4] = a}
    <3> DEFINE at == <<dev, cfg_idx, i, a>>
    <3>1. at \in Places /\ at[1] = dev /\ at[2] = cfg_idx /\ at[3] = i /\ at[4] = a
      BY <1>1, <2>1, <2>2 DEF Places
    <3>2. \A x \in HereIn(i) : x[4] = a => x = at
      BY <1>2, PlaceShape
    <3> HIDE DEF at
    <3>3. CASE interfaces[i][a].dfuClass
      <4>1. at \in Here  BY <1>2, <2>2, <3>1, <3>3
      <4>2. one(i, a) = <<at>>  BY <3>3 DEF at
      <4>3. <<at>> \in Seq(Here)  BY <4>1
      <4>4. {x \in HereIn(i) : x[4] = a} = {at}  BY <3>1, <3>2, <4>1
      <4>5. QED  BY <4>2, <4>3, <4>4, OneElement
    <3>4. CASE ~interfaces[i][a].dfuClass
      <4>1. one(i, a) = << >> /\ << >> \in Seq(Here)  BY <3>4
      <4>2. {x \in HereIn(i) : x[4] = a} = {}  BY <1>2, <3>4
      <4>3. QED  BY <4>1, <4>2, OneElement
    <3>5. QED  BY <3>3, <3>4
  <2> HIDE DEF one
  <2>4. s \in Seq(Seq(Here)) /\ DOMAIN s = 1 .. m /\ \A a \in 1 .. m : s[a] = one(i, a)
    BY <2>2, <2>3
  <2> HIDE DEF s
  <2>5. FlattenSeq(s) \in Seq(Here)  BY <2>4, FlattenType
  <2>6. Range(FlattenSeq(s)) = UNION {Range(s[a]) : a \in 1 .. m}  BY <2>4, FlattenRange
  <2>7. UNION {Range(s[a]) : a \in 1 .. m} = HereIn(i)
    <3>1. \A at \in HereIn(i) : at[4] \in 1 .. m  BY <1>2, <2>2
    <3> HIDE DEF HereIn
    <3>2. QED  BY <2>3, <2>4, <3>1
  <2>8. \A a \in DOMAIN s : Sorted(s[a])  BY <2>3, <2>4
  <2>9. ASSUME NEW a \in DOMAIN s, NEW b \in DOMAIN s, NEW x \in Range(s[a]),
               NEW y \in Range(s[b]), a < b
        PROVE  Before(x, y)
    <3>1. /\ x \in Here /\ x[3] = i /\ x[4] = a
          /\ y \in Here /\ y[3] = i /\ y[4] = b
      BY <2>3, <2>4
    <3>2. /\ x \in Places /\ x[1] = dev /\ x[2] = cfg_idx
          /\ y \in Places /\ y[1] = dev /\ y[2] = cfg_idx
      BY <1>2, <3>1
    <3>3. QED  BY <2>9, <3>1, <3>2, BeforeIs
  <2>10. Sorted(FlattenSeq(s))  BY <2>4, <2>8, <2>9, FlattenSorted
  <2>11. QED  BY <2>5, <2>6, <2>7, <2>10 DEF s
<1> HIDE DEF ofInterface
<1>6. /\ all \in Seq(Seq(Here)) /\ DOMAIN all = DOMAIN interfaces
      /\ \A i \in DOMAIN all : Range(all[i]) = HereIn(i) /\ Sorted(all[i])
  BY <1>4, <1>5
<1> HIDE DEF all
<1>7. Range(FlattenSeq(all)) = UNION {Range(all[i]) : i \in DOMAIN all}
  BY <1>6, FlattenRange
<1>8. UNION {Range(all[i]) : i \in DOMAIN all} = Here
  <2>1. \A at \in Here : at[3] \in DOMAIN all /\ at \in HereIn(at[3])  BY <1>2, <1>6
  <2>2. \A i : HereIn(i) \subseteq Here  OBVIOUS
  <2> HIDE DEF HereIn
  <2>3. QED  BY <1>6, <2>1, <2>2
<1>9. ASSUME NEW i \in DOMAIN all, NEW k \in DOMAIN all, NEW x \in Range(all[i]),
             NEW y \in Range(all[k]), i < k
      PROVE  Before(x, y)
  <2>1. x \in Here /\ x[3] = i /\ y \in Here /\ y[3] = k  BY <1>6
  <2>2. /\ x \in Places /\ x[1] = dev /\ x[2] = cfg_idx
        /\ y \in Places /\ y[1] = dev /\ y[2] = cfg_idx
    BY <1>2, <2>1
  <2>3. QED  BY <1>9, <2>1, <2>2, BeforeIs
<1>10. \A i \in DOMAIN all : Sorted(all[i])  BY <1>6
<1>11. Sorted(FlattenSeq(all))  BY <1>6, <1>9, <1>10, FlattenSorted
<1>12. QED  BY <1>3, <1>7, <1>8, <1>11

(* What an interface that cannot be opened leaves of the list.             *)
LEMMA OtherInterfacesKept ==
  ASSUME NEW places \in Seq(Places), Sorted(places)
  PROVE  /\ Range(OtherInterfaces(places)) = {x \in Range(places) : x[3] # Head(places)[3]}
         /\ Sorted(OtherInterfaces(places))
<1> DEFINE one(k) == IF places[k][3] = Head(places)[3] THEN << >> ELSE <<places[k]>>
           all == [k \in DOMAIN places |-> one(k)]
           n == Len(places)
<1>1. n \in Nat /\ DOMAIN places = 1 .. n /\ \A k \in 1 .. n : places[k] \in Places  OBVIOUS
<1>2. OtherInterfaces(places) = FlattenSeq(all)  BY DEF OtherInterfaces
<1> HIDE DEF n
<1>3. ASSUME NEW k \in 1 .. n
      PROVE  /\ one(k) \in Seq(Places) /\ Sorted(one(k))
             /\ Range(one(k)) = {x \in {places[k]} : x[3] # Head(places)[3]}
  <2>1. CASE places[k][3] = Head(places)[3]
    <3>1. one(k) = << >> /\ << >> \in Seq(Places)  BY <2>1
    <3>2. {x \in {places[k]} : x[3] # Head(places)[3]} = {}  BY <2>1
    <3>3. QED  BY <3>1, <3>2, OneElement
  <2>2. CASE places[k][3] # Head(places)[3]
    <3>1. one(k) = <<places[k]>> /\ <<places[k]>> \in Seq(Places)  BY <1>1, <2>2
    <3>2. {x \in {places[k]} : x[3] # Head(places)[3]} = {places[k]}  BY <2>2
    <3>3. QED  BY <3>1, <3>2, OneElement
  <2>3. QED  BY <2>1, <2>2
<1> HIDE DEF one
<1>4. /\ all \in Seq(Seq(Places)) /\ DOMAIN all = 1 .. n
      /\ \A k \in 1 .. n : all[k] = one(k)
  BY <1>1, <1>3
<1> HIDE DEF all
<1>5. Range(FlattenSeq(all)) = UNION {Range(all[k]) : k \in 1 .. n}  BY <1>4, FlattenRange
<1>6. Range(places) = {places[k] : k \in 1 .. n}  BY <1>1 DEF Range
<1>7. UNION {Range(all[k]) : k \in 1 .. n} = {x \in Range(places) : x[3] # Head(places)[3]}
  BY <1>3, <1>4, <1>6
<1>8. \A k \in DOMAIN all : Sorted(all[k])  BY <1>3, <1>4
<1>9. ASSUME NEW j \in DOMAIN all, NEW k \in DOMAIN all, NEW x \in Range(all[j]),
             NEW y \in Range(all[k]), j < k
      PROVE  Before(x, y)
  <2>1. x = places[j] /\ y = places[k]  BY <1>3, <1>4
  <2>2. QED  BY <1>1, <1>4, <1>9, <2>1 DEF Sorted
<1>10. Sorted(FlattenSeq(all))  BY <1>4, <1>8, <1>9, FlattenSorted
<1>11. QED  BY <1>2, <1>5, <1>7, <1>10

(* The first of an ordered list is before the others.                      *)
LEMMA HeadFirst ==
  ASSUME NEW S, NEW places \in Seq(S), places # << >>, Sorted(places)
  PROVE  /\ Head(places) \in Range(places) /\ Head(places) = places[1]
         /\ 1 \in DOMAIN places
         /\ Tail(places) \in Seq(S) /\ Sorted(Tail(places))
         /\ Range(places) = {Head(places)} \cup Range(Tail(places))
         /\ \A x \in Range(Tail(places)) : Before(Head(places), x)
<1> DEFINE n == Len(places)
<1>1. /\ n \in Nat /\ n # 0 /\ DOMAIN places = 1 .. n /\ Head(places) = places[1]
      /\ Tail(places) \in Seq(S) /\ DOMAIN Tail(places) = 1 .. n - 1
      /\ \A k \in 1 .. n - 1 : Tail(places)[k] = places[k + 1]
  <2>1. n \in Nat /\ n # 0 /\ DOMAIN places = 1 .. n  BY EmptySeq, LenProperties
  <2>2. QED  BY <2>1, HeadTailProperties, LenProperties
<1> HIDE DEF n
<1>2. 1 \in 1 .. n /\ \A k \in 1 .. n - 1 : k + 1 \in 1 .. n /\ 1 < k + 1  BY <1>1
<1>3. \A k \in 1 .. n : k = 1 \/ k - 1 \in 1 .. n - 1  BY <1>1
<1>4. Sorted(Tail(places))
  <2>1. ASSUME NEW j \in 1 .. n - 1, NEW k \in 1 .. n - 1, j < k
        PROVE  Before(Tail(places)[j], Tail(places)[k])
    <3>1. j + 1 \in 1 .. n /\ k + 1 \in 1 .. n /\ j + 1 < k + 1  BY <1>2, <2>1
    <3>2. Before(places[j + 1], places[k + 1])  BY <1>1, <3>1 DEF Sorted
    <3>3. QED  BY <1>1, <3>2
  <2>2. QED  BY <1>1, <2>1 DEF Sorted
<1>5. Range(places) = {Head(places)} \cup Range(Tail(places))
  <2>1. \A k \in 1 .. n : k # 1 => Tail(places)[k - 1] = places[k]
    BY <1>1, <1>3
  <2>2. Range(places) = {places[k] : k \in 1 .. n}  BY <1>1 DEF Range
  <2>3. Range(Tail(places)) = {Tail(places)[k] : k \in 1 .. n - 1}  BY <1>1 DEF Range
  <2>4. ASSUME NEW x \in Range(places)  PROVE x = Head(places) \/ x \in Range(Tail(places))
    <3>1. PICK k \in 1 .. n : x = places[k]  BY <2>2
    <3>2. QED  BY <1>1, <1>3, <2>1, <2>3, <3>1
  <2>5. ASSUME NEW x \in Range(Tail(places))  PROVE x \in Range(places)
    <3>1. PICK k \in 1 .. n - 1 : x = Tail(places)[k]  BY <2>3
    <3>2. x = places[k + 1] /\ k + 1 \in 1 .. n  BY <1>1, <1>2, <3>1
    <3>3. QED  BY <2>2, <3>2
  <2>6. Head(places) \in Range(places)  BY <1>1, <1>2, <2>2
  <2>7. QED  BY <2>4, <2>5, <2>6
<1>6. ASSUME NEW x \in Range(Tail(places))  PROVE Before(Head(places), x)
  <2>1. PICK k \in 1 .. n - 1 : x = places[k + 1]  BY <1>1 DEF Range
  <2>2. QED  BY <1>1, <1>2, <2>1 DEF Sorted
<1>7. QED  BY <1>1, <1>2, <1>4, <1>5, <1>6

-------------------------------------------------------------------------------
(***************************************************************************)
(* The walk along a list of descriptors.                                   *)
(***************************************************************************)

(* parse looks at no more than the bytes of a whole descriptor.            *)
LEMMA ParsePrefix ==
  ASSUME NEW d \in Seq(Byte), NEW e \in Seq(Byte), Len(e) <= Len(d),
         \A i \in 1 .. Len(e) : e[i] = d[i], Len(e) = Len(d) \/ Len(e) >= 9
  PROVE  parse(e) = parse(d)
<1> DEFINE u8(s, i) == IF i <= Len(s) THEN s[i] ELSE 0
           u16(s, i) == IF i + 1 <= Len(s) THEN read_u16l(s, i) ELSE 0
           n == Len(d)
           m == Len(e)
<1>1. n \in Nat /\ m \in Nat  OBVIOUS
<1>2. ASSUME NEW i \in {1, 2, 3}  PROVE u8(e, i) = u8(d, i)
  <2> HIDE DEF n, m
  <2>1. (i <= m) = (i <= n) /\ (i <= m => i \in 1 .. m)  BY <1>1 DEF n, m
  <2>2. i <= m => e[i] = d[i]  BY <2>1 DEF m
  <2>3. QED  BY <2>1, <2>2 DEF n, m
<1>3. ASSUME NEW i \in {4, 6, 8}  PROVE u16(e, i) = u16(d, i)
  <2> HIDE DEF n, m
  <2>1. (i + 1 <= m) = (i + 1 <= n) /\ (i + 1 <= m => i \in 1 .. m /\ i + 1 \in 1 .. m)
    BY <1>1 DEF n, m
  <2>2. i + 1 <= m => e[i] = d[i] /\ e[i + 1] = d[i + 1]  BY <2>1 DEF m
  <2>3. i + 1 <= m => read_u16l(e, i) = read_u16l(d, i)  BY <2>2 DEF read_u16l
  <2>4. QED  BY <2>1, <2>3 DEF n, m
<1>4. \A s : parse(s) = [bLength |-> u8(s, 1), bDescriptorType |-> u8(s, 2),
                         bmAttributes |-> u8(s, 3), wDetachTimeOut |-> u16(s, 4),
                         wTransferSize |-> u16(s, 6), bcdDFUVersion |-> u16(s, 8)]
  BY DEF parse
<1> HIDE DEF u8, u16
<1>5. /\ u8(e, 1) = u8(d, 1) /\ u8(e, 2) = u8(d, 2) /\ u8(e, 3) = u8(d, 3)
      /\ u16(e, 4) = u16(d, 4) /\ u16(e, 6) = u16(d, 6) /\ u16(e, 8) = u16(d, 8)
  BY <1>2, <1>3
<1>6. QED  BY <1>4, <1>5

(* Where a descriptor starts the walk reads its first two bytes.           *)
LEMMA ReadAt ==
  ASSUME NEW extra \in Seq(Seq(Byte)), WellFormed(extra), NEW k \in 1 .. Len(extra)
  PROVE  /\ Starts(extra)[k - 1] \in Nat
         /\ Starts(extra)[k] = Starts(extra)[k - 1] + Len(extra[k])
         /\ Starts(extra)[k - 1] + 1 < Len(FlattenSeq(extra))
         /\ Len(extra[k]) > 1 /\ Len(extra[k]) \in Nat
         /\ Starts(extra)[k - 1] + Len(extra[k]) <= Len(FlattenSeq(extra))
         /\ k = Len(extra) =>
              Starts(extra)[k - 1] + Len(extra[k]) = Len(FlattenSeq(extra))
         /\ FlattenSeq(extra)[Starts(extra)[k - 1] + 1] = extra[k][1]
         /\ FlattenSeq(extra)[Starts(extra)[k - 1] + 2] = extra[k][2]
         /\ extra[k][1] \in Nat
         /\ \/ extra[k][1] \in {0, Len(extra[k])}
            \/ k = Len(extra) /\ extra[k][1] > Len(extra[k])
<1> DEFINE l == FlattenSeq(extra)
           S == Starts(extra)
           from == S[k - 1]
           m == Len(extra[k])
           n == Len(l)
<1>1. /\ Len(extra) \in Nat /\ DOMAIN extra = 1 .. Len(extra) /\ extra[k] \in Seq(Byte)
      /\ k - 1 \in 0 .. Len(extra)
  BY LenProperties
<1>2. /\ S \in [0 .. Len(extra) -> Nat] /\ S[Len(extra)] = n
      /\ S[k] = from + m /\ S[k] <= n
      /\ \A j \in 1 .. m : l[from + j] = extra[k][j]
  <2>1. S \in [0 .. Len(extra) -> Nat] /\ S[Len(extra)] = n  BY FlattenStarts
  <2>2. S[k] = from + m /\ S[k] <= n  BY FlattenStarts
  <2>3. \A j \in 1 .. m : l[from + j] = extra[k][j]  BY FlattenStarts
  <2>4. QED  BY <2>1, <2>2, <2>3
<1>3. from \in Nat  BY <1>1, <1>2
<1>4. l \in Seq(Byte)  BY FlattenType
<1>5. n \in Nat  BY <1>4, LenProperties
<1>6. m \in Nat /\ m > 1 /\ DOMAIN extra[k] = 1 .. m
  BY <1>1, LenProperties DEF WellFormed
<1>7. \/ extra[k][1] \in {0, Len(extra[k])}
      \/ k = Len(extra) /\ extra[k][1] > Len(extra[k])
  BY <1>1 DEF WellFormed
<1>8. extra[k][1] \in Nat
  <2>1. extra[k][1] \in Byte  BY <1>1, <1>6
  <2>2. QED  BY <2>1, BoundsOfByte
<1>9. k = Len(extra) => from + m = n  BY <1>2
<1>10. l[from + 1] = extra[k][1] /\ l[from + 2] = extra[k][2]
  <2>1. 1 \in 1 .. m /\ 2 \in 1 .. m
    <3> HIDE DEF m
    <3>1. QED  BY <1>6
  <2>2. QED  BY <1>2, <2>1
<1>11. from + 1 < n /\ from + m <= n
  <2>1. from + m <= n  BY <1>2
  <2> HIDE DEF from, m, n
  <2>2. QED  BY <1>3, <1>5, <1>6, <2>1
<1>12. QED  BY <1>2, <1>3, <1>6, <1>7, <1>8, <1>9, <1>10, <1>11

LEMMA Window ==
  ASSUME NEW S, NEW s \in Seq(S), NEW q \in Nat, NEW w \in Nat, q + w <= Len(s)
  PROVE  /\ SubSeq(s, q + 1, q + w) \in Seq(S) /\ Len(SubSeq(s, q + 1, q + w)) = w
         /\ \A i \in 1 .. w : SubSeq(s, q + 1, q + w)[i] = s[q + i]
<1> DEFINE n == Len(s)
<1>1. n \in Nat  BY LenProperties
<1> HIDE DEF n
<1>2. PICK lo, hi : lo = q + 1 /\ hi = q + w  OBVIOUS
<1>3. lo \in 1 .. n + 1 /\ hi \in lo - 1 .. n /\ hi - lo + 1 = w  BY <1>1, <1>2 DEF n
<1>4. PICK e : e = SubSeq(s, lo, hi)  OBVIOUS
<1>5. /\ e \in Seq(S) /\ Len(e) = IF lo <= hi THEN hi - lo + 1 ELSE 0
      /\ \A i \in 1 .. hi - lo + 1 : e[i] = s[lo + i - 1]
  <2>1. lo \in 1 .. Len(s) + 1 /\ hi \in lo - 1 .. Len(s)  BY <1>3 DEF n
  <2>2. SubSeq(s, lo, hi) \in Seq(S)  BY <2>1, SubSeqProperties
  <2>3. Len(SubSeq(s, lo, hi)) = IF lo <= hi THEN hi - lo + 1 ELSE 0
    BY <2>1, SubSeqProperties
  <2>4. \A i \in 1 .. hi - lo + 1 : SubSeq(s, lo, hi)[i] = s[lo + i - 1]
    BY <2>1, SubSeqProperties
  <2>5. QED  BY <1>4, <2>2, <2>3, <2>4
<1>6. Len(e) = w  BY <1>2, <1>3, <1>5
<1>7. \A i \in 1 .. w : e[i] = s[q + i]
  <2>1. \A i \in 1 .. w : lo + i - 1 = q + i  BY <1>2
  <2>2. \A i \in 1 .. w : e[i] = s[lo + i - 1]  BY <1>3, <1>5
  <2>3. QED  BY <2>1, <2>2
<1>8. e = SubSeq(s, q + 1, q + w)  BY <1>2, <1>4
<1>9. QED  BY <1>5, <1>6, <1>7, <1>8

LEMMA ParseWithin ==
  ASSUME NEW l \in Seq(Byte), NEW d \in Seq(Byte), NEW q \in Nat, NEW w \in Nat,
         q + w <= Len(l), w <= Len(d), w = Len(d) \/ w >= 9,
         \A j \in 1 .. Len(d) : l[q + j] = d[j]
  PROVE  parse(SubSeq(l, q + 1, q + w)) = parse(d)
<1>1. PICK e : e = SubSeq(l, q + 1, q + w)  OBVIOUS
<1>2. e \in Seq(Byte) /\ Len(e) = w /\ \A i \in 1 .. w : e[i] = l[q + i]  BY <1>1, Window
<1>3. Len(d) \in Nat  BY LenProperties
<1>4. \A i \in 1 .. w : i \in 1 .. Len(d)  BY <1>3
<1>5. \A i \in 1 .. Len(e) : e[i] = d[i]  BY <1>2, <1>4
<1>6. Len(e) <= Len(d) /\ (Len(e) = Len(d) \/ Len(e) >= 9)  BY <1>2
<1>7. QED  BY <1>1, <1>2, <1>5, <1>6, ParsePrefix

LEMMA Rest ==
  \A q, a, c \in Nat : q + a <= c => c - q \in Nat /\ a <= c - q /\ (q + a = c => c - q = a)
OBVIOUS

(* What is taken of it, parsed, is it, parsed.                             *)
LEMMA TakenIsIt ==
  ASSUME NEW extra \in Seq(Seq(Byte)), WellFormed(extra), NEW k \in 1 .. Len(extra),
         list = FlattenSeq(extra), p = Starts(extra)[k - 1], list[p + 1] # 0
  PROVE  parse(SubSeq(list, p + 1, p + Taken)) = parse(extra[k])
<1> DEFINE m == Len(extra[k])
           n == Len(list)
           b == list[p + 1]
           left == n - p
           t == Taken
<1>1. /\ p \in Nat /\ p + 1 < n /\ m > 1 /\ m \in Nat /\ p + m <= n
      /\ (k = Len(extra) => p + m = n)
      /\ b = extra[k][1] /\ extra[k][1] \in Nat
      /\ \/ extra[k][1] \in {0, m}
         \/ k = Len(extra) /\ extra[k][1] > m
  <2>1. /\ p \in Nat /\ p + 1 < n /\ m > 1 /\ m \in Nat /\ p + m <= n
        /\ (k = Len(extra) => p + m = n)
    BY ReadAt
  <2>2. b = extra[k][1] /\ extra[k][1] \in Nat  BY ReadAt
  <2>3. \/ extra[k][1] \in {0, m}
        \/ k = Len(extra) /\ extra[k][1] > m
    BY ReadAt
  <2>4. QED  BY <2>1, <2>2, <2>3
<1>2. list \in Seq(Byte)  BY FlattenType
<1>3. n \in Nat /\ extra[k] \in Seq(Byte)  BY <1>2, LenProperties
<1>4. b \in Nat /\ b # 0 /\ (b = m \/ (b > m /\ p + m = n))  BY <1>1
<1>5. t = CHOOSE x \in {b, 9, left} : \A y \in {b, 9, left} : x <= y
  BY DEF Taken, Min, sizeInBytes
<1>6. left \in Nat /\ m <= left /\ (b = m \/ (b > m /\ left = m))
  <2>1. p \in Nat /\ n \in Nat /\ m \in Nat /\ p + m <= n  BY <1>1, <1>3
  <2> HIDE DEF b, m, n
  <2>2. left \in Nat /\ m <= left /\ (p + m = n => left = m)  BY <2>1, Rest
  <2>3. QED  BY <1>4, <2>2
<1> HIDE DEF b, left, t, m, n
<1>7. \E x \in {b, 9, left} : \A y \in {b, 9, left} : x <= y  BY <1>4, <1>6
<1>8. t \in {b, 9, left} /\ \A y \in {b, 9, left} : t <= y  BY <1>5, <1>7
<1>9. t \in Nat /\ t <= m /\ (t = m \/ t >= 9)  BY <1>1, <1>4, <1>6, <1>8
<1>10. p \in Nat /\ p + t <= n
  <2>1. p \in Nat /\ n \in Nat /\ m \in Nat /\ t \in Nat /\ p + m <= n /\ t <= m
    BY <1>1, <1>3, <1>9
  <2>2. QED  BY <2>1
<1>11. \A j \in 1 .. m : list[p + j] = extra[k][j]
  <2>1. \A j \in 1 .. Len(extra[k]) :
          FlattenSeq(extra)[Starts(extra)[k - 1] + j] = extra[k][j]
    BY FlattenStarts
  <2>2. QED  BY <2>1 DEF m
<1>12. parse(SubSeq(list, p + 1, p + t)) = parse(extra[k])
  <2>1. /\ list \in Seq(Byte) /\ extra[k] \in Seq(Byte) /\ p \in Nat /\ t \in Nat
        /\ p + t <= Len(list) /\ t <= Len(extra[k]) /\ (t = Len(extra[k]) \/ t >= 9)
        /\ \A j \in 1 .. Len(extra[k]) : list[p + j] = extra[k][j]
    BY <1>2, <1>3, <1>9, <1>10, <1>11 DEF m, n
  <2>2. PICK l, q, w, d : l = list /\ q = p /\ w = t /\ d = extra[k]  OBVIOUS
  <2>3. /\ l \in Seq(Byte) /\ d \in Seq(Byte) /\ q \in Nat /\ w \in Nat
        /\ q + w <= Len(l) /\ w <= Len(d) /\ (w = Len(d) \/ w >= 9)
        /\ \A j \in 1 .. Len(d) : l[q + j] = d[j]
    BY <2>1, <2>2
  <2>4. parse(SubSeq(l, q + 1, q + w)) = parse(d)  BY <2>3, ParseWithin
  <2>5. QED  BY <2>2, <2>4
<1>13. QED  BY <1>12 DEF t

(* The walk is at a position where a descriptor starts, or after the last  *)
(* one, and has passed no functional descriptor; it is past a last one     *)
(* that was cut short when that had nothing behind it.                     *)
AtStart(extra, position, k) ==
  /\ position = Starts(extra)[k]
  /\ \A j \in 1 .. k : extra[j][1] # 0 /\ extra[j][2] # USB_DT_DFU

AtDescriptor(extra, position) ==
  \/ \E k \in 0 .. Len(extra) : AtStart(extra, position, k)
  \/ Described(extra) = {} /\ position >= Len(FlattenSeq(extra))

LEMMA WalkStarts ==
  ASSUME NEW extra \in Seq(Seq(Byte))
  PROVE  AtDescriptor(extra, 0)
<1>1. Starts(extra)[0] = 0  BY FlattenStarts
<1>2. Len(extra) \in Nat  BY LenProperties
<1>3. AtStart(extra, 0, 0)  BY <1>1 DEF AtStart
<1>4. 0 \in 0 .. Len(extra)  BY <1>2
<1>5. QED  BY <1>3, <1>4 DEF AtDescriptor

(* While something follows, the walk is where a descriptor starts.         *)
LEMMA WalkAt ==
  ASSUME NEW extra \in Seq(Seq(Byte)), WellFormed(extra), NEW q \in Nat,
         AtDescriptor(extra, q), q < Len(FlattenSeq(extra))
  PROVE  \E k \in 1 .. Len(extra) : AtStart(extra, q, k - 1)
<1>1. /\ Len(extra) \in Nat /\ Starts(extra)[Len(extra)] = Len(FlattenSeq(extra))
  BY LenProperties, FlattenStarts
<1>2. FlattenSeq(extra) \in Seq(Byte)  BY FlattenType
<1> DEFINE n == Len(FlattenSeq(extra))
<1>3. n \in Nat  BY <1>2, LenProperties
<1>4. ~(q >= n)
  <2> HIDE DEF n
  <2>1. QED  BY <1>3 DEF n
<1>5. PICK k \in 0 .. Len(extra) : AtStart(extra, q, k)  BY <1>4 DEF AtDescriptor
<1>6. k # Len(extra)
  <2>1. SUFFICES ASSUME k = Len(extra)  PROVE FALSE  OBVIOUS
  <2>2. q = n  BY <1>1, <1>5, <2>1 DEF AtStart
  <2> HIDE DEF n
  <2>3. QED  BY <1>3, <1>4, <2>2
<1>7. k + 1 \in 1 .. Len(extra) /\ (k + 1) - 1 = k  BY <1>1, <1>6
<1>8. AtStart(extra, q, (k + 1) - 1)  BY <1>5, <1>7
<1>9. QED  BY <1>7, <1>8

LEMMA WalkOn ==
  ASSUME NEW extra \in Seq(Seq(Byte)), WellFormed(extra), NEW q \in Nat,
         AtDescriptor(extra, q), q + 1 < Len(FlattenSeq(extra)),
         FlattenSeq(extra)[q + 1] # 0, FlattenSeq(extra)[q + 2] # USB_DT_DFU
  PROVE  AtDescriptor(extra, q + FlattenSeq(extra)[q + 1])
<1> DEFINE n == Len(FlattenSeq(extra))
<1>1. FlattenSeq(extra) \in Seq(Byte)  BY FlattenType
<1>2. n \in Nat /\ Len(extra) \in Nat  BY <1>1, LenProperties
<1>3. q < n
  <2>1. q + 1 < n  OBVIOUS
  <2> HIDE DEF n
  <2>2. QED  BY <1>2, <2>1
<1>4. PICK k \in 1 .. Len(extra) : AtStart(extra, q, k - 1)  BY <1>3, WalkAt
<1> DEFINE m == Len(extra[k])
           b == FlattenSeq(extra)[q + 1]
<1>5. q = Starts(extra)[k - 1]  BY <1>4 DEF AtStart
<1>6. /\ Starts(extra)[k] = q + m /\ m \in Nat
      /\ q + m <= n /\ (k = Len(extra) => q + m = n)
      /\ b = extra[k][1] /\ b \in Nat /\ b # 0
      /\ extra[k][2] # USB_DT_DFU
      /\ \/ b \in {0, m}
         \/ k = Len(extra) /\ b > m
  <2>1. /\ Starts(extra)[k] = q + m /\ m \in Nat
        /\ q + m <= n /\ (k = Len(extra) => q + m = n)
    BY <1>5, ReadAt
  <2>2. b = extra[k][1] /\ b \in Nat /\ b # 0  BY <1>5, ReadAt
  <2>3. extra[k][2] # USB_DT_DFU
    <3>1. FlattenSeq(extra)[q + 2] = extra[k][2]  BY <1>5, ReadAt
    <3>2. QED  BY <3>1
  <2>4. \/ b \in {0, m}
        \/ k = Len(extra) /\ b > m
    BY <2>2, ReadAt
  <2>5. QED  BY <2>1, <2>2, <2>3, <2>4
<1>7. \A j \in 1 .. k : extra[j][1] # 0 /\ extra[j][2] # USB_DT_DFU
  <2>1. \A j \in 1 .. k : j \in 1 .. k - 1 \/ j = k  OBVIOUS
  <2>2. QED  BY <1>4, <1>6, <2>1 DEF AtStart
<1> HIDE DEF b, m, n
<1>8. CASE b = m
  <2>1. AtStart(extra, q + b, k)  BY <1>6, <1>7, <1>8 DEF AtStart
  <2>2. k \in 0 .. Len(extra)  BY <1>2
  <2>3. QED  BY <2>1, <2>2 DEF AtDescriptor, b
<1>9. CASE k = Len(extra) /\ b > m
  <2>1. Described(extra) = {}
    <3>1. DOMAIN extra = 1 .. k  BY <1>9, LenProperties
    <3>2. QED  BY <1>7, <3>1 DEF Described
  <2>2. q + b >= n  BY <1>2, <1>6, <1>9
  <2>3. QED  BY <2>1, <2>2 DEF AtDescriptor, b, n
<1>10. QED  BY <1>6, <1>8, <1>9

LEMMA WalkFinds ==
  ASSUME NEW extra \in Seq(Seq(Byte)), WellFormed(extra), NEW q \in Nat,
         AtDescriptor(extra, q), q + 1 < Len(FlattenSeq(extra)),
         FlattenSeq(extra)[q + 1] # 0, FlattenSeq(extra)[q + 2] = USB_DT_DFU
  PROVE  \E k \in 1 .. Len(extra) :
           /\ q = Starts(extra)[k - 1]
           /\ Described(extra) # {}
           /\ FirstIn(extra) = Completed(parse(extra[k]))
<1> DEFINE n == Len(FlattenSeq(extra))
<1>1. FlattenSeq(extra) \in Seq(Byte)  BY FlattenType
<1>2. n \in Nat /\ Len(extra) \in Nat /\ DOMAIN extra = 1 .. Len(extra)
  BY <1>1, LenProperties
<1>3. q < n
  <2>1. q + 1 < n  OBVIOUS
  <2> HIDE DEF n
  <2>2. QED  BY <1>2, <2>1
<1>4. PICK k \in 1 .. Len(extra) : AtStart(extra, q, k - 1)  BY <1>3, WalkAt
<1>5. q = Starts(extra)[k - 1]  BY <1>4 DEF AtStart
<1>6. extra[k][1] # 0
  <2>1. FlattenSeq(extra)[q + 1] = extra[k][1]  BY <1>5, ReadAt
  <2>2. QED  BY <2>1
<1>7. extra[k][2] = USB_DT_DFU
  <2>1. FlattenSeq(extra)[q + 2] = extra[k][2]  BY <1>5, ReadAt
  <2>2. QED  BY <2>1
<1>8. k \in Described(extra)
  <2>1. \A j \in 1 .. k : j \in 1 .. k - 1 \/ j = k  OBVIOUS
  <2>2. \A j \in 1 .. k : extra[j][1] # 0  BY <1>4, <1>6, <2>1 DEF AtStart
  <2>3. QED  BY <1>2, <1>7, <2>2 DEF Described
<1> DEFINE D == Described(extra)
<1>9. \A j \in D : j \in Nat /\ k <= j
  <2>1. SUFFICES ASSUME NEW j \in D  PROVE j \in Nat /\ k <= j  OBVIOUS
  <2>2. j \in 1 .. Len(extra) /\ extra[j][2] = USB_DT_DFU  BY <1>2 DEF Described
  <2>3. j \notin 1 .. k - 1  BY <1>4, <2>2 DEF AtStart
  <2>4. QED  BY <2>2, <2>3
<1>10. Min(D) = k
  <2>1. Min(D) = CHOOSE x \in D : \A y \in D : x <= y  BY DEF Min
  <2> DEFINE x == CHOOSE x \in D : \A y \in D : x <= y
  <2> HIDE DEF D
  <2>2. k \in D  BY <1>8 DEF D
  <2>3. x \in D /\ \A y \in D : x <= y  BY <1>9, <2>2
  <2> HIDE DEF x
  <2>4. x <= k /\ k <= x /\ x \in Nat  BY <1>9, <2>2, <2>3
  <2>5. QED  BY <2>1, <2>4 DEF x
<1>11. FirstIn(extra) = Completed(parse(extra[k]))  BY <1>10 DEF FirstIn
<1>12. QED  BY <1>5, <1>8, <1>11

LEMMA BelowTop == \A n \in Nat : \A k \in 0 .. n : k # n => k + 1 \in 1 .. n /\ (k + 1) - 1 = k
OBVIOUS

LEMMA WalkEnds ==
  ASSUME NEW extra \in Seq(Seq(Byte)), WellFormed(extra), NEW q \in Nat,
         AtDescriptor(extra, q),
         ~(q + 1 < Len(FlattenSeq(extra)) /\ FlattenSeq(extra)[q + 1] # 0)
  PROVE  Described(extra) = {}
<1> DEFINE n == Len(FlattenSeq(extra))
<1>1. FlattenSeq(extra) \in Seq(Byte)  BY FlattenType
<1>2. n \in Nat /\ Len(extra) \in Nat /\ DOMAIN extra = 1 .. Len(extra)
  BY <1>1, LenProperties
<1>3. CASE q < n
  <2>1. PICK k \in 1 .. Len(extra) : AtStart(extra, q, k - 1)  BY <1>3, WalkAt
  <2>2. q = Starts(extra)[k - 1]  BY <2>1 DEF AtStart
  <2>3. q + 1 < n  BY <2>2, ReadAt
  <2>4. extra[k][1] = 0
    <3>1. FlattenSeq(extra)[q + 1] = extra[k][1]  BY <2>2, ReadAt
    <3>2. QED  BY <2>3, <3>1
  <2>5. ASSUME NEW j \in 1 .. Len(extra)
        PROVE  extra[j][2] # USB_DT_DFU \/ \E i \in 1 .. j : extra[i][1] = 0
    <3>1. CASE j \in 1 .. k - 1  BY <2>1, <3>1 DEF AtStart
    <3>2. CASE j \notin 1 .. k - 1
      <4>1. k \in 1 .. j  BY <3>2
      <4>2. QED  BY <2>4, <4>1
    <3>3. QED  BY <3>1, <3>2
  <2>6. QED  BY <1>2, <2>5 DEF Described
<1>4. CASE ~(q < n)
  <2>1. SUFFICES ASSUME NEW k \in 0 .. Len(extra), AtStart(extra, q, k)
                 PROVE  Described(extra) = {}
    BY DEF AtDescriptor
  <2>2. k = Len(extra)
    <3>1. SUFFICES ASSUME k # Len(extra)  PROVE FALSE  OBVIOUS
    <3>2. k + 1 \in 1 .. Len(extra) /\ (k + 1) - 1 = k  BY <1>2, <3>1, BelowTop
    <3>3. q = Starts(extra)[(k + 1) - 1]  BY <2>1, <3>2 DEF AtStart
    <3>4. Starts(extra)[(k + 1) - 1] + 1 < n  BY <3>2, ReadAt
    <3>5. q + 1 < n  BY <3>3, <3>4
    <3> HIDE DEF n
    <3>6. QED  BY <1>2, <1>4, <3>5
  <2>3. QED  BY <1>2, <2>1, <2>2 DEF AtStart, Described
<1>5. QED  BY <1>3, <1>4

-------------------------------------------------------------------------------
(***************************************************************************)
(* What the search is held against depends on the bus, which does not      *)
(* change, and on what is lost of the place.                               *)
(***************************************************************************)
LEMMA SameBus ==
  ASSUME search' = search
  PROVE  /\ f' = f
         /\ \A at : Setting(at)' = Setting(at)
         /\ \A d, c : PlacesIn(d, c)' = PlacesIn(d, c)
         /\ AllPlaces' = AllPlaces
         /\ \A d, c : Regular(d, c)' = Regular(d, c)
         /\ \A d, c : Describing(d, c)' = Describing(d, c)
         /\ \A at, v : ShowsDfu(at, v)' = ShowsDfu(at, v)
         /\ \A at, v : Eligible(at, v)' = Eligible(at, v)
         /\ \A at, v, x, y : Named(at, v, x, y)' = Named(at, v, x, y)
<1>1. f' = f  BY DEF f
<1>2. \A at : Setting(at)' = Setting(at)  BY DEF Setting
<1>3. \A d, c : PlacesIn(d, c)' = PlacesIn(d, c)  BY DEF PlacesIn
<1>4. AllPlaces' = AllPlaces  BY <1>3 DEF AllPlaces
<1>5. \A d, c : Regular(d, c)' = Regular(d, c)  BY <1>2, <1>3 DEF Regular
<1>6. \A d, c : Describing(d, c)' = Describing(d, c)  BY <1>2, <1>3 DEF Describing
<1>7. \A at, v : ShowsDfu(at, v)' = ShowsDfu(at, v)  BY <1>2 DEF ShowsDfu
<1>8. \A at, v : Eligible(at, v)' = Eligible(at, v)  BY <1>1, <1>7 DEF Eligible
<1>9. \A at, v, x, y : Named(at, v, x, y)' = Named(at, v, x, y)
  BY <1>1, <1>7 DEF Named
<1>10. QED  BY <1>1, <1>2, <1>3, <1>4, <1>5, <1>6, <1>7, <1>8, <1>9

LEMMA SameDescriptor ==
  ASSUME search' = search, NEW d, NEW c,
         <<d, c, "descriptor">> \in lost' <=> <<d, c, "descriptor">> \in lost
  PROVE  DescriptorOf(d, c)' = DescriptorOf(d, c)
<1> DEFINE other == IF <<d, c, "descriptor">> \in lost
                      THEN [cleared EXCEPT !.bLength = 7, !.bcdDFUVersion = \h0100]
                    ELSE Completed(parse(search.bus[d].answer))
           own == search.bus[d].configs[c].extra
           first == FirstAmong(Describing(d, c))
<1>1. Describing(d, c)' = Describing(d, c)  BY SameBus
<1>2. first' = first  BY <1>1
<1>3. Setting(first)' = Setting(first)
  <2>1. Setting(first)' = search'.bus[first'[1]].configs[first'[2]].interfaces[first'[3]][first'[4]]
    BY DEF Setting
  <2> HIDE DEF first
  <2>2. QED  BY <1>2, <2>1 DEF Setting
<1>4. other' = other  OBVIOUS
<1>5. own' = own  OBVIOUS
<1>6. DescriptorOf(d, c) = IF Described(own) # {} THEN FirstIn(own)
                           ELSE IF Describing(d, c) # {} THEN FirstIn(Setting(first).extra)
                           ELSE other
  BY DEF DescriptorOf
<1>7. DescriptorOf(d, c)' = IF Described(own') # {} THEN FirstIn(own')
                            ELSE IF Describing(d, c)' # {} THEN FirstIn(Setting(first)'.extra)
                            ELSE other'
  BY DEF DescriptorOf
<1> HIDE DEF first, own, other
<1>8. QED  BY <1>1, <1>3, <1>4, <1>5, <1>6, <1>7

(* The calls that count for a place.                                       *)
About(at) ==
  {<<at[1]>>, <<at[1], at[2], "descriptor">>, at \o <<"name">>, at \o <<"serial">>} \cup
  {<<at[1], c>> : c \in 1 .. at[2]} \cup {<<at[1], at[2], at[3], a>> : a \in 1 .. at[4]}

LEMMA Untouched ==
  ASSUME search' = search, search \in Searches, NEW at,
         \A x \in About(at) : x \in lost' <=> x \in lost
  PROVE  /\ DescriptorOf(at[1], at[2])' = DescriptorOf(at[1], at[2])
         /\ Wanted(at)' = Wanted(at)
         /\ OutOfReach(at)' = OutOfReach(at)
<1>1. /\ <<at[1]>> \in lost' <=> <<at[1]>> \in lost
      /\ <<at[1], at[2], "descriptor">> \in lost' <=> <<at[1], at[2], "descriptor">> \in lost
      /\ at \o <<"name">> \in lost' <=> at \o <<"name">> \in lost
      /\ at \o <<"serial">> \in lost' <=> at \o <<"serial">> \in lost
      /\ \A c \in 1 .. at[2] : <<at[1], c>> \in lost' <=> <<at[1], c>> \in lost
      /\ \A a \in 1 .. at[4] : <<at[1], at[2], at[3], a>> \in lost' <=>
                                <<at[1], at[2], at[3], a>> \in lost
  BY DEF About
<1>2. DescriptorOf(at[1], at[2])' = DescriptorOf(at[1], at[2])  BY <1>1, SameDescriptor
<1>3. OutOfReach(at)' = OutOfReach(at)
  <2>1. OutOfReach(at)' <=> OutOfReach(at)  BY <1>1 DEF OutOfReach
  <2>2. OutOfReach(at) \in BOOLEAN /\ OutOfReach(at)' \in BOOLEAN  BY DEF OutOfReach
  <2>3. QED  BY <2>1, <2>2
<1>4. Wanted(at)' = Wanted(at)
  <2> DEFINE device == search.bus[at[1]]
             version == DescriptorOf(at[1], at[2]).bcdDFUVersion
             name == ReadName(at, "name", Setting(at).name)
             serial == ReadName(at, "serial", device.serial)
             Else == /\ f.path \in {<< >>, get_path(device)}
                     /\ f.config_index \in {-1, device.configs[at[2]].bConfigurationValue}
                     /\ Setting(at).dfuClass
  <2>1. version' = version  BY <1>2
  <2>2. Setting(at)' = Setting(at) /\ f' = f  BY SameBus
  <2>3. name' = name  BY <1>1, <2>2 DEF ReadName
  <2>4. serial' = serial  BY <1>1 DEF ReadName
  <2>5. Else' = Else  BY <2>2
  <2>6. Wanted(at) = (Else /\ Eligible(at, version) /\ Named(at, version, name, serial))
    BY DEF Wanted
  <2>7. Wanted(at)' = (Else' /\ Eligible(at, version)' /\ Named(at, version, name, serial)')
    BY DEF Wanted
  <2>8. Eligible(at, version)' = Eligible(at, version)
    <3> HIDE DEF version
    <3>1. QED  BY <2>1, <2>2 DEF Eligible, ShowsDfu
  <2>9. Named(at, version, name, serial)' = Named(at, version, name, serial)
    <3> HIDE DEF version, name, serial
    <3>1. QED  BY <2>1, <2>2, <2>3, <2>4 DEF Named, ShowsDfu
  <2> HIDE DEF Else, version, name, serial
  <2>10. QED  BY <2>5, <2>6, <2>7, <2>8, <2>9
<1>5. QED  BY <1>2, <1>3, <1>4

-------------------------------------------------------------------------------
(***************************************************************************)
(* How far the search has come, and what it has made of what it passed.    *)
(***************************************************************************)
Left == {"device", "done"}
Scans == {"scanConfig", "scanSetting", "ask", "asked"}
Identifying == {"settings", "identify"}

GoneDevice(d) == d < dev \/ (d = dev /\ pc \in Left)
Gone(d, c) == GoneDevice(d) \/ (d = dev /\ (c < cfg_idx \/ (c = cfg_idx /\ pc = "config")))
At(d, c) == d = dev /\ c = cfg_idx /\ pc \in Identifying

Passed(at) == Gone(at[1], at[2]) \/ (At(at[1], at[2]) /\ at \notin Range(todo))

InterfaceGone(at) ==
  \/ Gone(at[1], at[2])
  \/ At(at[1], at[2]) /\ \A x \in Range(todo) : x[3] # at[3]

(* What is still to be done is in order, and of an interface that has been *)
(* begun it is the rest.                                                   *)
InOrder ==
  /\ pc \in WithTodo => Sorted(todo)
  /\ pc = "asked" => Range(todo) = Here
  /\ pc \in Identifying =>
       \A at \in Here, x \in Range(todo) :
         at \notin Range(todo) /\ at[3] = x[3] => at[4] < x[4]

(* The walk over lists that are as they should be has missed nothing, and  *)
(* the settings are tried with the descriptor of their configuration.      *)
Walk ==
  /\ pc \in Scans => func_dfu = cleared
  /\ pc \in WithConfig /\ Regular(dev, cfg_idx) =>
       /\ pc = "scanConfig" => AtDescriptor(config.extra, p)
       /\ pc \in Scans \ {"scanConfig"} => Described(config.extra) = {}
       /\ pc = "scanSetting" =>
            /\ AtDescriptor(Setting(Head(todo)).extra, p)
            /\ \A at \in Here \ Range(todo) : Described(Setting(at).extra) = {}
       /\ pc \in {"ask", "asked"} => \A at \in Here : Described(Setting(at).extra) = {}
       /\ pc \in Identifying => func_dfu = DescriptorOf(dev, cfg_idx)

(* Where find() is, it was asked to go and had access.                     *)
Reached ==
  /\ pc \notin Left =>
       /\ f.path \in {<< >>, get_path(desc)}
       /\ \A c \in 1 .. cfg_idx : ~desc.configs[c].empty
  /\ pc \in WithConfig => f.config_index \in {-1, config.bConfigurationValue}
  /\ pc = "identify" => Eligible(Head(todo), func_dfu.bcdDFUVersion)
  /\ pc = "done" => dev = Len(search.bus)

(* No call has failed for what it has not come to.                         *)
LostBehind ==
  /\ \A d \in Nat : <<d>> \in lost => GoneDevice(d)
  /\ \A d, c \in Nat : <<d, c>> \in lost => GoneDevice(d)
  /\ \A d, c \in Nat : <<d, c, "descriptor">> \in lost => Gone(d, c) \/ At(d, c)
  /\ \A at \in Places : at \in lost => InterfaceGone(at)
  /\ \A at \in Places, w \in {"name", "serial"} : at \o <<w>> \in lost => Passed(at)

ResultPlaces == {results[k].at : k \in DOMAIN results}

ResultsInOrder ==
  /\ \A at \in ResultPlaces : at \in AllPlaces /\ Setting(at).dfuClass /\ Passed(at)
  /\ \A j, k \in DOMAIN results : j < k => Before(results[j].at, results[k].at)
  /\ pc \in Identifying => \A at \in ResultPlaces, x \in Range(todo) : Before(at, x)

FoundSoFar ==
  \A at \in AllPlaces : Regular(at[1], at[2]) /\ Passed(at) =>
    (at \in ResultPlaces <=> Wanted(at) /\ ~OutOfReach(at))

Whole == ResultsInOrder /\ FoundSoFar /\ OwnDescriptor

SInv == InOrder /\ Walk /\ Reached /\ LostBehind /\ Whole

(* A step that adds no result keeps what was found when it takes nothing   *)
(* back and what it passes is not to be found.                             *)
LEMMA WholeKept ==
  ASSUME Types, Whole, search' = search, results' = results,
         \A at \in AllPlaces : Passed(at) => Passed(at)',
         \A at \in AllPlaces : Passed(at) /\ Setting(at).dfuClass =>
           \A x \in About(at) : x \in lost' <=> x \in lost,
         \A at \in AllPlaces : Passed(at)' /\ ~Passed(at) /\ Regular(at[1], at[2]) =>
           ~(Wanted(at)' /\ ~OutOfReach(at)'),
         pc' \in Identifying => \A at \in ResultPlaces, x \in Range(todo') : Before(at, x)
  PROVE  Whole'
<1>1. search \in Searches  BY DEF Types
<1>2. /\ ResultPlaces' = ResultPlaces /\ AllPlaces' = AllPlaces
      /\ \A d, c : Regular(d, c)' = Regular(d, c)
      /\ \A at : Setting(at)' = Setting(at)
  BY SameBus DEF ResultPlaces
<1>3. ASSUME NEW at \in AllPlaces, Passed(at), Setting(at).dfuClass
      PROVE  /\ DescriptorOf(at[1], at[2])' = DescriptorOf(at[1], at[2])
             /\ Wanted(at)' = Wanted(at)
             /\ OutOfReach(at)' = OutOfReach(at)
  BY <1>1, <1>3, Untouched
<1>4. ResultsInOrder'
  <2>1. \A at \in ResultPlaces : at \in AllPlaces /\ Setting(at).dfuClass /\ Passed(at)'
    BY DEF Whole, ResultsInOrder
  <2>2. \A at \in ResultPlaces' : at \in AllPlaces' /\ Setting(at)'.dfuClass /\ Passed(at)'
    BY <1>2, <2>1
  <2>3. \A j, k \in DOMAIN results' : j < k => Before(results'[j].at, results'[k].at)
    BY DEF Whole, ResultsInOrder
  <2>4. QED  BY <1>2, <2>2, <2>3 DEF ResultsInOrder
<1>5. FoundSoFar'
  <2>1. ASSUME NEW at \in AllPlaces, Regular(at[1], at[2]), Passed(at)'
        PROVE  at \in ResultPlaces <=> Wanted(at)' /\ ~OutOfReach(at)'
    <3>1. CASE ~Passed(at)
      <4>1. at \notin ResultPlaces  BY <3>1 DEF Whole, ResultsInOrder
      <4>2. QED  BY <2>1, <3>1, <4>1
    <3>2. CASE Passed(at) /\ ~Setting(at).dfuClass
      <4>1. at \notin ResultPlaces  BY <3>2 DEF Whole, ResultsInOrder
      <4>2. ~Wanted(at)'
        <5>1. ~Setting(at)'.dfuClass  BY <1>2, <3>2
        <5>2. QED  BY <5>1 DEF Wanted
      <4>3. QED  BY <4>1, <4>2
    <3>3. CASE Passed(at) /\ Setting(at).dfuClass
      <4>1. at \in ResultPlaces <=> Wanted(at) /\ ~OutOfReach(at)
        BY <2>1, <3>3 DEF Whole, FoundSoFar
      <4>2. QED  BY <1>3, <3>3, <4>1
    <3>4. QED  BY <3>1, <3>2, <3>3
  <2>2. QED  BY <1>2, <2>1 DEF FoundSoFar
<1>6. OwnDescriptor'
  <2>1. ASSUME NEW k \in DOMAIN results,
               Regular(results[k].at[1], results[k].at[2])
        PROVE  results[k].func_dfu =
                 IF "FORCE_DFU11" \in results[k].quirks
                   THEN [DescriptorOf(results[k].at[1], results[k].at[2])'
                           EXCEPT !.bcdDFUVersion = \h0110]
                   ELSE DescriptorOf(results[k].at[1], results[k].at[2])'
    <3>1. PICK at : at = results[k].at  OBVIOUS
    <3>2. at \in ResultPlaces  BY <3>1 DEF ResultPlaces
    <3>3. at \in AllPlaces /\ Setting(at).dfuClass /\ Passed(at)
      BY <3>2 DEF Whole, ResultsInOrder
    <3>4. DescriptorOf(at[1], at[2])' = DescriptorOf(at[1], at[2])  BY <1>3, <3>3
    <3>5. results[k].func_dfu =
            IF "FORCE_DFU11" \in results[k].quirks
              THEN [DescriptorOf(at[1], at[2]) EXCEPT !.bcdDFUVersion = \h0110]
              ELSE DescriptorOf(at[1], at[2])
      BY <2>1, <3>1 DEF Whole, OwnDescriptor
    <3>6. QED  BY <3>1, <3>4, <3>5
  <2>2. QED  BY <1>2, <2>1 DEF OwnDescriptor
<1>7. QED  BY <1>4, <1>5, <1>6 DEF Whole

(* The entries of lost are told apart by their length.                     *)
LEMMA OneMore ==
  ASSUME NEW S, NEW s \in Seq(S), Len(s) = 4, NEW t \in Seq(S), Len(t) = 1
  PROVE  /\ s \o t \in Seq(S) /\ Len(s \o t) = 5
         /\ (s \o t)[1] = s[1] /\ (s \o t)[2] = s[2] /\ (s \o t)[3] = s[3]
         /\ (s \o t)[4] = s[4] /\ (s \o t)[5] = t[1]
<1>1. s \o t \in Seq(S)  BY ConcatProperties
<1>2. Len(s \o t) = Len(s) + Len(t)  BY ConcatProperties
<1>3. \A i \in 1 .. Len(s) + Len(t) : (s \o t)[i] = IF i <= Len(s) THEN s[i] ELSE t[i - Len(s)]
  BY ConcatProperties
<1> DEFINE n == Len(s)
           m == Len(t)
           q == s \o t
<1>4. \A i \in 1 .. 5 : q[i] = IF i <= 4 THEN s[i] ELSE t[i - 4]
  <2>1. n = 4 /\ m = 1  OBVIOUS
  <2>2. \A i \in 1 .. n + m : q[i] = IF i <= n THEN s[i] ELSE t[i - n]  BY <1>3
  <2> HIDE DEF n, m, q
  <2>3. n + m = 5  BY <2>1
  <2>4. QED  BY <2>1, <2>2, <2>3
<1>5. \A i \in 1 .. 4 : i \in 1 .. 5 /\ i <= 4  OBVIOUS
<1>6. \A i \in 1 .. 4 : (s \o t)[i] = s[i]  BY <1>4, <1>5
<1>7. (s \o t)[5] = t[1]
  <2> HIDE DEF n, m, q
  <2>1. 5 \in 1 .. 5 /\ ~(5 <= 4) /\ 5 - 4 = 1  OBVIOUS
  <2>2. q[5] = IF 5 <= 4 THEN s[5] ELSE t[5 - 4]  BY <1>4, <2>1
  <2>3. q[5] = t[1]  BY <2>1, <2>2
  <2>4. QED  BY <2>3 DEF q
<1>8. QED  BY <1>1, <1>2, <1>6, <1>7

LEMMA NamePlace ==
  ASSUME NEW at \in Places, NEW w \in {"name", "serial"}
  PROVE  at \o <<w>> = <<at[1], at[2], at[3], at[4], w>>
<1> DEFINE S == Nat \cup {"name", "serial"}
           e == <<at[1], at[2], at[3], at[4], w>>
           t == <<w>>
           s == at \o t
<1>1. /\ at = <<at[1], at[2], at[3], at[4]>>
      /\ at[1] \in S /\ at[2] \in S /\ at[3] \in S /\ at[4] \in S
  BY PlaceShape
<1> HIDE DEF S
<1>2. at \in Seq(S) /\ Len(at) = 4
  <2>1. <<at[1], at[2], at[3], at[4]>> \in Seq(S) /\ Len(<<at[1], at[2], at[3], at[4]>>) = 4
    BY <1>1
  <2>2. QED  BY <1>1, <2>1
<1>3. t \in Seq(S) /\ Len(t) = 1 /\ t[1] = w  BY DEF S
<1>5. /\ e \in Seq(S) /\ Len(e) = 5
      /\ e[1] = at[1] /\ e[2] = at[2] /\ e[3] = at[3] /\ e[4] = at[4] /\ e[5] = w
  BY <1>1 DEF S
<1> HIDE DEF t, e
<1>4. /\ s \in Seq(S) /\ Len(s) = 5
      /\ s[1] = at[1] /\ s[2] = at[2] /\ s[3] = at[3] /\ s[4] = at[4] /\ s[5] = w
  <2>1. /\ s \in Seq(S) /\ Len(s) = 5
        /\ s[1] = at[1] /\ s[2] = at[2] /\ s[3] = at[3] /\ s[4] = at[4] /\ s[5] = t[1]
    BY <1>2, <1>3, OneMore
  <2>2. QED  BY <1>3, <2>1
<1> HIDE DEF s
<1>6. \A i \in 1 .. Len(s) : s[i] = e[i]
  <2>1. 1 .. Len(s) = {1, 2, 3, 4, 5}  BY <1>4
  <2>2. QED  BY <1>4, <1>5, <2>1
<1>7. s = e
  <2>1. Len(s) = Len(e)  BY <1>4, <1>5
  <2>2. QED  BY <1>4, <1>5, <1>6, <2>1, SeqEqual
<1>8. QED  BY <1>7 DEF e, s, t

LEMMA Apart ==
  ASSUME NEW at \in Places, NEW d, NEW c, NEW i, NEW a, NEW w \in {"name", "serial"}
  PROVE  /\ <<d>> \notin {<<d, c>>, <<d, c, "descriptor">>, <<d, c, i, a>>, at \o <<w>>, at}
         /\ <<d, c>> \notin {<<d, c, "descriptor">>, <<d, c, i, a>>, at \o <<w>>, at}
         /\ <<d, c, "descriptor">> \notin {<<d, c, i, a>>, at \o <<w>>, at}
         /\ <<d, c, i, a>> # at \o <<w>>
<1> DEFINE x == <<at[1], at[2], at[3], at[4]>>
           y == <<at[1], at[2], at[3], at[4], w>>
<1>1. at = x /\ at \o <<w>> = y  BY PlaceShape, NamePlace
<1>2. /\ <<d>> \notin {<<d, c>>, <<d, c, "descriptor">>, <<d, c, i, a>>, y, x}
      /\ <<d, c>> \notin {<<d, c, "descriptor">>, <<d, c, i, a>>, y, x}
      /\ <<d, c, "descriptor">> \notin {<<d, c, i, a>>, y, x}
      /\ <<d, c, i, a>> # y
  OBVIOUS
<1> HIDE DEF x, y
<1>3. QED  BY <1>1, <1>2

-------------------------------------------------------------------------------
(***************************************************************************)
(* What the steps that find nothing keep.                                  *)
(***************************************************************************)
LEMMA PlaceHere ==
  ASSUME Types, pc \in WithConfig, NEW at \in AllPlaces, at[1] = dev, at[2] = cfg_idx
  PROVE  at \in Here <=> Setting(at).dfuClass
<1>1. at \in PlacesIn(at[1], at[2])  BY PlacesTyped DEF Types
<1>2. at \in PlacesIn(dev, cfg_idx)  BY <1>1
<1>3. QED  BY <1>2, HereIs

LEMMA GoneBefore ==
  ASSUME Types, pc \in WithConfig, NEW at \in Places, Gone(at[1], at[2]), NEW x \in Here
  PROVE  Before(at, x)
<1>1. x \in Places /\ x[1] = dev /\ x[2] = cfg_idx  BY HereTypes
<1>2. at[1] < dev \/ (at[1] = dev /\ at[2] < cfg_idx)
  BY DEF Gone, GoneDevice, Left, WithConfig
<1>3. QED  BY <1>1, <1>2, BeforeIs

LEMMA NotGoneHere ==
  ASSUME Types, pc \in WithConfig
  PROVE  ~GoneDevice(dev) /\ ~Gone(dev, cfg_idx)
<1>1. dev \in Nat /\ cfg_idx \in Nat  BY ConfigTypes
<1>2. ~(dev < dev) /\ ~(cfg_idx < cfg_idx)  BY <1>1
<1>3. QED  BY <1>2 DEF Gone, GoneDevice, Left, WithConfig

(* Steps of the walk leave what was found and lost as it is.               *)
LEMMA EarlyKept ==
  ASSUME Types, LostBehind, Whole, UNCHANGED <<search, dev, cfg_idx, results, lost>>,
         pc \in Scans, pc' \in Scans
  PROVE  LostBehind' /\ Whole'
<1>1. /\ \A d : GoneDevice(d)' <=> GoneDevice(d)
      /\ \A d, c : Gone(d, c)' <=> Gone(d, c)
      /\ \A d, c : ~At(d, c)' /\ ~At(d, c)
  BY DEF GoneDevice, Gone, At, Scans, Left, Identifying
<1>2. /\ \A at : Passed(at)' <=> Passed(at)
      /\ \A at : InterfaceGone(at)' <=> InterfaceGone(at)
  BY <1>1 DEF Passed, InterfaceGone
<1>3. LostBehind'  BY <1>1, <1>2 DEF LostBehind
<1>4. Whole'
  <2>1. pc' \notin Identifying  BY DEF Scans, Identifying
  <2>2. QED  BY <1>2, <2>1, WholeKept
<1>5. QED  BY <1>3, <1>4

(* The settings are begun with all that is to be gone through.             *)
LEMMA ToSettingsKept ==
  ASSUME Types, LostBehind, Whole, UNCHANGED <<search, dev, cfg_idx, results>>,
         pc \in Scans, pc' = "settings", Range(todo') = Here,
         lost' \in {lost, lost \cup {<<dev, cfg_idx, "descriptor">>}}
  PROVE  LostBehind' /\ Whole'
<1> DEFINE new == <<dev, cfg_idx, "descriptor">>
<1>1. pc \in WithConfig /\ pc \notin Left /\ pc' \notin Left /\ pc # "config"
      /\ pc \notin Identifying /\ pc' \in Identifying
  BY DEF Scans, Left, WithConfig, Identifying
<1>2. /\ \A d : GoneDevice(d)' <=> GoneDevice(d)
      /\ \A d, c : Gone(d, c)' <=> Gone(d, c)
      /\ \A d, c : At(d, c)' <=> d = dev /\ c = cfg_idx
      /\ \A d, c : ~At(d, c)
  BY <1>1 DEF GoneDevice, Gone, At
<1>3. /\ \A at : Passed(at) <=> Gone(at[1], at[2])
      /\ \A at : InterfaceGone(at) <=> Gone(at[1], at[2])
      /\ \A at : Passed(at)' <=>
           Gone(at[1], at[2]) \/ (at[1] = dev /\ at[2] = cfg_idx /\ at \notin Here)
      /\ \A at : Gone(at[1], at[2]) => InterfaceGone(at)'
  BY <1>2 DEF Passed, InterfaceGone
<1>4. lost \subseteq lost' /\ \A x \in lost' : x \in lost \/ x = new  OBVIOUS
<1>5. LostBehind'
  <2>1. \A d \in Nat : <<d>> \in lost' => GoneDevice(d)'
    BY <1>2, <1>4 DEF LostBehind
  <2>2. \A d, c \in Nat : <<d, c>> \in lost' => GoneDevice(d)'
    BY <1>2, <1>4 DEF LostBehind
  <2>3. \A d, c \in Nat : <<d, c, "descriptor">> \in lost' => Gone(d, c)' \/ At(d, c)'
    BY <1>2, <1>4 DEF LostBehind
  <2>4. \A at \in Places : at \in lost' => InterfaceGone(at)'
    <3>1. \A at \in Places : at # new  BY PlaceShape
    <3>2. QED  BY <1>3, <1>4, <3>1 DEF LostBehind
  <2>5. \A at \in Places, w \in {"name", "serial"} : at \o <<w>> \in lost' => Passed(at)'
    <3>1. \A at \in Places, w \in {"name", "serial"} : at \o <<w>> # new  BY Apart
    <3>2. QED  BY <1>3, <1>4, <3>1 DEF LostBehind
  <2>6. QED  BY <2>1, <2>2, <2>3, <2>4, <2>5 DEF LostBehind
<1>6. Whole'
  <2>1. search \in Searches  BY DEF Types
  <2>2. \A at \in AllPlaces : Passed(at) => Passed(at)'  BY <1>3
  <2>3. ASSUME NEW at \in AllPlaces, Passed(at), NEW x \in About(at)
        PROVE  x \in lost' <=> x \in lost
    <3>1. at \in Places  BY <2>1, PlacesTyped
    <3>2. at[1] # dev \/ at[2] # cfg_idx  BY <1>1, <1>3, <2>3, NotGoneHere
    <3>3. <<at[1], at[2], "descriptor">> # new  BY <3>2
    <3>4. at \o <<"name">> # new /\ at \o <<"serial">> # new  BY <3>1, Apart
    <3>5. <<at[1]>> # new /\ \A c : <<at[1], c>> # new  OBVIOUS
    <3>6. \A a : <<at[1], at[2], at[3], a>> # new  OBVIOUS
    <3>7. x # new  BY <2>3, <3>3, <3>4, <3>5, <3>6 DEF About
    <3>8. QED  BY <1>4, <3>7
  <2>4. ASSUME NEW at \in AllPlaces, Passed(at)', ~Passed(at)
        PROVE  ~Wanted(at)'
    <3>1. at[1] = dev /\ at[2] = cfg_idx /\ at \notin Here  BY <1>3, <2>4
    <3>2. ~Setting(at).dfuClass  BY <1>1, <3>1, PlaceHere
    <3>3. ~Setting(at)'.dfuClass  BY <3>2, SameBus
    <3>4. QED  BY <3>3 DEF Wanted
  <2>5. ASSUME NEW at \in ResultPlaces, NEW x \in Range(todo')  PROVE Before(at, x)
    <3>1. at \in AllPlaces /\ Gone(at[1], at[2])
      BY <1>3 DEF Whole, ResultsInOrder
    <3>2. at \in Places  BY <2>1, <3>1, PlacesTyped
    <3>3. QED  BY <1>1, <3>1, <3>2, GoneBefore
  <2>6. QED  BY <2>2, <2>3, <2>4, <2>5, WholeKept
<1>7. QED  BY <1>5, <1>6

(* A configuration is left when nothing of it is still to be done.         *)
LEMMA ToConfigKept ==
  ASSUME Types, LostBehind, Whole, UNCHANGED <<search, dev, cfg_idx, results, lost>>,
         pc \in WithConfig, pc' = "config",
         \/ pc \in Scans /\ Here = {}
         \/ pc = "settings" /\ Range(todo) = {}
  PROVE  LostBehind' /\ Whole'
<1>1. /\ pc \notin Left /\ pc # "config" /\ pc' \notin Left /\ pc' \notin Identifying
      /\ (pc \in Scans => pc \notin Identifying)
      /\ (pc = "settings" => pc \in Identifying)
  BY DEF Left, WithConfig, Identifying, Scans
<1>2. /\ \A d : GoneDevice(d)' <=> GoneDevice(d)
      /\ \A d, c : Gone(d, c)' <=> Gone(d, c) \/ (d = dev /\ c = cfg_idx)
      /\ \A d, c : At(d, c) => d = dev /\ c = cfg_idx
      /\ pc = "settings" => \A d, c : At(d, c) <=> d = dev /\ c = cfg_idx
  BY <1>1 DEF GoneDevice, Gone, At
<1>3. \A at : Passed(at)' <=> Gone(at[1], at[2])'
  BY <1>1 DEF Passed, At
<1>7. \A at : Passed(at) \/ InterfaceGone(at) => Gone(at[1], at[2])'
  BY <1>2 DEF Passed, InterfaceGone
<1>8. \A at : InterfaceGone(at) => InterfaceGone(at)'
  BY <1>7 DEF InterfaceGone
<1>9. ASSUME NEW at, Passed(at)', ~Passed(at)
      PROVE  at[1] = dev /\ at[2] = cfg_idx /\ pc \in Scans
  <2>1. at[1] = dev /\ at[2] = cfg_idx /\ ~Gone(at[1], at[2])
    BY <1>2, <1>3, <1>9 DEF Passed
  <2>2. CASE pc = "settings"
    <3>1. At(at[1], at[2])  BY <1>2, <2>1, <2>2
    <3>2. at \notin Range(todo)  BY <2>2 DEF Scans
    <3>3. QED  BY <1>9, <3>1, <3>2 DEF Passed
  <2>3. QED  BY <2>1, <2>2
<1>4. LostBehind'
  <2>1. \A d, c \in Nat : <<d, c, "descriptor">> \in lost' => Gone(d, c)' \/ At(d, c)'
    BY <1>2 DEF LostBehind
  <2>2. \A at \in Places, w \in {"name", "serial"} : at \o <<w>> \in lost' => Passed(at)'
    BY <1>3, <1>7 DEF LostBehind
  <2>3. \A at \in Places : at \in lost' => InterfaceGone(at)'
    BY <1>8 DEF LostBehind
  <2>4. QED  BY <1>2, <2>1, <2>2, <2>3 DEF LostBehind
<1>5. Whole'
  <2>1. search \in Searches  BY DEF Types
  <2>4. \A at : Passed(at) => Passed(at)'  BY <1>3, <1>7
  <2>2. ASSUME NEW at \in AllPlaces, Passed(at)', ~Passed(at)
        PROVE  ~Wanted(at)'
    <3>1. at[1] = dev /\ at[2] = cfg_idx /\ at \notin Here  BY <1>1, <1>9, <2>2
    <3>2. ~Setting(at).dfuClass  BY <3>1, PlaceHere
    <3>3. ~Setting(at)'.dfuClass  BY <3>2, SameBus
    <3>4. QED  BY <3>3 DEF Wanted
  <2>3. QED  BY <1>1, <2>2, <2>4, WholeKept
<1>6. QED  BY <1>4, <1>5

-------------------------------------------------------------------------------
(***************************************************************************)
(* The steps of the walk over the lists of descriptors, one lemma each.    *)
(***************************************************************************)
(* What is to be shown after a step that stays with the configuration.     *)
LEMMA WalkIs ==
  ASSUME UNCHANGED <<search, dev, cfg_idx>>,
         pc' \in Scans => func_dfu' = cleared,
         ASSUME pc' \in WithConfig, Regular(dev, cfg_idx)
         PROVE  /\ pc' = "scanConfig" => AtDescriptor(config.extra, p')
                /\ pc' \in Scans \ {"scanConfig"} => Described(config.extra) = {}
                /\ pc' = "scanSetting" =>
                     /\ AtDescriptor(Setting(Head(todo')).extra, p')
                     /\ \A at \in Here \ Range(todo') : Described(Setting(at).extra) = {}
                /\ pc' \in {"ask", "asked"} =>
                     \A at \in Here : Described(Setting(at).extra) = {}
                /\ pc' \in Identifying => func_dfu' = DescriptorOf(dev, cfg_idx)'
  PROVE  Walk'
<1>1. Here' = Here /\ desc' = desc  BY SamePlace
<1>2. config' = config  BY <1>1 DEF config
<1>3. /\ \A at : Setting(at)' = Setting(at)
      /\ Regular(dev, cfg_idx)' <=> Regular(dev, cfg_idx)
  <2>1. /\ \A at : Setting(at)' = Setting(at)
        /\ \A d, c : Regular(d, c)' = Regular(d, c)
    BY SameBus
  <2>2. QED  BY <2>1
<1>4. Setting(Head(todo))' = Setting(Head(todo'))  BY DEF Setting
<1>5. CASE pc' \in WithConfig /\ Regular(dev, cfg_idx)
  BY <1>1, <1>2, <1>3, <1>4, <1>5 DEF Walk
<1>6. CASE ~(pc' \in WithConfig /\ Regular(dev, cfg_idx))
  BY <1>3, <1>6 DEF Walk
<1>7. QED  BY <1>5, <1>6

LEMMA ReachedKept ==
  ASSUME Types, Reached, UNCHANGED <<search, dev, cfg_idx>>, pc \notin Left, pc' # "done",
         pc' \in WithConfig => pc \in WithConfig,
         pc' = "identify" => Eligible(Head(todo'), func_dfu'.bcdDFUVersion)
  PROVE  Reached'
<1>1. desc' = desc /\ f' = f  BY SamePlace
<1>2. config' = config  BY <1>1 DEF config
<1>3. pc' = "identify" => Eligible(Head(todo), func_dfu.bcdDFUVersion)'
  BY DEF Eligible, ShowsDfu, Setting, f
<1>4. f.path \in {<< >>, get_path(desc)} /\ \A c \in 1 .. cfg_idx : ~desc.configs[c].empty
  BY DEF Reached
<1>5. get_path(desc)' = get_path(desc)  BY <1>1 DEF get_path
<1>6. pc' \notin Left =>
        f'.path \in {<< >>, get_path(desc)'} /\ \A c \in 1 .. cfg_idx' : ~desc'.configs[c].empty
  BY <1>1, <1>4, <1>5
<1>7. pc' \in WithConfig => f'.config_index \in {-1, config'.bConfigurationValue}
  BY <1>1, <1>2 DEF Reached
<1>8. QED  BY <1>3, <1>6, <1>7 DEF Reached

(* The list that is walked.                                                *)
LEMMA WalkingIn ==
  ASSUME Types, AtHand, Walk, Scanning, Regular(dev, cfg_idx)
  PROVE  \E extra \in Seq(Seq(Byte)) :
           /\ WellFormed(extra) /\ list = FlattenSeq(extra) /\ AtDescriptor(extra, p)
           /\ pc = "scanConfig" => extra = config.extra
           /\ pc = "scanSetting" => extra = Setting(Head(todo)).extra
<1>1. CASE pc = "scanConfig"
  <2>1. config.extra \in Seq(Seq(Byte))  BY <1>1, ConfigTypes DEF WithConfig
  <2>2. list = FlattenSeq(config.extra)  BY <1>1 DEF list
  <2>3. WellFormed(config.extra)  BY DEF Regular, config, desc
  <2>4. AtDescriptor(config.extra, p)  BY <1>1 DEF Walk, WithConfig
  <2>5. QED  BY <1>1, <2>1, <2>2, <2>3, <2>4
<1>2. CASE pc = "scanSetting"
  <2>1. todo \in Seq(Here) /\ todo # << >>  BY <1>2 DEF AtHand, WithTodo
  <2>2. Head(todo) \in Here  BY <2>1
  <2>3. Setting(Head(todo)).extra \in Seq(Seq(Byte)) /\ Setting(Head(todo)).dfuClass
    BY <1>2, <2>2, HereTypes DEF WithConfig
  <2>4. list = FlattenSeq(Setting(Head(todo)).extra)  BY <1>2 DEF list
  <2>5. Head(todo) \in PlacesIn(dev, cfg_idx)  BY <1>2, <2>2, HereIs DEF WithConfig
  <2>6. WellFormed(Setting(Head(todo)).extra)  BY <2>3, <2>5 DEF Regular
  <2>7. AtDescriptor(Setting(Head(todo)).extra, p)  BY <1>2 DEF Walk, WithConfig
  <2>8. QED  BY <1>2, <2>3, <2>4, <2>6, <2>7
<1>3. QED  BY <1>1, <1>2 DEF Scanning

LEMMA PassDescriptorFinds ==
  ASSUME IInv, SInv, PassDescriptor
  PROVE  SInv'
<1>1. /\ Types /\ AtHand /\ InOrder /\ Walk /\ Reached /\ LostBehind /\ Whole
      /\ Scanning /\ HasNext /\ list[p + 2] # USB_DT_DFU /\ p' = p + list[p + 1]
      /\ UNCHANGED <<search, pc, dev, cfg_idx, todo, func_dfu, results, lost>>
  BY DEF IInv, SInv, PassDescriptor, held
<1>2. pc \in Scans /\ pc \in WithConfig /\ pc \notin Left /\ pc # "identify"
      /\ pc \notin Identifying /\ pc \notin {"ask", "asked", "done"}
  BY <1>1 DEF Scanning, Scans, WithConfig, Left, Identifying
<1>3. InOrder'
  <2>1. Here' = Here  BY <1>1, SamePlace
  <2>2. QED  BY <1>1, <2>1 DEF InOrder
<1>4. Walk'
  <2>1. ASSUME Regular(dev, cfg_idx)
        PROVE  /\ pc = "scanConfig" => AtDescriptor(config.extra, p')
               /\ pc = "scanSetting" => AtDescriptor(Setting(Head(todo)).extra, p')
    <3>1. PICK extra \in Seq(Seq(Byte)) :
            /\ WellFormed(extra) /\ list = FlattenSeq(extra) /\ AtDescriptor(extra, p)
            /\ pc = "scanConfig" => extra = config.extra
            /\ pc = "scanSetting" => extra = Setting(Head(todo)).extra
      BY <1>1, <2>1, WalkingIn
    <3>2. AtDescriptor(extra, p + list[p + 1])
      BY <1>1, <3>1, WalkOn DEF HasNext, Types
    <3>3. QED  BY <1>1, <3>1, <3>2
  <2>2. pc \in Scans => func_dfu = cleared  BY <1>1 DEF Walk
  <2>3. ASSUME Regular(dev, cfg_idx)
        PROVE  /\ pc \in Scans \ {"scanConfig"} => Described(config.extra) = {}
               /\ pc = "scanSetting" =>
                    \A at \in Here \ Range(todo) : Described(Setting(at).extra) = {}
    BY <1>1, <1>2, <2>3 DEF Walk
  <2>4. QED  BY <1>1, <1>2, <2>1, <2>2, <2>3, WalkIs
<1>5. Reached'  BY <1>1, <1>2, ReachedKept
<1>6. LostBehind' /\ Whole'  BY <1>1, <1>2, EarlyKept
<1>7. QED  BY <1>3, <1>4, <1>5, <1>6 DEF SInv

(* The loops begin with all places of the configuration.                   *)
LEMMA Begun ==
  ASSUME Types, pc \in WithConfig, UNCHANGED <<search, dev, cfg_idx>>, todo' = DfuPlaces
  PROVE  InOrder' /\ Range(todo') = Here
<1>1. Range(todo') = Here /\ Sorted(todo')  BY DfuPlacesAll
<1>2. Here' = Here  BY SamePlace
<1>3. QED  BY <1>1, <1>2 DEF InOrder

(* Of a configuration that is as it should be, the descriptor found is the *)
(* first one of the list that is walked.                                   *)
LEMMA FirstFound ==
  ASSUME Types, AtHand, Walk, Regular(dev, cfg_idx), Scanning, HasNext,
         list[p + 2] = USB_DT_DFU
  PROVE  \E extra :
           /\ pc = "scanConfig" => extra = config.extra
           /\ pc = "scanSetting" => extra = Setting(Head(todo)).extra
           /\ Described(extra) # {}
           /\ FirstIn(extra) = Completed(parse(SubSeq(list, p + 1, p + Taken)))
<1>1. PICK extra \in Seq(Seq(Byte)) :
        /\ WellFormed(extra) /\ list = FlattenSeq(extra) /\ AtDescriptor(extra, p)
        /\ pc = "scanConfig" => extra = config.extra
        /\ pc = "scanSetting" => extra = Setting(Head(todo)).extra
  BY WalkingIn
<1>2. PICK k \in 1 .. Len(extra) :
        /\ p = Starts(extra)[k - 1]
        /\ Described(extra) # {}
        /\ FirstIn(extra) = Completed(parse(extra[k]))
  BY <1>1, WalkFinds DEF HasNext, Types
<1>3. list[p + 1] # 0  BY DEF HasNext
<1>4. parse(SubSeq(list, p + 1, p + Taken)) = parse(extra[k])
  BY <1>1, <1>2, <1>3, TakenIsIt
<1>5. QED  BY <1>1, <1>2, <1>4

(* The first setting left, when none before it has a descriptor, is the    *)
(* first one that describes the configuration if it has one.               *)
LEMMA HeadDescribes ==
  ASSUME Types, AtHand, InOrder, Walk, pc = "scanSetting", Regular(dev, cfg_idx),
         Described(Setting(Head(todo)).extra) # {}
  PROVE  DescriptorOf(dev, cfg_idx) = FirstIn(Setting(Head(todo)).extra)
<1> DEFINE places == Describing(dev, cfg_idx)
           x == Head(todo)
<1>1. pc \in WithConfig /\ pc \in WithTodo  BY DEF WithConfig, WithTodo
<1>2. todo \in Seq(Here) /\ todo # << >> /\ Sorted(todo)  BY <1>1 DEF AtHand, InOrder
<1>3. /\ x \in Range(todo) /\ Range(todo) = {x} \cup Range(Tail(todo))
      /\ \A y \in Range(Tail(todo)) : Before(x, y)
  BY <1>2, HeadFirst
<1>4. x \in Here  BY <1>2
<1>5. Here = {at \in PlacesIn(dev, cfg_idx) : Setting(at).dfuClass} /\ Here \subseteq Places
  BY <1>1, HereIs, HereTypes
<1>6. places = {at \in Here : Described(Setting(at).extra) # {}}
  BY <1>5 DEF Describing
<1>7. \A at \in Here \ Range(todo) : Described(Setting(at).extra) = {}
  BY <1>1 DEF Walk
<1>8. x \in places  BY <1>4, <1>6
<1>9. \A y \in places : y = x \/ Before(x, y)  BY <1>3, <1>6, <1>7
<1>10. places \in SUBSET Places  BY <1>5, <1>6
<1> HIDE DEF places, x
<1>11. FirstAmong(places) = x  BY <1>8, <1>9, <1>10, FirstIsFirst
<1>12. Described(search.bus[dev].configs[cfg_idx].extra) = {}
  BY <1>1 DEF Walk, Scans, config, desc
<1>13. places # {}  BY <1>8
<1>14. QED  BY <1>11, <1>12, <1>13 DEF DescriptorOf, places, x

LEMMA FindDescriptorFinds ==
  ASSUME IInv, SInv, FindDescriptor
  PROVE  SInv'
<1>1. /\ Types /\ AtHand /\ InOrder /\ Walk /\ Reached /\ LostBehind /\ Whole
      /\ Scanning /\ HasNext /\ list[p + 2] = USB_DT_DFU
      /\ func_dfu' = Completed(parse(SubSeq(list, p + 1, p + Taken)))
      /\ pc' = "settings" /\ todo' = DfuPlaces
      /\ UNCHANGED <<search, dev, cfg_idx, results, lost>>
  BY DEF IInv, SInv, FindDescriptor, held
<1>2. /\ pc \in Scans /\ pc \in WithConfig /\ pc \notin Left
      /\ pc' \notin Scans /\ pc' \in Identifying
  BY <1>1 DEF Scanning, Scans, WithConfig, Left, Identifying
<1>3. InOrder' /\ Range(todo') = Here  BY <1>1, <1>2, Begun
<1>4. Walk'
  <2>1. ASSUME Regular(dev, cfg_idx)
        PROVE  func_dfu' = DescriptorOf(dev, cfg_idx)'
    <3>1. PICK extra :
            /\ pc = "scanConfig" => extra = config.extra
            /\ pc = "scanSetting" => extra = Setting(Head(todo)).extra
            /\ Described(extra) # {}
            /\ FirstIn(extra) = Completed(parse(SubSeq(list, p + 1, p + Taken)))
      BY <1>1, <2>1, FirstFound
    <3>2. CASE pc = "scanConfig"
      <4>1. extra = search.bus[dev].configs[cfg_idx].extra
        BY <3>1, <3>2 DEF config, desc
      <4>2. DescriptorOf(dev, cfg_idx) = FirstIn(extra)
        BY <3>1, <4>1 DEF DescriptorOf
      <4>3. QED  BY <1>1, <3>1, <4>2, SameDescriptor
    <3>3. CASE pc = "scanSetting"
      <4>1. DescriptorOf(dev, cfg_idx) = FirstIn(extra)
        BY <1>1, <2>1, <3>1, <3>3, HeadDescribes
      <4>2. QED  BY <1>1, <3>1, <4>1, SameDescriptor
    <3>4. QED  BY <1>1, <3>2, <3>3 DEF Scanning
  <2>2. pc' \notin {"scanConfig", "scanSetting", "ask", "asked"}  BY <1>1
  <2>3. QED  BY <1>1, <1>2, <2>1, <2>2, WalkIs
<1>5. Reached'
  <2>1. pc' # "identify" /\ pc' # "done"  BY <1>1
  <2>2. QED  BY <1>1, <1>2, <2>1, ReachedKept
<1>6. LostBehind' /\ Whole'
  <2>1. lost' \in {lost, lost \cup {<<dev, cfg_idx, "descriptor">>}}  BY <1>1
  <2>2. QED  BY <1>1, <1>2, <1>3, <2>1, ToSettingsKept
<1>7. QED  BY <1>3, <1>4, <1>5, <1>6 DEF SInv

LEMMA NoDescriptorFinds ==
  ASSUME IInv, SInv, NoDescriptor
  PROVE  SInv'
<1>1. /\ Types /\ AtHand /\ InOrder /\ Walk /\ Reached /\ LostBehind /\ Whole
      /\ Scanning /\ ~HasNext /\ p' = 0
      /\ todo' = IF pc = "scanConfig" THEN DfuPlaces ELSE Tail(todo)
      /\ UNCHANGED <<search, dev, cfg_idx, func_dfu, results, lost>>
  BY DEF IInv, SInv, NoDescriptor
<1>2. /\ pc \in Scans /\ pc \in WithConfig /\ pc \notin Left
      /\ pc \in {"scanConfig", "scanSetting"}
  BY <1>1 DEF Scanning, Scans, WithConfig, Left
<1>3. \/ pc' = "scanSetting" /\ todo' # << >>
      \/ pc' = "ask" /\ todo' = << >>
      \/ pc' = "config" /\ todo' = << >> /\ DfuPlaces = << >>
  BY DEF NoDescriptor, FreeConfig
<1>4. Range(DfuPlaces) = Here /\ Sorted(DfuPlaces) /\ DfuPlaces \in Seq(Here)
  BY <1>1, <1>2, DfuPlacesAll, DfuPlacesType
<1>5. Sorted(todo') /\ todo' \in Seq(Here)
  <2>1. CASE pc = "scanConfig"  BY <1>1, <1>4, <2>1
  <2>2. CASE pc = "scanSetting"
    <3>1. todo \in Seq(Here) /\ todo # << >> /\ Sorted(todo)
      BY <1>1, <2>2 DEF AtHand, InOrder, WithTodo
    <3>2. QED  BY <1>1, <2>2, <3>1, HeadFirst
  <2>3. QED  BY <1>2, <2>1, <2>2
<1>6. ASSUME Regular(dev, cfg_idx)
      PROVE  /\ Described(config.extra) = {}
             /\ \A at \in Here \ Range(todo') : Described(Setting(at).extra) = {}
  <2>1. PICK extra \in Seq(Seq(Byte)) :
          /\ WellFormed(extra) /\ list = FlattenSeq(extra) /\ AtDescriptor(extra, p)
          /\ pc = "scanConfig" => extra = config.extra
          /\ pc = "scanSetting" => extra = Setting(Head(todo)).extra
    BY <1>1, <1>6, WalkingIn
  <2>2. Described(extra) = {}  BY <1>1, <2>1, WalkEnds DEF HasNext, Types
  <2>3. CASE pc = "scanConfig"  BY <1>1, <1>4, <2>1, <2>2, <2>3
  <2>4. CASE pc = "scanSetting"
    <3>1. todo \in Seq(Here) /\ todo # << >> /\ Sorted(todo)
      BY <1>1, <2>4 DEF AtHand, InOrder, WithTodo
    <3>2. Range(todo) = {Head(todo)} \cup Range(todo')
      BY <1>1, <2>4, <3>1, HeadFirst
    <3>3. /\ \A at \in Here \ Range(todo) : Described(Setting(at).extra) = {}
          /\ Described(config.extra) = {}
      BY <1>1, <1>2, <1>6, <2>4 DEF Walk, Scans
    <3>4. \A at \in Here \ Range(todo') : at \in Here \ Range(todo) \/ at = Head(todo)
      BY <3>2
    <3>5. QED  BY <2>1, <2>2, <2>4, <3>3, <3>4
  <2>5. QED  BY <1>2, <2>3, <2>4
<1>7. InOrder'
  <2>1. pc' # "asked" /\ pc' \notin Identifying  BY <1>3 DEF Identifying
  <2>2. QED  BY <1>5, <2>1 DEF InOrder
<1>8. Walk'
  <2>1. func_dfu' = cleared  BY <1>1, <1>2 DEF Walk
  <2>2. pc' \notin {"scanConfig", "asked"} /\ pc' \notin Identifying
    BY <1>3 DEF Identifying
  <2>3. pc' = "scanSetting" => AtDescriptor(Setting(Head(todo')).extra, p')
    <3>1. ASSUME pc' = "scanSetting"  PROVE Head(todo') \in Here
      BY <1>3, <1>5, <3>1
    <3>2. pc' = "scanSetting" => Setting(Head(todo')).extra \in Seq(Seq(Byte))
      BY <1>1, <1>2, <3>1, HereTypes
    <3>3. QED  BY <1>1, <3>2, WalkStarts
  <2>4. pc' = "ask" => Range(todo') = {}
    BY <1>3 DEF Range
  <2>5. QED  BY <1>1, <1>6, <2>1, <2>2, <2>3, <2>4, WalkIs
<1>9. Reached'
  <2>1. pc' # "identify" /\ pc' # "done"  BY <1>3
  <2>2. QED  BY <1>1, <1>2, <2>1, ReachedKept
<1>10. LostBehind' /\ Whole'
  <2>1. CASE pc' = "config"
    <3>1. Here = {}  BY <1>3, <1>4, <2>1 DEF Range
    <3>2. QED  BY <1>1, <1>2, <2>1, <3>1, ToConfigKept
  <2>2. CASE pc' # "config"
    <3>1. pc' \in Scans  BY <1>3, <2>2 DEF Scans
    <3>2. QED  BY <1>1, <1>2, <3>1, EarlyKept
  <2>3. QED  BY <2>1, <2>2
<1>11. QED  BY <1>7, <1>8, <1>9, <1>10 DEF SInv

(* A configuration that no list describes.                                 *)
LEMMA Undescribed ==
  ASSUME search' = search, NEW d, NEW c,
         Described(search.bus[d].configs[c].extra) = {}, Describing(d, c) = {}
  PROVE  DescriptorOf(d, c)' =
           IF <<d, c, "descriptor">> \in lost'
             THEN [cleared EXCEPT !.bLength = 7, !.bcdDFUVersion = \h0100]
           ELSE Completed(parse(search.bus[d].answer))
<1>1. Describing(d, c)' = {}  BY SameBus
<1>2. QED  BY <1>1 DEF DescriptorOf

LEMMA NothingDescribes ==
  ASSUME Types, Walk, pc \in {"ask", "asked"}, Regular(dev, cfg_idx)
  PROVE  /\ Described(search.bus[dev].configs[cfg_idx].extra) = {}
         /\ Describing(dev, cfg_idx) = {}
<1>1. pc \in WithConfig /\ pc \in Scans \ {"scanConfig"}  BY DEF WithConfig, Scans
<1>2. Described(config.extra) = {}  BY <1>1 DEF Walk
<1>3. \A at \in Here : Described(Setting(at).extra) = {}  BY <1>1 DEF Walk
<1>4. Here = {at \in PlacesIn(dev, cfg_idx) : Setting(at).dfuClass}  BY <1>1, HereIs
<1>5. Describing(dev, cfg_idx) = {}  BY <1>3, <1>4 DEF Describing
<1>6. QED  BY <1>2, <1>5 DEF config, desc

LEMMA FakeIs ==
  Completed(Fake(cleared)) = [cleared EXCEPT !.bLength = 7, !.bcdDFUVersion = \h0100]
<1> DEFINE seven == 7
           version == \h0100
           e == Fake(cleared)
<1>1. e = [cleared EXCEPT !.bLength = seven, !.bcdDFUVersion = version]  BY DEF Fake
<1>2. cleared \in FuncDescriptors  BY ClearedType
<1> HIDE DEF seven, version, e
<1>3. e.bLength = seven  BY <1>1, <1>2 DEF FuncDescriptors
<1>4. [e EXCEPT !.bcdDFUVersion = version] = e  BY <1>1, <1>2 DEF FuncDescriptors
<1>5. Completed(e) = [e EXCEPT !.bcdDFUVersion = version]
  BY <1>3 DEF Completed, seven, version
<1>6. Completed(e) = [cleared EXCEPT !.bLength = seven, !.bcdDFUVersion = version]
  BY <1>1, <1>4, <1>5
<1>7. QED  BY <1>6 DEF e, seven, version

LEMMA AskDeviceFinds ==
  ASSUME IInv, SInv, AskDevice
  PROVE  SInv'
<1> DEFINE new == <<dev, cfg_idx, "descriptor">>
<1>1. /\ Types /\ AtHand /\ InOrder /\ Walk /\ Reached /\ LostBehind /\ Whole
      /\ pc = "ask" /\ todo' = DfuPlaces
      /\ UNCHANGED <<search, dev, cfg_idx, results>>
      /\ \/ pc' = "asked" /\ UNCHANGED <<func_dfu, lost>>
         \/ /\ pc' = "settings" /\ func_dfu' = Completed(Fake(func_dfu))
            /\ lost' = lost \cup {new}
  BY DEF IInv, SInv, AskDevice
<1>2. pc \in Scans /\ pc \in WithConfig /\ pc \notin Left
  BY <1>1 DEF Scans, WithConfig, Left
<1>3. InOrder' /\ Range(todo') = Here  BY <1>1, <1>2, Begun
<1>4. func_dfu = cleared  BY <1>1, <1>2 DEF Walk
<1>5. Reached'
  <2>1. pc' # "identify" /\ pc' # "done"  BY <1>1
  <2>2. QED  BY <1>1, <1>2, <2>1, ReachedKept
<1>6. CASE pc' = "asked"
  <2>1. func_dfu' = func_dfu /\ lost' = lost /\ pc' \in Scans /\ pc' \notin Identifying
    BY <1>1, <1>6 DEF Scans, Identifying
  <2>2. Regular(dev, cfg_idx) =>
          Described(config.extra) = {} /\ \A at \in Here : Described(Setting(at).extra) = {}
    BY <1>1, <1>2 DEF Walk, Scans
  <2>3. Walk'  BY <1>1, <1>4, <1>6, <2>1, <2>2, WalkIs
  <2>4. LostBehind' /\ Whole'  BY <1>1, <1>2, <2>1, EarlyKept
  <2>5. QED  BY <1>3, <1>5, <2>3, <2>4 DEF SInv
<1>7. CASE pc' = "settings"
  <2>1. func_dfu' = Completed(Fake(cleared)) /\ lost' = lost \cup {new} /\ pc' \notin Scans
    BY <1>1, <1>4, <1>7 DEF Scans
  <2>2. ASSUME Regular(dev, cfg_idx)  PROVE func_dfu' = DescriptorOf(dev, cfg_idx)'
    <3>1. /\ Described(search.bus[dev].configs[cfg_idx].extra) = {}
          /\ Describing(dev, cfg_idx) = {}
      BY <1>1, <2>2, NothingDescribes
    <3>2. <<dev, cfg_idx, "descriptor">> \in lost'  BY <2>1
    <3>3. DescriptorOf(dev, cfg_idx)' =
            [cleared EXCEPT !.bLength = 7, !.bcdDFUVersion = \h0100]
      BY <1>1, <3>1, <3>2, Undescribed
    <3>4. QED  BY <2>1, <3>3, FakeIs
  <2>3. pc' \notin {"scanConfig", "scanSetting", "ask", "asked"}  BY <1>7
  <2>4. Walk'  BY <1>1, <2>1, <2>2, <2>3, WalkIs
  <2>5. LostBehind' /\ Whole'  BY <1>1, <1>2, <1>3, <1>7, <2>1, ToSettingsKept
  <2>6. QED  BY <1>3, <1>5, <2>4, <2>5 DEF SInv
<1>8. QED  BY <1>1, <1>6, <1>7

LEMMA AskedFinds ==
  ASSUME IInv, SInv, Asked
  PROVE  SInv'
<1> DEFINE new == <<dev, cfg_idx, "descriptor">>
<1>1. /\ Types /\ AtHand /\ InOrder /\ Walk /\ Reached /\ LostBehind /\ Whole
      /\ pc = "asked" /\ pc' = "settings"
      /\ UNCHANGED <<search, dev, cfg_idx, todo, results>>
      /\ \/ func_dfu' = Completed(parse(desc.answer)) /\ lost' = lost
         \/ func_dfu' = Completed(Fake(func_dfu)) /\ lost' = lost \cup {new}
  BY DEF IInv, SInv, Asked
<1>2. /\ pc \in Scans /\ pc \in WithConfig /\ pc \notin Left /\ pc \notin Identifying
      /\ pc' \notin Scans /\ pc \in WithTodo
  BY <1>1 DEF Scans, WithConfig, Left, Identifying, WithTodo
<1>3. Range(todo') = Here /\ Sorted(todo')  BY <1>1, <1>2 DEF InOrder
<1>4. InOrder'
  <2>1. Here' = Here  BY <1>1, SamePlace
  <2>2. QED  BY <1>1, <1>3, <2>1 DEF InOrder
<1>5. Walk'
  <2>1. ASSUME Regular(dev, cfg_idx)  PROVE func_dfu' = DescriptorOf(dev, cfg_idx)'
    <3>1. /\ Described(search.bus[dev].configs[cfg_idx].extra) = {}
          /\ Describing(dev, cfg_idx) = {}
      BY <1>1, <2>1, NothingDescribes
    <3>2. DescriptorOf(dev, cfg_idx)' =
            IF new \in lost'
              THEN [cleared EXCEPT !.bLength = 7, !.bcdDFUVersion = \h0100]
            ELSE Completed(parse(search.bus[dev].answer))
      BY <1>1, <3>1, Undescribed
    <3>3. new \notin lost
      <4>1. dev \in Nat /\ cfg_idx \in Nat  BY <1>1, <1>2, ConfigTypes
      <4>2. ~Gone(dev, cfg_idx) /\ ~At(dev, cfg_idx)
        BY <1>1, <1>2, NotGoneHere DEF At
      <4>3. QED  BY <1>1, <4>1, <4>2 DEF LostBehind
    <3>4. func_dfu = cleared  BY <1>1, <1>2 DEF Walk
    <3>5. CASE lost' = lost /\ func_dfu' = Completed(parse(desc.answer))
      BY <3>2, <3>3, <3>5 DEF desc
    <3>6. CASE lost' = lost \cup {new} /\ func_dfu' = Completed(Fake(func_dfu))
      <4>1. new \in lost'  BY <3>6
      <4>2. QED  BY <3>2, <3>4, <3>6, <4>1, FakeIs
    <3>7. QED  BY <1>1, <3>5, <3>6
  <2>2. pc' \notin {"scanConfig", "scanSetting", "ask", "asked"}  BY <1>1
  <2>3. QED  BY <1>1, <1>2, <2>1, <2>2, WalkIs
<1>6. Reached'
  <2>1. pc' # "identify" /\ pc' # "done"  BY <1>1
  <2>2. QED  BY <1>1, <1>2, <2>1, ReachedKept
<1>7. LostBehind' /\ Whole'
  <2>1. lost' \in {lost, lost \cup {new}}  BY <1>1
  <2>2. QED  BY <1>1, <1>2, <1>3, <2>1, ToSettingsKept
<1>8. QED  BY <1>4, <1>5, <1>6, <1>7 DEF SInv

LEMMA EndOfSettingsFinds ==
  ASSUME IInv, SInv, EndOfSettings
  PROVE  SInv'
<1>1. /\ Types /\ AtHand /\ InOrder /\ Walk /\ Reached /\ LostBehind /\ Whole
      /\ pc = "settings" /\ todo = << >> /\ pc' = "config"
      /\ UNCHANGED <<search, dev, cfg_idx, todo, p, func_dfu, results, lost>>
  BY DEF IInv, SInv, EndOfSettings, FreeConfig
<1>2. /\ pc \in WithConfig /\ pc \notin Left
      /\ pc' \notin Scans /\ pc' \notin WithConfig /\ pc' \notin WithTodo
      /\ pc' \notin Identifying /\ pc' \notin {"asked", "identify", "done"}
  BY <1>1 DEF WithConfig, Left, Scans, WithTodo, Identifying
<1>3. InOrder'  BY <1>2 DEF InOrder
<1>4. Walk'  BY <1>2 DEF Walk
<1>5. Reached'  BY <1>1, <1>2, ReachedKept
<1>6. LostBehind' /\ Whole'
  <2>1. Range(todo) = {}  BY <1>1 DEF Range
  <2>2. QED  BY <1>1, <1>2, <2>1, ToConfigKept
<1>7. QED  BY <1>3, <1>4, <1>5, <1>6 DEF SInv

-------------------------------------------------------------------------------
(***************************************************************************)
(* The steps between configurations and devices.                           *)
(***************************************************************************)
LEMMA ShorterThanPlaces ==
  ASSUME NEW at \in Places, NEW d, NEW c, NEW w \in {"name", "serial"}
  PROVE  /\ <<d>> # at /\ <<d>> # at \o <<w>>
         /\ <<d, c>> # at /\ <<d, c>> # at \o <<w>>
<1> DEFINE i == 0
           a == 0
<1>1. /\ <<d>> \notin {<<d, c>>, <<d, c, "descriptor">>, <<d, c, i, a>>, at \o <<w>>, at}
      /\ <<d, c>> \notin {<<d, c, "descriptor">>, <<d, c, i, a>>, at \o <<w>>, at}
  BY Apart
<1>2. QED  BY <1>1

(* Between the configurations the search only goes on, and a call that     *)
(* fails there is one for what it has not come to yet.                     *)
LEMMA OuterKept ==
  ASSUME Types, LostBehind, Whole, search' = search, results' = results,
         pc \notin Identifying, pc' \notin Identifying,
         \A d \in Nat : GoneDevice(d) => GoneDevice(d)',
         \A d, c \in Nat : Gone(d, c) => Gone(d, c)',
         lost \subseteq lost',
         \A x \in lost' \ lost : \E d, c \in Nat :
           /\ GoneDevice(d)'
           /\ \/ x = <<d>> /\ \A b \in Nat : ~Gone(d, b)
              \/ x = <<d, c>> /\ \A b \in Nat : c <= b => ~Gone(d, b),
         \A at \in AllPlaces : Gone(at[1], at[2])' /\ ~Gone(at[1], at[2]) =>
           ~(Wanted(at)' /\ ~OutOfReach(at)')
  PROVE  LostBehind' /\ Whole'
<1>1. search \in Searches  BY DEF Types
<1>2. /\ \A at : Passed(at) <=> Gone(at[1], at[2])
      /\ \A at : InterfaceGone(at) <=> Gone(at[1], at[2])
      /\ \A at : Passed(at)' <=> Gone(at[1], at[2])'
      /\ \A at : InterfaceGone(at)' <=> Gone(at[1], at[2])'
      /\ \A d, c : ~At(d, c) /\ ~At(d, c)'
  BY DEF Passed, InterfaceGone, At
<1>3. ASSUME NEW x \in lost', x \notin lost
      PROVE  /\ \A d \in Nat : x = <<d>> => GoneDevice(d)'
             /\ \A d, c \in Nat : x = <<d, c>> => GoneDevice(d)'
             /\ \A d, c : x # <<d, c, "descriptor">>
             /\ \A at \in Places : x # at
             /\ \A at \in Places, w \in {"name", "serial"} : x # at \o <<w>>
  <2>1. PICK d \in Nat, c \in Nat : GoneDevice(d)' /\ x \in {<<d>>, <<d, c>>}
    BY <1>3
  <2>2. \A e \in Nat : x = <<e>> => e = d  BY <2>1
  <2>3. \A e, b \in Nat : x = <<e, b>> => e = d  BY <2>1
  <2>4. \A e, b : x # <<e, b, "descriptor">>  BY <2>1
  <2>5. ASSUME NEW at \in Places, NEW w \in {"name", "serial"}
        PROVE  x # at /\ x # at \o <<w>>
    <3>1. /\ <<d>> # at /\ <<d>> # at \o <<w>>
          /\ <<d, c>> # at /\ <<d, c>> # at \o <<w>>
      BY ShorterThanPlaces
    <3>2. QED  BY <2>1, <3>1
  <2>6. \A at \in Places : x # at
    <3>1. "name" \in {"name", "serial"}  OBVIOUS
    <3>2. QED  BY <2>5, <3>1
  <2>7. QED  BY <2>1, <2>2, <2>3, <2>4, <2>5, <2>6
<1>4. LostBehind'
  <2>1. \A d \in Nat : <<d>> \in lost' => GoneDevice(d)'  BY <1>3 DEF LostBehind
  <2>2. \A d, c \in Nat : <<d, c>> \in lost' => GoneDevice(d)'  BY <1>3 DEF LostBehind
  <2>3. \A d, c \in Nat : <<d, c, "descriptor">> \in lost' => Gone(d, c)' \/ At(d, c)'
    BY <1>2, <1>3 DEF LostBehind
  <2>4. \A at \in Places : at \in lost' => InterfaceGone(at)'
    BY <1>2, <1>3, PlaceShape DEF LostBehind
  <2>5. \A at \in Places, w \in {"name", "serial"} : at \o <<w>> \in lost' => Passed(at)'
    BY <1>2, <1>3, PlaceShape DEF LostBehind
  <2>6. QED  BY <2>1, <2>2, <2>3, <2>4, <2>5 DEF LostBehind
<1>5. Whole'
  <2>1. \A at \in AllPlaces : Passed(at) => Passed(at)'
    BY <1>1, <1>2, PlacesTyped, PlaceShape
  <2>2. ASSUME NEW at \in AllPlaces, Passed(at), NEW x \in About(at)
        PROVE  x \in lost' <=> x \in lost
    <3>1. at \in Places /\ at[1] \in Nat /\ at[2] \in Nat
      BY <1>1, PlacesTyped, PlaceShape
    <3>2. Gone(at[1], at[2])  BY <1>2, <2>2
    <3>3. SUFFICES ASSUME x \in lost', x \notin lost  PROVE FALSE
      OBVIOUS
    <3>4. PICK d \in Nat, c \in Nat :
            \/ x = <<d>> /\ \A b \in Nat : ~Gone(d, b)
            \/ x = <<d, c>> /\ \A b \in Nat : c <= b => ~Gone(d, b)
      BY <3>3
    <3>5. x # at \o <<"name">> /\ x # at \o <<"serial">> /\ x # <<at[1], at[2], "descriptor">>
      BY <1>3, <3>1, <3>3
    <3>6. x = <<at[1]>> \/ \E b \in 1 .. at[2] : x = <<at[1], b>>
      <4>1. \A a : x # <<at[1], at[2], at[3], a>>  BY <3>4
      <4>2. QED  BY <2>2, <3>5, <4>1 DEF About
    <3>7. CASE x = <<at[1]>>
      <4>1. x # <<d, c>>  BY <3>7
      <4>2. d = at[1] /\ \A b \in Nat : ~Gone(d, b)  BY <3>4, <3>7, <4>1
      <4>3. QED  BY <3>1, <3>2, <4>2
    <3>8. CASE \E b \in 1 .. at[2] : x = <<at[1], b>>
      <4>1. PICK b \in 1 .. at[2] : x = <<at[1], b>>  BY <3>8
      <4>2. x # <<d>>  BY <4>1
      <4>3. d = at[1] /\ c = b /\ \A e \in Nat : c <= e => ~Gone(d, e)
        BY <3>4, <4>1, <4>2
      <4>4. QED  BY <3>1, <3>2, <4>1, <4>3
    <3>9. QED  BY <3>6, <3>7, <3>8
  <2>3. \A at \in AllPlaces : Passed(at)' /\ ~Passed(at) => ~(Wanted(at)' /\ ~OutOfReach(at)')
    BY <1>2
  <2>4. QED  BY <2>1, <2>2, <2>3, WholeKept
<1>6. QED  BY <1>4, <1>5

LEMMA EndOfConfigsFinds ==
  ASSUME IInv, SInv, EndOfConfigs
  PROVE  SInv'
<1>1. /\ Types /\ LostBehind /\ Whole
      /\ pc = "config" /\ cfg_idx = Len(desc.configs) /\ pc' = "device"
      /\ UNCHANGED <<search, dev, cfg_idx, results, lost>>
  BY DEF IInv, SInv, EndOfConfigs, held
<1>2. /\ pc \notin Identifying /\ pc' \notin Identifying /\ pc' \in Left /\ pc \notin Left
      /\ pc' \notin Scans /\ pc' \notin WithConfig /\ pc' \notin WithTodo
      /\ pc' \notin {"asked", "identify", "done"}
  BY <1>1 DEF Left, Scans, WithConfig, WithTodo, Identifying
<1>3. InOrder' /\ Walk' /\ Reached'  BY <1>2 DEF InOrder, Walk, Reached
<1>4. LostBehind' /\ Whole'
  <2>1. /\ \A d : GoneDevice(d) <=> d < dev
        /\ \A d : GoneDevice(d)' <=> d < dev \/ d = dev
        /\ \A d, c : Gone(d, c) <=> d < dev \/ (d = dev /\ (c < cfg_idx \/ c = cfg_idx))
        /\ \A d, c : GoneDevice(d)' => Gone(d, c)'
        /\ \A d, c : Gone(d, c)' => GoneDevice(d)'
    BY <1>1, <1>2 DEF GoneDevice, Gone
  <2>2. ASSUME NEW at \in AllPlaces, Gone(at[1], at[2])', ~Gone(at[1], at[2])
        PROVE  FALSE
    <3>1. at[1] = dev  BY <2>1, <2>2
    <3>2. at[2] \in 1 .. Len(search.bus[at[1]].configs)
      BY <1>1, PlacesTyped DEF Types
    <3>3. at[2] \in 1 .. cfg_idx  BY <1>1, <3>1, <3>2 DEF desc
    <3>4. cfg_idx \in Nat
      <4>1. dev # 0  BY <1>1 DEF Types
      <4>2. QED  BY <1>1, <4>1 DEF Types
    <3>5. at[2] < cfg_idx \/ at[2] = cfg_idx  BY <3>3, <3>4
    <3>6. QED  BY <2>1, <2>2, <3>1, <3>5
  <2>3. \A d \in Nat : GoneDevice(d) => GoneDevice(d)'  BY <2>1
  <2>4. \A d, c \in Nat : Gone(d, c) => Gone(d, c)'  BY <2>1
  <2>5. QED  BY <1>1, <1>2, <2>2, <2>3, <2>4, OuterKept
<1>5. QED  BY <1>3, <1>4 DEF SInv

LEMMA EndOfListFinds ==
  ASSUME IInv, SInv, EndOfList
  PROVE  SInv'
<1>1. /\ Types /\ LostBehind /\ Whole
      /\ pc = "device" /\ dev = Len(search.bus) /\ pc' = "done"
      /\ UNCHANGED <<search, dev, cfg_idx, results, lost>>
  BY DEF IInv, SInv, EndOfList, held
<1>2. /\ pc \notin Identifying /\ pc' \notin Identifying /\ pc' \in Left /\ pc \in Left
      /\ pc' \notin Scans /\ pc' \notin WithConfig /\ pc' \notin WithTodo
      /\ pc' \notin {"asked", "identify"}
  BY <1>1 DEF Left, Scans, WithConfig, WithTodo, Identifying
<1>3. InOrder' /\ Walk' /\ Reached'  BY <1>1, <1>2 DEF InOrder, Walk, Reached
<1>4. LostBehind' /\ Whole'
  <2>1. \A d : GoneDevice(d)' <=> GoneDevice(d)  BY <1>1, <1>2 DEF GoneDevice
  <2>2. \A d, c : Gone(d, c)' <=> Gone(d, c)
    BY <1>1, <1>2, <2>1 DEF Gone
  <2>3. QED  BY <1>1, <1>2, <2>1, <2>2, OuterKept
<1>5. QED  BY <1>3, <1>4 DEF SInv

LEMMA InitFinds ==
  ASSUME Init
  PROVE  SInv
<1>1. /\ search \in Searches /\ pc = "device" /\ dev = 0 /\ results = << >> /\ lost = {}
  BY DEF Init
<1>2. InOrder /\ Walk /\ Reached
  BY <1>1 DEF InOrder, Walk, Reached, Left, WithTodo, WithConfig, Identifying, Scans
<1>3. LostBehind  BY <1>1 DEF LostBehind
<1>4. DOMAIN results = {} /\ ResultPlaces = {}  BY <1>1 DEF ResultPlaces
<1>5. Whole
  <2>1. ResultsInOrder  BY <1>1, <1>4 DEF ResultsInOrder, Identifying
  <2>2. OwnDescriptor  BY <1>4 DEF OwnDescriptor
  <2>3. FoundSoFar
    <3>1. ASSUME NEW at \in AllPlaces  PROVE ~Passed(at)
      <4>1. at[1] \in 1 .. Len(search.bus)  BY <1>1, PlacesTyped
      <4>2. search.bus \in Seq(USBDevices)  BY <1>1, BusTypes
      <4>3. at[1] # dev /\ ~(at[1] < dev)  BY <1>1, <4>1, <4>2
      <4>4. QED  BY <4>3 DEF Passed, Gone, GoneDevice, At
    <3>2. QED  BY <3>1 DEF FoundSoFar
  <2>4. QED  BY <2>1, <2>2, <2>3 DEF Whole
<1>6. QED  BY <1>2, <1>3, <1>5 DEF SInv

LEMMA NextDeviceFinds ==
  ASSUME IInv, SInv, NextDevice
  PROVE  SInv'
<1> DEFINE new == <<dev'>>
           asked == f.path \in {<< >>, get_path(search.bus[dev'])}
<1>1. /\ Types /\ LostBehind /\ Whole
      /\ pc = "device" /\ dev < Len(search.bus) /\ dev' = dev + 1 /\ cfg_idx' = 0
      /\ UNCHANGED <<search, results>>
      /\ \/ pc' = "config" /\ asked /\ lost' = lost
         \/ pc' = "device" /\ asked /\ lost' = lost \cup {new}
         \/ pc' = "device" /\ ~asked /\ lost' = lost
  BY DEF IInv, SInv, NextDevice, held
<1>2. /\ pc \notin Identifying /\ pc' \notin Identifying /\ pc \in Left
      /\ pc' \notin Scans /\ pc' \notin WithConfig /\ pc' \notin WithTodo
      /\ pc' \notin {"asked", "identify", "done"}
      /\ (pc' \in Left <=> pc' = "device")
  BY <1>1 DEF Left, Scans, WithConfig, WithTodo, Identifying
<1>3. dev \in Nat /\ dev' \in 1 .. Len(search.bus)
  <2>1. search.bus \in Seq(USBDevices) /\ dev \in 0 .. Len(search.bus)
    BY <1>1, BusTypes DEF Types
  <2>2. QED  BY <1>1, <2>1
<1>4. InOrder' /\ Walk'  BY <1>2 DEF InOrder, Walk
<1>5. Reached'
  <2>1. CASE pc' = "device"  BY <1>2, <2>1 DEF Reached
  <2>2. CASE pc' = "config"
    <3>1. asked  BY <1>1, <2>2
    <3>2. desc' = search.bus[dev'] /\ f' = f  BY <1>1 DEF desc, f
    <3>3. f'.path \in {<< >>, get_path(desc')}  BY <3>1, <3>2
    <3>4. (f.path \in {<< >>, get_path(desc)})'  BY <3>3 DEF get_path
    <3>5. 1 .. cfg_idx' = {}  BY <1>1
    <3>6. QED  BY <1>2, <3>4, <3>5 DEF Reached
  <2>3. QED  BY <1>1, <2>1, <2>2
<1>6. LostBehind' /\ Whole'
  <2>1. /\ \A d : GoneDevice(d) <=> d < dev \/ d = dev
        /\ \A d : GoneDevice(d)' <=> d < dev' \/ (d = dev' /\ pc' = "device")
        /\ \A d, c : Gone(d, c) <=> GoneDevice(d)
        /\ \A d, c : Gone(d, c)' <=>
             GoneDevice(d)' \/ (d = dev' /\ (c < 0 \/ (c = 0 /\ pc' = "config")))
    BY <1>1, <1>2 DEF GoneDevice, Gone
  <2>2. \A d \in Nat : GoneDevice(d) <=> d < dev'  BY <1>1, <1>3, <2>1
  <2>3. \A d \in Nat : GoneDevice(d) => GoneDevice(d)'  BY <2>1, <2>2
  <2>4. \A d, c \in Nat : Gone(d, c) => Gone(d, c)'  BY <2>1, <2>3
  <2>5. ASSUME NEW x \in lost' \ lost
        PROVE  \E d, c \in Nat : /\ GoneDevice(d)'
                                 /\ x = <<d>> /\ \A b \in Nat : ~Gone(d, b)
    <3>1. PICK d \in Nat : d = dev'  BY <1>3
    <3>2. x = <<d>> /\ pc' = "device"  BY <1>1, <2>5, <3>1
    <3>3. GoneDevice(d)'  BY <2>1, <3>1, <3>2
    <3>4. ~(d < dev')  BY <3>1
    <3>5. \A b \in Nat : ~Gone(d, b)  BY <2>1, <2>2, <3>4
    <3>6. QED  BY <3>2, <3>3, <3>5
  <2>6. ASSUME NEW at \in AllPlaces, Gone(at[1], at[2])', ~Gone(at[1], at[2])
        PROVE  ~(Wanted(at)' /\ ~OutOfReach(at)')
    <3>1. at[1] \in Nat /\ at[2] \in Nat /\ at[2] # 0
      BY <1>1, PlacesTyped, PlaceShape DEF Types
    <3>2. ~(at[1] < dev')  BY <2>1, <2>2, <2>6, <3>1
    <3>3. ~(at[2] < 0)  BY <3>1
    <3>4. at[1] = dev' /\ pc' = "device"  BY <2>1, <2>6, <3>1, <3>2, <3>3
    <3>5. CASE <<dev'>> \in lost'
      <4>1. <<at[1]>> \in lost'  BY <3>4, <3>5
      <4>2. QED  BY <4>1 DEF OutOfReach
    <3>6. CASE ~asked
      <4>1. f.path \notin {<< >>, get_path(search.bus[at[1]])}  BY <3>4, <3>6
      <4>2. f'.path \notin {<< >>, get_path(search'.bus[at[1]])}  BY <1>1, <4>1 DEF f
      <4>3. QED  BY <4>2 DEF Wanted, get_path
    <3>7. QED  BY <1>1, <3>4, <3>5, <3>6
  <2>7. lost \subseteq lost'  BY <1>1
  <2>8. \A x \in lost' \ lost : \E d, c \in Nat :
           /\ GoneDevice(d)'
           /\ \/ x = <<d>> /\ \A b \in Nat : ~Gone(d, b)
              \/ x = <<d, c>> /\ \A b \in Nat : c <= b => ~Gone(d, b)
    BY <2>5
  <2>9. QED  BY <1>1, <1>2, <2>3, <2>4, <2>6, <2>7, <2>8, OuterKept
<1>7. QED  BY <1>4, <1>5, <1>6 DEF SInv

LEMMA NextConfigFinds ==
  ASSUME IInv, SInv, NextConfig
  PROVE  SInv'
<1> DEFINE c == desc.configs[cfg_idx']
           meant == f.config_index \in {-1, c.bConfigurationValue}
<1>1. /\ Types /\ LostBehind /\ Whole /\ Reached
      /\ pc = "config" /\ cfg_idx < Len(desc.configs) /\ cfg_idx' = cfg_idx + 1
      /\ func_dfu' = cleared /\ p' = 0
      /\ UNCHANGED <<search, dev, todo, results>>
      /\ \/ pc' = "device" /\ lost' = lost \cup {<<dev, cfg_idx'>>}
         \/ pc' = "config" /\ lost' = lost /\ ~meant
         \/ pc' = "device" /\ lost' = lost /\ c.empty
         \/ pc' = "scanConfig" /\ lost' = lost /\ meant /\ ~c.empty
  BY DEF IInv, SInv, NextConfig, GetConfig, SkipConfig, FreshDescriptor
<1>2. /\ pc \notin Identifying /\ pc' \notin Identifying /\ pc \notin Left
      /\ pc' \notin {"scanSetting", "ask", "asked", "identify", "done"}
      /\ pc' \notin WithTodo
      /\ (pc' \in Left <=> pc' = "device")
      /\ (pc' \in WithConfig => pc' = "scanConfig")
      /\ (pc' \in Scans => pc' = "scanConfig")
  BY <1>1 DEF Left, Scans, WithConfig, WithTodo, Identifying
<1>3. /\ dev \in Nat /\ cfg_idx \in Nat /\ cfg_idx' \in Nat /\ cfg_idx' \in 1 .. Len(desc.configs)
      /\ desc.configs \in Seq(Configurations)
  <2>1. dev \in 1 .. Len(search.bus) /\ cfg_idx \in 0 .. Len(desc.configs)
        /\ search \in Searches
    <3>1. search \in Searches /\ search.bus \in Seq(USBDevices)  BY <1>1, BusTypes DEF Types
    <3>2. dev # 0 /\ dev \in 0 .. Len(search.bus)  BY <1>1 DEF Types
    <3>3. QED  BY <1>1, <3>1, <3>2 DEF Types
  <2>2. desc.configs \in Seq(Configurations)  BY <2>1, DeviceTypes DEF desc
  <2>3. QED  BY <1>1, <2>1, <2>2
<1>4. c \in Configurations /\ c.extra \in Seq(Seq(Byte))
  <2>1. c \in Configurations  BY <1>3
  <2>2. QED  BY <2>1 DEF Configurations
<1>5. desc' = desc /\ config' = c /\ f' = f
  BY <1>1 DEF desc, config, f
<1>6. InOrder'  BY <1>2 DEF InOrder, Identifying
<1>7. Walk'
  <2>1. AtDescriptor(config'.extra, p')  BY <1>1, <1>4, <1>5, WalkStarts
  <2>2. QED  BY <1>1, <1>2, <2>1 DEF Walk, Scans
<1>8. Reached'
  <2>1. CASE pc' = "device"  BY <1>2, <2>1 DEF Reached, WithConfig
  <2>2. CASE pc' # "device"
    <3>1. /\ f.path \in {<< >>, get_path(desc)}
          /\ \A b \in 1 .. cfg_idx : ~desc.configs[b].empty
      BY <1>1, <1>2 DEF Reached
    <3>2. get_path(desc)' = get_path(desc)  BY <1>5 DEF get_path
    <3>3. ~c.empty
      <4>1. CASE ~meant
        <5>1. c.empty => f.config_index = -1
          <6>1. /\ search \in Searches /\ dev \in DOMAIN search.bus
                /\ cfg_idx' \in DOMAIN search.bus[dev].configs
            <7>1. dev \in 1 .. Len(search.bus)
              <8>1. search.bus \in Seq(USBDevices) /\ dev # 0  BY <1>1, BusTypes DEF Types
              <8>2. QED  BY <1>1, <1>3, <8>1 DEF Types
            <7>2. search.bus \in Seq(USBDevices)  BY <1>1, BusTypes DEF Types
            <7>3. QED  BY <1>1, <1>3, <7>1, <7>2 DEF desc, Types
          <6>2. search.bus[dev].configs[cfg_idx'].empty => search.f.config_index = -1
            BY <6>1, SearchesAssumption
          <6>3. QED  BY <6>2 DEF desc, f
        <5>2. QED  BY <4>1, <5>1
      <4>2. CASE meant  BY <1>1, <2>2, <4>2
      <4>3. QED  BY <4>1, <4>2
    <3>4. \A b \in 1 .. cfg_idx' : b \in 1 .. cfg_idx \/ b = cfg_idx'  BY <1>1, <1>3
    <3>5. \A b \in 1 .. cfg_idx' : ~desc'.configs[b].empty  BY <1>5, <3>1, <3>3, <3>4
    <3>6. f'.path \in {<< >>, get_path(desc)'}  BY <1>5, <3>1, <3>2
    <3>7. pc' = "scanConfig" => f'.config_index \in {-1, config'.bConfigurationValue}
      BY <1>1, <1>5
    <3>8. QED  BY <1>2, <3>5, <3>6, <3>7 DEF Reached
  <2>3. QED  BY <2>1, <2>2
<1>9. LostBehind' /\ Whole'
  <2>1. /\ \A d : GoneDevice(d) <=> d < dev
        /\ \A d : GoneDevice(d)' <=> d < dev \/ (d = dev /\ pc' = "device")
        /\ \A d, b : Gone(d, b) <=> d < dev \/ (d = dev /\ (b < cfg_idx \/ b = cfg_idx))
        /\ \A d, b : Gone(d, b)' <=> \/ d < dev
                                     \/ d = dev /\ pc' = "device"
                                     \/ d = dev /\ b < cfg_idx'
                                     \/ d = dev /\ b = cfg_idx' /\ pc' = "config"
    BY <1>1, <1>2 DEF GoneDevice, Gone
  <2>2. \A b \in Nat : (b < cfg_idx \/ b = cfg_idx) <=> b < cfg_idx'  BY <1>1, <1>3
  <2>3. \A d \in Nat : GoneDevice(d) => GoneDevice(d)'  BY <2>1
  <2>4. \A d, b \in Nat : Gone(d, b) => Gone(d, b)'  BY <2>1, <2>2
  <2>5. ASSUME NEW x \in lost' \ lost
        PROVE  \E d, e \in Nat : /\ GoneDevice(d)'
                                 /\ x = <<d, e>> /\ \A b \in Nat : e <= b => ~Gone(d, b)
    <3>1. PICK d \in Nat, e \in Nat : d = dev /\ e = cfg_idx'  BY <1>3
    <3>2. x = <<d, e>> /\ pc' = "device"  BY <1>1, <2>5, <3>1
    <3>3. GoneDevice(d)'  BY <2>1, <3>1, <3>2
    <3>4. \A b \in Nat : e <= b => ~(b < cfg_idx')  BY <3>1
    <3>5. ~(d < dev)  BY <3>1
    <3>6. \A b \in Nat : e <= b => ~Gone(d, b)  BY <2>1, <2>2, <3>4, <3>5
    <3>7. QED  BY <3>2, <3>3, <3>6
  <2>6. ASSUME NEW at \in AllPlaces, Gone(at[1], at[2])', ~Gone(at[1], at[2])
        PROVE  ~(Wanted(at)' /\ ~OutOfReach(at)')
    <3>1. at[1] \in Nat /\ at[2] \in Nat  BY <1>1, PlacesTyped, PlaceShape DEF Types
    <3>2. at[1] = dev /\ ~(at[2] < cfg_idx')  BY <2>1, <2>2, <2>6, <3>1
    <3>3. pc' = "device" \/ (at[2] = cfg_idx' /\ pc' = "config")
      BY <1>3, <2>1, <2>6, <3>1, <3>2
    <3>4. cfg_idx' \in 1 .. at[2]  BY <1>3, <3>1, <3>2
    <3>5. CASE pc' = "device" /\ lost' = lost \cup {<<dev, cfg_idx'>>}
      <4>1. <<at[1], cfg_idx'>> \in lost'  BY <3>2, <3>5
      <4>2. QED  BY <3>4, <4>1 DEF OutOfReach
    <3>6. CASE pc' = "device" /\ c.empty
      <4>1. search'.bus[at[1]].configs[cfg_idx'].empty  BY <1>1, <3>2, <3>6 DEF desc
      <4>2. QED  BY <3>4, <4>1 DEF OutOfReach
    <3>7. CASE pc' = "config" /\ ~meant
      <4>1. at[2] = cfg_idx'  BY <3>3, <3>7
      <4>2. f'.config_index \notin {-1, search'.bus[at[1]].configs[at[2]].bConfigurationValue}
        BY <1>1, <1>5, <3>2, <3>7, <4>1 DEF desc
      <4>3. QED  BY <4>2 DEF Wanted
    <3>8. QED  BY <1>1, <3>3, <3>5, <3>6, <3>7
  <2>7. lost \subseteq lost'  BY <1>1
  <2>8. \A x \in lost' \ lost : \E d, e \in Nat :
           /\ GoneDevice(d)'
           /\ \/ x = <<d>> /\ \A b \in Nat : ~Gone(d, b)
              \/ x = <<d, e>> /\ \A b \in Nat : e <= b => ~Gone(d, b)
    BY <2>5
  <2>9. QED  BY <1>1, <1>2, <2>3, <2>4, <2>6, <2>7, <2>8, OuterKept
<1>10. QED  BY <1>6, <1>7, <1>8, <1>9 DEF SInv

-------------------------------------------------------------------------------
(***************************************************************************)
(* The steps that try the settings.                                        *)
(***************************************************************************)
(* While the settings are tried, what is passed only grows.                *)
LEMMA FewerLeft ==
  ASSUME Types, UNCHANGED <<search, dev, cfg_idx>>, pc \in Identifying, pc' \in Identifying,
         Range(todo') \subseteq Range(todo)
  PROVE  /\ \A d : GoneDevice(d)' <=> GoneDevice(d)
         /\ \A d, c : Gone(d, c)' <=> Gone(d, c)
         /\ \A d, c : At(d, c)' <=> At(d, c)
         /\ At(dev, cfg_idx)
         /\ \A at : Passed(at) => Passed(at)'
         /\ \A at : InterfaceGone(at) => InterfaceGone(at)'
         /\ \A at : Passed(at)' /\ ~Passed(at) =>
              at[1] = dev /\ at[2] = cfg_idx /\ at \in Range(todo) /\ at \notin Range(todo')
<1>1. pc \notin Left /\ pc' \notin Left /\ pc # "config" /\ pc' # "config"
  BY DEF Identifying, Left
<1>2. /\ \A d : GoneDevice(d)' <=> GoneDevice(d)
      /\ \A d, c : Gone(d, c)' <=> Gone(d, c)
      /\ \A d, c : At(d, c)' <=> At(d, c)
      /\ \A d, c : At(d, c) <=> d = dev /\ c = cfg_idx
  BY <1>1 DEF GoneDevice, Gone, At
<1>3. /\ \A at : Passed(at) => Passed(at)'
      /\ \A at : Passed(at)' /\ ~Passed(at) =>
              at[1] = dev /\ at[2] = cfg_idx /\ at \in Range(todo) /\ at \notin Range(todo')
  BY <1>2 DEF Passed
<1>4. \A at : InterfaceGone(at) => InterfaceGone(at)'  BY <1>2 DEF InterfaceGone
<1>5. QED  BY <1>2, <1>3, <1>4

(* One place in the configuration and what is behind it.                   *)
LEMMA AtHead ==
  ASSUME Types, AtHand, InOrder, pc \in Identifying, todo # << >>
  PROVE  /\ todo \in Seq(Here) /\ todo \in Seq(Places) /\ Sorted(todo)
         /\ Head(todo) \in Here /\ Head(todo) \in Places /\ Head(todo) \in AllPlaces
         /\ Head(todo)[1] = dev /\ Head(todo)[2] = cfg_idx
         /\ Head(todo)[4] \in Nat \ {0}
         /\ Head(todo) \in Range(todo) /\ ~Passed(Head(todo))
         /\ Range(todo) = {Head(todo)} \cup Range(Tail(todo))
         /\ \A x \in Range(Tail(todo)) : Before(Head(todo), x)
         /\ \A x \in Range(todo) : x \in Here /\ x \in Places
<1> DEFINE h == Head(todo)
<1>1. pc \in WithConfig /\ pc \in WithTodo  BY DEF Identifying, WithConfig, WithTodo
<1>2. todo \in Seq(Here) /\ Sorted(todo)  BY <1>1 DEF AtHand, InOrder
<1>3. Here \subseteq Places  BY <1>1, HereTypes
<1>4. /\ h \in Range(todo) /\ Range(todo) = {h} \cup Range(Tail(todo))
      /\ \A x \in Range(Tail(todo)) : Before(h, x)
  BY <1>2, HeadFirst
<1>5. \A x \in Range(todo) : x \in Here  BY <1>2 DEF Range
<1>6. h \in Here /\ h[1] = dev /\ h[2] = cfg_idx /\ h \in Places
  BY <1>1, <1>4, <1>5, HereTypes
<1>7. h \in PlacesIn(dev, cfg_idx) /\ h \in AllPlaces  BY <1>1, <1>6, HereIs
<1>8. h[4] \in Nat \ {0}
  <2>1. config.interfaces \in Seq(Seq(Settings))  BY <1>1, ConfigTypes
  <2>2. h[3] \in DOMAIN config.interfaces /\ h[4] \in DOMAIN config.interfaces[h[3]]
    BY <1>6 DEF Here
  <2>3. config.interfaces[h[3]] \in Seq(Settings)  BY <2>1, <2>2
  <2>4. QED  BY <2>2, <2>3
<1>9. ~Passed(h)  BY <1>1, <1>4, <1>6, NotGoneHere DEF Passed
<1>10. todo \in Seq(Places)  BY <1>2, <1>3
<1>11. QED  BY <1>2, <1>3, <1>4, <1>5, <1>6, <1>7, <1>8, <1>9, <1>10

(* The head of what is left is done.                                       *)
LEMMA HeadDone ==
  ASSUME Types, AtHand, InOrder, UNCHANGED <<search, dev, cfg_idx>>,
         pc \in Identifying, pc' \in Identifying, todo # << >>, todo' = Tail(todo)
  PROVE  /\ InOrder' /\ Range(todo') \subseteq Range(todo)
         /\ \A at : at = Head(todo) => Passed(at)'
         /\ \A at : Passed(at)' /\ ~Passed(at) => at = Head(todo)
<1> DEFINE h == Head(todo)
<1>1. /\ todo \in Seq(Here) /\ Sorted(todo) /\ h \in Here /\ h \in Places
      /\ h[1] = dev /\ h[2] = cfg_idx
      /\ Range(todo) = {h} \cup Range(Tail(todo))
      /\ \A x \in Range(Tail(todo)) : Before(h, x)
      /\ \A x \in Range(todo) : x \in Here /\ x \in Places
  BY AtHead
<1>2. Here' = Here  BY SamePlace
<1>3. Range(todo') \subseteq Range(todo)  BY <1>1
<1>4. h \notin Range(todo')  BY <1>1, BeforeOrder
<1>5. InOrder'
  <2>1. Sorted(todo')  BY <1>1, HeadFirst
  <2>2. ASSUME NEW at \in Here, NEW x \in Range(todo'),
               at \notin Range(todo'), at[3] = x[3]
        PROVE  at[4] < x[4]
    <3>1. CASE at = h
      <4>1. Before(h, x) /\ x \in Here /\ x \in Places  BY <1>1, <2>2
      <4>2. x[1] = dev /\ x[2] = cfg_idx  BY <4>1 DEF Here
      <4>3. dev \in Nat /\ cfg_idx \in Nat
        BY <1>1, PlaceShape
      <4>4. h[3] \in Nat  BY <1>1, PlaceShape
      <4>5. QED  BY <1>1, <2>2, <3>1, <4>1, <4>2, <4>3, <4>4, BeforeIs
    <3>2. CASE at # h
      <4>1. at \notin Range(todo) /\ x \in Range(todo)  BY <1>1, <2>2, <3>2
      <4>2. QED  BY <2>2, <4>1 DEF InOrder
    <3>3. QED  BY <3>1, <3>2
  <2>3. pc' # "asked"  BY DEF Identifying
  <2>4. QED  BY <1>2, <2>1, <2>2, <2>3 DEF InOrder
<1>6. ASSUME NEW at, at = h  PROVE Passed(at)'
  <2>1. at[1] = dev' /\ at[2] = cfg_idx' /\ at \notin Range(todo')  BY <1>1, <1>4, <1>6
  <2>2. At(at[1], at[2])'  BY <2>1 DEF At
  <2>3. QED  BY <2>1, <2>2 DEF Passed
<1>7. \A at : Passed(at)' /\ ~Passed(at) => at = h
  BY <1>1, <1>3, FewerLeft
<1>8. QED  BY <1>3, <1>5, <1>6, <1>7

LEMMA PassSettingFinds ==
  ASSUME IInv, SInv, PassSetting
  PROVE  SInv'
<1> DEFINE h == Head(todo)
<1>1. /\ Types /\ AtHand /\ InOrder /\ Walk /\ Reached /\ LostBehind /\ Whole
      /\ pc = "settings" /\ todo # << >> /\ ~Eligible(h, func_dfu.bcdDFUVersion)
      /\ todo' = Tail(todo) /\ pc' = pc
      /\ UNCHANGED <<search, dev, cfg_idx, func_dfu, results, lost>>
  BY DEF IInv, SInv, PassSetting, held
<1>2. /\ pc \in Identifying /\ pc' \in Identifying /\ pc \in WithConfig /\ pc \notin Left
      /\ pc \notin Scans
  BY <1>1 DEF Identifying, WithConfig, Left, Scans
<1>3. /\ InOrder' /\ Range(todo') \subseteq Range(todo)
      /\ \A at : Passed(at)' /\ ~Passed(at) => at = h
  BY <1>1, <1>2, HeadDone
<1>4. Walk'
  <2>1. ASSUME Regular(dev, cfg_idx)  PROVE func_dfu' = DescriptorOf(dev, cfg_idx)'
    <3>1. func_dfu = DescriptorOf(dev, cfg_idx)  BY <1>1, <1>2, <2>1 DEF Walk
    <3>2. QED  BY <1>1, <3>1, SameDescriptor
  <2>2. pc' \notin {"scanConfig", "scanSetting", "ask", "asked"}  BY <1>1
  <2>3. QED  BY <1>1, <1>2, <2>1, <2>2, WalkIs
<1>5. Reached'
  <2>1. pc' # "identify" /\ pc' # "done"  BY <1>1
  <2>2. QED  BY <1>1, <1>2, <2>1, ReachedKept
<1>6. /\ \A d : GoneDevice(d)' <=> GoneDevice(d)
      /\ \A d, c : Gone(d, c)' <=> Gone(d, c)
      /\ \A d, c : At(d, c)' <=> At(d, c)
      /\ \A at : Passed(at) => Passed(at)'
      /\ \A at : InterfaceGone(at) => InterfaceGone(at)'
  BY <1>1, <1>2, <1>3, FewerLeft
<1>7. LostBehind'  BY <1>1, <1>6 DEF LostBehind
<1>8. Whole'
  <2>1. ASSUME NEW at \in AllPlaces, Passed(at)', ~Passed(at), Regular(at[1], at[2])
        PROVE  ~Wanted(at)'
    <3>1. at = h /\ at[1] = dev /\ at[2] = cfg_idx  BY <1>1, <1>2, <1>3, <2>1, AtHead
    <3>2. func_dfu = DescriptorOf(at[1], at[2])  BY <1>1, <1>2, <2>1, <3>1 DEF Walk
    <3>3. ~Eligible(at, DescriptorOf(at[1], at[2]).bcdDFUVersion)  BY <1>1, <3>1, <3>2
    <3>4. ~Wanted(at)  BY <3>3 DEF Wanted
    <3>5. QED  BY <1>1, <3>4, Untouched DEF Types
  <2>2. \A at \in ResultPlaces, x \in Range(todo') : Before(at, x)
    BY <1>1, <1>2, <1>3 DEF Whole, ResultsInOrder
  <2>3. QED  BY <1>1, <1>6, <2>1, <2>2, WholeKept
<1>9. QED  BY <1>3, <1>4, <1>5, <1>7, <1>8 DEF SInv

(* A device that is not opened leaves its interface behind, with all the   *)
(* settings that follow in it.                                             *)
LEMMA NotOpened ==
  ASSUME Types, AtHand, InOrder, Walk, Reached, LostBehind, Whole,
         pc = "settings", pc' = pc, todo # << >>,
         UNCHANGED <<search, dev, cfg_idx, func_dfu, results>>,
         todo' = OtherInterfaces(todo), lost' = lost \cup {Head(todo)}
  PROVE  SInv'
<1> DEFINE h == Head(todo)
<1>1. /\ pc \in Identifying /\ pc' \in Identifying /\ pc \in WithConfig /\ pc \notin Left
      /\ pc \notin Scans /\ pc \in WithTodo
  BY DEF Identifying, WithConfig, Left, Scans, WithTodo
<1>2. /\ todo \in Seq(Here) /\ todo \in Seq(Places) /\ Sorted(todo) /\ h \in Here /\ h \in Places
      /\ h[1] = dev /\ h[2] = cfg_idx /\ h[4] \in Nat \ {0}
      /\ h \in Range(todo) /\ Range(todo) = {h} \cup Range(Tail(todo))
      /\ \A x \in Range(Tail(todo)) : Before(h, x)
      /\ \A x \in Range(todo) : x \in Here /\ x \in Places
  BY <1>1, AtHead
<1>3. Range(todo') = {x \in Range(todo) : x[3] # h[3]} /\ Sorted(todo')
  BY <1>2, OtherInterfacesKept
<1>4. Here' = Here  BY SamePlace
<1>5. h = <<h[1], h[2], h[3], h[4]>>  BY <1>2, PlaceShape
<1>6. InOrder'
  <2>1. ASSUME NEW at \in Here, NEW x \in Range(todo'),
               at \notin Range(todo'), at[3] = x[3]
        PROVE  at[4] < x[4]
    <3>1. at \notin Range(todo) /\ x \in Range(todo)  BY <1>3, <2>1
    <3>2. QED  BY <1>1, <2>1, <3>1 DEF InOrder
  <2>2. QED  BY <1>3, <1>4, <2>1 DEF InOrder
<1>7. Walk'
  <2>1. ASSUME Regular(dev, cfg_idx)  PROVE func_dfu' = DescriptorOf(dev, cfg_idx)'
    <3>1. func_dfu = DescriptorOf(dev, cfg_idx)  BY <1>1, <2>1 DEF Walk
    <3>2. <<dev, cfg_idx, "descriptor">> # h  BY <1>5
    <3>3. QED  BY <3>1, <3>2, SameDescriptor
  <2>2. pc' \notin {"scanConfig", "scanSetting", "ask", "asked"}  OBVIOUS
  <2>3. QED  BY <1>1, <2>1, <2>2, WalkIs
<1>8. Reached'
  <2>1. pc' # "identify" /\ pc' # "done"  OBVIOUS
  <2>2. QED  BY <1>1, <2>1, ReachedKept
<1>9. /\ \A d : GoneDevice(d)' <=> GoneDevice(d)
      /\ \A d, c : Gone(d, c)' <=> Gone(d, c)
      /\ \A d, c : At(d, c)' <=> At(d, c)
      /\ At(dev, cfg_idx)
      /\ \A at : Passed(at) => Passed(at)'
      /\ \A at : InterfaceGone(at) => InterfaceGone(at)'
      /\ \A at : Passed(at)' /\ ~Passed(at) =>
           at[1] = dev /\ at[2] = cfg_idx /\ at \in Range(todo) /\ at \notin Range(todo')
  BY <1>1, <1>3, FewerLeft
<1>10. \A w \in {"name", "serial"}, at \in Places : h # at \o <<w>>
  <2>1. ASSUME NEW w \in {"name", "serial"}, NEW at \in Places  PROVE h # at \o <<w>>
    <3>1. <<h[1], h[2], h[3], h[4]>> # at \o <<w>>  BY Apart
    <3>2. QED  BY <1>5, <3>1
  <2>2. QED  BY <2>1
<1>11. LostBehind'
  <2>1. \A d \in Nat : <<d>> \in lost' => GoneDevice(d)'  BY <1>5, <1>9 DEF LostBehind
  <2>2. \A d, c \in Nat : <<d, c>> \in lost' => GoneDevice(d)'
    BY <1>5, <1>9 DEF LostBehind
  <2>3. \A d, c \in Nat : <<d, c, "descriptor">> \in lost' => Gone(d, c)' \/ At(d, c)'
    BY <1>5, <1>9 DEF LostBehind
  <2>4. ASSUME NEW at \in Places, at \in lost'  PROVE InterfaceGone(at)'
    <3>1. CASE at = h
      <4>1. At(at[1], at[2])'  BY <1>2, <1>9, <3>1
      <4>2. \A x \in Range(todo') : x[3] # at[3]  BY <1>3, <3>1
      <4>3. QED  BY <4>1, <4>2 DEF InterfaceGone
    <3>2. CASE at \in lost  BY <1>9, <3>2 DEF LostBehind
    <3>3. QED  BY <2>4, <3>1, <3>2
  <2>5. \A at \in Places, w \in {"name", "serial"} : at \o <<w>> \in lost' => Passed(at)'
    BY <1>9, <1>10 DEF LostBehind
  <2>6. QED  BY <2>1, <2>2, <2>3, <2>4, <2>5 DEF LostBehind
<1>12. Whole'
  <2>1. search \in Searches  BY DEF Types
  <2>2. ASSUME NEW at \in AllPlaces, Passed(at), Setting(at).dfuClass, NEW x \in About(at)
        PROVE  x \in lost' <=> x \in lost
    <3>1. at \in Places  BY <2>1, PlacesTyped
    <3>2. SUFFICES ASSUME x = h  PROVE FALSE
      OBVIOUS
    <3>3. x # <<at[1]>> /\ x # <<at[1], at[2], "descriptor">> /\ \A c : x # <<at[1], c>>
      BY <1>5, <3>2
    <3>4. x # at \o <<"name">> /\ x # at \o <<"serial">>  BY <1>10, <3>1, <3>2
    <3>5. PICK a \in 1 .. at[4] : x = <<at[1], at[2], at[3], a>>
      BY <2>2, <3>3, <3>4 DEF About
    <3>6. at[1] = dev /\ at[2] = cfg_idx /\ at[3] = h[3] /\ h[4] = a
      BY <1>2, <1>5, <3>2, <3>5
    <3>7. at \in Here  BY <1>1, <2>2, <3>6, PlaceHere
    <3>8. at \notin Range(todo)
      BY <1>1, <2>2, <3>6, NotGoneHere DEF Passed
    <3>9. at[4] < h[4]  BY <1>1, <1>2, <3>6, <3>7, <3>8 DEF InOrder
    <3>10. at[4] \in Nat  BY <3>1, PlaceShape
    <3>11. a \in Nat /\ a <= at[4]  BY <3>10
    <3> HIDE DEF h
    <3>12. QED  BY <3>6, <3>9, <3>10, <3>11
  <2>3. ASSUME NEW at \in AllPlaces, Passed(at)', ~Passed(at)
        PROVE  OutOfReach(at)'
    <3>1. at[1] = dev /\ at[2] = cfg_idx /\ at \in Range(todo) /\ at \notin Range(todo')
      BY <1>9, <2>3
    <3>2. at[3] = h[3] /\ at \in Places  BY <1>2, <1>3, <3>1
    <3>3. at = h \/ Before(h, at)  BY <1>2, <3>1
    <3>4. /\ at[4] \in Nat /\ at[3] \in Nat /\ at[1] \in Nat /\ at[2] \in Nat /\ h[4] \in Nat
      BY <1>2, <3>2, PlaceShape
    <3>5. h[4] <= at[4]  BY <1>2, <3>1, <3>2, <3>3, <3>4, BeforeIs
    <3>6. h[4] \in 1 .. at[4]  BY <1>2, <3>4, <3>5
    <3>7. <<at[1], at[2], at[3], h[4]>> = h  BY <1>2, <1>5, <3>1, <3>2
    <3>8. \E a \in 1 .. at[4] : <<at[1], at[2], at[3], a>> \in lost'  BY <3>6, <3>7
    <3>9. QED  BY <3>8 DEF OutOfReach
  <2>4. \A at \in ResultPlaces, x \in Range(todo') : Before(at, x)
    BY <1>1, <1>3 DEF Whole, ResultsInOrder
  <2>5. QED  BY <1>9, <2>2, <2>3, <2>4, WholeKept
<1>13. QED  BY <1>6, <1>7, <1>8, <1>11, <1>12 DEF SInv

LEMMA OpenSettingFinds ==
  ASSUME IInv, SInv, OpenSetting
  PROVE  SInv'
<1>1. /\ Types /\ AtHand /\ InOrder /\ Walk /\ Reached /\ LostBehind /\ Whole
      /\ pc = "settings" /\ todo # << >> /\ Eligible(Head(todo), func_dfu.bcdDFUVersion)
      /\ UNCHANGED <<search, dev, cfg_idx, func_dfu, results>>
      /\ \/ pc' = "identify" /\ todo' = todo /\ lost' = lost
         \/ /\ todo' = OtherInterfaces(todo) /\ lost' = lost \cup {Head(todo)}
            /\ pc' = pc
  BY DEF IInv, SInv, OpenSetting
<1>2. CASE pc' = pc /\ todo' = OtherInterfaces(todo) /\ lost' = lost \cup {Head(todo)}
  BY <1>1, <1>2, NotOpened
<1>3. CASE pc' = "identify" /\ todo' = todo /\ lost' = lost
  <2>1. /\ pc \in Identifying /\ pc' \in Identifying /\ pc \in WithConfig /\ pc \notin Left
        /\ pc' \notin Scans /\ pc' \notin {"scanConfig", "scanSetting", "ask", "asked", "done"}
    BY <1>1, <1>3 DEF Identifying, WithConfig, Left, Scans
  <2>2. InOrder'
    <3>1. Here' = Here  BY <1>1, SamePlace
    <3>2. Sorted(todo)  BY <1>1, <2>1, AtHead
    <3>3. QED  BY <1>1, <1>3, <2>1, <3>1, <3>2 DEF InOrder
  <2>3. Walk'
    <3>1. ASSUME Regular(dev, cfg_idx)  PROVE func_dfu' = DescriptorOf(dev, cfg_idx)'
      <4>1. func_dfu = DescriptorOf(dev, cfg_idx)  BY <1>1, <2>1, <3>1 DEF Walk
      <4>2. QED  BY <1>1, <1>3, <4>1, SameDescriptor
    <3>2. QED  BY <1>1, <2>1, <3>1, WalkIs
  <2>4. Reached'
    <3>1. Eligible(Head(todo'), func_dfu'.bcdDFUVersion)  BY <1>1, <1>3
    <3>2. QED  BY <1>1, <2>1, <3>1, ReachedKept
  <2>5. Range(todo') = Range(todo)  BY <1>3
  <2>6. /\ \A d : GoneDevice(d)' <=> GoneDevice(d)
        /\ \A d, c : Gone(d, c)' <=> Gone(d, c)
        /\ \A d, c : At(d, c)' <=> At(d, c)
        /\ \A at : Passed(at) => Passed(at)'
        /\ \A at : InterfaceGone(at) => InterfaceGone(at)'
        /\ \A at : Passed(at)' => Passed(at)
    BY <1>1, <2>1, <2>5, FewerLeft
  <2>7. LostBehind'  BY <1>1, <1>3, <2>6 DEF LostBehind
  <2>8. \A at \in ResultPlaces, x \in Range(todo') : Before(at, x)
    BY <1>1, <2>1, <2>5 DEF Whole, ResultsInOrder
  <2>9. Whole'  BY <1>1, <1>3, <2>6, <2>8, WholeKept
  <2>10. QED  BY <2>2, <2>3, <2>4, <2>7, <2>9 DEF SInv
<1>4. QED  BY <1>1, <1>2, <1>3

(* A name that was read is what it is, and one that was not is lost.       *)
LEMMA NamesApart ==
  ASSUME NEW at \in Places
  PROVE  at \o <<"name">> # at \o <<"serial">>
<1>1. \A a, b, c, d : <<a, b, c, d, "name">> # <<a, b, c, d, "serial">>  OBVIOUS
<1>2. at \o <<"name">> = <<at[1], at[2], at[3], at[4], "name">>  BY NamePlace
<1>3. at \o <<"serial">> = <<at[1], at[2], at[3], at[4], "serial">>  BY NamePlace
<1>4. QED  BY <1>1, <1>2, <1>3

LEMMA NameRead ==
  ASSUME NEW at \in Places, NEW name, NEW serial,
         NEW alt_name \in {name, "UNKNOWN"} \ {""},
         NEW serial_name \in {serial, "UNKNOWN"} \ {""},
         at \o <<"name">> \notin lost, at \o <<"serial">> \notin lost,
         lost' = lost \cup (Unread(at, "name", name, alt_name) \cup
                              Unread(at, "serial", serial, serial_name))
  PROVE  /\ (IF name = "" \/ at \o <<"name">> \in lost' THEN "UNKNOWN" ELSE name) = alt_name
         /\ (IF serial = "" \/ at \o <<"serial">> \in lost' THEN "UNKNOWN" ELSE serial)
               = serial_name
<1> DEFINE x == at \o <<"name">>
           y == at \o <<"serial">>
<1>1. Unread(at, "name", name, alt_name) =
        IF name # "" /\ alt_name = "UNKNOWN" THEN {x} ELSE {}
  BY DEF Unread
<1>2. Unread(at, "serial", serial, serial_name) =
        IF serial # "" /\ serial_name = "UNKNOWN" THEN {y} ELSE {}
  BY DEF Unread
<1>3. x # y /\ x \notin lost /\ y \notin lost  BY NamesApart
<1> HIDE DEF x, y
<1>4. x \in lost' <=> name # "" /\ alt_name = "UNKNOWN"  BY <1>1, <1>2, <1>3
<1>5. y \in lost' <=> serial # "" /\ serial_name = "UNKNOWN"  BY <1>1, <1>2, <1>3
<1>6. (IF name = "" \/ x \in lost' THEN "UNKNOWN" ELSE name) = alt_name  BY <1>4
<1>7. (IF serial = "" \/ y \in lost' THEN "UNKNOWN" ELSE serial) = serial_name  BY <1>5
<1>8. QED  BY <1>6, <1>7 DEF x, y

LEMMA UpTo == \A n \in Nat : \A b \in 1 .. n : b \in Nat
OBVIOUS

(* The setting that is identified is to be found when its names are those  *)
(* that are asked for.                                                     *)
LEMMA HeadWanted ==
  ASSUME Types, AtHand, InOrder, Walk, Reached, LostBehind, pc = "identify",
         UNCHANGED <<search, dev, cfg_idx>>, Regular(dev, cfg_idx),
         NEW at, at = Head(todo),
         lost \subseteq lost',
         \A x \in lost' \ lost : x = at \o <<"name">> \/ x = at \o <<"serial">>,
         NEW alt_name, NEW serial_name,
         (IF Setting(at).name = "" \/ at \o <<"name">> \in lost'
            THEN "UNKNOWN" ELSE Setting(at).name) = alt_name,
         (IF desc.serial = "" \/ at \o <<"serial">> \in lost'
            THEN "UNKNOWN" ELSE desc.serial) = serial_name
  PROVE  /\ DescriptorOf(at[1], at[2])' = func_dfu
         /\ Wanted(at)' <=> Named(at, func_dfu.bcdDFUVersion, alt_name, serial_name)
         /\ ~OutOfReach(at)'
<1> DEFINE new == lost' \ lost
<1>1. /\ pc \in Identifying /\ pc \in WithConfig /\ pc \notin Left
      /\ pc \in WithTodo /\ todo # << >>
  BY DEF Identifying, WithConfig, Left, WithTodo, AtHand
<1>2. /\ at \in Here /\ at \in Places /\ at[1] = dev /\ at[2] = cfg_idx /\ ~Passed(at)
      /\ at \in Range(todo)
  BY <1>1, AtHead
<1>3. /\ at[1] \in Nat /\ at[2] \in Nat /\ at[3] \in Nat /\ at[4] \in Nat
      /\ dev \in Nat /\ cfg_idx \in Nat /\ ~GoneDevice(dev)
  <2>1. at[1] \in Nat /\ at[2] \in Nat /\ at[3] \in Nat /\ at[4] \in Nat
    BY <1>2, PlaceShape
  <2>2. ~GoneDevice(dev)  BY <1>1, NotGoneHere
  <2>3. QED  BY <1>2, <2>1, <2>2
<1>5. \A x \in new : x = at \o <<"name">> \/ x = at \o <<"serial">>  OBVIOUS
<1>6. lost' = lost \cup new  OBVIOUS
<1>7. /\ \A d : <<d>> \notin new
      /\ \A d, c : <<d, c>> \notin new /\ <<d, c, "descriptor">> \notin new
      /\ \A d, c, i, a : <<d, c, i, a>> \notin new
  <2>1. ASSUME NEW d, NEW c, NEW i, NEW a, NEW w \in {"name", "serial"}
        PROVE  at \o <<w>> \notin {<<d>>, <<d, c>>, <<d, c, "descriptor">>, <<d, c, i, a>>}
    BY <1>2, Apart
  <2> HIDE DEF new
  <2>2. QED  BY <1>5, <2>1
<1> HIDE DEF new
<1>8. DescriptorOf(at[1], at[2])' = func_dfu
  <2>1. <<at[1], at[2], "descriptor">> \in lost' <=> <<at[1], at[2], "descriptor">> \in lost
    BY <1>6, <1>7
  <2>2. DescriptorOf(at[1], at[2])' = DescriptorOf(at[1], at[2])  BY <2>1, SameDescriptor
  <2>3. QED  BY <1>1, <1>2, <2>2 DEF Walk
<1>9. ~OutOfReach(at)'
  <2>1. <<at[1]>> \notin lost'  BY <1>2, <1>3, <1>6, <1>7 DEF LostBehind
  <2>2. ASSUME NEW c \in 1 .. at[2]
        PROVE  <<at[1], c>> \notin lost' /\ ~search'.bus[at[1]].configs[c].empty
    <3>1. c \in Nat  BY <1>3, <2>2, UpTo
    <3>2. <<at[1], c>> \notin lost'  BY <1>2, <1>3, <1>6, <1>7, <3>1 DEF LostBehind
    <3>3. ~desc.configs[c].empty  BY <1>1, <1>2, <2>2 DEF Reached
    <3>4. QED  BY <1>2, <3>2, <3>3 DEF desc
  <2>3. ASSUME NEW a \in 1 .. at[4], <<at[1], at[2], at[3], a>> \in lost'  PROVE FALSE
    <3> DEFINE other == <<at[1], at[2], at[3], a>>
    <3>1. other \in lost  BY <1>6, <1>7, <2>3
    <3>2. other \in Places /\ other[1] = at[1] /\ other[2] = at[2] /\ other[3] = at[3]
      <4>1. a \in Nat  BY <1>3, <2>3, UpTo
      <4>2. QED  BY <1>3, <4>1 DEF Places
    <3>3. InterfaceGone(other)  BY <3>1, <3>2 DEF LostBehind
    <3> HIDE DEF other
    <3>4. ~Gone(other[1], other[2])  BY <1>1, <1>2, <3>2, NotGoneHere
    <3>5. \A x \in Range(todo) : x[3] # other[3]  BY <3>3, <3>4 DEF InterfaceGone
    <3>6. QED  BY <1>2, <3>2, <3>5
  <2>4. QED  BY <2>1, <2>2, <2>3 DEF OutOfReach
<1>10. Wanted(at)' <=> Named(at, func_dfu.bcdDFUVersion, alt_name, serial_name)
  <2> DEFINE device == search.bus[at[1]]
             version == DescriptorOf(at[1], at[2]).bcdDFUVersion
             name == ReadName(at, "name", Setting(at).name)
             serial == ReadName(at, "serial", device.serial)
             Else == /\ f.path \in {<< >>, get_path(device)}
                     /\ f.config_index \in {-1, device.configs[at[2]].bConfigurationValue}
                     /\ Setting(at).dfuClass
  <2>1. version' = func_dfu.bcdDFUVersion  BY <1>8
  <2>2. Setting(at)' = Setting(at) /\ f' = f /\ device = desc  BY <1>2, SameBus DEF desc
  <2>4. name' = alt_name  BY <2>2 DEF ReadName
  <2>5. serial' = serial_name
    <3>1. device' = desc  BY <2>2
    <3>2. serial' = IF device'.serial = "" \/ at \o <<"serial">> \in lost'
                      THEN "UNKNOWN" ELSE device'.serial
      BY DEF ReadName
    <3> HIDE DEF device
    <3>3. QED  BY <3>1, <3>2
  <2>6. Else'
    <3>1. Setting(at).dfuClass  BY <1>1, <1>2, HereTypes
    <3>2. f.path \in {<< >>, get_path(desc)}  BY <1>1 DEF Reached
    <3>3. f.config_index \in {-1, desc.configs[at[2]].bConfigurationValue}
      BY <1>1, <1>2 DEF Reached, config
    <3>4. Else  BY <2>2, <3>1, <3>2, <3>3
    <3>5. Else' = Else  BY <2>2
    <3>6. QED  BY <3>4, <3>5
  <2>7. Wanted(at)' = (Else' /\ Eligible(at, version)' /\ Named(at, version, name, serial)')
    BY DEF Wanted
  <2>8. Eligible(at, version)'
    <3>1. Eligible(at, func_dfu.bcdDFUVersion)  BY DEF Reached
    <3> HIDE DEF version
    <3>2. QED  BY <2>1, <2>2, <3>1 DEF Eligible, ShowsDfu
  <2>9. Named(at, version, name, serial)' <=>
          Named(at, func_dfu.bcdDFUVersion, alt_name, serial_name)
    <3> HIDE DEF version, name, serial
    <3>1. QED  BY <2>1, <2>2, <2>4, <2>5 DEF Named, ShowsDfu
  <2> HIDE DEF Else, version, name, serial
  <2>10. QED  BY <2>6, <2>7, <2>8, <2>9
<1>11. QED  BY <1>8, <1>9, <1>10

LEMMA SameName ==
  ASSUME NEW b \in Places, NEW at \in Places,
         NEW v \in {"name", "serial"}, NEW w \in {"name", "serial"},
         b \o <<w>> = at \o <<v>>
  PROVE  b = at
<1> DEFINE c == <<b[1], b[2], b[3], b[4], w>>
           d == <<at[1], at[2], at[3], at[4], v>>
<1>1. c[1] = b[1] /\ c[2] = b[2] /\ c[3] = b[3] /\ c[4] = b[4]  OBVIOUS
<1>2. d[1] = at[1] /\ d[2] = at[2] /\ d[3] = at[3] /\ d[4] = at[4]  OBVIOUS
<1>3. c = d
  <2>1. b \o <<w>> = c /\ at \o <<v>> = d  BY NamePlace
  <2> HIDE DEF c, d
  <2>2. QED  BY <2>1
<1>4. b = <<b[1], b[2], b[3], b[4]>> /\ at = <<at[1], at[2], at[3], at[4]>>
  BY PlaceShape
<1> HIDE DEF c, d
<1>5. b[1] = at[1] /\ b[2] = at[2] /\ b[3] = at[3] /\ b[4] = at[4]  BY <1>1, <1>2, <1>3
<1>6. QED  BY <1>4, <1>5

LEMMA AddedLast ==
  ASSUME NEW S, NEW s \in Seq(S), NEW e, NEW t, t = Append(s, e), NEW n, n = Len(s)
  PROVE  /\ n \in Nat /\ DOMAIN s = 1 .. n /\ DOMAIN t = 1 .. n + 1
         /\ \A k \in 1 .. n : t[k] = s[k]
         /\ t[n + 1] = e
         /\ 1 .. n \subseteq 1 .. n + 1 /\ n + 1 \in 1 .. n + 1
         /\ \A k \in 1 .. n + 1 : k \in 1 .. n \/ k = n + 1
         /\ \A j, k \in 1 .. n + 1 : j < k => j \in 1 .. n
<1> DEFINE E == S \cup {e}
<1>1. s \in Seq(E) /\ e \in E
  <2>1. S \subseteq E  OBVIOUS
  <2>2. DOMAIN s = 1 .. Len(s) /\ Len(s) \in Nat /\ \A i \in 1 .. Len(s) : s[i] \in S
    BY LenProperties
  <2>3. s = [i \in 1 .. Len(s) |-> s[i]]  BY <2>2
  <2> HIDE DEF E
  <2>4. s \in [1 .. Len(s) -> E]  BY <2>1, <2>2
  <2>5. s \in Seq(E)  BY <2>2, <2>4
  <2>6. QED  BY <2>5 DEF E
<1> HIDE DEF E
<1>2. Append(s, e) \in Seq(E) /\ Len(Append(s, e)) = Len(s) + 1
      /\ (\A i \in 1 .. Len(s) : Append(s, e)[i] = s[i]) /\ Append(s, e)[Len(s) + 1] = e
  BY <1>1, AppendProperties
<1>3. Len(s) \in Nat /\ DOMAIN s = 1 .. Len(s)  BY LenProperties
<1>4. DOMAIN t = 1 .. Len(s) + 1  BY <1>2, LenProperties
<1>5. n \in Nat  BY <1>3
<1>6. /\ 1 .. n \subseteq 1 .. n + 1 /\ n + 1 \in 1 .. n + 1
      /\ \A k \in 1 .. n + 1 : k \in 1 .. n \/ k = n + 1
      /\ \A j, k \in 1 .. n + 1 : j < k => j \in 1 .. n
  BY <1>5
<1>7. QED  BY <1>2, <1>3, <1>4, <1>6

LEMMA ResultLast ==
  ASSUME Types, NEW e, NEW t, t = Append(results, e), NEW n, n = Len(results)
  PROVE  /\ n \in Nat /\ DOMAIN results = 1 .. n /\ DOMAIN t = 1 .. n + 1
         /\ \A k \in 1 .. n : t[k] = results[k]
         /\ t[n + 1] = e
         /\ 1 .. n \subseteq 1 .. n + 1 /\ n + 1 \in 1 .. n + 1
         /\ \A k \in 1 .. n + 1 : k \in 1 .. n \/ k = n + 1
         /\ \A j, k \in 1 .. n + 1 : j < k => j \in 1 .. n
<1>1. results \in Seq(Results)  BY DEF Types
<1>2. QED  BY <1>1, AddedLast

(* A place that is passed by trying it is found or not; what was found     *)
(* before it stays, and nothing else is passed.                            *)
LEMMA ResultFound ==
  ASSUME Types, Whole, search' = search, pc \in Identifying,
         NEW at \in AllPlaces, at \in Range(todo), ~Passed(at), Passed(at)',
         Setting(at).dfuClass,
         \A x \in Range(todo') : x \in Range(todo) /\ Before(at, x),
         \A b : Passed(b) => Passed(b)', \A b : Passed(b)' /\ ~Passed(b) => b = at,
         \A b \in AllPlaces : b # at =>
           /\ DescriptorOf(b[1], b[2])' = DescriptorOf(b[1], b[2])
           /\ Wanted(b)' = Wanted(b)
           /\ OutOfReach(b)' = OutOfReach(b),
         NEW result, result.at = at, NEW taken \in BOOLEAN,
         taken => results' = Append(results, result), ~taken => results' = results,
         Regular(at[1], at[2]) =>
           /\ taken <=> Wanted(at)' /\ ~OutOfReach(at)'
           /\ result.func_dfu =
                IF "FORCE_DFU11" \in result.quirks
                  THEN [DescriptorOf(at[1], at[2])' EXCEPT !.bcdDFUVersion = \h0110]
                  ELSE DescriptorOf(at[1], at[2])'
  PROVE  Whole'
<1>1. PICK n : n = Len(results)  OBVIOUS
<1>2. PICK more : more = Append(results, result)  OBVIOUS
<1>3. /\ n \in Nat /\ DOMAIN results = 1 .. n /\ DOMAIN more = 1 .. n + 1
      /\ \A k \in 1 .. n : more[k] = results[k]
      /\ more[n + 1] = result
      /\ 1 .. n \subseteq 1 .. n + 1 /\ n + 1 \in 1 .. n + 1
      /\ \A k \in 1 .. n + 1 : k \in 1 .. n \/ k = n + 1
      /\ \A j, k \in 1 .. n + 1 : j < k => j \in 1 .. n
  BY <1>1, <1>2, ResultLast
<1>4. /\ taken => /\ DOMAIN results' = 1 .. n + 1
                  /\ \A k \in 1 .. n : results'[k] = results[k]
                  /\ results'[n + 1] = result
      /\ ~taken => results' = results
  BY <1>2, <1>3
<1>5. ResultPlaces' = IF taken THEN ResultPlaces \cup {at} ELSE ResultPlaces
  <2>1. CASE taken  BY <1>3, <1>4, <2>1 DEF ResultPlaces
  <2>2. CASE ~taken  BY <1>4, <2>2 DEF ResultPlaces
  <2>3. QED  BY <2>1, <2>2
<1>6. /\ AllPlaces' = AllPlaces
      /\ \A d, c : Regular(d, c)' = Regular(d, c)
      /\ \A b : Setting(b)' = Setting(b)
  BY SameBus
<1>7. /\ \A b \in ResultPlaces : b \in AllPlaces /\ Setting(b).dfuClass /\ Passed(b) /\ b # at
      /\ \A b \in ResultPlaces, x \in Range(todo) : Before(b, x)
  BY DEF Whole, ResultsInOrder
<1>8. ResultsInOrder'
  <2>1. \A b \in ResultPlaces' : b \in AllPlaces /\ Setting(b).dfuClass /\ Passed(b)'
    BY <1>5, <1>7
  <2>2. ASSUME NEW j \in DOMAIN results', NEW k \in DOMAIN results', j < k
        PROVE  Before(results'[j].at, results'[k].at)
    <3>1. CASE taken
      <4>1. j \in 1 .. n /\ (k \in 1 .. n \/ k = n + 1)  BY <1>3, <1>4, <2>2, <3>1
      <4>2. results'[j] = results[j] /\ results[j].at \in ResultPlaces
        BY <1>3, <1>4, <3>1, <4>1 DEF ResultPlaces
      <4>3. CASE k \in 1 .. n
        BY <1>3, <1>4, <2>2, <3>1, <4>1, <4>3 DEF Whole, ResultsInOrder
      <4>4. CASE k = n + 1
        <5>1. results'[k].at = at  BY <1>4, <3>1, <4>4
        <5>2. QED  BY <1>7, <4>2, <5>1
      <4>5. QED  BY <4>1, <4>3, <4>4
    <3>2. CASE ~taken  BY <1>4, <2>2, <3>2 DEF Whole, ResultsInOrder
    <3>3. QED  BY <3>1, <3>2
  <2>3. \A b \in ResultPlaces', x \in Range(todo') : Before(b, x)  BY <1>5, <1>7
  <2>4. QED  BY <1>6, <2>1, <2>2, <2>3 DEF ResultsInOrder
<1>9. FoundSoFar'
  <2>1. ASSUME NEW b \in AllPlaces, Regular(b[1], b[2]), Passed(b)'
        PROVE  b \in ResultPlaces' <=> Wanted(b)' /\ ~OutOfReach(b)'
    <3>1. CASE b = at
      <4>1. b \in ResultPlaces' <=> taken  BY <1>5, <1>7, <3>1
      <4>2. Wanted(b)' /\ ~OutOfReach(b)' <=> taken  BY <2>1, <3>1
      <4>3. QED  BY <4>1, <4>2
    <3>2. CASE b # at
      <4>1. Passed(b)  BY <2>1, <3>2
      <4>2. b \in ResultPlaces <=> Wanted(b) /\ ~OutOfReach(b)
        BY <2>1, <4>1 DEF Whole, FoundSoFar
      <4>3. b \in ResultPlaces' <=> b \in ResultPlaces  BY <1>5, <3>2
      <4>4. QED  BY <3>2, <4>2, <4>3
    <3>3. QED  BY <3>1, <3>2
  <2>2. QED  BY <1>6, <2>1 DEF FoundSoFar
<1>10. OwnDescriptor'
  <2>1. ASSUME NEW k \in DOMAIN results', NEW b, b = results'[k].at, Regular(b[1], b[2])
        PROVE  results'[k].func_dfu =
                 IF "FORCE_DFU11" \in results'[k].quirks
                   THEN [DescriptorOf(b[1], b[2])' EXCEPT !.bcdDFUVersion = \h0110]
                   ELSE DescriptorOf(b[1], b[2])'
    <3>1. CASE taken /\ k = n + 1
      <4>1. results'[k] = result /\ b = at  BY <1>4, <2>1, <3>1
      <4>2. QED  BY <2>1, <4>1
    <3>2. CASE k \in DOMAIN results /\ results'[k] = results[k]
      <4>1. b \in ResultPlaces  BY <2>1, <3>2 DEF ResultPlaces
      <4>2. DescriptorOf(b[1], b[2])' = DescriptorOf(b[1], b[2])  BY <1>7, <4>1
      <4>3. results[k].func_dfu =
              IF "FORCE_DFU11" \in results[k].quirks
                THEN [DescriptorOf(b[1], b[2]) EXCEPT !.bcdDFUVersion = \h0110]
                ELSE DescriptorOf(b[1], b[2])
        BY <2>1, <3>2 DEF Whole, OwnDescriptor
      <4>4. QED  BY <3>2, <4>2, <4>3
    <3>3. (taken /\ k = n + 1) \/ (k \in DOMAIN results /\ results'[k] = results[k])
      BY <1>3, <1>4, <2>1
    <3>4. QED  BY <3>1, <3>2, <3>3
  <2>2. QED  BY <1>6, <2>1 DEF OwnDescriptor
<1>11. QED  BY <1>8, <1>9, <1>10 DEF Whole

LEMMA NamedType ==
  ASSUME NEW at, NEW version, NEW alt_name, NEW serial_name
  PROVE  Named(at, version, alt_name, serial_name) \in BOOLEAN
<1>1. CASE ShowsDfu(at, version)  BY <1>1 DEF Named
<1>2. CASE ~ShowsDfu(at, version)  BY <1>2 DEF Named
<1>3. QED  BY <1>1, <1>2

LEMMA IdentifyFinds ==
  ASSUME IInv, SInv, Identify
  PROVE  SInv'
<1> DEFINE quirky == get_quirks(desc.usbId, desc.bcdDevice)
           descriptor == IF "FORCE_DFU11" \in quirky
                           THEN [func_dfu EXCEPT !.bcdDFUVersion = \h0110] ELSE func_dfu
           shown(at) == ShowsDfu(at, func_dfu.bcdDFUVersion)
           result(at) == [at |-> at, dfu |-> shown(at), func_dfu |-> descriptor,
                          quirks |-> quirky]
<1>1. /\ Types /\ AtHand /\ InOrder /\ Walk /\ Reached /\ LostBehind /\ Whole
      /\ pc = "identify" /\ pc' = "settings" /\ todo' = Tail(todo)
      /\ UNCHANGED <<search, dev, cfg_idx, func_dfu>>
  BY DEF IInv, SInv, Identify
<1>2. /\ pc \in Identifying /\ pc' \in Identifying /\ pc \in WithConfig /\ pc \notin Left
      /\ pc' \notin Scans /\ pc \in WithTodo /\ todo # << >>
      /\ pc' \notin {"scanConfig", "scanSetting", "ask", "asked", "identify", "done"}
  BY <1>1 DEF Identifying, WithConfig, Left, Scans, WithTodo, AtHand
<1>3. PICK at : at = Head(todo)  OBVIOUS
<1>4. PICK alt_name \in {Setting(at).name, "UNKNOWN"} \ {""},
           serial_name \in {desc.serial, "UNKNOWN"} \ {""} :
        /\ lost' = lost \cup (Unread(at, "name", Setting(at).name, alt_name) \cup
                                Unread(at, "serial", desc.serial, serial_name))
        /\ IF Named(at, func_dfu.bcdDFUVersion, alt_name, serial_name)
             THEN results' = Append(results, result(at))
             ELSE results' = results
  BY <1>3 DEF Identify
<1> DEFINE taken == Named(at, func_dfu.bcdDFUVersion, alt_name, serial_name)
           x == at \o <<"name">>
           y == at \o <<"serial">>
<1>5. /\ at \in Here /\ at \in Places /\ at \in AllPlaces
      /\ at[1] = dev /\ at[2] = cfg_idx /\ ~Passed(at) /\ at \in Range(todo)
      /\ \A b \in Range(Tail(todo)) : Before(at, b)
  BY <1>1, <1>2, <1>3, AtHead
<1>6. x \notin lost /\ y \notin lost  BY <1>1, <1>5 DEF LostBehind
<1>7. /\ lost \subseteq lost' /\ \A e \in lost' \ lost : e = x \/ e = y
      /\ (IF Setting(at).name = "" \/ x \in lost' THEN "UNKNOWN" ELSE Setting(at).name)
            = alt_name
      /\ (IF desc.serial = "" \/ y \in lost' THEN "UNKNOWN" ELSE desc.serial) = serial_name
  <2>1. \A which, name, read : Unread(at, which, name, read) \subseteq {at \o <<which>>}
    BY DEF Unread
  <2>2. lost \subseteq lost' /\ \A e \in lost' \ lost : e = x \/ e = y
    BY <1>4, <2>1
  <2>3. PICK name, serial : name = Setting(at).name /\ serial = desc.serial  OBVIOUS
  <2>4. /\ alt_name \in {name, "UNKNOWN"} \ {""}
        /\ serial_name \in {serial, "UNKNOWN"} \ {""}
        /\ lost' = lost \cup (Unread(at, "name", name, alt_name) \cup
                                Unread(at, "serial", serial, serial_name))
    BY <1>4, <2>3
  <2>5. /\ (IF name = "" \/ x \in lost' THEN "UNKNOWN" ELSE name) = alt_name
        /\ (IF serial = "" \/ y \in lost' THEN "UNKNOWN" ELSE serial) = serial_name
    BY <1>5, <1>6, <2>4, NameRead
  <2>6. QED  BY <2>2, <2>3, <2>5
<1>8. taken => results' = Append(results, result(at))  BY <1>4
<1>9. ~taken => results' = results  BY <1>4
<1>10. Regular(dev, cfg_idx) =>
        /\ DescriptorOf(at[1], at[2])' = func_dfu
        /\ Wanted(at)' <=> taken
        /\ ~OutOfReach(at)'
  BY <1>1, <1>3, <1>7, HeadWanted
<1> HIDE DEF taken
<1>11. /\ InOrder' /\ Range(todo') \subseteq Range(todo)
       /\ \A b : b = at => Passed(b)'
       /\ \A b : Passed(b)' /\ ~Passed(b) => b = at
  BY <1>1, <1>2, <1>3, HeadDone
<1>12. /\ \A d : GoneDevice(d)' <=> GoneDevice(d)
       /\ \A d, c : Gone(d, c)' <=> Gone(d, c)
       /\ \A d, c : At(d, c)' <=> At(d, c)
       /\ \A b : Passed(b) => Passed(b)'
       /\ \A b : InterfaceGone(b) => InterfaceGone(b)'
  BY <1>1, <1>2, <1>11, FewerLeft
<1>13. Walk'
  <2>1. ASSUME Regular(dev, cfg_idx)  PROVE func_dfu' = DescriptorOf(dev, cfg_idx)'
    <3>1. DescriptorOf(at[1], at[2])' = func_dfu  BY <1>10, <2>1
    <3>2. dev' = at[1] /\ cfg_idx' = at[2]  BY <1>1, <1>5
    <3>3. QED  BY <1>1, <3>1, <3>2 DEF DescriptorOf
  <2>2. QED  BY <1>1, <1>2, <2>1, WalkIs
<1>14. Reached'  BY <1>1, <1>2, ReachedKept
<1>15. /\ \A d : <<d>> \notin {x, y}
       /\ \A d, c : <<d, c>> \notin {x, y} /\ <<d, c, "descriptor">> \notin {x, y}
       /\ \A d, c, i, a : <<d, c, i, a>> \notin {x, y}
       /\ \A b \in Places : b \notin {x, y}
       /\ \A b \in Places, w \in {"name", "serial"} : b # at => b \o <<w>> \notin {x, y}
  <2>1. ASSUME NEW d, NEW c, NEW i, NEW a, NEW w \in {"name", "serial"}
        PROVE  at \o <<w>> \notin {<<d>>, <<d, c>>, <<d, c, "descriptor">>, <<d, c, i, a>>}
    BY <1>5, Apart
  <2>2. ASSUME NEW b \in Places, NEW v \in {"name", "serial"}, NEW w \in {"name", "serial"},
               b \o <<w>> = at \o <<v>>
        PROVE  b = at
    BY <1>5, <2>2, SameName
  <2>3. ASSUME NEW b \in Places  PROVE b \notin {x, y}
    <3>1. b = <<b[1], b[2], b[3], b[4]>>  BY PlaceShape
    <3>2. QED  BY <2>1, <3>1
  <2>4. QED  BY <2>1, <2>2, <2>3
<1> HIDE DEF x, y
<1>16. LostBehind'
  <2>1. \A d \in Nat : <<d>> \in lost' => GoneDevice(d)'
    BY <1>1, <1>7, <1>12, <1>15 DEF LostBehind
  <2>2. \A d, c \in Nat : <<d, c>> \in lost' => GoneDevice(d)'
    BY <1>1, <1>7, <1>12, <1>15 DEF LostBehind
  <2>3. \A d, c \in Nat : <<d, c, "descriptor">> \in lost' => Gone(d, c)' \/ At(d, c)'
    BY <1>1, <1>7, <1>12, <1>15 DEF LostBehind
  <2>4. \A b \in Places : b \in lost' => InterfaceGone(b)'
    BY <1>1, <1>7, <1>12, <1>15 DEF LostBehind
  <2>5. ASSUME NEW b \in Places, NEW w \in {"name", "serial"}, b \o <<w>> \in lost'
        PROVE  Passed(b)'
    <3>1. CASE b = at  BY <1>11, <3>1
    <3>2. CASE b # at
      <4>1. b \o <<w>> \in lost  BY <1>7, <1>15, <2>5, <3>2
      <4>2. QED  BY <1>1, <1>12, <4>1 DEF LostBehind
    <3>3. QED  BY <3>1, <3>2
  <2>6. QED  BY <2>1, <2>2, <2>3, <2>4, <2>5 DEF LostBehind
<1>17. ASSUME NEW b \in AllPlaces, b # at
       PROVE  /\ DescriptorOf(b[1], b[2])' = DescriptorOf(b[1], b[2])
              /\ Wanted(b)' = Wanted(b)
              /\ OutOfReach(b)' = OutOfReach(b)
  <2>1. b \in Places  BY <1>1, PlacesTyped DEF Types
  <2>2. ASSUME NEW e \in About(b)  PROVE e \notin {x, y}
    <3>1. b \o <<"name">> \notin {x, y} /\ b \o <<"serial">> \notin {x, y}
      BY <1>15, <1>17, <2>1
    <3>2. QED  BY <1>15, <2>2, <3>1 DEF About
  <2>3. \A e \in About(b) : e \in lost' <=> e \in lost  BY <1>7, <2>2
  <2>4. QED  BY <1>1, <2>3, Untouched DEF Types
<1>18. result(at).at = at /\ result(at).func_dfu = descriptor /\ result(at).quirks = quirky
  OBVIOUS
<1>19. Regular(at[1], at[2]) =>
         /\ taken <=> Wanted(at)' /\ ~OutOfReach(at)'
         /\ result(at).func_dfu =
              IF "FORCE_DFU11" \in result(at).quirks
                THEN [DescriptorOf(at[1], at[2])' EXCEPT !.bcdDFUVersion = \h0110]
                ELSE DescriptorOf(at[1], at[2])'
  <2> HIDE DEF result, quirky
  <2>1. QED  BY <1>5, <1>10, <1>18
<1>20. Whole'
  <2>1. PICK last : last = result(at)  OBVIOUS
  <2> HIDE DEF result
  <2>2. Setting(at).dfuClass  BY <1>1, <1>2, <1>5, HereTypes
  <2>3. \A b \in Range(todo') : b \in Range(todo) /\ Before(at, b)  BY <1>1, <1>5, <1>11
  <2>4. taken \in BOOLEAN  BY NamedType DEF taken
  <2>5. Passed(at)'  BY <1>11
  <2>6. QED
    BY <1>1, <1>2, <1>5, <1>8, <1>9, <1>11, <1>12, <1>17, <1>18, <1>19, <2>1, <2>2, <2>3,
       <2>4, <2>5, ResultFound
<1>21. QED  BY <1>11, <1>13, <1>14, <1>16, <1>20 DEF SInv

-------------------------------------------------------------------------------
(***************************************************************************)
(* The invariant, and what it says of the search as a whole.               *)
(***************************************************************************)
LEMMA StutterFinds ==
  ASSUME Types, SInv, UNCHANGED vars
  PROVE  SInv'
<1>1. /\ InOrder /\ Walk /\ Reached /\ LostBehind /\ Whole
      /\ UNCHANGED <<search, pc, dev, cfg_idx, todo, p, func_dfu, results, lost>>
  BY DEF SInv, vars
<1>2. InOrder'
  <2>1. Here' = Here  BY <1>1, SamePlace
  <2>2. QED  BY <1>1, <2>1 DEF InOrder
<1>3. Walk'
  <2>1. DescriptorOf(dev, cfg_idx)' = DescriptorOf(dev, cfg_idx)  BY <1>1, SameDescriptor
  <2>2. pc \in Scans => func_dfu = cleared  BY <1>1 DEF Walk
  <2>3. ASSUME pc \in WithConfig, Regular(dev, cfg_idx)
        PROVE  /\ pc = "scanConfig" => AtDescriptor(config.extra, p)
               /\ pc \in Scans \ {"scanConfig"} => Described(config.extra) = {}
               /\ pc = "scanSetting" =>
                    /\ AtDescriptor(Setting(Head(todo)).extra, p)
                    /\ \A at \in Here \ Range(todo) : Described(Setting(at).extra) = {}
               /\ pc \in {"ask", "asked"} =>
                    \A at \in Here : Described(Setting(at).extra) = {}
               /\ pc \in Identifying => func_dfu = DescriptorOf(dev, cfg_idx)
    BY <1>1, <2>3 DEF Walk
  <2>4. QED  BY <1>1, <2>1, <2>2, <2>3, WalkIs
<1>4. Reached'
  <2>1. CASE pc \in Left
    <3>1. pc' \notin WithConfig /\ pc' # "identify"
      BY <1>1, <2>1 DEF Left, WithConfig
    <3>2. QED  BY <1>1, <2>1, <3>1 DEF Reached
  <2>2. CASE pc \notin Left
    <3>1. pc' # "done"  BY <1>1, <2>2 DEF Left
    <3>2. pc = "identify" => Eligible(Head(todo), func_dfu.bcdDFUVersion)
      BY <1>1 DEF Reached
    <3>3. QED  BY <1>1, <2>2, <3>1, <3>2, ReachedKept
  <2>3. QED  BY <2>1, <2>2
<1>5. /\ \A d : GoneDevice(d)' <=> GoneDevice(d)
      /\ \A d, c : Gone(d, c)' <=> Gone(d, c)
      /\ \A d, c : At(d, c)' <=> At(d, c)
  BY <1>1 DEF GoneDevice, Gone, At
<1>6. /\ \A at : Passed(at)' <=> Passed(at)
      /\ \A at : InterfaceGone(at)' <=> InterfaceGone(at)
  BY <1>1, <1>5 DEF Passed, InterfaceGone
<1>7. LostBehind'  BY <1>1, <1>5, <1>6 DEF LostBehind
<1>8. Whole'
  <2>1. pc \in Identifying => \A at \in ResultPlaces, x \in Range(todo) : Before(at, x)
    BY <1>1 DEF Whole, ResultsInOrder
  <2>2. QED  BY <1>1, <1>6, <2>1, WholeKept
<1>9. QED  BY <1>2, <1>3, <1>4, <1>7, <1>8 DEF SInv

LEMMA StepFinds ==
  ASSUME IInv, SInv, [Next]_vars
  PROVE  SInv'
<1>1. CASE UNCHANGED vars  BY <1>1, StutterFinds DEF IInv
<1>2. CASE Next
  BY <1>2, NextDeviceFinds, EndOfListFinds, NextConfigFinds, EndOfConfigsFinds,
     PassDescriptorFinds, FindDescriptorFinds, NoDescriptorFinds, AskDeviceFinds,
     AskedFinds, PassSettingFinds, OpenSettingFinds, IdentifyFinds, EndOfSettingsFinds
  DEF Next
<1>3. QED  BY <1>1, <1>2

(* For every bus, all filters and any calls into libusb that fail: what    *)
(* has been found is at every step all there was to be found in what has   *)
(* been passed, and the walk over the lists of descriptors has passed no   *)
(* functional one that it should have found.                               *)
THEOREM SearchInvariance == Spec => [](IInv /\ SInv)
<1>1. Init => IInv /\ SInv  BY InitHolds, InitFinds
<1>2. IInv /\ SInv /\ [Next]_vars => IInv' /\ SInv'  BY StepKeeps, StepFinds
<1>3. QED  BY <1>1, <1>2, PTL DEF Spec

(* At the end everything has been passed.                                  *)
LEMMA AllPassed ==
  ASSUME Types, Reached, pc = "done", NEW at \in AllPlaces
  PROVE  Passed(at)
<1>1. search \in Searches /\ search.bus \in Seq(USBDevices)  BY BusTypes DEF Types
<1>2. dev = Len(search.bus)  BY DEF Reached
<1>3. at[1] \in 1 .. Len(search.bus)  BY <1>1, PlacesTyped
<1>4. at[1] < dev \/ at[1] = dev  BY <1>1, <1>2, <1>3
<1>5. pc \in Left  BY DEF Left
<1>6. QED  BY <1>4, <1>5 DEF Passed, Gone, GoneDevice

(* For every bus, all filters and any calls into libusb that fail: when    *)
(* find() ends, its results are the settings the filters ask for that      *)
(* libusb gave access to, once each and in the order of the bus; of each   *)
(* configuration whose lists are as they should be, whatever the others    *)
(* are like.                                                               *)
THEOREM FindsEverything == Spec => []FindsAll
<1>1. ASSUME IInv, SInv  PROVE FindsAll
  <2>1. Types /\ Reached /\ ResultsInOrder /\ FoundSoFar  BY <1>1 DEF IInv, SInv, Whole
  <2>2. ASSUME pc = "done", NEW at
        PROVE  at \in ResultPlaces /\ Regular(at[1], at[2]) <=>
                 at \in AllPlaces /\ Regular(at[1], at[2]) /\ Wanted(at) /\ ~OutOfReach(at)
    <3>1. CASE at \in AllPlaces
      <4>1. Passed(at)  BY <2>1, <2>2, <3>1, AllPassed
      <4>2. QED  BY <2>1, <3>1, <4>1 DEF FoundSoFar
    <3>2. CASE at \notin AllPlaces  BY <2>1, <3>2 DEF ResultsInOrder
    <3>3. QED  BY <3>1, <3>2
  <2>3. pc = "done" =>
          {at \in ResultPlaces : Regular(at[1], at[2])} =
            {at \in AllPlaces : Regular(at[1], at[2]) /\ Wanted(at) /\ ~OutOfReach(at)}
    BY <2>2
  <2>4. \A j, k \in DOMAIN results : j < k => Before(results[j].at, results[k].at)
    BY <2>1 DEF ResultsInOrder
  <2>5. QED  BY <2>3, <2>4 DEF FindsAll, ResultPlaces
<1>2. QED  BY <1>1, SearchInvariance, PTL

(* For every bus, all filters and any calls into libusb that fail: a       *)
(* result of a configuration whose lists are as they should be carries     *)
(* the descriptor that find_descriptor() is to find for that               *)
(* configuration, and none that was found, faked or left over for another  *)
(* one.                                                                    *)
THEOREM DescriptorIsOwn == Spec => []OwnDescriptor
<1>1. IInv /\ SInv => OwnDescriptor  BY DEF SInv, Whole
<1>2. QED  BY <1>1, SearchInvariance, PTL
===============================================================================
