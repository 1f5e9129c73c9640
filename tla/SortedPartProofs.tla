--------------------------- MODULE SortedPartProofs ---------------------------
(***************************************************************************)
(* What one call of add does to a range list, for lists and arguments of   *)
(* any size: every outcome of the two loops replaces a run of pairs by one *)
(* pair (AddedShape), and the rest follows from where that run lies.       *)
(***************************************************************************)
EXTENDS SortedPart, SequenceTheorems, WellFoundedInduction, TLAPS

Pair == Nat \X Nat

(* The pairs are non-empty, ascending and disjoint. *)
Sorted(p) ==
    /\ \A i \in 1 .. Len(p) : Lo(p[i]) <= Hi(p[i])
    /\ \A i, j \in 1 .. Len(p) : i < j => Hi(p[i]) < Lo(p[j])

(* q is p with the pairs i .. k - 1 replaced by the one pair e. *)
IsSplice(q, p, i, k, e) ==
    /\ q \in Seq(Pair)
    /\ Len(q) = Len(p) - k + i + 1
    /\ q[i] = e
    /\ \A j \in 1 .. i - 1 : q[j] = p[j]
    /\ \A j \in i + 1 .. Len(q) : q[j] = p[j + k - i - 1]

-------------------------------------------------------------------------------
(* Every non-empty set of naturals has a least element, which Min chooses. *)
LEMMA LeastNat ==
    ASSUME NEW S \in SUBSET Nat, S # {}
    PROVE  Min(S) \in S /\ \A y \in S : Min(S) <= y
<1> DEFINE R == OpToRel(<, Nat)
<1>1. \A x, y \in Nat : x < y => <<x, y>> \in R
  BY DEF OpToRel
<1>2. \E x \in S : \A y \in S : ~(<<y, x>> \in R)
  BY NatLessThanWellFounded, WFMin
<1> HIDE DEF R
<1>3. PICK x \in S : \A y \in S : ~(<<y, x>> \in R)
  BY <1>2
<1>4. ASSUME NEW y \in S PROVE x <= y
  <2>1. ~(y < x)
    BY <1>1, <1>3
  <2> QED BY <2>1
<1> QED BY <1>4 DEF Min

(* A byte is claimed when some pair holds it. *)
LEMMA BytesHeld ==
    ASSUME NEW p \in Seq(Pair)
    PROVE  /\ Bytes(p) \subseteq Nat
           /\ \A x \in Int : x \in Bytes(p) <=>
                \E i \in 1 .. Len(p) : Lo(p[i]) <= x /\ x <= Hi(p[i])
<1>1. \A i \in 1 .. Len(p) : Lo(p[i]) \in Nat /\ Hi(p[i]) \in Nat
  BY ElementOfSeq DEF Pair, Lo, Hi
<1>2. \A x : x \in Bytes(p) <=> \E i \in 1 .. Len(p) : x \in Lo(p[i]) .. Hi(p[i])
  BY DEF Bytes
<1> QED BY <1>1, <1>2

(* Where the first loop of add stops: no pair before is touched. *)
LEMMA TouchedFirst ==
    ASSUME NEW p \in Seq(Pair), NEW av \in Nat
    PROVE  /\ Touched(p, av) \in 0 .. Len(p)
           /\ Touched(p, av) # 0 =>
                LET i == Touched(p, av)
                IN  av <= Lo(p[i]) + 1 \/ av <= Hi(p[i]) + 1
           /\ \A j \in 1 .. Len(p) :
                (Touched(p, av) = 0 \/ j < Touched(p, av)) =>
                    av > Lo(p[j]) + 1 /\ av > Hi(p[j]) + 1
<1> DEFINE I == { i \in 1 .. Len(p) : av <= Lo(p[i]) + 1 \/ av <= Hi(p[i]) + 1 }
<1>1. Touched(p, av) = IF I # {} THEN Min(I) ELSE 0
  BY DEF Touched, SelectInSeq, Lo, Hi
<1>2. I \in SUBSET (1 .. Len(p)) /\ Len(p) \in Nat
  BY LenProperties
<1>3. \A j \in 1 .. Len(p) : Lo(p[j]) \in Nat /\ Hi(p[j]) \in Nat
  BY ElementOfSeq DEF Pair, Lo, Hi
<1>4. \A j \in 1 .. Len(p) : j \notin I => av > Lo(p[j]) + 1 /\ av > Hi(p[j]) + 1
  BY <1>3
<1>5. \A j \in I : av <= Lo(p[j]) + 1 \/ av <= Hi(p[j]) + 1
  OBVIOUS
<1> HIDE DEF I
<1>6. CASE I = {}
  BY <1>1, <1>2, <1>4, <1>6
<1>7. CASE I # {}
  <2>1. Min(I) \in I /\ \A y \in I : Min(I) <= y
    <3>1. I \in SUBSET Nat
      BY <1>2
    <3> QED BY <3>1, <1>7, LeastNat
  <2>2. Touched(p, av) = Min(I) /\ Touched(p, av) \in 1 .. Len(p)
    BY <1>1, <1>2, <1>7, <2>1
  <2>3. \A j \in 1 .. Len(p) : j < Touched(p, av) => j \notin I
    BY <2>1, <2>2
  <2> QED BY <1>4, <1>5, <2>1, <2>2, <2>3
<1> QED BY <1>6, <1>7

-------------------------------------------------------------------------------
(* The three ways add writes its result down are splices. *)
LEMMA SpliceOfParts ==
    ASSUME NEW p \in Seq(Pair), NEW i \in 1 .. Len(p) + 1,
           NEW k \in i .. Len(p) + 1, NEW e \in Pair
    PROVE  IsSplice(SubSeq(p, 1, i - 1) \o <<e>> \o SubSeq(p, k, Len(p)), p, i, k, e)
<1> DEFINE head == SubSeq(p, 1, i - 1)
           mid == << e >>
           tail == SubSeq(p, k, Len(p))
           q == (head \o mid) \o tail
<1>1. Len(p) \in Nat /\ i \in Nat /\ k \in Nat /\ i <= k /\ k <= Len(p) + 1 /\ 1 <= i
  BY LenProperties
<1>2. \A j \in 1 .. Len(p) : p[j] \in Pair
  BY ElementOfSeq
<1>3. /\ head \in Seq(Pair) /\ Len(head) = i - 1
      /\ \A j \in 1 .. i - 1 : head[j] = p[j]
  <2>1. \A j \in 1 .. i - 1 : p[j] \in Pair
    BY <1>1, <1>2
  <2>2. /\ head \in Seq(Pair)
        /\ Len(head) = IF 1 <= i - 1 THEN i - 1 - 1 + 1 ELSE 0
        /\ \A j \in 1 .. i - 1 - 1 + 1 : head[j] = p[1 + j - 1]
    BY <1>1, <2>1, SubSeqProperties
  <2> HIDE DEF head
  <2> QED BY <1>1, <2>2
<1>4. /\ tail \in Seq(Pair) /\ Len(tail) = Len(p) - k + 1
      /\ \A j \in 1 .. Len(p) - k + 1 : tail[j] = p[k + j - 1]
  <2>1. \A j \in k .. Len(p) : p[j] \in Pair
    BY <1>1, <1>2
  <2>2. /\ tail \in Seq(Pair)
        /\ Len(tail) = IF k <= Len(p) THEN Len(p) - k + 1 ELSE 0
        /\ \A j \in 1 .. Len(p) - k + 1 : tail[j] = p[k + j - 1]
    BY <1>1, <2>1, SubSeqProperties
  <2> HIDE DEF tail
  <2> QED BY <1>1, <2>2
<1>5. mid \in Seq(Pair) /\ Len(mid) = 1 /\ mid[1] = e
  OBVIOUS
<1> HIDE DEF head, mid, tail
<1>6. /\ head \o mid \in Seq(Pair)
      /\ Len(head \o mid) = i
      /\ \A j \in 1 .. i : (head \o mid)[j] = IF j <= i - 1 THEN head[j] ELSE mid[j - (i - 1)]
  <2>1. /\ head \o mid \in Seq(Pair)
        /\ Len(head \o mid) = Len(head) + Len(mid)
        /\ \A j \in 1 .. Len(head) + Len(mid) : (head \o mid)[j] =
               IF j <= Len(head) THEN head[j] ELSE mid[j - Len(head)]
    BY <1>3, <1>5, ConcatProperties
  <2>2. Len(head) + Len(mid) = i
    BY <1>1, <1>3, <1>5
  <2>3. Len(head) = i - 1
    BY <1>3
  <2> QED BY <2>1, <2>2, <2>3
<1> DEFINE front == head \o mid
<1>7. /\ front \in Seq(Pair) /\ Len(front) = i /\ front[i] = e
      /\ \A j \in 1 .. i - 1 : front[j] = p[j]
  BY <1>1, <1>3, <1>5, <1>6
<1> HIDE DEF front
<1>8. /\ front \o tail \in Seq(Pair)
      /\ Len(front \o tail) = i + (Len(p) - k + 1)
      /\ \A j \in 1 .. i + (Len(p) - k + 1) : (front \o tail)[j] =
             IF j <= i THEN front[j] ELSE tail[j - i]
  <2>1. /\ front \o tail \in Seq(Pair)
        /\ Len(front \o tail) = Len(front) + Len(tail)
        /\ \A j \in 1 .. Len(front) + Len(tail) : (front \o tail)[j] =
               IF j <= Len(front) THEN front[j] ELSE tail[j - Len(front)]
    BY <1>4, <1>7, ConcatProperties
  <2>2. Len(front) = i /\ Len(tail) = Len(p) - k + 1
    BY <1>4, <1>7
  <2> QED BY <2>1, <2>2
<1>9. q = front \o tail
  BY DEF front
<1> HIDE DEF q
<1>10. \A j \in i + 1 .. Len(q) : q[j] = p[j + k - i - 1]
  <2> SUFFICES ASSUME NEW j \in i + 1 .. Len(q) PROVE q[j] = p[j + k - i - 1]
    OBVIOUS
  <2>1. j \in Nat /\ j > i /\ j <= i + (Len(p) - k + 1)
    BY <1>1, <1>8, <1>9
  <2>2. q[j] = tail[j - i]
    BY <1>1, <1>8, <1>9, <2>1
  <2>3. tail[j - i] = p[k + (j - i) - 1]
    BY <1>1, <1>4, <2>1
  <2>4. k + (j - i) - 1 = j + k - i - 1
    BY <1>1, <2>1
  <2> QED BY <2>2, <2>3, <2>4
<1>11. IsSplice(q, p, i, k, e)
  BY <1>1, <1>7, <1>8, <1>9, <1>10 DEF IsSplice
<1> QED BY <1>11 DEF q, head, mid, tail

LEMMA SpliceOfAppend ==
    ASSUME NEW p \in Seq(Pair), NEW e \in Pair
    PROVE  IsSplice(Append(p, e), p, Len(p) + 1, Len(p) + 1, e)
BY AppendProperties, LenProperties DEF IsSplice

LEMMA SpliceOfReplace ==
    ASSUME NEW p \in Seq(Pair), NEW i \in 1 .. Len(p), NEW e \in Pair
    PROVE  IsSplice(ReplaceAt(p, i, e), p, i, i + 1, e)
<1>1. /\ ReplaceAt(p, i, e) \in Seq(Pair)
      /\ Len(ReplaceAt(p, i, e)) = Len(p)
      /\ \A j \in 1 .. Len(p) : ReplaceAt(p, i, e)[j] = IF j = i THEN e ELSE p[j]
  BY ExceptSeq DEF ReplaceAt
<1>2. Len(p) \in Nat /\ i \in Nat
  BY LenProperties
<1>3. \A j \in i + 1 .. Len(p) : j + (i + 1) - i - 1 = j
  BY <1>2
<1> DEFINE q == ReplaceAt(p, i, e)
<1>4. q \in Seq(Pair) /\ q[i] = e /\ Len(q) = Len(p)
  BY <1>1, <1>2
<1>5. \A j \in 1 .. i - 1 : q[j] = p[j]
  BY <1>1, <1>2
<1>6. \A j \in i + 1 .. Len(p) : q[j] = p[j]
  BY <1>1, <1>2
<1> HIDE DEF q
<1>7. Len(q) = Len(p) - (i + 1) + i + 1
  BY <1>2, <1>4
<1>8. \A j \in i + 1 .. Len(q) : q[j] = p[j + (i + 1) - i - 1]
  BY <1>3, <1>4, <1>6
<1>9. IsSplice(q, p, i, i + 1, e)
  BY <1>4, <1>5, <1>7, <1>8 DEF IsSplice
<1> QED BY <1>9 DEF q

-------------------------------------------------------------------------------
(* Where the merge loop stops. *)
LEMMA KeptFirst ==
    ASSUME NEW p \in Seq(Pair), NEW i \in 1 .. Len(p), NEW hi \in Nat
    PROVE  LET k == Kept(p, i, hi)
           IN  /\ k \in i + 1 .. Len(p) + 1
               /\ k <= Len(p) => Lo(p[k]) > Larger(hi, Hi(p[k - 1])) + 1
               /\ \A j \in i + 1 .. k - 1 :
                      Lo(p[j]) <= Larger(hi, Hi(p[j - 1])) + 1
<1> DEFINE Stop(j) == j = Len(p) + 1 \/ Lo(p[j]) > Larger(hi, Hi(p[j - 1])) + 1
           K == { j \in i + 1 .. Len(p) + 1 : Stop(j) }
           k == Kept(p, i, hi)
<1>1. Len(p) \in Nat /\ i \in Nat /\ i <= Len(p)
  BY LenProperties
<1>2. \A j \in 1 .. Len(p) : Lo(p[j]) \in Nat /\ Hi(p[j]) \in Nat
  BY ElementOfSeq DEF Pair, Lo, Hi
<1>3. k = Min(K)
  BY DEF Kept
<1>4. Len(p) + 1 \in K
  BY <1>1
<1>5. K \in SUBSET Nat /\ K \subseteq i + 1 .. Len(p) + 1
  BY <1>1
<1>6. \A j \in i + 1 .. Len(p) + 1 : j \in K <=> Stop(j)
  OBVIOUS
<1> HIDE DEF K, k
<1>7. k \in K /\ \A y \in K : k <= y
  BY <1>3, <1>4, <1>5, LeastNat
<1>8. k \in i + 1 .. Len(p) + 1
  BY <1>5, <1>7
<1>9. k <= Len(p) => Lo(p[k]) > Larger(hi, Hi(p[k - 1])) + 1
  BY <1>1, <1>6, <1>7, <1>8
<1>10. ASSUME NEW j \in i + 1 .. k - 1
       PROVE  Lo(p[j]) <= Larger(hi, Hi(p[j - 1])) + 1
  <2>1. j \in i + 1 .. Len(p) + 1 /\ j # Len(p) + 1 /\ j < k /\ j \in 1 .. Len(p)
        /\ j - 1 \in 1 .. Len(p)
    BY <1>1, <1>8
  <2>2. j \notin K
    <3>1. ~(k <= j)
      BY <1>1, <1>8, <2>1
    <3> QED BY <1>7, <3>1
  <2>3. ~(Lo(p[j]) > Larger(hi, Hi(p[j - 1])) + 1)
    BY <1>6, <2>1, <2>2
  <2>4. Lo(p[j]) \in Nat /\ Larger(hi, Hi(p[j - 1])) \in Nat
    BY <1>2, <2>1 DEF Larger
  <2> QED BY <2>3, <2>4
<1> QED BY <1>8, <1>9, <1>10 DEF k

(* The pairs the merge loop absorbs leave no byte out up to the last of     *)
(* them: the new pair claims nothing that was not claimed or just added.    *)
LEMMA NoHole ==
    ASSUME NEW p \in Seq(Pair), NEW i \in 1 .. Len(p), NEW hi \in Nat,
           hi > Hi(p[i]),
           NEW x \in Int, x > hi,
           x <= Larger(hi, Hi(p[Kept(p, i, hi) - 1]))
    PROVE  x \in Bytes(p)
<1> DEFINE k == Kept(p, i, hi)
           J == { j \in i .. k - 1 : Hi(p[j]) >= x }
<1>1. Len(p) \in Nat /\ i \in Nat /\ 1 <= i /\ i <= Len(p)
  BY LenProperties
<1>2. \A j \in 1 .. Len(p) : Lo(p[j]) \in Nat /\ Hi(p[j]) \in Nat
  BY ElementOfSeq DEF Pair, Lo, Hi
<1>3. /\ k \in i + 1 .. Len(p) + 1
      /\ \A j \in i + 1 .. k - 1 : Lo(p[j]) <= Larger(hi, Hi(p[j - 1])) + 1
  BY KeptFirst
<1>4. x <= Larger(hi, Hi(p[k - 1]))
  OBVIOUS
<1> HIDE DEF k
<1>5. k - 1 \in 1 .. Len(p) /\ k - 1 \in i .. k - 1 /\ Hi(p[k - 1]) \in Nat
  BY <1>1, <1>2, <1>3
<1>6. Hi(p[k - 1]) >= x
  BY <1>4, <1>5 DEF Larger
<1>7. k - 1 \in J /\ J \in SUBSET Nat
  BY <1>1, <1>3, <1>5, <1>6
<1>8. \A j \in i .. k - 1 : j \in J <=> Hi(p[j]) >= x
  OBVIOUS
<1>9. J \subseteq i .. k - 1
  OBVIOUS
<1> HIDE DEF J
<1>10. Min(J) \in J /\ \A y \in J : Min(J) <= y
  BY <1>7, LeastNat
<1>11. PICK j \in i .. k - 1 : j \in J /\ \A y \in J : j <= y
  BY <1>9, <1>10
<1>12. Hi(p[j]) >= x
  BY <1>8, <1>11
<1>13. j # i
  <2>1. Hi(p[i]) \in Nat
    BY <1>2
  <2> QED BY <1>12, <2>1
<1>14. j \in i + 1 .. k - 1 /\ j - 1 \in i .. k - 1 /\ j \in 1 .. Len(p) /\ j - 1 \in 1 .. Len(p)
  BY <1>1, <1>3, <1>11, <1>13
<1>15. j - 1 \notin J
  BY <1>11, <1>14
<1>16. Hi(p[j - 1]) < x
  <2>1. ~(Hi(p[j - 1]) >= x)
    BY <1>8, <1>14, <1>15
  <2>2. Hi(p[j - 1]) \in Nat
    BY <1>2, <1>14
  <2> QED BY <2>1, <2>2
<1>17. Larger(hi, Hi(p[j - 1])) < x
  BY <1>16 DEF Larger
<1>18. Lo(p[j]) <= x
  <2>1. Lo(p[j]) \in Nat /\ Hi(p[j - 1]) \in Nat
    BY <1>2, <1>14
  <2>2. Larger(hi, Hi(p[j - 1])) \in Nat
    BY <2>1 DEF Larger
  <2> QED BY <1>3, <1>14, <1>17, <2>1, <2>2
<1> QED BY <1>12, <1>14, <1>18, BytesHeld

-------------------------------------------------------------------------------
(* add(av, bv) turned p into q by replacing the pairs i .. k - 1 by the     *)
(* pair lo .. hi, which lies between the pairs left and right of the run,   *)
(* claims nothing new but av .. bv, and of what the run claimed gives up at *)
(* most the byte below av, the start of the pair av touched.  No pair left  *)
(* of the run ends right below av; right of it, none starts right above hi, *)
(* unless nothing was replaced or hi was the end of the last pair that was. *)
IsStep(q, p, av, bv, i, k, lo, hi) ==
    /\ IsSplice(q, p, i, k, <<lo, hi>>)
    /\ lo <= av /\ bv <= hi
    /\ \A j \in 1 .. i - 1 : Hi(p[j]) < lo /\ Hi(p[j]) + 1 < av
    /\ \A j \in k .. Len(p) : hi < Lo(p[j])
    /\ \A x \in lo .. hi : x \in Bytes(p) \/ x \in av .. bv
    /\ \A j \in i .. k - 1 :
          /\ Hi(p[j]) <= hi
          /\ Lo(p[j]) < lo => j = i /\ lo = av /\ av = Lo(p[j]) + 1
    /\ lo = av \/ (i <= Len(p) /\ lo = Lo(p[i]))
    /\ \/ i = k /\ hi = bv
       \/ i < k /\ hi = Hi(p[k - 1])
       \/ \A j \in k .. Len(p) : hi + 1 < Lo(p[j])

LEMMA AddedShape ==
    ASSUME NEW p \in Seq(Pair), Sorted(p),
           NEW av \in Nat, NEW bv \in Nat, av <= bv
    PROVE  \E i \in 1 .. Len(p) + 1 : \E k \in i .. Len(p) + 1 :
           \E lo, hi \in Nat : IsStep(Added(p, av, bv), p, av, bv, i, k, lo, hi)
<1> DEFINE t == Touched(p, av)
           n == Len(p)
<1>1. n \in Nat
  BY LenProperties
<1>2. \A j \in 1 .. n : Lo(p[j]) \in Nat /\ Hi(p[j]) \in Nat /\ Lo(p[j]) <= Hi(p[j])
  BY ElementOfSeq DEF Pair, Lo, Hi, Sorted
<1>3. \A j, m \in 1 .. n : j < m => Hi(p[j]) < Lo(p[m])
  BY DEF Sorted
<1>4. /\ t \in 0 .. n
      /\ t # 0 => av <= Lo(p[t]) + 1 \/ av <= Hi(p[t]) + 1
      /\ \A j \in 1 .. n : (t = 0 \/ j < t) => av > Lo(p[j]) + 1 /\ av > Hi(p[j]) + 1
  BY TouchedFirst
<1>5. \A x \in Int : x \in Bytes(p) <=> \E j \in 1 .. n : Lo(p[j]) <= x /\ x <= Hi(p[j])
  BY BytesHeld
<1> DEFINE lo == IF av <= Lo(p[t]) + 1 THEN av ELSE Lo(p[t])
<1>6. Added(p, av, bv) =
        IF t = 0 THEN Append(p, <<av, bv>>)
        ELSE IF bv < Lo(p[t]) THEN InsertAt(p, t, <<av, bv>>)
        ELSE IF bv <= Hi(p[t]) THEN ReplaceAt(p, t, <<lo, Hi(p[t])>>)
        ELSE Merged(p, t, lo, bv)
  BY DEF Added
<1>7. t # 0 =>
        /\ lo \in Nat /\ lo <= av
        /\ Lo(p[t]) < lo => lo = av /\ av = Lo(p[t]) + 1
        /\ lo = av \/ lo = Lo(p[t])
        /\ \A j \in 1 .. t - 1 : Hi(p[j]) < lo /\ Hi(p[j]) + 1 < av
  <2> SUFFICES ASSUME t # 0
               PROVE  /\ lo \in Nat /\ lo <= av
                      /\ Lo(p[t]) < lo => lo = av /\ av = Lo(p[t]) + 1
                      /\ lo = av \/ lo = Lo(p[t])
                      /\ \A j \in 1 .. t - 1 : Hi(p[j]) < lo /\ Hi(p[j]) + 1 < av
    OBVIOUS
  <2>1. t \in 1 .. n /\ Lo(p[t]) \in Nat
    BY <1>1, <1>2, <1>4
  <2>2. \A j \in 1 .. t - 1 : Hi(p[j]) < Lo(p[t]) /\ Hi(p[j]) + 1 < av /\ Hi(p[j]) \in Nat
    <3> SUFFICES ASSUME NEW j \in 1 .. t - 1
                 PROVE  Hi(p[j]) < Lo(p[t]) /\ Hi(p[j]) + 1 < av /\ Hi(p[j]) \in Nat
      OBVIOUS
    <3>1. j \in 1 .. n /\ j < t
      BY <1>1, <2>1
    <3>2. Hi(p[j]) \in Nat /\ av > Hi(p[j]) + 1
      BY <1>2, <1>4, <3>1
    <3> QED BY <1>3, <2>1, <3>1, <3>2
  <2> HIDE DEF t
  <2> QED BY <2>1, <2>2
<1>8. CASE t = 0
  <2>1. <<av, bv>> \in Pair
    BY DEF Pair
  <2>2. IsSplice(Append(p, <<av, bv>>), p, n + 1, n + 1, <<av, bv>>)
    BY <2>1, SpliceOfAppend
  <2>3. \A j \in 1 .. n : Hi(p[j]) < av /\ Hi(p[j]) + 1 < av
    BY <1>2, <1>4, <1>8
  <2>4. IsStep(Append(p, <<av, bv>>), p, av, bv, n + 1, n + 1, av, bv)
    BY <1>1, <2>2, <2>3 DEF IsStep
  <2>5. n + 1 \in 1 .. n + 1 /\ n + 1 \in n + 1 .. n + 1
    BY <1>1
  <2> QED BY <1>6, <1>8, <2>4, <2>5
<1>9. CASE t # 0 /\ bv < Lo(p[t])
  <2>1. <<av, bv>> \in Pair
    BY DEF Pair
  <2>2. t \in 1 .. n /\ t \in 1 .. n + 1 /\ t \in t .. n + 1
    BY <1>1, <1>4, <1>9
  <2>3. IsSplice(InsertAt(p, t, <<av, bv>>), p, t, t, <<av, bv>>)
    BY <2>1, <2>2, SpliceOfParts DEF InsertAt
  <2>4. \A j \in 1 .. t - 1 : Hi(p[j]) < av /\ Hi(p[j]) + 1 < av
    <3> SUFFICES ASSUME NEW j \in 1 .. t - 1 PROVE Hi(p[j]) < av /\ Hi(p[j]) + 1 < av
      OBVIOUS
    <3>1. j \in 1 .. n /\ j < t
      BY <1>1, <2>2
    <3> QED BY <1>2, <1>4, <3>1
  <2>5. \A j \in t .. n : bv < Lo(p[j])
    <3> SUFFICES ASSUME NEW j \in t .. n PROVE bv < Lo(p[j])
      OBVIOUS
    <3>1. j \in 1 .. n /\ (j = t \/ t < j)
      BY <1>1, <2>2
    <3>2. Lo(p[t]) \in Nat /\ Hi(p[t]) \in Nat /\ Lo(p[t]) <= Hi(p[t]) /\ Lo(p[j]) \in Nat
      BY <1>2, <2>2, <3>1
    <3>3. Lo(p[t]) <= Lo(p[j])
      BY <1>3, <2>2, <3>1, <3>2
    <3> QED BY <1>9, <3>2, <3>3
  <2>6. t .. t - 1 = {}
    BY <2>2
  <2>7. IsStep(InsertAt(p, t, <<av, bv>>), p, av, bv, t, t, av, bv)
    BY <2>2, <2>3, <2>4, <2>5, <2>6 DEF IsStep
  <2> QED BY <1>6, <1>9, <2>2, <2>7
<1>10. CASE t # 0 /\ ~(bv < Lo(p[t])) /\ bv <= Hi(p[t])
  <2> DEFINE hi == Hi(p[t])
  <2>1. t \in 1 .. n /\ t + 1 \in t .. n + 1 /\ t \in 1 .. n + 1
    BY <1>1, <1>4, <1>10
  <2>2. lo \in Nat /\ hi \in Nat /\ Lo(p[t]) \in Nat /\ <<lo, hi>> \in Pair
    BY <1>2, <1>7, <1>10, <2>1 DEF Pair
  <2>3. IsSplice(ReplaceAt(p, t, <<lo, hi>>), p, t, t + 1, <<lo, hi>>)
    BY <2>1, <2>2, SpliceOfReplace
  <2>4. \A j \in t + 1 .. n : hi < Lo(p[j])
    BY <1>1, <1>3, <2>1
  <2>5. \A x \in lo .. hi : x \in Bytes(p) \/ x \in av .. bv
    <3> SUFFICES ASSUME NEW x \in lo .. hi PROVE x \in Bytes(p) \/ x \in av .. bv
      OBVIOUS
    <3>1. CASE x >= Lo(p[t])
      BY <1>5, <2>1, <2>2, <3>1
    <3>2. CASE x < Lo(p[t])
      BY <1>7, <1>10, <2>2, <3>2
    <3> QED BY <2>2, <3>1, <3>2
  <2>6. \A j \in t .. t + 1 - 1 : j = t
    BY <2>1
  <2>7. IsStep(ReplaceAt(p, t, <<lo, hi>>), p, av, bv, t, t + 1, lo, hi)
    <3> HIDE DEF t, n, lo
    <3> QED BY <1>7, <1>10, <2>1, <2>2, <2>3, <2>4, <2>5, <2>6 DEF IsStep, n
  <2> QED BY <1>6, <1>10, <2>1, <2>2, <2>7
<1>11. CASE t # 0 /\ ~(bv < Lo(p[t])) /\ ~(bv <= Hi(p[t]))
  <2> DEFINE k == Kept(p, t, bv)
             hi == Larger(bv, Hi(p[k - 1]))
  <2>1. t \in 1 .. n /\ t \in 1 .. n + 1 /\ t \in Nat
    BY <1>1, <1>4, <1>11
  <2>2. /\ k \in t + 1 .. n + 1
        /\ k <= n => Lo(p[k]) > hi + 1
    BY <2>1, KeptFirst
  <2>3. k \in t .. n + 1 /\ k - 1 \in 1 .. n /\ k - 1 \in t .. n /\ k \in Nat
    BY <1>1, <2>1, <2>2
  <2>4. lo \in Nat /\ Lo(p[t]) \in Nat /\ Hi(p[t]) \in Nat /\ Hi(p[k - 1]) \in Nat
    BY <1>2, <1>7, <1>11, <2>1, <2>3
  <2>5. hi \in Nat /\ bv <= hi /\ Hi(p[k - 1]) <= hi /\ (hi = bv \/ hi = Hi(p[k - 1]))
    BY <2>4 DEF Larger
  <2>6. <<lo, hi>> \in Pair
    BY <2>4, <2>5 DEF Pair
  <2>7. IsSplice(Merged(p, t, lo, bv), p, t, k, <<lo, hi>>)
    <3>1. IsSplice(SubSeq(p, 1, t - 1) \o << <<lo, hi>> >> \o SubSeq(p, k, Len(p)),
                   p, t, k, <<lo, hi>>)
      <4> HIDE DEF t, k, lo, hi
      <4> QED BY <2>1, <2>3, <2>6, SpliceOfParts
    <3> QED BY <3>1 DEF Merged
  <2>8. \A j \in k .. n : hi < Lo(p[j]) /\ hi + 1 < Lo(p[j])
    <3> SUFFICES ASSUME NEW j \in k .. n PROVE hi < Lo(p[j]) /\ hi + 1 < Lo(p[j])
      OBVIOUS
    <3> HIDE DEF hi, k, t
    <3>1. k \in 1 .. n /\ j \in 1 .. n /\ (j = k \/ k < j)
      BY <1>1, <2>1, <2>2
    <3>2. Lo(p[k]) \in Nat /\ Hi(p[k]) \in Nat /\ Lo(p[k]) <= Hi(p[k]) /\ Lo(p[j]) \in Nat
      BY <1>2, <3>1
    <3>3. Lo(p[k]) <= Lo(p[j])
      BY <1>3, <3>1, <3>2
    <3>4. k <= n
      BY <1>1, <3>1
    <3> QED BY <2>2, <2>5, <3>2, <3>3, <3>4
  <2>9. \A x \in lo .. hi : x \in Bytes(p) \/ x \in av .. bv
    <3> SUFFICES ASSUME NEW x \in lo .. hi PROVE x \in Bytes(p) \/ x \in av .. bv
      OBVIOUS
    <3>1. CASE x > bv
      <4>1. bv > Hi(p[t])
        BY <1>11, <2>4
      <4>2. x <= Larger(bv, Hi(p[Kept(p, t, bv) - 1]))
        BY <2>4, <2>5
      <4>3. x \in Int
        OBVIOUS
      <4> HIDE DEF t, lo, hi, k
      <4> QED BY <2>1, <3>1, <4>1, <4>2, <4>3, NoHole
    <3>2. CASE x <= bv /\ x >= av
      BY <2>4, <2>5, <3>2
    <3>3. CASE x < av
      <4>1. lo = Lo(p[t]) /\ av > Lo(p[t]) + 1 /\ av <= Hi(p[t]) + 1
        BY <1>4, <1>7, <1>11, <2>4, <2>5, <3>3
      <4>2. x >= Lo(p[t]) /\ x <= Hi(p[t]) /\ x \in Int
        BY <2>4, <2>5, <3>3, <4>1
      <4> QED BY <1>5, <2>1, <4>2
    <3> QED BY <2>4, <2>5, <3>1, <3>2, <3>3
  <2>10. ASSUME NEW j \in t .. k - 1
         PROVE  /\ Hi(p[j]) <= hi
                /\ Lo(p[j]) < lo => j = t /\ lo = av /\ av = Lo(p[j]) + 1
    <3> HIDE DEF t, k, hi, lo
    <3>1. j \in 1 .. n /\ (j = t \/ t < j) /\ (j = k - 1 \/ j < k - 1)
      BY <1>1, <2>1, <2>3
    <3>2. Lo(p[j]) \in Nat /\ Hi(p[j]) \in Nat
      BY <1>2, <3>1
    <3>3. Hi(p[j]) <= hi
      <4>1. CASE j = k - 1
        BY <2>5, <4>1
      <4>2. CASE j < k - 1
        <5>1. Hi(p[j]) < Lo(p[k - 1]) /\ Lo(p[k - 1]) <= Hi(p[k - 1]) /\ Lo(p[k - 1]) \in Nat
          BY <1>2, <1>3, <2>3, <3>1, <4>2
        <5> QED BY <2>4, <2>5, <3>2, <5>1
      <4> QED BY <3>1, <4>1, <4>2
    <3>4. CASE j = t
      BY <1>7, <1>11, <3>3, <3>4
    <3>5. CASE t < j
      <4>1. Hi(p[t]) < Lo(p[j])
        BY <1>3, <2>1, <3>1, <3>5
      <4>2. lo <= Lo(p[j])
        <5>1. lo <= Lo(p[t]) + 1 /\ Lo(p[t]) <= Hi(p[t])
          BY <1>2, <1>7, <1>11, <2>1, <2>4
        <5> QED BY <2>4, <3>2, <4>1, <5>1
      <4>3. ~(Lo(p[j]) < lo)
        BY <2>4, <3>2, <4>2
      <4> QED BY <3>3, <4>3
    <3> QED BY <3>1, <3>4, <3>5
  <2>11. IsStep(Merged(p, t, lo, bv), p, av, bv, t, k, lo, hi)
    <3>1. t <= Len(p)
      BY <1>1, <2>1
    <3> HIDE DEF t, k, lo, hi
    <3> QED BY <1>7, <1>11, <2>5, <2>7, <2>8, <2>9, <2>10, <3>1 DEF IsStep
  <2> QED BY <1>6, <1>11, <2>1, <2>3, <2>4, <2>5, <2>11
<1> QED BY <1>8, <1>9, <1>10, <1>11

-------------------------------------------------------------------------------
(* The pairs of a splice q: lo .. hi at i, those of p before i where they   *)
(* were, and those of p from k on behind.                                   *)
PairsOf(q, p, i, k, lo, hi) ==
    /\ q \in Seq(Pair) /\ i \in 1 .. Len(q) /\ Len(q) \in Nat
    /\ Lo(q[i]) = lo /\ Hi(q[i]) = hi
    /\ \A j \in 1 .. i - 1 : j \in 1 .. Len(p) /\ q[j] = p[j]
    /\ \A j \in i + 1 .. Len(q) :
          j + k - i - 1 \in k .. Len(p) /\ q[j] = p[j + k - i - 1]
    /\ \A m \in k .. Len(p) :
          m - k + i + 1 \in i + 1 .. Len(q) /\ q[m - k + i + 1] = p[m]

(* Where the pairs of a step's list come from. *)
LEMMA StepPairs ==
    ASSUME NEW p \in Seq(Pair), NEW q, NEW av \in Nat, NEW bv \in Nat,
           NEW i \in 1 .. Len(p) + 1, NEW k \in i .. Len(p) + 1,
           NEW lo \in Nat, NEW hi \in Nat,
           IsStep(q, p, av, bv, i, k, lo, hi)
    PROVE  PairsOf(q, p, i, k, lo, hi)
<1>1. Len(p) \in Nat /\ i \in Nat /\ k \in Nat /\ 1 <= i /\ i <= k /\ k <= Len(p) + 1
  BY LenProperties
<1>2. /\ q \in Seq(Pair)
      /\ Len(q) = Len(p) - k + i + 1
      /\ q[i] = <<lo, hi>>
      /\ \A j \in 1 .. i - 1 : q[j] = p[j]
      /\ \A j \in i + 1 .. Len(q) : q[j] = p[j + k - i - 1]
  BY DEF IsStep, IsSplice
<1>3. i \in 1 .. Len(q) /\ Len(q) \in Nat
  BY <1>1, <1>2
<1>4. Lo(q[i]) = lo /\ Hi(q[i]) = hi
  BY <1>2 DEF Lo, Hi
<1>5. \A j \in 1 .. i - 1 : j \in 1 .. Len(p)
  BY <1>1
<1>6. \A j \in i + 1 .. Len(q) : j + k - i - 1 \in k .. Len(p)
  BY <1>1, <1>2
<1>7. ASSUME NEW m \in k .. Len(p)
      PROVE  m - k + i + 1 \in i + 1 .. Len(q) /\ q[m - k + i + 1] = p[m]
  <2> DEFINE j == m - k + i + 1
  <2>1. j \in i + 1 .. Len(q) /\ j + k - i - 1 = m
    BY <1>1, <1>2
  <2> QED BY <1>2, <2>1
<1> QED BY <1>2, <1>3, <1>4, <1>5, <1>6, <1>7 DEF PairsOf

(* add keeps a sorted list sorted. *)
LEMMA AddedSorted ==
    ASSUME NEW p \in Seq(Pair), Sorted(p),
           NEW av \in Nat, NEW bv \in Nat, av <= bv
    PROVE  Added(p, av, bv) \in Seq(Pair) /\ Sorted(Added(p, av, bv))
<1> DEFINE q == Added(p, av, bv)
<1>0. PICK i \in 1 .. Len(p) + 1 : \E k \in i .. Len(p) + 1 :
          \E lo, hi \in Nat : IsStep(q, p, av, bv, i, k, lo, hi)
  BY AddedShape
<1>1. PICK k \in i .. Len(p) + 1, lo \in Nat, hi \in Nat :
          IsStep(q, p, av, bv, i, k, lo, hi)
  BY <1>0
<1> HIDE DEF q
<1>2. Len(p) \in Nat /\ i \in Nat /\ k \in Nat /\ i <= k
  BY LenProperties
<1>s. PairsOf(q, p, i, k, lo, hi)
  BY <1>1, StepPairs
<1>3. /\ q \in Seq(Pair) /\ i \in 1 .. Len(q) /\ Len(q) \in Nat
      /\ Lo(q[i]) = lo /\ Hi(q[i]) = hi
      /\ \A j \in 1 .. i - 1 : j \in 1 .. Len(p) /\ q[j] = p[j]
      /\ \A j \in i + 1 .. Len(q) :
            j + k - i - 1 \in k .. Len(p) /\ q[j] = p[j + k - i - 1]
  BY <1>s DEF PairsOf
<1>4. /\ lo <= hi
      /\ \A j \in 1 .. i - 1 : Hi(p[j]) < lo
      /\ \A j \in k .. Len(p) : hi < Lo(p[j])
  BY <1>1 DEF IsStep
<1>5. \A j \in 1 .. Len(q) : Lo(q[j]) \in Nat /\ Hi(q[j]) \in Nat
  BY <1>3, ElementOfSeq DEF Pair, Lo, Hi
<1>6. \A j \in k .. Len(p) : j \in 1 .. Len(p)
  BY <1>2
<1>7. ASSUME NEW j \in 1 .. Len(q) PROVE Lo(q[j]) <= Hi(q[j])
  <2>1. j \in 1 .. i - 1 \/ j = i \/ j \in i + 1 .. Len(q)
    BY <1>2, <1>3
  <2> QED BY <1>3, <1>4, <1>6, <2>1 DEF Sorted
<1>8. ASSUME NEW j \in 1 .. Len(q), NEW m \in 1 .. Len(q), j < m
      PROVE  Hi(q[j]) < Lo(q[m])
  <2>1. j \in 1 .. i - 1 \/ j = i \/ j \in i + 1 .. Len(q)
    BY <1>2, <1>3
  <2>2. m \in 1 .. i - 1 \/ m = i \/ m \in i + 1 .. Len(q)
    BY <1>2, <1>3
  <2>3. CASE j \in 1 .. i - 1 /\ m \in 1 .. i - 1
    BY <1>3, <1>8, <2>3 DEF Sorted
  <2>4. CASE j \in 1 .. i - 1 /\ m = i
    BY <1>3, <1>4, <2>4
  <2>5. CASE j \in 1 .. i - 1 /\ m \in i + 1 .. Len(q)
    <3>1. Hi(q[j]) < lo
      BY <1>3, <1>4, <2>5
    <3>2. hi < Lo(q[m])
      BY <1>3, <1>4, <2>5
    <3> QED BY <1>4, <1>5, <3>1, <3>2
  <2>6. CASE j = i /\ m \in i + 1 .. Len(q)
    BY <1>3, <1>4, <2>6
  <2>7. CASE j \in i + 1 .. Len(q) /\ m \in i + 1 .. Len(q)
    <3>1. j + k - i - 1 < m + k - i - 1
      BY <1>2, <1>8
    <3>2. q[j] = p[j + k - i - 1] /\ q[m] = p[m + k - i - 1]
      BY <1>3, <2>7
    <3>3. j + k - i - 1 \in 1 .. Len(p) /\ m + k - i - 1 \in 1 .. Len(p)
      BY <1>3, <1>6, <2>7
    <3> QED BY <3>1, <3>2, <3>3 DEF Sorted
  <2> QED BY <1>2, <1>8, <2>1, <2>2, <2>3, <2>4, <2>5, <2>6, <2>7
<1> QED BY <1>3, <1>7, <1>8 DEF Sorted, q

(* add claims nothing but what was claimed and what it was given. *)
LEMMA AddedClaims ==
    ASSUME NEW p \in Seq(Pair), Sorted(p),
           NEW av \in Nat, NEW bv \in Nat, av <= bv
    PROVE  Bytes(Added(p, av, bv)) \subseteq Bytes(p) \cup (av .. bv)
<1> DEFINE q == Added(p, av, bv)
<1>0. PICK i \in 1 .. Len(p) + 1 : \E k \in i .. Len(p) + 1 :
          \E lo, hi \in Nat : IsStep(q, p, av, bv, i, k, lo, hi)
  BY AddedShape
<1>1. PICK k \in i .. Len(p) + 1, lo \in Nat, hi \in Nat :
          IsStep(q, p, av, bv, i, k, lo, hi)
  BY <1>0
<1> HIDE DEF q
<1>2. Len(p) \in Nat /\ i \in Nat /\ k \in Nat /\ 1 <= i /\ i <= k
  BY LenProperties
<1>s. PairsOf(q, p, i, k, lo, hi)
  BY <1>1, StepPairs
<1>3. /\ q \in Seq(Pair) /\ i \in 1 .. Len(q) /\ Len(q) \in Nat
      /\ Lo(q[i]) = lo /\ Hi(q[i]) = hi
      /\ \A j \in 1 .. i - 1 : j \in 1 .. Len(p) /\ q[j] = p[j]
      /\ \A j \in i + 1 .. Len(q) :
            j + k - i - 1 \in k .. Len(p) /\ q[j] = p[j + k - i - 1]
  BY <1>s DEF PairsOf
<1>4. \A x \in lo .. hi : x \in Bytes(p) \/ x \in av .. bv
  BY <1>1 DEF IsStep
<1>5. ASSUME NEW x \in Bytes(q) PROVE x \in Bytes(p) \cup (av .. bv)
  <2>1. x \in Nat
    BY <1>3, BytesHeld
  <2>2. PICK j \in 1 .. Len(q) : Lo(q[j]) <= x /\ x <= Hi(q[j])
    BY <1>3, <2>1, BytesHeld
  <2>3. j \in 1 .. i - 1 \/ j = i \/ j \in i + 1 .. Len(q)
    BY <1>2, <1>3
  <2>4. CASE j = i
    BY <1>3, <1>4, <2>1, <2>2, <2>4
  <2>5. CASE j \in 1 .. i - 1 \/ j \in i + 1 .. Len(q)
    <3>1. PICK m \in 1 .. Len(p) : q[j] = p[m]
      <4>1. \A m \in k .. Len(p) : m \in 1 .. Len(p)
        BY <1>2
      <4> QED BY <1>3, <2>5, <4>1
    <3> QED BY <2>1, <2>2, <3>1, BytesHeld
  <2> QED BY <2>3, <2>4, <2>5
<1> QED BY <1>5 DEF q

(* add keeps what was claimed and what it was given, but for the start of a *)
(* pair that lies right below av.                                           *)
LEMMA AddedKeeps ==
    ASSUME NEW p \in Seq(Pair), Sorted(p),
           NEW av \in Nat, NEW bv \in Nat, av <= bv
    PROVE  \A x \in Bytes(p) \cup (av .. bv) :
               \/ x \in Bytes(Added(p, av, bv))
               \/ x = av - 1 /\ \E j \in 1 .. Len(p) : Lo(p[j]) = x
<1> DEFINE q == Added(p, av, bv)
<1>0. PICK i \in 1 .. Len(p) + 1 : \E k \in i .. Len(p) + 1 :
          \E lo, hi \in Nat : IsStep(q, p, av, bv, i, k, lo, hi)
  BY AddedShape
<1>1. PICK k \in i .. Len(p) + 1, lo \in Nat, hi \in Nat :
          IsStep(q, p, av, bv, i, k, lo, hi)
  BY <1>0
<1> HIDE DEF q
<1>2. Len(p) \in Nat /\ i \in Nat /\ k \in Nat /\ 1 <= i /\ i <= k
  BY LenProperties
<1>s. PairsOf(q, p, i, k, lo, hi)
  BY <1>1, StepPairs
<1>3. /\ q \in Seq(Pair) /\ i \in 1 .. Len(q) /\ Len(q) \in Nat
      /\ Lo(q[i]) = lo /\ Hi(q[i]) = hi
      /\ \A j \in 1 .. i - 1 : j \in 1 .. Len(p) /\ q[j] = p[j]
      /\ \A m \in k .. Len(p) :
            m - k + i + 1 \in i + 1 .. Len(q) /\ q[m - k + i + 1] = p[m]
  BY <1>s DEF PairsOf
<1>4. /\ lo <= av /\ bv <= hi
      /\ \A j \in i .. k - 1 :
            /\ Hi(p[j]) <= hi
            /\ Lo(p[j]) < lo => j = i /\ lo = av /\ av = Lo(p[j]) + 1
  BY <1>1 DEF IsStep
<1>5. \A x \in Int : lo <= x /\ x <= hi => x \in Bytes(q)
  BY <1>3, BytesHeld
<1>6. ASSUME NEW x \in Bytes(p) \cup (av .. bv)
      PROVE  \/ x \in Bytes(q)
             \/ x = av - 1 /\ \E j \in 1 .. Len(p) : Lo(p[j]) = x
  <2>1. CASE x \in av .. bv
    BY <1>4, <1>5, <2>1
  <2>2. CASE x \in Bytes(p)
    <3>1. x \in Nat
      BY <2>2, BytesHeld
    <3>2. PICK j \in 1 .. Len(p) : Lo(p[j]) <= x /\ x <= Hi(p[j])
      BY <2>2, <3>1, BytesHeld
    <3>3. Lo(p[j]) \in Nat /\ Hi(p[j]) \in Nat
      BY ElementOfSeq DEF Pair, Lo, Hi
    <3>4. j \in 1 .. i - 1 \/ j \in i .. k - 1 \/ j \in k .. Len(p)
      BY <1>2
    <3>5. CASE j \in 1 .. i - 1
      <4>1. j \in 1 .. Len(q) /\ q[j] = p[j]
        BY <1>2, <1>3, <3>5
      <4> QED BY <1>3, <3>1, <3>2, <4>1, BytesHeld
    <3>6. CASE j \in i .. k - 1
      <4>1. CASE lo <= x
        BY <1>4, <1>5, <3>1, <3>2, <3>3, <3>6, <4>1
      <4>2. CASE x < lo
        <5>1. Lo(p[j]) < lo
          BY <3>1, <3>2, <3>3, <4>2
        <5>2. lo = av /\ av = Lo(p[j]) + 1
          BY <1>4, <3>6, <5>1
        <5>3. x = Lo(p[j]) /\ x = av - 1
          BY <3>1, <3>2, <3>3, <4>2, <5>2
        <5> QED BY <5>3
      <4> QED BY <3>1, <4>1, <4>2
    <3>7. CASE j \in k .. Len(p)
      <4>1. j - k + i + 1 \in 1 .. Len(q) /\ q[j - k + i + 1] = p[j]
        BY <1>2, <1>3, <3>7
      <4> QED BY <1>3, <3>1, <3>2, <4>1, BytesHeld
    <3> QED BY <3>4, <3>5, <3>6, <3>7
  <2> QED BY <2>1, <2>2
<1> QED BY <1>6 DEF q

(* Every pair of the new list starts where a pair of the old list did or    *)
(* where the range added does.                                              *)
LEMMA AddedStarts ==
    ASSUME NEW p \in Seq(Pair), Sorted(p),
           NEW av \in Nat, NEW bv \in Nat, av <= bv,
           NEW j \in 1 .. Len(Added(p, av, bv))
    PROVE  \/ Lo(Added(p, av, bv)[j]) = av
           \/ \E m \in 1 .. Len(p) : Lo(Added(p, av, bv)[j]) = Lo(p[m])
<1> DEFINE q == Added(p, av, bv)
<1>0. PICK i \in 1 .. Len(p) + 1 : \E k \in i .. Len(p) + 1 :
          \E lo, hi \in Nat : IsStep(q, p, av, bv, i, k, lo, hi)
  BY AddedShape
<1>1. PICK k \in i .. Len(p) + 1, lo \in Nat, hi \in Nat :
          IsStep(q, p, av, bv, i, k, lo, hi)
  BY <1>0
<1>2. j \in 1 .. Len(q)
  OBVIOUS
<1> HIDE DEF q
<1>3. Len(p) \in Nat /\ i \in Nat /\ k \in Nat /\ 1 <= i /\ i <= k
  BY LenProperties
<1>s. PairsOf(q, p, i, k, lo, hi)
  BY <1>1, StepPairs
<1>4. /\ q \in Seq(Pair) /\ i \in 1 .. Len(q) /\ Len(q) \in Nat
      /\ Lo(q[i]) = lo
      /\ \A m \in 1 .. i - 1 : m \in 1 .. Len(p) /\ q[m] = p[m]
      /\ \A m \in i + 1 .. Len(q) :
            m + k - i - 1 \in k .. Len(p) /\ q[m] = p[m + k - i - 1]
  BY <1>s DEF PairsOf
<1>5. lo = av \/ (i <= Len(p) /\ lo = Lo(p[i]))
  BY <1>1 DEF IsStep
<1>6. j \in 1 .. i - 1 \/ j = i \/ j \in i + 1 .. Len(q)
  BY <1>2, <1>3, <1>4
<1>7. CASE j = i
  BY <1>3, <1>4, <1>5, <1>7 DEF q
<1>8. CASE j \in 1 .. i - 1
  BY <1>4, <1>8 DEF q
<1>9. CASE j \in i + 1 .. Len(q)
  <2>1. j + k - i - 1 \in 1 .. Len(p)
    BY <1>3, <1>4, <1>9
  <2> QED BY <1>4, <1>9, <2>1 DEF q
<1> QED BY <1>6, <1>7, <1>8, <1>9

(* A range that begins right behind a claimed byte, or inside what is       *)
(* claimed, starts no pair, but where a pair starts at that very byte.      *)
LEMMA AddedJoins ==
    ASSUME NEW p \in Seq(Pair), Sorted(p),
           NEW av \in Nat, NEW bv \in Nat, av <= bv,
           NEW m \in 1 .. Len(p), Lo(p[m]) + 1 < av, av <= Hi(p[m]) + 1,
           NEW j \in 1 .. Len(Added(p, av, bv))
    PROVE  \E h \in 1 .. Len(p) : Lo(Added(p, av, bv)[j]) = Lo(p[h])
<1> DEFINE q == Added(p, av, bv)
<1>0. PICK i \in 1 .. Len(p) + 1 : \E k \in i .. Len(p) + 1 :
          \E lo, hi \in Nat : IsStep(q, p, av, bv, i, k, lo, hi)
  BY AddedShape
<1>1. PICK k \in i .. Len(p) + 1, lo \in Nat, hi \in Nat :
          IsStep(q, p, av, bv, i, k, lo, hi)
  BY <1>0
<1>2. j \in 1 .. Len(q)
  OBVIOUS
<1> HIDE DEF q
<1>3. Len(p) \in Nat /\ i \in Nat /\ k \in Nat /\ 1 <= i /\ i <= k
  BY LenProperties
<1>4. Lo(p[m]) \in Nat /\ Hi(p[m]) \in Nat
  BY ElementOfSeq DEF Pair, Lo, Hi
<1>5. lo # av
  <2> SUFFICES ASSUME lo = av PROVE FALSE
    OBVIOUS
  <2>1. CASE m < i
    <3>1. m \in 1 .. i - 1
      BY <1>3, <2>1
    <3> QED BY <1>1, <1>4, <3>1 DEF IsStep
  <2>2. CASE m >= k
    <3>1. m \in k .. Len(p)
      BY <1>3, <2>2
    <3> QED BY <1>1, <1>4, <3>1 DEF IsStep
  <2>3. CASE m >= i /\ m < k
    <3>1. m \in i .. k - 1
      BY <1>3, <2>3
    <3> QED BY <1>1, <1>4, <3>1 DEF IsStep
  <2> QED BY <1>3, <2>1, <2>2, <2>3
<1>6. i <= Len(p) /\ lo = Lo(p[i])
  BY <1>1, <1>5 DEF IsStep
<1>s. PairsOf(q, p, i, k, lo, hi)
  BY <1>1, StepPairs
<1>7. CASE j = i
  BY <1>3, <1>6, <1>7, <1>s DEF PairsOf, q
<1>8. CASE j < i
  BY <1>2, <1>3, <1>8, <1>s DEF PairsOf, q
<1>9. CASE j > i
  <2>1. Len(q) \in Nat
    BY <1>s DEF PairsOf
  <2>2. j \in i + 1 .. Len(q)
    BY <1>2, <1>3, <1>9, <2>1
  <2>3. j + k - i - 1 \in k .. Len(p) /\ q[j] = p[j + k - i - 1]
    BY <2>2, <1>s DEF PairsOf
  <2>4. j + k - i - 1 \in 1 .. Len(p)
    BY <1>3, <2>3
  <2> QED BY <2>3, <2>4 DEF q
<1> QED BY <1>2, <1>3, <1>7, <1>8, <1>9

-------------------------------------------------------------------------------
(* Between two pairs at least one byte is missing. *)
Spaced(p) ==
    \A i \in 1 .. Len(p) : \A j \in 1 .. Len(p) : i < j => Hi(p[i]) + 1 < Lo(p[j])

(* add leaves two pairs side by side only where a range is put in front of  *)
(* the pair that starts right behind it, and stands off the pair before.    *)
LEMMA AddedSpaced ==
    ASSUME NEW p \in Seq(Pair), Sorted(p), Spaced(p),
           NEW av \in Nat, NEW bv \in Nat, av <= bv,
           bv + 1 \notin Bytes(p) \/ bv \in Bytes(p) \/ av - 1 \in Bytes(p)
    PROVE  Spaced(Added(p, av, bv))
<1> DEFINE q == Added(p, av, bv)
<1>0. PICK i \in 1 .. Len(p) + 1 : \E k \in i .. Len(p) + 1 :
          \E lo, hi \in Nat : IsStep(q, p, av, bv, i, k, lo, hi)
  BY AddedShape
<1>1. PICK k \in i .. Len(p) + 1, lo \in Nat, hi \in Nat :
          IsStep(q, p, av, bv, i, k, lo, hi)
  BY <1>0
<1> HIDE DEF q
<1>2. Len(p) \in Nat /\ i \in Nat /\ k \in Nat /\ 1 <= i /\ i <= k /\ k <= Len(p) + 1
  BY LenProperties
<1>3. \A j \in 1 .. Len(p) : Lo(p[j]) \in Nat /\ Hi(p[j]) \in Nat /\ Lo(p[j]) <= Hi(p[j])
  BY ElementOfSeq DEF Pair, Lo, Hi, Sorted
<1>4. \A x \in Int : x \in Bytes(p) <=> \E j \in 1 .. Len(p) : Lo(p[j]) <= x /\ x <= Hi(p[j])
  BY BytesHeld
<1>5. /\ lo <= av /\ bv <= hi
      /\ \A j \in 1 .. i - 1 : Hi(p[j]) < lo /\ Hi(p[j]) + 1 < av
      /\ \A j \in k .. Len(p) : hi < Lo(p[j])
      /\ lo = av \/ (i <= Len(p) /\ lo = Lo(p[i]))
      /\ \/ i = k /\ hi = bv
         \/ i < k /\ hi = Hi(p[k - 1])
         \/ \A j \in k .. Len(p) : hi + 1 < Lo(p[j])
  BY <1>1 DEF IsStep
<1>6. ASSUME NEW j \in 1 .. i - 1 PROVE Hi(p[j]) + 1 < lo
  <2>1. j \in 1 .. Len(p) /\ j < i
    BY <1>2
  <2>2. CASE lo = av
    BY <1>5, <2>2
  <2>3. CASE i <= Len(p) /\ lo = Lo(p[i])
    <3>1. i \in 1 .. Len(p)
      BY <1>2, <2>3
    <3> QED BY <2>1, <2>3, <3>1 DEF Spaced
  <2> QED BY <1>5, <2>2, <2>3
<1>7. ASSUME NEW j \in k .. Len(p) PROVE hi + 1 < Lo(p[j])
  <2>1. j \in 1 .. Len(p) /\ hi < Lo(p[j]) /\ Lo(p[j]) \in Nat /\ Lo(p[j]) <= Hi(p[j])
        /\ Hi(p[j]) \in Nat
    BY <1>2, <1>3, <1>5
  <2>2. CASE i = k /\ hi = bv
    <3> SUFFICES ASSUME Lo(p[j]) = bv + 1 PROVE FALSE
      BY <2>1, <2>2
    <3>1. bv + 1 \in Bytes(p)
      BY <1>4, <2>1
    <3>2. CASE bv \in Bytes(p)
      <4>1. PICK m \in 1 .. Len(p) : Lo(p[m]) <= bv /\ bv <= Hi(p[m])
        BY <1>4, <3>2
      <4>2. Lo(p[m]) \in Nat /\ Hi(p[m]) \in Nat
        BY <1>3
      <4>3. m < j => Hi(p[m]) + 1 < Lo(p[j])
        BY <2>1 DEF Spaced
      <4>4. j < m => Hi(p[j]) + 1 < Lo(p[m])
        BY <2>1 DEF Spaced
      <4>5. m = j \/ m < j \/ j < m
        BY <1>2
      <4> QED BY <2>1, <4>1, <4>2, <4>3, <4>4, <4>5
    <3>3. CASE av - 1 \in Bytes(p)
      <4>1. PICK m \in 1 .. Len(p) : Lo(p[m]) <= av - 1 /\ av - 1 <= Hi(p[m])
        BY <1>4, <3>3
      <4>2. Lo(p[m]) \in Nat /\ Hi(p[m]) \in Nat
        BY <1>3
      <4>3. CASE m \in 1 .. i - 1
        BY <1>5, <4>1, <4>2, <4>3
      <4>4. CASE m \in k .. Len(p)
        <5>1. hi < Lo(p[m])
          BY <1>5, <4>4
        <5> QED BY <1>5, <4>1, <4>2, <5>1
      <4> QED BY <1>2, <2>2, <4>3, <4>4
    <3> QED BY <3>1, <3>2, <3>3
  <2>3. CASE i < k /\ hi = Hi(p[k - 1])
    <3>1. k - 1 \in 1 .. Len(p) /\ k - 1 < j
      BY <1>2, <2>3
    <3> QED BY <2>1, <2>3, <3>1 DEF Spaced
  <2> QED BY <1>5, <2>2, <2>3
<1>s. PairsOf(q, p, i, k, lo, hi)
  BY <1>1, StepPairs
<1>8. /\ q \in Seq(Pair) /\ i \in 1 .. Len(q) /\ Len(q) \in Nat
      /\ Lo(q[i]) = lo /\ Hi(q[i]) = hi
      /\ \A j \in 1 .. i - 1 : j \in 1 .. Len(p) /\ q[j] = p[j]
      /\ \A j \in i + 1 .. Len(q) :
            j + k - i - 1 \in k .. Len(p) /\ q[j] = p[j + k - i - 1]
  BY <1>s DEF PairsOf
<1>9. \A j \in k .. Len(p) : j \in 1 .. Len(p)
  BY <1>2
<1>10. ASSUME NEW j \in 1 .. Len(q), NEW m \in 1 .. Len(q), j < m
       PROVE  Hi(q[j]) + 1 < Lo(q[m])
  <2>1. j \in 1 .. i - 1 \/ j = i \/ j \in i + 1 .. Len(q)
    BY <1>2, <1>8
  <2>2. m \in 1 .. i - 1 \/ m = i \/ m \in i + 1 .. Len(q)
    BY <1>2, <1>8
  <2>3. CASE j \in 1 .. i - 1 /\ m \in 1 .. i - 1
    BY <1>8, <1>10, <2>3 DEF Spaced
  <2>4. CASE j \in 1 .. i - 1 /\ m = i
    BY <1>6, <1>8, <2>4
  <2>5. CASE j \in 1 .. i - 1 /\ m \in i + 1 .. Len(q)
    <3>1. q[j] = p[j] /\ j \in 1 .. Len(p)
      BY <1>8, <2>5
    <3>2. q[m] = p[m + k - i - 1] /\ m + k - i - 1 \in 1 .. Len(p)
      BY <1>8, <1>9, <2>5
    <3>3. j < m + k - i - 1
      BY <1>2, <2>5
    <3> QED BY <3>1, <3>2, <3>3 DEF Spaced
  <2>6. CASE j = i /\ m \in i + 1 .. Len(q)
    BY <1>7, <1>8, <2>6
  <2>7. CASE j \in i + 1 .. Len(q) /\ m \in i + 1 .. Len(q)
    <3>1. j + k - i - 1 < m + k - i - 1
      BY <1>2, <1>10
    <3>2. q[j] = p[j + k - i - 1] /\ q[m] = p[m + k - i - 1]
      BY <1>8, <2>7
    <3>3. j + k - i - 1 \in 1 .. Len(p) /\ m + k - i - 1 \in 1 .. Len(p)
      BY <1>8, <1>9, <2>7
    <3> QED BY <3>1, <3>2, <3>3 DEF Spaced
  <2> QED BY <1>2, <1>10, <2>1, <2>2, <2>3, <2>4, <2>5, <2>6, <2>7
<1> QED BY <1>10 DEF Spaced, q

(* A spaced list that claims a whole file is what add takes for a complete  *)
(* one.                                                                     *)
LEMMA OnePair ==
    ASSUME NEW p \in Seq(Pair), Sorted(p), Spaced(p),
           NEW n \in Nat, n > 0, Bytes(p) = 0 .. n - 1
    PROVE  IsDone(p, n)
<1>1. Len(p) \in Nat
  BY LenProperties
<1>2. \A j \in 1 .. Len(p) : Lo(p[j]) \in Nat /\ Hi(p[j]) \in Nat /\ Lo(p[j]) <= Hi(p[j])
  BY ElementOfSeq DEF Pair, Lo, Hi, Sorted
<1>3. \A x \in Int : (0 <= x /\ x < n) <=> \E j \in 1 .. Len(p) : Lo(p[j]) <= x /\ x <= Hi(p[j])
  BY BytesHeld
<1>4. Len(p) >= 1
  <2>1. \E j \in 1 .. Len(p) : TRUE
    BY <1>3
  <2> QED BY <1>1, <2>1
<1>5. Len(p) = 1
  <2> DEFINE l == Len(p)
  <2>0. SUFFICES ASSUME l >= 2 PROVE FALSE
    <3>1. l \in Nat /\ l >= 1
      BY <1>1, <1>4
    <3> HIDE DEF l
    <3>2. ~(l >= 2) => l = 1
      BY <3>1
    <3> QED BY <3>2 DEF l
  <2> DEFINE x == Hi(p[1]) + 1
  <2>1. 1 \in 1 .. Len(p) /\ 2 \in 1 .. Len(p)
    BY <1>1, <2>0
  <2>2. /\ Hi(p[1]) \in Nat /\ Lo(p[2]) \in Nat /\ Hi(p[2]) \in Nat /\ Lo(p[2]) <= Hi(p[2])
        /\ x < Lo(p[2])
    BY <1>2, <2>1 DEF Spaced
  <2>3. 0 <= Hi(p[2]) /\ Hi(p[2]) < n
    BY <1>3, <2>1, <2>2
  <2>4. x \in Int /\ 0 <= x /\ x < n
    BY <2>2, <2>3
  <2>5. PICK m \in 1 .. Len(p) : Lo(p[m]) <= x /\ x <= Hi(p[m])
    BY <1>3, <2>4
  <2>6. m = 1 \/ (1 < m /\ x < Lo(p[m]))
    BY <1>1, <2>1 DEF Spaced
  <2>7. Lo(p[m]) \in Nat /\ Hi(p[m]) \in Nat
    BY <1>2
  <2> QED BY <2>2, <2>5, <2>6, <2>7
<1>6. 1 \in 1 .. Len(p) /\ \A j \in 1 .. Len(p) : j = 1
  BY <1>5
<1>7. Lo(p[1]) = 0 /\ Hi(p[1]) = n - 1
  <2>1. Lo(p[1]) <= 0
    BY <1>3, <1>6
  <2>2. n - 1 <= Hi(p[1])
    BY <1>3, <1>6
  <2>3. Hi(p[1]) < n
    BY <1>2, <1>3, <1>6
  <2> QED BY <1>2, <1>6, <2>1, <2>2, <2>3
<1>8. p[1] = <<0, n - 1>>
  <2>1. p[1] \in Pair
    BY <1>6, ElementOfSeq
  <2> QED BY <1>7, <2>1 DEF Pair, Lo, Hi
<1>9. p = << <<0, n - 1>> >>
  <2> DEFINE e == <<0, n - 1>>
             q == << e >>
  <2>1. e \in Pair /\ p[1] = e
    BY <1>8 DEF Pair
  <2> HIDE DEF e
  <2>2. q \in Seq(Pair) /\ Len(q) = 1 /\ q[1] = e
    BY <2>1
  <2>3. Len(p) = Len(q) /\ \A j \in 1 .. Len(p) : p[j] = q[j]
    BY <1>5, <1>6, <2>1, <2>2
  <2>4. p = q
    BY <2>2, <2>3, SeqEqual
  <2> QED BY <2>4 DEF e
<1> QED BY <1>9 DEF IsDone

(* add answers FALSE to the range that makes a file complete only when the  *)
(* range's last byte was claimed before.                                    *)
LEMMA AddReturnsDone ==
    ASSUME NEW p \in Seq(Pair), Sorted(p), Spaced(p),
           NEW av \in Nat, NEW bv \in Nat, av <= bv,
           bv + 1 \notin Bytes(p) \/ bv \in Bytes(p) \/ av - 1 \in Bytes(p),
           NEW n \in Nat, n > 0, Bytes(Added(p, av, bv)) = 0 .. n - 1,
           Bytes(p) \cup (av .. bv) = 0 .. n - 1,
           ~AddReturns(p, av, bv, n)
    PROVE  bv \in Bytes(p)
<1> DEFINE t == Touched(p, av)
<1>1. IsDone(Added(p, av, bv), n)
  BY AddedSorted, AddedSpaced, OnePair
<1>2. t # 0 /\ ~(bv > Hi(p[t]))
  BY <1>1 DEF AddReturns
<1>3. /\ t \in 1 .. Len(p)
      /\ av <= Lo(p[t]) + 1 \/ av <= Hi(p[t]) + 1
      /\ \A j \in 1 .. Len(p) : j < t => av > Lo(p[j]) + 1 /\ av > Hi(p[j]) + 1
  <2>1. Len(p) \in Nat
    BY LenProperties
  <2>2. t \in 0 .. Len(p)
    BY TouchedFirst
  <2>3. /\ av <= Lo(p[t]) + 1 \/ av <= Hi(p[t]) + 1
        /\ \A j \in 1 .. Len(p) : j < t => av > Lo(p[j]) + 1 /\ av > Hi(p[j]) + 1
    BY <1>2, TouchedFirst
  <2> HIDE DEF t
  <2> QED BY <1>2, <2>1, <2>2, <2>3
<1> HIDE DEF t
<1>4. \A j \in 1 .. Len(p) : Lo(p[j]) \in Nat /\ Hi(p[j]) \in Nat /\ Lo(p[j]) <= Hi(p[j])
  BY ElementOfSeq DEF Pair, Lo, Hi, Sorted
<1>5. \A x \in Int : x \in Bytes(p) <=> \E j \in 1 .. Len(p) : Lo(p[j]) <= x /\ x <= Hi(p[j])
  BY BytesHeld
<1>6. CASE Lo(p[t]) <= bv
  BY <1>2, <1>3, <1>4, <1>5, <1>6
<1>7. CASE bv < Lo(p[t])
  <2>1. bv + 1 \in Bytes(p)
    <3>1. Lo(p[t]) \in Bytes(p)
      BY <1>3, <1>4, <1>5
    <3>2. Lo(p[t]) \in 0 .. n - 1
      BY <3>1
    <3>3. bv + 1 \in 0 .. n - 1
      BY <1>3, <1>4, <1>7, <3>2
    <3> QED BY <3>3
  <2>2. av - 1 \notin Bytes(p)
    <3> SUFFICES ASSUME av - 1 \in Bytes(p) PROVE FALSE
      OBVIOUS
    <3>1. PICK m \in 1 .. Len(p) : Lo(p[m]) <= av - 1 /\ av - 1 <= Hi(p[m])
      BY <1>5
    <3>2. Lo(p[m]) \in Nat /\ Hi(p[m]) \in Nat /\ Lo(p[t]) \in Nat /\ Hi(p[t]) \in Nat
          /\ Lo(p[t]) <= Hi(p[t])
      BY <1>3, <1>4
    <3>3. m < t => av > Hi(p[m]) + 1
      BY <1>3
    <3>4. t < m => Hi(p[t]) < Lo(p[m])
      BY <1>3 DEF Sorted
    <3>5. m = t \/ m < t \/ t < m
      BY <1>3
    <3> QED BY <1>7, <3>1, <3>2, <3>3, <3>4, <3>5
  <2> QED BY <2>1, <2>2
<1> QED BY <1>3, <1>4, <1>6, <1>7

-------------------------------------------------------------------------------
(* What holds of 0 and passes from one number to the next.                  *)
LEMMA UpTo ==
    ASSUME NEW n \in Nat, NEW S, 0 \in S, \A k \in 1 .. n : k - 1 \in S => k \in S
    PROVE  \A k \in 0 .. n : k \in S
<1> DEFINE Bad == { k \in 0 .. n : k \notin S }
<1>1. SUFFICES ASSUME Bad # {} PROVE FALSE
  OBVIOUS
<1>2. Bad \in SUBSET Nat
  OBVIOUS
<1> DEFINE m == Min(Bad)
<1>3. m \in Bad /\ \A k \in Bad : m <= k
  <2> HIDE DEF Bad
  <2> QED BY <1>1, <1>2, LeastNat
<1> HIDE DEF m
<1>4. m \in 1 .. n /\ m - 1 \in 0 .. n /\ ~(m <= m - 1)
  BY <1>3
<1>5. m - 1 \in S
  BY <1>3, <1>4
<1> QED BY <1>3, <1>4, <1>5

(* A loop of n passes over values of V: it gives a value for each pass, and *)
(* any function that follows its passes gives the same.                     *)
IsLoop(g, V, a, n, step) ==
    /\ g \in [0 .. n -> V]
    /\ g[0] = a /\ \A k \in 1 .. n : g[k] = step[<<k, g[k - 1]>>]
    /\ \A h : h[0] = a /\ (\A k \in 1 .. n :
                  h[k - 1] \in V => h[k] = step[<<k, h[k - 1]>>])
              => \A k \in 0 .. n : h[k] = g[k]

LEMMA LoopRuns ==
    ASSUME NEW V, NEW a \in V, NEW n \in Nat, NEW step \in [(1 .. n) \X V -> V]
    PROVE  \E g : IsLoop(g, V, a, n, step)
<1> DEFINE Runs(g, m) ==
              /\ g \in [0 .. m -> V] /\ g[0] = a
              /\ \A k \in 1 .. m : g[k] = step[<<k, g[k - 1]>>]
           S == { m \in 0 .. n : \E g : Runs(g, m) }
<1>1. 0 \in S
  <2> DEFINE g == [k \in 0 .. 0 |-> a]
  <2>1. Runs(g, 0)
    OBVIOUS
  <2> HIDE DEF g, Runs
  <2> QED BY <2>1
<1>2. ASSUME NEW m \in 1 .. n, m - 1 \in S PROVE m \in S
  <2>1. PICK h : Runs(h, m - 1)
    BY <1>2
  <2>2. /\ m - 1 \in 0 .. m - 1 /\ 0 \in 0 .. m - 1 /\ h[m - 1] \in V
        /\ h \in [0 .. m - 1 -> V] /\ h[0] = a
    BY <2>1
  <2>3. step[<<m, h[m - 1]>>] \in V
    BY <2>2
  <2> DEFINE g == [k \in 0 .. m |-> IF k = m THEN step[<<m, h[m - 1]>>] ELSE h[k]]
  <2>4. \A k \in 0 .. m : k # m => k \in 0 .. m - 1
    OBVIOUS
  <2>5. g \in [0 .. m -> V] /\ g[m] = step[<<m, h[m - 1]>>]
        /\ \A k \in 0 .. m : k # m => g[k] = h[k]
    BY <2>2, <2>3, <2>4
  <2> HIDE DEF g
  <2>6. g[0] = a
    <3>1. 0 \in 0 .. m /\ 0 # m
      OBVIOUS
    <3> QED BY <2>2, <2>5, <3>1
  <2>7. ASSUME NEW k \in 1 .. m PROVE g[k] = step[<<k, g[k - 1]>>]
    <3>1. k - 1 \in 0 .. m /\ k - 1 # m /\ g[k - 1] = h[k - 1]
      BY <2>5
    <3>2. CASE k = m
      BY <2>5, <3>1, <3>2
    <3>3. CASE k # m
      <4>1. k \in 1 .. m - 1 /\ g[k] = h[k]
        BY <2>5, <3>3
      <4>2. h[k] = step[<<k, h[k - 1]>>]
        BY <2>1, <4>1
      <4> QED BY <3>1, <4>1, <4>2
    <3> QED BY <3>2, <3>3
  <2>8. Runs(g, m)
    BY <2>5, <2>6, <2>7
  <2> HIDE DEF Runs
  <2> QED BY <2>8
<1>3. n \in S
  <2> HIDE DEF S
  <2> QED BY <1>1, <1>2, UpTo
<1>4. PICK g : Runs(g, n)
  BY <1>3
<1>5. ASSUME NEW h, h[0] = a,
             \A k \in 1 .. n : h[k - 1] \in V => h[k] = step[<<k, h[k - 1]>>]
      PROVE  \A k \in 0 .. n : h[k] = g[k]
  <2> DEFINE T == { k \in 0 .. n : h[k] = g[k] }
  <2>1. 0 \in T
    BY <1>4, <1>5
  <2>2. ASSUME NEW k \in 1 .. n, k - 1 \in T PROVE k \in T
    <3>1. h[k - 1] = g[k - 1] /\ g[k - 1] \in V
      BY <1>4, <2>2
    <3>2. h[k] = step[<<k, g[k - 1]>>]
      BY <1>5, <3>1
    <3> QED BY <1>4, <3>2
  <2>3. \A k \in 0 .. n : k \in T
    <3> HIDE DEF T
    <3> QED BY <2>1, <2>2, UpTo
  <2> QED BY <2>3
<1>6. IsLoop(g, V, a, n, step)
  BY <1>4, <1>5 DEF IsLoop
<1> QED BY <1>6

-------------------------------------------------------------------------------
(* The pair exists looks at reaches the end it was asked for.               *)
LEMMA ExistsPair ==
    ASSUME NEW p \in Seq(Pair), NEW a \in Nat, NEW b \in Nat, Exists(p, a, b)
    PROVE  \E i \in 1 .. Len(p) : Lo(p[i]) <= a /\ b <= Hi(p[i])
<1> DEFINE I == { i \in 1 .. Len(p) : b <= Hi(p[i]) }
           i == SelectInSeq(p, LAMBDA r : b <= Hi(r))
<1>1. i = IF I # {} THEN Min(I) ELSE 0
  BY DEF SelectInSeq
<1>2. i # 0 /\ a >= Lo(p[i])
  BY DEF Exists
<1>3. I # {} /\ I \in SUBSET Nat
  BY <1>1, <1>2, LenProperties
<1>4. Min(I) \in I
  <2> HIDE DEF I
  <2> QED BY <1>3, LeastNat
<1>5. i \in 1 .. Len(p) /\ b <= Hi(p[i])
  BY <1>1, <1>3, <1>4
<1>6. Lo(p[i]) \in Nat
  BY <1>5, ElementOfSeq DEF Pair, Lo
<1> HIDE DEF i
<1> QED BY <1>2, <1>5, <1>6

(* The loop of split, pass by pass. *)
IsLacking(g, p, n, max, width) ==
    /\ g \in [0 .. n -> Seq(Pair)] /\ g[0] = << >>
    /\ \A k \in 1 .. n :
          g[k] = IF Exists(p, (k - 1) * max, k * max - 1) THEN g[k - 1]
                 ELSE Append(g[k - 1], <<((k - 1) * max) % width, (k * max) % width>>)

LEMMA LackingRuns ==
    ASSUME NEW p, NEW total \in Nat, NEW max \in Nat \ {0}, NEW width \in Nat \ {0}
    PROVE  \E g : /\ IsLacking(g, p, total \div max, max, width)
                  /\ Lacking(p, total, max, width) = g[total \div max]
<1> DEFINE n == total \div max
           block(k) == <<((k - 1) * max) % width, (k * max) % width>>
           there(k) == Exists(p, (k - 1) * max, k * max - 1)
           V == Seq(Pair)
           step == [x \in (1 .. n) \X V |->
                       IF there(x[1]) THEN x[2] ELSE Append(x[2], block(x[1]))]
           Body(g) == [k \in 0 .. n |-> IF k = 0 THEN << >>
                                        ELSE IF there(k) THEN g[k - 1]
                                        ELSE Append(g[k - 1], block(k))]
           db == CHOOSE g : g = Body(g)
<1>1. n \in Nat
  OBVIOUS
<1>2. ASSUME NEW k \in 1 .. n PROVE block(k) \in Pair
  <2>1. (k - 1) * max \in Nat /\ k * max \in Nat
    BY <1>1
  <2>2. \A x \in Nat : x % width \in Nat
    OBVIOUS
  <2> QED BY <2>1, <2>2 DEF Pair
<1>3. Lacking(p, total, max, width) = db[n]
  BY DEF Lacking
<1> HIDE DEF n, block, there
<1>4. << >> \in V
  BY EmptySeq
<1>5. \A k \in 1 .. n : \A s \in V : Append(s, block(k)) \in V
  BY <1>2, AppendProperties
<1>6. step \in [(1 .. n) \X V -> V]
  BY <1>5
<1>7. \A k \in 1 .. n : \A s \in V :
          step[<<k, s>>] = IF there(k) THEN s ELSE Append(s, block(k))
  OBVIOUS
<1> HIDE DEF step, V
<1>8. PICK g : IsLoop(g, V, << >>, n, step)
  BY <1>1, <1>4, <1>6, LoopRuns
<1>9. \A k \in 1 .. n : g[k] = IF there(k) THEN g[k - 1] ELSE Append(g[k - 1], block(k))
  <2> SUFFICES ASSUME NEW k \in 1 .. n
               PROVE  g[k] = IF there(k) THEN g[k - 1] ELSE Append(g[k - 1], block(k))
    OBVIOUS
  <2>1. k - 1 \in 0 .. n
    BY <1>1
  <2> QED BY <1>7, <1>8, <2>1 DEF IsLoop
<1>10. g = Body(g)
  <2>1. \A k \in 0 .. n : k # 0 => k \in 1 .. n
    BY <1>1
  <2>2. \A k \in 0 .. n : g[k] = Body(g)[k]
    BY <1>8, <1>9, <2>1 DEF IsLoop
  <2>3. g = [k \in 0 .. n |-> g[k]] /\ Body(g) = [k \in 0 .. n |-> Body(g)[k]]
    BY <1>8 DEF IsLoop
  <2> HIDE DEF Body
  <2> QED BY <2>2, <2>3
<1>11. db = Body(db)
  <2> HIDE DEF Body
  <2> QED BY <1>10
<1>12. db[0] = << >> /\ \A k \in 1 .. n :
           db[k] = IF there(k) THEN db[k - 1] ELSE Append(db[k - 1], block(k))
  <2> HIDE DEF db
  <2>1. 0 \in 0 .. n /\ \A k \in 1 .. n : k \in 0 .. n /\ k # 0
    BY <1>1
  <2>2. \A k \in 0 .. n : db[k] = Body(db)[k]
    BY <1>11
  <2> QED BY <2>1, <2>2
<1> HIDE DEF db, Body
<1>13. db[n] = g[n]
  <2>1. \A k \in 1 .. n : db[k - 1] \in V => db[k] = step[<<k, db[k - 1]>>]
    BY <1>7, <1>12
  <2>2. \A k \in 0 .. n : db[k] = g[k]
    BY <1>8, <1>12, <2>1 DEF IsLoop
  <2> QED BY <1>1, <2>2
<1>14. IsLacking(g, p, n, max, width)
  BY <1>8, <1>9 DEF IsLoop, IsLacking, V, there, block
<1> QED BY <1>3, <1>13, <1>14 DEF n

LEMMA SplitTyped ==
    ASSUME NEW p \in Seq(Pair), NEW total \in Nat \ {0}, NEW max \in Nat \ {0},
           NEW width \in Nat \ {0}
    PROVE  Split(p, total, max, width) \in Seq(Pair)
<1> DEFINE n == total \div max
           lack == Lacking(p, total, max, width)
           short == <<(n * max) % width, total % width>>
<1>1. n \in Nat /\ n * max \in Nat /\ total \in Nat
  OBVIOUS
<1>2. short \in Pair
  <2>1. \A y \in Nat : y % width \in Nat
    OBVIOUS
  <2> QED BY <1>1, <2>1 DEF Pair
<1>3. PICK g : IsLacking(g, p, n, max, width) /\ lack = g[n]
  BY LackingRuns
<1>4. lack \in Seq(Pair)
  BY <1>1, <1>3 DEF IsLacking
<1>5. Split(p, total, max, width) \in {Append(lack, short), lack}
  BY DEF Split
<1> HIDE DEF lack, short
<1> QED BY <1>2, <1>4, <1>5, AppendProperties

(* A block the list has is one whose bytes it claims. *)
LEMMA ExistsClaims ==
    ASSUME NEW p \in Seq(Pair), NEW a \in Nat, NEW b \in Nat, Exists(p, a, b),
           NEW x \in Int, a <= x, x <= b
    PROVE  x \in Bytes(p)
<1>1. PICK i \in 1 .. Len(p) : Lo(p[i]) <= a /\ b <= Hi(p[i])
  BY ExistsPair
<1>2. Lo(p[i]) \in Nat /\ Hi(p[i]) \in Nat
  BY <1>1, ElementOfSeq DEF Pair, Lo, Hi
<1> QED BY <1>1, <1>2, BytesHeld

(* A byte is in one of the blocks of a list. *)
InSome(s, x) == \E j \in 1 .. Len(s) : s[j][1] <= x /\ x < s[j][2]

LEMMA InAppended ==
    ASSUME NEW s \in Seq(Pair), NEW e \in Pair, NEW x
    PROVE  InSome(Append(s, e), x) <=> InSome(s, x) \/ (e[1] <= x /\ x < e[2])
<1>1. Len(s) \in Nat
  BY LenProperties
<1>2. /\ Len(Append(s, e)) = Len(s) + 1 /\ Append(s, e)[Len(s) + 1] = e
      /\ \A j \in 1 .. Len(s) : Append(s, e)[j] = s[j]
  BY AppendProperties
<1>3. \A j : j \in 1 .. Len(s) + 1 <=> j \in 1 .. Len(s) \/ j = Len(s) + 1
  BY <1>1
<1> QED BY <1>2, <1>3 DEF InSome

(* Every missing byte of the whole blocks is in a block of the loop. *)
LEMMA LackingCovers ==
    ASSUME NEW p \in Seq(Pair), NEW n \in Nat, NEW max \in Nat \ {0},
           NEW width \in Nat, n * max < width,
           NEW g, IsLacking(g, p, n, max, width),
           NEW x \in Nat, x \notin Bytes(p)
    PROVE  \A k \in 0 .. n : x < k * max => InSome(g[k], x)
<1> DEFINE S == { k \in 0 .. n : x < k * max => InSome(g[k], x) }
<1>1. 0 \in S
  <2>1. ~(x < 0 * max)
    OBVIOUS
  <2> QED BY <2>1
<1>2. ASSUME NEW k \in 1 .. n, k - 1 \in S PROVE k \in S
  <2> DEFINE lo == (k - 1) * max
             hi == k * max
  <2>1. SUFFICES ASSUME x < hi PROVE InSome(g[k], x)
    OBVIOUS
  <2>2. k \in Nat /\ k - 1 \in Nat /\ k <= n /\ k - 1 \in 0 .. n
    OBVIOUS
  <2>3. lo \in Nat /\ hi \in Nat /\ hi = lo + max /\ max \in Nat /\ max > 0
    BY <2>2
  <2>4. hi < width
    <3>1. \A a, b \in Nat : a <= b => a * max <= b * max
      OBVIOUS
    <3>2. hi <= n * max /\ n * max \in Nat
      BY <2>2, <3>1
    <3> QED BY <2>3, <3>2
  <2>5. lo % width = lo /\ hi % width = hi
    <3>1. \A y \in Nat : y < width => y % width = y
      OBVIOUS
    <3>2. lo < width
      BY <2>3, <2>4
    <3> QED BY <2>3, <2>4, <3>1, <3>2
  <2>6. g[k - 1] \in Seq(Pair)
        /\ g[k] = IF Exists(p, lo, hi - 1) THEN g[k - 1]
                  ELSE Append(g[k - 1], <<lo % width, hi % width>>)
    BY <2>2 DEF IsLacking
  <2>7. x < lo => InSome(g[k - 1], x)
    BY <1>2
  <2> HIDE DEF lo, hi
  <2>8. CASE Exists(p, lo, hi - 1)
    <3>1. ~(lo <= x)
      <4>1. hi - 1 \in Nat /\ x <= hi - 1
        BY <2>1, <2>3
      <4> QED BY <2>3, <2>8, <4>1, ExistsClaims
    <3> QED BY <2>3, <2>6, <2>7, <2>8, <3>1
  <2>9. CASE ~Exists(p, lo, hi - 1)
    <3>1. g[k] = Append(g[k - 1], <<lo, hi>>) /\ <<lo, hi>> \in Pair
      BY <2>3, <2>5, <2>6, <2>9 DEF Pair
    <3>2. InSome(g[k - 1], x) \/ (lo <= x /\ x < hi)
      BY <2>1, <2>3, <2>7
    <3> QED BY <2>6, <3>1, <3>2, InAppended
  <2> QED BY <2>8, <2>9
<1>3. \A k \in 0 .. n : k \in S
  <2> HIDE DEF S
  <2> QED BY <1>1, <1>2, UpTo
<1> QED BY <1>3

(* Every missing byte is in a block of split, unless the file is a byte     *)
(* longer than whole blocks, or longer than a Part can say.                 *)
LEMMA SplitCoversMissing ==
    ASSUME NEW p \in Seq(Pair), NEW total \in Nat \ {0}, NEW max \in Nat \ {0},
           NEW width \in Nat, total < width, total % max # 1,
           NEW x \in 0 .. total - 1, x \notin Bytes(p)
    PROVE  InSome(Split(p, total, max, width), x)
<1> DEFINE n == total \div max
           whole == n * max
           lack == Lacking(p, total, max, width)
<1>1. n \in Nat /\ whole \in Nat /\ total = whole + (total % max)
      /\ total % max \in Nat /\ total % max < max
  OBVIOUS
<1>2. whole <= total /\ whole # total - 1 /\ x \in Nat /\ x < total
  BY <1>1
<1>3. width \in Nat \ {0}
  OBVIOUS
<1>4. PICK g : IsLacking(g, p, total \div max, max, width) /\ lack = g[total \div max]
  BY <1>3, LackingRuns
<1>5. lack \in Seq(Pair)
  BY <1>1, <1>4 DEF IsLacking
<1>6. x < whole => InSome(lack, x)
  <2>1. n * max < width
    BY <1>1, <1>2
  <2>2. \A k \in 0 .. n : x < k * max => InSome(g[k], x)
    <3>1. IsLacking(g, p, n, max, width)
      BY <1>4
    <3> HIDE DEF n
    <3> QED BY <1>1, <1>2, <2>1, <3>1, LackingCovers
  <2>3. n \in 0 .. n
    BY <1>1
  <2> QED BY <1>4, <2>2, <2>3
<1>7. Split(p, total, max, width) =
          IF whole < total - 1 /\ ~Exists(p, whole, total - 1)
          THEN Append(lack, <<whole % width, total % width>>) ELSE lack
  BY DEF Split
<1> HIDE DEF whole, lack, n
<1>8. whole % width = whole /\ total % width = total
  <2>1. \A y \in Nat : y < width => y % width = y
    OBVIOUS
  <2>2. whole < width
    BY <1>1, <1>2
  <2> QED BY <1>1, <2>1, <2>2
<1>9. CASE x < whole
  <2>1. <<whole, total>> \in Pair
    BY <1>1 DEF Pair
  <2> QED BY <1>5, <1>6, <1>7, <1>8, <1>9, <2>1, InAppended
<1>10. CASE ~(x < whole)
  <2>1. whole < total - 1 /\ whole <= x /\ x <= total - 1 /\ total - 1 \in Nat
    BY <1>1, <1>2, <1>10
  <2>2. ~Exists(p, whole, total - 1)
    BY <1>1, <1>2, <2>1, ExistsClaims
  <2>3. Split(p, total, max, width) = Append(lack, <<whole, total>>)
    BY <1>7, <1>8, <2>1, <2>2
  <2>4. <<whole, total>> \in Pair
    BY <1>1 DEF Pair
  <2> QED BY <1>2, <1>5, <2>1, <2>3, <2>4, InAppended
<1> QED BY <1>9, <1>10

(* Of a list that claims nothing split hands out every block, which is the  *)
(* form the downloader's model uses.                                        *)
LEMMA SplitOfNothing ==
    ASSUME NEW total \in Nat \ {0}, NEW max \in Nat \ {0}, NEW width \in Nat \ {0}
    PROVE  Split(<< >>, total, max, width) = AllBlocks(total, max, width)
<1> DEFINE n == total \div max
           block(k) == <<((k - 1) * max) % width, (k * max) % width>>
           upto(k) == [j \in 1 .. k |-> block(j)]
           lack == Lacking(<< >>, total, max, width)
           short == <<(n * max) % width, total % width>>
<1>1. n \in Nat
  OBVIOUS
<1>2. \A y \in Nat : y % width \in Nat
  OBVIOUS
<1>3. \A k \in 1 .. n : block(k) \in Pair
  <2> SUFFICES ASSUME NEW k \in 1 .. n PROVE block(k) \in Pair
    OBVIOUS
  <2>1. (k - 1) * max \in Nat /\ k * max \in Nat
    BY <1>1
  <2> QED BY <1>2, <2>1 DEF Pair
<1>4. \A a, b : ~Exists(<< >>, a, b)
  <2> SUFFICES ASSUME NEW a, NEW b PROVE ~Exists(<< >>, a, b)
    OBVIOUS
  <2>1. { i \in 1 .. Len(<< >>) : b <= Hi(<< >>[i]) } = {}
    OBVIOUS
  <2>2. SelectInSeq(<< >>, LAMBDA r : b <= Hi(r)) = 0
    BY <2>1 DEF SelectInSeq
  <2> QED BY <2>2 DEF Exists
<1>5. PICK g : IsLacking(g, << >>, n, max, width) /\ lack = g[n]
  BY LackingRuns
<1>6. /\ g \in [0 .. n -> Seq(Pair)] /\ g[0] = << >>
      /\ \A k \in 1 .. n : g[k] = Append(g[k - 1], block(k))
  BY <1>4, <1>5 DEF IsLacking
<1>7. Split(<< >>, total, max, width) =
          IF n * max < total - 1 THEN Append(lack, short) ELSE lack
  BY <1>4 DEF Split
<1>8. AllBlocks(total, max, width) =
          IF n * max < total - 1
          THEN [k \in 1 .. n + 1 |-> IF k <= n THEN block(k) ELSE short] ELSE upto(n)
  <2> DEFINE size == IF n * max < total - 1 THEN n + 1 ELSE n
             all == [k \in 1 .. size |->
                        <<((k - 1) * max) % width,
                          (IF k <= n THEN k * max ELSE total) % width>>]
  <2>1. AllBlocks(total, max, width) = all
    BY DEF AllBlocks
  <2> HIDE DEF n
  <2>2. CASE n * max < total - 1
    <3>1. \A k \in 1 .. n + 1 :
              <<((k - 1) * max) % width, (IF k <= n THEN k * max ELSE total) % width>>
                = IF k <= n THEN block(k) ELSE short
      <4>1. \A k \in 1 .. n + 1 : k <= n \/ (k > n /\ k - 1 = n)
        BY <1>1
      <4> QED BY <4>1
    <3> QED BY <2>1, <2>2, <3>1
  <2>3. CASE ~(n * max < total - 1)
    <3>1. \A k \in 1 .. n :
              <<((k - 1) * max) % width, (IF k <= n THEN k * max ELSE total) % width>>
                = block(k)
      <4>1. \A k \in 1 .. n : k <= n
        BY <1>1
      <4> QED BY <4>1
    <3> QED BY <2>1, <2>3, <3>1
  <2> QED BY <2>2, <2>3
<1>9. short \in Pair
  <2>1. n * max \in Nat /\ total \in Nat
    BY <1>1
  <2> QED BY <1>2, <2>1 DEF Pair
<1> HIDE DEF n, block, short, lack
<1> DEFINE S == { k \in 0 .. n : g[k] = upto(k) }
<1>10. \A k \in 0 .. n : upto(k) \in Seq(Pair) /\ Len(upto(k)) = k
          /\ \A j \in 1 .. k : upto(k)[j] = block(j)
  <2> SUFFICES ASSUME NEW k \in 0 .. n
               PROVE  upto(k) \in Seq(Pair) /\ Len(upto(k)) = k
                      /\ \A j \in 1 .. k : upto(k)[j] = block(j)
    OBVIOUS
  <2>1. k \in Nat /\ \A j \in 1 .. k : j \in 1 .. n
    BY <1>1
  <2>2. \A j \in 1 .. k : block(j) \in Pair
    BY <1>3, <2>1
  <2> QED BY <2>1, <2>2
<1>11. 0 \in S
  <2>1. 0 \in 0 .. n /\ upto(0) = << >>
    BY <1>1
  <2> QED BY <1>6, <2>1
<1>12. ASSUME NEW k \in 1 .. n, k - 1 \in S PROVE k \in S
  <2>1. k - 1 \in 0 .. n /\ k \in 0 .. n
    BY <1>1
  <2> DEFINE a == g[k]
             b == upto(k)
             c == upto(k - 1)
  <2>2. a = Append(c, block(k)) /\ c \in Seq(Pair) /\ Len(c) = k - 1
        /\ \A j \in 1 .. k - 1 : c[j] = block(j)
    BY <1>6, <1>10, <1>12, <2>1
  <2>3. b \in Seq(Pair) /\ Len(b) = k /\ \A j \in 1 .. k : b[j] = block(j)
    BY <1>10, <2>1
  <2> HIDE DEF a, b, c
  <2>4. a \in Seq(Pair) /\ Len(a) = k /\ a[k] = block(k)
        /\ \A j \in 1 .. k - 1 : a[j] = c[j]
    BY <1>3, <2>2, AppendProperties
  <2>5. \A j \in 1 .. k : a[j] = b[j]
    <3>1. \A j \in 1 .. k : j = k \/ j \in 1 .. k - 1
      OBVIOUS
    <3> QED BY <2>2, <2>3, <2>4, <3>1
  <2>6. a = b
    BY <2>3, <2>4, <2>5, SeqEqual
  <2> QED BY <2>1, <2>6 DEF a, b
<1>13. lack = upto(n)
  <2>1. \A k \in 0 .. n : k \in S
    <3> HIDE DEF S
    <3> QED BY <1>1, <1>11, <1>12, UpTo
  <2> QED BY <1>1, <1>5, <2>1
<1>14. CASE n * max < total - 1
  <2> DEFINE a == Append(lack, short)
             b == [k \in 1 .. n + 1 |-> IF k <= n THEN block(k) ELSE short]
  <2>1. Split(<< >>, total, max, width) = a /\ AllBlocks(total, max, width) = b
    BY <1>7, <1>8, <1>14
  <2>2. lack \in Seq(Pair) /\ Len(lack) = n /\ \A j \in 1 .. n : lack[j] = block(j)
    BY <1>1, <1>10, <1>13
  <2>3. b \in Seq(Pair) /\ Len(b) = n + 1 /\ b[n + 1] = short
        /\ \A j \in 1 .. n : b[j] = block(j)
    BY <1>1, <1>3, <1>9
  <2>4. a \in Seq(Pair) /\ Len(a) = n + 1 /\ a[n + 1] = short
        /\ \A j \in 1 .. n : a[j] = lack[j]
    BY <1>9, <2>2, AppendProperties
  <2> HIDE DEF a, b
  <2>5. \A j \in 1 .. n + 1 : a[j] = b[j]
    <3>1. \A j \in 1 .. n + 1 : j = n + 1 \/ j \in 1 .. n
      BY <1>1
    <3> QED BY <2>2, <2>3, <2>4, <3>1
  <2>6. a = b
    BY <2>3, <2>4, <2>5, SeqEqual
  <2> QED BY <2>1, <2>6
<1>15. CASE ~(n * max < total - 1)
  BY <1>7, <1>8, <1>13, <1>15
<1> QED BY <1>14, <1>15

-------------------------------------------------------------------------------
(* The loop of parsePartStatus, pair by pair. *)
States == [full : Int, at : Int, next : Int, set : SUBSET Int, ok : BOOLEAN]

IsStatus(g, p, plen) ==
    /\ g \in [0 .. Len(p) -> States] /\ g[0] = NoStatus
    /\ \A k \in 1 .. Len(p) : g[k] = StatusStep(g[k - 1], p[k], plen)

LEMMA StatusStepTyped ==
    ASSUME NEW s \in States, NEW r \in Pair, NEW plen \in Nat \ {0}
    PROVE  StatusStep(s, r, plen) \in States
<1>1. Lo(r) \in Nat /\ Hi(r) \in Nat
  BY DEF Pair, Lo, Hi
<1>2. s.full \in Int /\ s.at \in Int /\ s.next \in Int /\ s.set \in SUBSET Int /\ s.ok \in BOOLEAN
  BY DEF States
<1>3. \A x \in Int : x \div plen \in Int /\ x \div 8 \in Int /\ x % 8 \in Int
  OBVIOUS
<1> DEFINE first == (Lo(r) + plen - 1) \div plen
           n     == PartsOf(r, plen)
           moved == s.at + first - s.next
           skip  == IF moved > 8 THEN (moved - 1) \div 8 ELSE 0
           at    == moved - 8 * skip
           lost  == n > 0 /\ at = 8
           bit   == 8 * (s.full + skip) + at
           end   == bit + n - (IF lost THEN 1 ELSE 0)
<1>4. first \in Int /\ n \in Int
  BY <1>1, <1>3 DEF PartsOf
<1>5. StatusStep(s, r, plen) =
          [full |-> IF n = 0 THEN s.full + skip ELSE end \div 8,
           at   |-> IF n = 0 THEN at ELSE end % 8,
           next |-> first + n,
           set  |-> s.set \cup (bit .. end - 1),
           ok   |-> s.ok /\ ~lost]
  BY DEF StatusStep
<1> HIDE DEF first, n
<1>6. moved \in Int
  BY <1>2, <1>4
<1> HIDE DEF moved
<1>7. skip \in Int
  BY <1>3, <1>6
<1> HIDE DEF skip
<1>8. at \in Int /\ bit \in Int
  BY <1>2, <1>6, <1>7
<1> HIDE DEF at, bit
<1>9. end \in Int /\ lost \in BOOLEAN
  BY <1>4, <1>8
<1> HIDE DEF end, lost
<1>10. /\ (IF n = 0 THEN s.full + skip ELSE end \div 8) \in Int
       /\ (IF n = 0 THEN at ELSE end % 8) \in Int
       /\ first + n \in Int /\ s.set \cup (bit .. end - 1) \in SUBSET Int
       /\ (s.ok /\ ~lost) \in BOOLEAN
  BY <1>2, <1>3, <1>4, <1>7, <1>8, <1>9
<1> QED BY <1>5, <1>10 DEF States

LEMMA StatusRuns ==
    ASSUME NEW p \in Seq(Pair), NEW plen \in Nat \ {0}
    PROVE  \E g : IsStatus(g, p, plen) /\ PartStatus(p, plen) = g[Len(p)]
<1> DEFINE n == Len(p)
           V == States
           step == [x \in (1 .. n) \X V |-> StatusStep(x[2], p[x[1]], plen)]
           Body(g) == [k \in 0 .. n |-> IF k = 0 THEN NoStatus
                                        ELSE StatusStep(g[k - 1], p[k], plen)]
           db == CHOOSE g : g = Body(g)
           start == NoStatus
<1>1. n \in Nat
  BY LenProperties
<1>2. PartStatus(p, plen) = db[n]
  BY DEF PartStatus
<1> HIDE DEF n
<1>3. start \in V
  BY DEF NoStatus, States
<1>4. \A k \in 1 .. n : \A s \in V : StatusStep(s, p[k], plen) \in V
  BY ElementOfSeq, StatusStepTyped DEF n
<1>5. step \in [(1 .. n) \X V -> V]
  BY <1>4
<1>6. \A k \in 1 .. n : \A s \in V : step[<<k, s>>] = StatusStep(s, p[k], plen)
  OBVIOUS
<1> HIDE DEF step, V, start
<1>7. PICK g : IsLoop(g, V, start, n, step)
  BY <1>1, <1>3, <1>5, LoopRuns
<1>8. \A k \in 1 .. n : g[k] = StatusStep(g[k - 1], p[k], plen)
  <2> SUFFICES ASSUME NEW k \in 1 .. n PROVE g[k] = StatusStep(g[k - 1], p[k], plen)
    OBVIOUS
  <2>1. k - 1 \in 0 .. n
    BY <1>1
  <2> QED BY <1>6, <1>7, <2>1 DEF IsLoop
<1>9. g = Body(g)
  <2>1. \A k \in 0 .. n : k # 0 => k \in 1 .. n
    BY <1>1
  <2>2. \A k \in 0 .. n : g[k] = Body(g)[k]
    BY <1>7, <1>8, <2>1 DEF start, IsLoop
  <2>3. g = [k \in 0 .. n |-> g[k]] /\ Body(g) = [k \in 0 .. n |-> Body(g)[k]]
    BY <1>7 DEF IsLoop
  <2> HIDE DEF Body
  <2> QED BY <2>2, <2>3
<1>10. db = Body(db)
  <2> HIDE DEF Body
  <2> QED BY <1>9
<1>11. db[0] = start /\ \A k \in 1 .. n : db[k] = StatusStep(db[k - 1], p[k], plen)
  <2> HIDE DEF db
  <2>1. 0 \in 0 .. n /\ \A k \in 1 .. n : k \in 0 .. n /\ k # 0
    BY <1>1
  <2>2. \A k \in 0 .. n : db[k] = Body(db)[k]
    BY <1>10
  <2> QED BY <2>1, <2>2 DEF start
<1> HIDE DEF db, Body
<1>12. db[n] = g[n]
  <2>1. \A k \in 1 .. n : db[k - 1] \in V => db[k] = step[<<k, db[k - 1]>>]
    BY <1>6, <1>11
  <2>2. \A k \in 0 .. n : db[k] = g[k]
    BY <1>7, <1>11, <2>1 DEF IsLoop
  <2> QED BY <1>1, <2>2
<1>13. IsStatus(g, p, plen)
  BY <1>7, <1>8 DEF IsLoop, IsStatus, V, start, n
<1> QED BY <1>2, <1>12, <1>13 DEF n

(* Parts and bytes. *)
LEMMA Scale ==
    ASSUME NEW d \in Nat \ {0}, NEW x \in Int, NEW y \in Int
    PROVE  (x * d < y * d <=> x < y) /\ (x * d <= y * d <=> x <= y)
<1>1. \A a, b \in Int : a <= b => a * d <= b * d
  OBVIOUS
<1>2. (x + 1) * d = x * d + d /\ (y + 1) * d = y * d + d
  OBVIOUS
<1>3. x * d \in Int /\ y * d \in Int /\ d > 0
  OBVIOUS
<1>4. x < y => x * d < y * d
  <2>1. x < y => x + 1 <= y /\ x + 1 \in Int
    OBVIOUS
  <2>2. x < y => (x + 1) * d <= y * d
    BY <1>1, <2>1
  <2> QED BY <1>2, <1>3, <2>2
<1>5. y < x => y * d < x * d
  <2>1. y < x => y + 1 <= x /\ y + 1 \in Int
    OBVIOUS
  <2>2. y < x => (y + 1) * d <= x * d
    BY <1>1, <2>1
  <2> QED BY <1>2, <1>3, <2>2
<1>6. x = y => x * d = y * d
  OBVIOUS
<1>7. x < y \/ x = y \/ y < x
  OBVIOUS
<1> QED BY <1>3, <1>4, <1>5, <1>6, <1>7

LEMMA Quotient ==
    ASSUME NEW a \in Nat, NEW d \in Nat \ {0}
    PROVE  LET q == a \div d
           IN  /\ q \in Nat /\ q * d <= a /\ a < (q + 1) * d
               /\ a % d = 0 => a = q * d
<1> DEFINE q == a \div d
<1>1. q \in Nat /\ a = q * d + (a % d) /\ a % d \in Nat /\ a % d < d
  OBVIOUS
<1> HIDE DEF q
<1>2. (q + 1) * d = q * d + d /\ q * d \in Nat
  BY <1>1
<1> QED BY <1>1, <1>2 DEF q

(* The number a quotient is. *)
LEMMA QuotientIs ==
    ASSUME NEW a \in Nat, NEW d \in Nat \ {0}, NEW q \in Int,
           q * d <= a, a < (q + 1) * d
    PROVE  a \div d = q
<1> DEFINE m == a \div d
<1>1. m \in Nat /\ m * d <= a /\ a < (m + 1) * d
  BY Quotient
<1> HIDE DEF m
<1>2. q * d \in Int /\ (q + 1) * d \in Int /\ m * d \in Int /\ (m + 1) * d \in Int
  BY <1>1
<1>3. q * d < (m + 1) * d /\ m * d < (q + 1) * d
  BY <1>1, <1>2
<1>4. q < m + 1 /\ m < q + 1
  BY <1>1, <1>3, Scale
<1>5. m = q
  BY <1>1, <1>4
<1> QED BY <1>5 DEF m

(* Part j lies in the pair r. *)
PartIn(r, plen, j) == Lo(r) <= j * plen /\ j * plen + plen - 1 <= Hi(r)

(* The pairs start where parts do, and none at the first part of a byte.    *)
AtParts(p, plen) ==
    \A i \in 1 .. Len(p) :
        Lo(p[i]) % plen = 0 /\ (Lo(p[i]) > 0 => Lo(p[i]) % (8 * plen) # 0)

(* Where the loop stands: at the bit of the first part behind the pair.     *)
Stands(s) == s.ok /\ s.next \in Nat /\ s.at \in 0 .. 7 /\ 8 * s.full + s.at = s.next

(* One pair, seen as the parts q .. q + n - 1. *)
LEMMA PairParts ==
    ASSUME NEW r \in Pair, Lo(r) <= Hi(r), NEW plen \in Nat \ {0}, Lo(r) % plen = 0
    PROVE  LET q == Lo(r) \div plen
               n == PartsOf(r, plen)
           IN  /\ q \in Nat /\ n \in Nat /\ Lo(r) = q * plen
               /\ (Lo(r) + plen - 1) \div plen = q
               /\ (q + n) * plen <= Hi(r) + 1
               /\ \A j \in Int : PartIn(r, plen, j) <=> j \in q .. q + n - 1
<1> DEFINE lo == Lo(r)
           hi == Hi(r)
           q == lo \div plen
           n == (hi - lo + 1) \div plen
<1>1. lo \in Nat /\ hi \in Nat /\ lo <= hi /\ hi - lo + 1 \in Nat
      /\ plen \in Nat /\ plen > 0 /\ lo % plen = 0 /\ PartsOf(r, plen) = n
  BY DEF Pair, Lo, Hi, PartsOf
<1> HIDE DEF lo, hi
<1>2. q \in Nat /\ lo = q * plen
  BY <1>1, Quotient
<1>3. n \in Nat /\ n * plen <= hi - lo + 1 /\ hi - lo + 1 < (n + 1) * plen
  BY <1>1, Quotient
<1> HIDE DEF q, n
<1>4. /\ (q + 1) * plen = q * plen + plen /\ (q + n) * plen = q * plen + n * plen
      /\ q * plen \in Nat /\ n * plen \in Nat
  BY <1>1, <1>2, <1>3
<1>5. (lo + plen - 1) \div plen = q
  <2>1. lo + plen - 1 \in Nat /\ q * plen <= lo + plen - 1 /\ lo + plen - 1 < (q + 1) * plen
    BY <1>1, <1>2, <1>4
  <2> QED BY <1>2, <2>1, QuotientIs
<1>6. (q + n) * plen <= hi + 1
  BY <1>1, <1>2, <1>3, <1>4
<1>7. ASSUME NEW j \in Int
      PROVE  (lo <= j * plen /\ j * plen + plen - 1 <= hi) <=> j \in q .. q + n - 1
  <2>1. lo <= j * plen <=> q <= j
    BY <1>2, Scale
  <2>2. j * plen + plen - 1 <= hi <=> j < q + n
    <3> DEFINE k == j - q
    <3>1. k \in Int /\ j = q + k
      BY <1>2
    <3> HIDE DEF k
    <3>2. /\ j * plen = q * plen + k * plen /\ (k + 1) * plen = k * plen + plen
          /\ k * plen \in Int
      BY <1>1, <1>2, <3>1
    <3>3. j * plen + plen - 1 <= hi <=> (k + 1) * plen <= hi - lo + 1
      BY <1>1, <1>2, <3>2
    <3>4. k + 1 <= n => (k + 1) * plen <= n * plen
      BY <1>3, <3>1, Scale
    <3>5. ~(k + 1 <= n) => (n + 1) * plen <= (k + 1) * plen
      <4>1. ~(k + 1 <= n) => n + 1 <= k + 1
        BY <1>3, <3>1
      <4>2. n + 1 \in Int /\ k + 1 \in Int
        BY <1>3, <3>1
      <4> QED BY <4>1, <4>2, Scale
    <3>6. (k + 1) * plen \in Int /\ (n + 1) * plen \in Int
      BY <1>3, <3>1
    <3>7. (k + 1) * plen <= hi - lo + 1 <=> k + 1 <= n
      BY <1>1, <1>3, <1>4, <3>4, <3>5, <3>6
    <3>8. j < q + n <=> k + 1 <= n
      BY <1>2, <1>3, <3>1
    <3> QED BY <3>3, <3>7, <3>8
  <2> QED BY <1>2, <1>3, <2>1, <2>2
<1>8. \A j \in Int : PartIn(r, plen, j) <=> j \in q .. q + n - 1
  BY <1>7 DEF PartIn, lo, hi
<1>9. /\ q \in Nat /\ PartsOf(r, plen) \in Nat /\ Lo(r) = q * plen
      /\ (Lo(r) + plen - 1) \div plen = q /\ (q + PartsOf(r, plen)) * plen <= Hi(r) + 1
      /\ \A j \in Int : PartIn(r, plen, j) <=> j \in q .. q + PartsOf(r, plen) - 1
  BY <1>1, <1>2, <1>3, <1>5, <1>6, <1>8 DEF lo, hi
<1>10. q = Lo(r) \div plen
  BY DEF q, lo
<1> QED BY <1>9, <1>10

LEMMA SameBlock ==
    ASSUME NEW a, NEW b, NEW q \in Int, NEW n \in Int, a = q, b = q + n
    PROVE  a .. b - 1 = q .. q + n - 1
OBVIOUS

(* A pair that starts behind the part the loop stands at, and not at the    *)
(* first bit of a byte, sets the bits of its parts.                         *)
LEMMA StatusStepSets ==
    ASSUME NEW s \in States, Stands(s), NEW r \in Pair, Lo(r) <= Hi(r),
           NEW plen \in Nat \ {0}, Lo(r) % plen = 0,
           Lo(r) > 0 => Lo(r) % (8 * plen) # 0,
           s.next * plen <= Lo(r)
    PROVE  LET t == StatusStep(s, r, plen)
           IN  /\ Stands(t) /\ t.next * plen <= Hi(r) + 1
               /\ \A j \in Int : j \in t.set <=> j \in s.set \/ PartIn(r, plen, j)
<1> DEFINE f     == s.full
           a     == s.at
           x     == s.next
           first == (Lo(r) + plen - 1) \div plen
           n     == PartsOf(r, plen)
           moved == a + first - x
           skip  == IF moved > 8 THEN (moved - 1) \div 8 ELSE 0
           at    == moved - 8 * skip
           lost  == n > 0 /\ at = 8
           bit   == 8 * (f + skip) + at
           end   == bit + n - (IF lost THEN 1 ELSE 0)
           q     == Lo(r) \div plen
           t     == StatusStep(s, r, plen)
<1>1. t = [full |-> IF n = 0 THEN f + skip ELSE end \div 8,
           at   |-> IF n = 0 THEN at ELSE end % 8,
           next |-> first + n,
           set  |-> s.set \cup (bit .. end - 1),
           ok   |-> s.ok /\ ~lost]
  BY DEF StatusStep
<1>2. f \in Int /\ x \in Nat /\ a \in 0 .. 7 /\ 8 * f + a = x
      /\ s.ok /\ s.set \subseteq Int
  BY DEF States, Stands
<1>3. /\ q \in Nat /\ n \in Nat /\ Lo(r) = q * plen /\ first = q
      /\ (q + n) * plen <= Hi(r) + 1
      /\ \A j \in Int : PartIn(r, plen, j) <=> j \in q .. q + n - 1
  BY PairParts
<1>4. x * plen <= Lo(r)
  OBVIOUS
<1> HIDE DEF q, n, first, t, f, a, x
<1>5. x <= q
  BY <1>2, <1>3, <1>4, Scale
<1>6. moved = q - 8 * f /\ moved \in Nat
  BY <1>2, <1>3, <1>5
<1> HIDE DEF moved
<1>7. skip \in Nat /\ at \in 0 .. 8 /\ at = moved - 8 * skip
  <2>1. CASE moved > 8
    <3>1. moved - 1 \in Nat /\ skip = (moved - 1) \div 8
      BY <1>6, <2>1
    <3>2. skip \in Nat /\ 8 * skip <= moved - 1 /\ moved - 1 < 8 * skip + 8
      BY <1>6, <3>1
    <3> HIDE DEF skip
    <3> QED BY <1>6, <2>1, <3>2
  <2>2. CASE ~(moved > 8)
    BY <1>6, <2>2
  <2> QED BY <2>1, <2>2
<1> HIDE DEF skip, at
<1>8. bit = q
  BY <1>2, <1>3, <1>6, <1>7
<1> HIDE DEF bit
<1>9. at # 8
  <2> SUFFICES ASSUME at = 8 PROVE FALSE
    OBVIOUS
  <2> DEFINE c == f + skip + 1
  <2>1. c \in Nat /\ q = 8 * c /\ c > 0
    BY <1>2, <1>3, <1>6, <1>7
  <2> HIDE DEF c
  <2>2. Lo(r) = c * (8 * plen) /\ Lo(r) > 0
    <3>1. Lo(r) = (8 * c) * plen
      BY <1>3, <2>1
    <3> DEFINE e == c * plen
    <3>2. 1 * plen <= e /\ 1 * plen = plen /\ plen > 0 /\ e \in Int
      BY <2>1, Scale
    <3>3. (8 * c) * plen = 8 * e
      BY <2>1
    <3>4. c * (8 * plen) = 8 * e
      BY <2>1
    <3> HIDE DEF e
    <3>5. 8 * e > 0
      BY <3>2
    <3> QED BY <3>1, <3>3, <3>4, <3>5
  <2>3. Lo(r) % (8 * plen) = 0
    <3> DEFINE d == 8 * plen
    <3>1. d \in Nat \ {0}
      OBVIOUS
    <3> HIDE DEF d
    <3>2. (c * d) % d = 0
      BY <2>1, <3>1
    <3> QED BY <2>2, <3>2 DEF d
  <2> QED BY <2>2, <2>3
<1>10. ~lost /\ end = q + n
  BY <1>3, <1>8, <1>9
<1> HIDE DEF lost, end
<1>11. /\ t.full = (IF n = 0 THEN f + skip ELSE end \div 8)
       /\ t.at = (IF n = 0 THEN at ELSE end % 8)
       /\ t.next = first + n /\ t.set = s.set \cup (bit .. end - 1)
  BY <1>1
<1>12. t.ok
  <2>1. t.ok = (s.ok /\ ~lost)
    BY <1>1, Zenon
  <2> QED BY <1>2, <1>10, <2>1
<1>13. t.next = q + n /\ t.set = s.set \cup (q .. q + n - 1)
  <2>1. first = q /\ bit = q /\ end = q + n /\ q \in Int /\ n \in Int
    BY <1>3, <1>8, <1>10
  <2>2. t.next = first + n /\ t.set = s.set \cup (bit .. end - 1)
    BY <1>11
  <2>3. t.next = q + n
    BY <2>1, <2>2, Zenon
  <2>4. bit .. end - 1 = q .. q + n - 1
    BY <2>1, SameBlock
  <2> QED BY <2>2, <2>3, <2>4, Zenon
<1>14. t.at \in 0 .. 7 /\ 8 * t.full + t.at = q + n
  <2>1. CASE n = 0
    <3>1. t.full = f + skip /\ t.at = at
      BY <1>11, <2>1
    <3>2. f \in Int /\ q \in Nat /\ at = moved - 8 * skip /\ moved = q - 8 * f
      BY <1>2, <1>3, <1>6, <1>7
    <3>3. at \in 0 .. 7 /\ 8 * (f + skip) + at = q
      BY <1>7, <1>9, <3>2
    <3> QED BY <1>3, <2>1, <3>1, <3>3
  <2>2. CASE n # 0
    <3>1. \A y \in Nat : y % 8 \in 0 .. 7 /\ 8 * (y \div 8) + (y % 8) = y
      OBVIOUS
    <3>2. end \in Nat
      BY <1>3, <1>10
    <3> QED BY <1>10, <1>11, <2>2, <3>1, <3>2
  <2> QED BY <2>1, <2>2
<1>15. Stands(t)
  BY <1>3, <1>12, <1>13, <1>14 DEF Stands
<1>16. t.next * plen <= Hi(r) + 1
  BY <1>3, <1>13
<1>17. \A j \in Int : j \in t.set <=> j \in s.set \/ PartIn(r, plen, j)
  BY <1>3, <1>13
<1> QED BY <1>15, <1>16, <1>17 DEF t

(* The bits set are those of the parts that lie in a pair. *)
LEMMA StatusOfParts ==
    ASSUME NEW p \in Seq(Pair), Sorted(p), NEW plen \in Nat \ {0}, AtParts(p, plen)
    PROVE  LET s == PartStatus(p, plen)
           IN  /\ s.ok /\ s.set \subseteq Int
               /\ \A j \in Int :
                     j \in s.set <=> \E i \in 1 .. Len(p) : PartIn(p[i], plen, j)
<1> DEFINE n == Len(p)
<1>1. n \in Nat /\ \A k \in 1 .. n : p[k] \in Pair /\ Lo(p[k]) \in Nat /\ Hi(p[k]) \in Nat
  BY LenProperties, ElementOfSeq DEF Pair, Lo, Hi
<1>2. PICK g : IsStatus(g, p, plen) /\ PartStatus(p, plen) = g[Len(p)]
  BY StatusRuns
<1>3. g \in [0 .. n -> States] /\ g[0] = NoStatus
      /\ \A k \in 1 .. n : g[k] = StatusStep(g[k - 1], p[k], plen)
  BY <1>2 DEF IsStatus
<1>4. /\ \A k \in 1 .. n : Lo(p[k]) <= Hi(p[k])
      /\ \A i, j \in 1 .. n : i < j => Hi(p[i]) < Lo(p[j])
  BY DEF Sorted
<1>5. \A k \in 1 .. n :
          Lo(p[k]) % plen = 0 /\ (Lo(p[k]) > 0 => Lo(p[k]) % (8 * plen) # 0)
  BY DEF AtParts
<1> DEFINE Good(k) ==
              /\ Stands(g[k])
              /\ k = 0 => g[k].next = 0
              /\ k > 0 => g[k].next * plen <= Hi(p[k]) + 1
              /\ \A j \in Int :
                    j \in g[k].set <=> \E i \in 1 .. k : PartIn(p[i], plen, j)
           S == { k \in 0 .. n : Good(k) }
<1> HIDE DEF n
<1>6. 0 \in S
  <2>1. g[0].ok /\ g[0].next = 0 /\ g[0].at = 0 /\ g[0].full = 0 /\ g[0].set = {}
    BY <1>3 DEF NoStatus
  <2>2. Stands(g[0])
    BY <2>1 DEF Stands
  <2>3. 0 \in 0 .. n /\ 1 .. 0 = {}
    BY <1>1
  <2> QED BY <2>1, <2>2, <2>3
<1>7. ASSUME NEW k \in 1 .. n, k - 1 \in S PROVE k \in S
  <2> DEFINE r == p[k]
             s == g[k - 1]
             t == g[k]
  <2>1. k - 1 \in 0 .. n /\ k \in 0 .. n /\ k > 0 /\ Good(k - 1)
    BY <1>1, <1>7
  <2>2. s \in States /\ Stands(s) /\ t = StatusStep(s, r, plen)
    BY <1>3, <2>1
  <2>3. r \in Pair /\ Lo(r) \in Nat /\ Lo(r) <= Hi(r) /\ Lo(r) % plen = 0
        /\ (Lo(r) > 0 => Lo(r) % (8 * plen) # 0)
    BY <1>1, <1>4, <1>5
  <2>4. s.next * plen <= Lo(r)
    <3>1. CASE k = 1
      <4>1. s.next = 0 /\ 0 * plen = 0
        BY <2>1, <3>1
      <4> QED BY <2>3, <4>1
    <3>2. CASE k # 1
      <4>1. k - 1 \in 1 .. n /\ k - 1 > 0 /\ k - 1 < k
        BY <1>1, <3>2
      <4>2. s.next * plen <= Hi(p[k - 1]) + 1
        BY <2>1, <4>1
      <4>3. Hi(p[k - 1]) < Lo(r) /\ Hi(p[k - 1]) \in Nat
        BY <1>1, <1>4, <4>1
      <4>4. s.next * plen \in Int
        BY <2>2 DEF Stands
      <4> QED BY <2>3, <4>2, <4>3, <4>4
    <3> QED BY <3>1, <3>2
  <2>5. \A j \in Int : j \in s.set <=> \E i \in 1 .. k - 1 : PartIn(p[i], plen, j)
    BY <2>1
  <2> HIDE DEF r, s, t
  <2>6. /\ Stands(t) /\ t.next * plen <= Hi(r) + 1
        /\ \A j \in Int : j \in t.set <=> j \in s.set \/ PartIn(r, plen, j)
    BY <2>2, <2>3, <2>4, StatusStepSets
  <2>7. \A j \in Int : j \in t.set <=> \E i \in 1 .. k : PartIn(p[i], plen, j)
    <3>1. \A i : i \in 1 .. k <=> i \in 1 .. k - 1 \/ i = k
      OBVIOUS
    <3> QED BY <2>5, <2>6, <3>1 DEF r
  <2>8. Good(k)
    <3>1. /\ Stands(g[k]) /\ g[k].next * plen <= Hi(p[k]) + 1
          /\ \A j \in Int : j \in g[k].set <=> \E i \in 1 .. k : PartIn(p[i], plen, j)
      BY <2>6, <2>7 DEF r, t
    <3>2. ~(k = 0)
      BY <2>1
    <3> QED BY <3>1, <3>2
  <2> QED BY <2>1, <2>8
<1>8. Good(n)
  <2>1. \A k \in 0 .. n : k \in S
    <3> HIDE DEF S
    <3> QED BY <1>1, <1>6, <1>7, UpTo
  <2>2. n \in 0 .. n
    BY <1>1
  <2> QED BY <2>1, <2>2
<1>9. g[n] \in States
  BY <1>1, <1>3
<1> DEFINE s == g[n]
<1>10. /\ s.ok /\ s.set \subseteq Int
       /\ \A j \in Int : j \in s.set <=> \E i \in 1 .. n : PartIn(p[i], plen, j)
  BY <1>8, <1>9 DEF Stands, States
<1>11. PartStatus(p, plen) = s
  BY <1>2 DEF n
<1> HIDE DEF s
<1> QED BY <1>10, <1>11 DEF n
===============================================================================
