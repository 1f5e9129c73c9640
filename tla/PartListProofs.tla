---------------------------- MODULE PartListProofs ----------------------------
(***************************************************************************)
(* Theorems about PartList: what holds of a range list after any calls of  *)
(* add, for files of any length and any ranges.  A list that is ascending  *)
(* is what every call needs (SortedPartProofs); Inv adds to it what the    *)
(* list and the last answer say about the bytes that were brought.         *)
(***************************************************************************)
EXTENDS PartList, SortedPartProofs

Inv == TypeOK /\ Ascending /\ ClaimsReceived /\ AnswerSound

(* What a call relies on: its argument is in order, the list is ascending. *)
LEMMA RangeHeld ==
    ASSUME NEW r \in Ranges
    PROVE  r[1] \in Nat /\ r[2] \in Nat /\ r[1] <= r[2]
BY PartListAssumption

(* A list that is done claims the whole file. *)
LEMMA DoneClaims ==
    ASSUME NEW p \in Seq(Pair), IsDone(p, Total)
    PROVE  0 .. Total - 1 \subseteq Bytes(p)
<1>1. Total - 1 \in Nat
  BY PartListAssumption
<1>2. Len(p) = 1 /\ Lo(p[1]) = 0 /\ Hi(p[1]) = Total - 1
  BY DEF IsDone, Lo, Hi
<1> QED BY <1>1, <1>2, BytesHeld

LEMMA InitInv == Init => Inv
<1> SUFFICES ASSUME Init PROVE Inv
  OBVIOUS
<1>1. parts = << >> /\ answer = FALSE /\ got = {}
  BY DEF Init
<1>2. TypeOK
  BY <1>1, EmptySeq DEF TypeOK
<1>3. Bytes(parts) = {}
  BY <1>1 DEF Bytes
<1>4. Ascending
  BY <1>1 DEF Ascending
<1> QED BY <1>1, <1>2, <1>3, <1>4 DEF Inv, ClaimsReceived, AnswerSound

LEMMA NextInv == Inv /\ [Next]_vars => Inv'
<1> SUFFICES ASSUME Inv, [Next]_vars PROVE Inv'
  OBVIOUS
<1>1. parts \in Seq(Pair) /\ Sorted(parts) /\ got \subseteq Nat
  BY DEF Inv, TypeOK, Ascending, Sorted, Pair
<1>2. ASSUME NEW r \in Ranges, Add(r) PROVE Inv'
  <2>1. r[1] \in Nat /\ r[2] \in Nat /\ r[1] <= r[2]
    BY RangeHeld
  <2>2. /\ parts' = Added(parts, r[1], r[2])
        /\ answer' = AddReturns(parts, r[1], r[2], Total)
        /\ got' = got \cup (r[1] .. r[2])
    BY <1>2 DEF Add
  <2>3. parts' \in Seq(Pair) /\ Sorted(parts')
    BY <1>1, <2>1, <2>2, AddedSorted
  <2>4. TypeOK'
    <3>1. answer' \in BOOLEAN
      BY <2>2 DEF AddReturns
    <3>2. got' \subseteq Nat
      <4>1. r[1] .. r[2] \subseteq Nat
        BY <2>1
      <4> QED BY <1>1, <2>2, <4>1
    <3> QED BY <2>3, <3>1, <3>2 DEF TypeOK, Pair
  <2>5. Ascending'
    BY <2>3 DEF Ascending, Sorted
  <2>6. ClaimsReceived'
    <3>1. Bytes(parts') \subseteq Bytes(parts) \cup (r[1] .. r[2])
      BY <1>1, <2>1, <2>2, AddedClaims
    <3> QED BY <2>2, <3>1 DEF Inv, ClaimsReceived
  <2>7. AnswerSound'
    <3>1. answer' => IsDone(parts', Total)
      BY <2>2 DEF AddReturns
    <3>2. answer' => 0 .. Total - 1 \subseteq Bytes(parts')
      BY <2>3, <3>1, DoneClaims
    <3> QED BY <2>6, <3>2 DEF AnswerSound, ClaimsReceived
  <2> QED BY <2>4, <2>5, <2>6, <2>7 DEF Inv
<1>3. CASE UNCHANGED vars
  BY <1>3 DEF Inv, TypeOK, Ascending, ClaimsReceived, AnswerSound, vars, Bytes
<1> QED BY <1>2, <1>3 DEF Next

(* Inv holds of every behaviour.                                            *)
THEOREM Invariance == Spec => []Inv
BY InitInv, NextInv, PTL DEF Spec

-------------------------------------------------------------------------------
(* The list is always a list of pairs of naturals.                          *)
THEOREM ListTyped == Spec => []TypeOK
<1>1. Inv => TypeOK
  BY DEF Inv
<1> QED BY <1>1, Invariance, PTL

(* The pairs of the list are non-empty, ascending and disjoint after any    *)
(* calls of add.                                                            *)
THEOREM ListAscending == Spec => []Ascending
<1>1. Inv => Ascending
  BY DEF Inv
<1> QED BY <1>1, Invariance, PTL

(* The list never claims a byte no call of add brought.                     *)
THEOREM ListClaimsReceived == Spec => []ClaimsReceived
<1>1. Inv => ClaimsReceived
  BY DEF Inv
<1> QED BY <1>1, Invariance, PTL

(* add answers TRUE only when every byte of the file was brought.           *)
THEOREM ListAnswerSound == Spec => []AnswerSound
<1>1. Inv => AnswerSound
  BY DEF Inv
<1> QED BY <1>1, Invariance, PTL

-------------------------------------------------------------------------------
(* exists answers TRUE only for ranges every byte of which was brought.     *)
THEOREM ListExistsSound == Spec => []ExistsSound
<1>1. Inv => ExistsSound
  <2> SUFFICES ASSUME Inv,
                      NEW a \in 0 .. Total - 1, NEW b \in 0 .. Total - 1,
                      a <= b, Exists(parts, a, b)
               PROVE  a .. b \subseteq got
    BY DEF ExistsSound
  <2>1. parts \in Seq(Pair)
    BY DEF Inv, TypeOK, Pair
  <2>2. a \in Nat /\ b \in Nat
    OBVIOUS
  <2>3. PICK i \in 1 .. Len(parts) : Lo(parts[i]) <= a /\ b <= Hi(parts[i])
    BY <2>1, <2>2, ExistsPair
  <2>4. Lo(parts[i]) \in Nat /\ Hi(parts[i]) \in Nat
    BY <2>1, ElementOfSeq DEF Pair, Lo, Hi
  <2>5. \A x \in a .. b : x \in Int /\ Lo(parts[i]) <= x /\ x <= Hi(parts[i])
    BY <2>2, <2>3, <2>4
  <2>6. a .. b \subseteq Bytes(parts)
    BY <2>1, <2>5, BytesHeld
  <2> QED BY <2>6 DEF Inv, ClaimsReceived
<1> QED BY <1>1, Invariance, PTL

-------------------------------------------------------------------------------
(* A step loses at most the byte at the start of the pair below its range.  *)
THEOREM ListLosesAtMostTheStart == Spec => LosesAtMostTheStart
<1> DEFINE Step ==
        \A r \in Ranges : Add(r) =>
            LET lost == (Bytes(parts) \cup (r[1] .. r[2])) \ Bytes(parts')
            IN  lost \subseteq { x \in { r[1] - 1 } :
                    \E i \in 1 .. Len(parts) : Lo(parts[i]) = x }
<1>1. Inv => Step
  <2> SUFFICES ASSUME Inv, NEW r \in Ranges, Add(r),
                      NEW x \in Bytes(parts) \cup (r[1] .. r[2]),
                      x \notin Bytes(parts')
               PROVE  x = r[1] - 1 /\ \E i \in 1 .. Len(parts) : Lo(parts[i]) = x
    OBVIOUS
  <2>1. parts \in Seq(Pair) /\ Sorted(parts)
    BY DEF Inv, TypeOK, Ascending, Sorted, Pair
  <2>2. r[1] \in Nat /\ r[2] \in Nat /\ r[1] <= r[2]
    BY RangeHeld
  <2>3. parts' = Added(parts, r[1], r[2])
    BY DEF Add
  <2> QED BY <2>1, <2>2, <2>3, AddedKeeps
<1> HIDE DEF Step
<1>2. Spec => [][Step]_vars
  BY <1>1, Invariance, PTL DEF Spec
<1> QED BY <1>2 DEF LosesAtMostTheStart, Step

-------------------------------------------------------------------------------
(* Every pair starts where some range that was brought does.                *)
Starts == \A i \in 1 .. Len(parts) : \E r \in Ranges : Lo(parts[i]) = r[1]

LEMMA InitStarts == Init => Starts
BY DEF Init, Starts

LEMMA NextStarts == Inv /\ Starts /\ [Next]_vars => Starts'
<1> SUFFICES ASSUME Inv, Starts, [Next]_vars PROVE Starts'
  OBVIOUS
<1>1. ASSUME NEW r \in Ranges, Add(r) PROVE Starts'
  <2>1. parts \in Seq(Pair) /\ Sorted(parts)
    BY DEF Inv, TypeOK, Ascending, Sorted, Pair
  <2>2. r[1] \in Nat /\ r[2] \in Nat /\ r[1] <= r[2]
    BY RangeHeld
  <2>3. parts' = Added(parts, r[1], r[2])
    BY <1>1 DEF Add
  <2>4. ASSUME NEW i \in 1 .. Len(parts')
        PROVE  \E s \in Ranges : Lo(parts'[i]) = s[1]
    <3>1. \/ Lo(parts'[i]) = r[1]
          \/ \E m \in 1 .. Len(parts) : Lo(parts'[i]) = Lo(parts[m])
      BY <2>1, <2>2, <2>3, <2>4, AddedStarts
    <3> QED BY <3>1 DEF Starts
  <2> QED BY <2>4 DEF Starts
<1>2. CASE UNCHANGED vars
  BY <1>2 DEF Starts, vars
<1> QED BY <1>1, <1>2 DEF Next

(* Under a caller none of whose ranges starts one byte above another, the   *)
(* range list implements a set of bytes that loses nothing.                 *)
THEOREM ListImplementsByteSet ==
    ASSUME \A r, s \in Ranges : r[1] # s[1] + 1
    PROVE  Spec => IsByteSet
<1>1. Init => Abstract!Init
  BY DEF Init, Abstract!Init, Bytes
<1>2. Inv /\ Inv' /\ Starts /\ [Next]_vars => [Abstract!Next]_<<Bytes(parts), answer>>
  <2> SUFFICES ASSUME Inv, Inv', Starts, [Next]_vars
               PROVE  [Abstract!Next]_<<Bytes(parts), answer>>
    OBVIOUS
  <2>1. ASSUME NEW r \in Ranges, Add(r) PROVE Abstract!Receive(r)
    <3>1. parts \in Seq(Pair) /\ Sorted(parts)
      BY DEF Inv, TypeOK, Ascending, Sorted, Pair
    <3>2. r[1] \in Nat /\ r[2] \in Nat /\ r[1] <= r[2]
      BY RangeHeld
    <3>3. /\ parts' = Added(parts, r[1], r[2])
          /\ answer' = AddReturns(parts, r[1], r[2], Total)
      BY <2>1 DEF Add
    <3>4. \A i \in 1 .. Len(parts) : Lo(parts[i]) # r[1] - 1
      <4>1. ASSUME NEW i \in 1 .. Len(parts) PROVE Lo(parts[i]) # r[1] - 1
        <5>1. PICK s \in Ranges : Lo(parts[i]) = s[1]
          BY DEF Starts
        <5>2. r[1] # s[1] + 1 /\ s[1] \in Nat
          BY RangeHeld
        <5> QED BY <3>2, <5>1, <5>2
      <4> QED BY <4>1
    <3>5. Bytes(parts') = Bytes(parts) \cup (r[1] .. r[2])
      <4>1. Bytes(parts') \subseteq Bytes(parts) \cup (r[1] .. r[2])
        BY <3>1, <3>2, <3>3, AddedClaims
      <4>2. ASSUME NEW x \in Bytes(parts) \cup (r[1] .. r[2])
            PROVE  x \in Bytes(parts')
        BY <3>1, <3>2, <3>3, <3>4, AddedKeeps
      <4> QED BY <4>1, <4>2
    <3>6. answer' \in BOOLEAN
      BY DEF Inv, TypeOK
    <3>7. answer' => 0 .. Total - 1 \subseteq Bytes(parts')
      <4>1. answer' => IsDone(parts', Total)
        BY <3>3 DEF AddReturns
      <4>2. parts' \in Seq(Pair)
        BY DEF Inv, TypeOK, Pair
      <4> QED BY <4>1, <4>2, DoneClaims
    <3> QED BY <3>5, <3>6, <3>7 DEF Abstract!Receive
  <2>2. CASE UNCHANGED vars
    BY <2>2 DEF vars, Bytes
  <2> QED BY <2>1, <2>2 DEF Next, Abstract!Next
<1>3. Spec => []Starts
  BY InitStarts, NextStarts, Invariance, PTL DEF Spec
<1> QED BY <1>1, <1>2, <1>3, Invariance, PTL DEF Spec, IsByteSet, Abstract!Spec

-------------------------------------------------------------------------------
(* SplitCovers: the blocks split hands out hold every byte that is missing, *)
(* whatever the calls of add left, for files whose length a Part can hold.  *)
THEOREM ListSplitCovers ==
    ASSUME Total < Width
    PROVE  Spec => []SplitCovers
<1>1. Inv => SplitCovers
  <2> SUFFICES ASSUME Inv, NEW max \in BlockSizes, Total % max # 1,
                      NEW x \in (0 .. Total - 1) \ Bytes(parts)
               PROVE  \E k \in DOMAIN Split(parts, Total, max, Width) :
                          LET b == Split(parts, Total, max, Width)[k]
                          IN  b[1] <= x /\ x < b[2]
    BY DEF SplitCovers
  <2> DEFINE s == Split(parts, Total, max, Width)
  <2>1. parts \in Seq(Pair)
    BY DEF Inv, TypeOK, Pair
  <2>2. /\ Total \in Nat \ {0} /\ max \in Nat \ {0} /\ Width \in Nat
        /\ x \in 0 .. Total - 1 /\ x \notin Bytes(parts)
    BY PartListAssumption
  <2>3. InSome(s, x)
    BY <2>1, <2>2, SplitCoversMissing
  <2>4. s \in Seq(Pair)
    BY <2>1, <2>2, SplitTyped
  <2>5. DOMAIN s = 1 .. Len(s)
    BY <2>4, LenProperties
  <2> HIDE DEF s
  <2>6. \E k \in DOMAIN s : s[k][1] <= x /\ x < s[k][2]
    BY <2>3, <2>5 DEF InSome
  <2> QED BY <2>6 DEF s
<1> QED BY <1>1, Invariance, PTL

-------------------------------------------------------------------------------
(* A part whose bytes are claimed lies in one pair, when pairs start where  *)
(* parts do: the pair that has its first byte has its last one too.         *)
LEMMA PartInOnePair ==
    ASSUME NEW p \in Seq(Pair), Sorted(p), NEW plen \in Nat \ {0},
           \A i \in 1 .. Len(p) : Lo(p[i]) % plen = 0,
           NEW j \in Nat
    PROVE  j * plen .. j * plen + plen - 1 \subseteq Bytes(p)
               <=> \E i \in 1 .. Len(p) : PartIn(p[i], plen, j)
<1> DEFINE a == j * plen
           b == a + plen - 1
<1>1. plen \in Nat /\ plen > 0 /\ a \in Nat /\ b \in Nat /\ a <= b
  OBVIOUS
<1>2. \A i \in 1 .. Len(p) : Lo(p[i]) \in Nat /\ Hi(p[i]) \in Nat
  BY ElementOfSeq DEF Pair, Lo, Hi
<1>3. \A x \in Int : x \in Bytes(p) <=> \E i \in 1 .. Len(p) : Lo(p[i]) <= x /\ x <= Hi(p[i])
  BY BytesHeld
<1>4. ASSUME NEW i \in 1 .. Len(p), PartIn(p[i], plen, j)
      PROVE  a .. b \subseteq Bytes(p)
  <2>1. Lo(p[i]) <= a /\ b <= Hi(p[i])
    BY <1>4 DEF PartIn
  <2> HIDE DEF a, b
  <2>2. \A x \in a .. b : x \in Int /\ Lo(p[i]) <= x /\ x <= Hi(p[i])
    BY <1>1, <1>2, <2>1
  <2> QED BY <1>3, <2>2
<1>5. ASSUME a .. b \subseteq Bytes(p)
      PROVE  \E i \in 1 .. Len(p) : PartIn(p[i], plen, j)
  <2>1. a \in Bytes(p) /\ b \in Bytes(p)
    <3> HIDE DEF a, b
    <3>1. a \in a .. b /\ b \in a .. b
      BY <1>1
    <3> QED BY <1>5, <3>1
  <2>2. PICK i \in 1 .. Len(p) : Lo(p[i]) <= a /\ a <= Hi(p[i])
    BY <1>1, <1>3, <2>1
  <2>3. PICK k \in 1 .. Len(p) : Lo(p[k]) <= b /\ b <= Hi(p[k])
    BY <1>1, <1>3, <2>1
  <2> DEFINE q == Lo(p[k]) \div plen
  <2>4. q \in Nat /\ Lo(p[k]) = q * plen
    BY <1>1, <1>2, Quotient
  <2> HIDE DEF q
  <2>5. Lo(p[k]) <= a
    <3>1. (j + 1) * plen = a + plen
      OBVIOUS
    <3>2. q * plen < (j + 1) * plen
      <4> DEFINE c == (j + 1) * plen
                 d == q * plen
      <4>1. b < c /\ c \in Int
        BY <1>1, <3>1
      <4>2. Lo(p[k]) = d /\ d \in Nat
        BY <1>2, <2>4
      <4> HIDE DEF a, b, c, d
      <4>3. d < c
        BY <1>1, <2>3, <4>1, <4>2
      <4> QED BY <4>3 DEF c, d
    <3>3. q < j + 1
      BY <2>4, <3>2, Scale
    <3>4. q <= j
      BY <2>4, <3>3
    <3>5. q * plen <= j * plen
      BY <2>4, <3>4, Scale
    <3> QED BY <2>4, <3>5
  <2>6. PartIn(p[k], plen, j)
    BY <2>3, <2>5 DEF PartIn
  <2> QED BY <2>6
<1> QED BY <1>4, <1>5

(* StatusExact: the status names the parts the node has whole, for a caller *)
(* that stays within the file.                                              *)
THEOREM ListStatusExact ==
    ASSUME \A r \in Ranges : r[2] < Total
    PROVE  Spec => []StatusExact
<1> DEFINE Within == got \subseteq 0 .. Total - 1
<1>1. Spec => []Within
  <2>1. Init => Within
    BY DEF Init
  <2>2. Within /\ [Next]_vars => Within'
    <3>1. \A r \in Ranges : r[1] .. r[2] \subseteq 0 .. Total - 1
      <4> SUFFICES ASSUME NEW r \in Ranges PROVE r[1] .. r[2] \subseteq 0 .. Total - 1
        OBVIOUS
      <4>1. r[1] \in Nat /\ r[2] \in Nat /\ r[2] < Total /\ Total \in Nat
        BY RangeHeld, PartListAssumption
      <4> QED BY <4>1
    <3> QED BY <3>1 DEF Next, Add, vars
  <2> HIDE DEF Within
  <2> QED BY <2>1, <2>2, PTL DEF Spec
<1>2. Inv /\ Within => StatusExact
  <2> SUFFICES ASSUME Inv, Within, NEW plen \in BlockSizes,
                      \A i \in 1 .. Len(parts) :
                          /\ Lo(parts[i]) % plen = 0
                          /\ Lo(parts[i]) > 0 => Lo(parts[i]) % (8 * plen) # 0
               PROVE  /\ PartStatus(parts, plen).ok
                      /\ PartStatus(parts, plen).set =
                            { k \in 0 .. Total \div plen :
                                k * plen .. k * plen + plen - 1 \subseteq Bytes(parts) }
    BY DEF StatusExact
  <2>1. parts \in Seq(Pair) /\ Sorted(parts) /\ Bytes(parts) \subseteq 0 .. Total - 1
    BY DEF Inv, TypeOK, Ascending, ClaimsReceived, Sorted, Pair
  <2>2. plen \in Nat \ {0} /\ Total \in Nat /\ AtParts(parts, plen)
    BY PartListAssumption DEF AtParts
  <2> DEFINE s == PartStatus(parts, plen)
  <2>3. /\ s.ok /\ s.set \subseteq Int
        /\ \A j \in Int :
              j \in s.set <=> \E i \in 1 .. Len(parts) : PartIn(parts[i], plen, j)
    BY <2>1, <2>2, StatusOfParts
  <2> HIDE DEF s
  <2>4. \A j \in Nat : j \in s.set
            <=> j * plen .. j * plen + plen - 1 \subseteq Bytes(parts)
    <3> SUFFICES ASSUME NEW j \in Nat
                 PROVE  j \in s.set
                            <=> j * plen .. j * plen + plen - 1 \subseteq Bytes(parts)
      OBVIOUS
    <3>1. \A i \in 1 .. Len(parts) : Lo(parts[i]) % plen = 0
      BY <2>2 DEF AtParts
    <3>2. j * plen .. j * plen + plen - 1 \subseteq Bytes(parts)
              <=> \E i \in 1 .. Len(parts) : PartIn(parts[i], plen, j)
      BY <2>1, <2>2, <3>1, PartInOnePair
    <3>3. j \in s.set <=> \E i \in 1 .. Len(parts) : PartIn(parts[i], plen, j)
      BY <2>3
    <3> QED BY <3>2, <3>3
  <2>5. ASSUME NEW j \in Int, j \in s.set PROVE j \in 0 .. Total \div plen
    <3>1. PICK i \in 1 .. Len(parts) : PartIn(parts[i], plen, j)
      BY <2>3, <2>5
    <3>2. Lo(parts[i]) \in Nat /\ Hi(parts[i]) \in Nat /\ Lo(parts[i]) <= Hi(parts[i])
      BY <2>1, ElementOfSeq DEF Pair, Lo, Hi, Sorted
    <3>3. Hi(parts[i]) <= Total - 1
      <4>1. Hi(parts[i]) \in Bytes(parts)
        BY <2>1, <3>2, BytesHeld
      <4> QED BY <2>1, <4>1
    <3>4. Lo(parts[i]) <= j * plen /\ j * plen + plen - 1 <= Hi(parts[i])
      BY <3>1 DEF PartIn
    <3>5. j * plen \in Int /\ 0 * plen = 0 /\ (j + 1) * plen = j * plen + plen /\ plen > 0
      BY <2>2
    <3>6. 0 <= j
      BY <2>2, <3>2, <3>4, <3>5, Scale
    <3> DEFINE m == Total \div plen
    <3>7. m \in Nat /\ Total < (m + 1) * plen
      BY <2>2, Quotient
    <3> HIDE DEF m
    <3>8. j * plen < (m + 1) * plen
      <4>1. (m + 1) * plen \in Int
        BY <2>2, <3>7
      <4> QED BY <2>2, <3>2, <3>3, <3>4, <3>5, <3>7, <4>1
    <3>9. j < m + 1
      BY <2>2, <3>7, <3>8, Scale
    <3> QED BY <3>6, <3>7, <3>9 DEF m
  <2>6. s.set = { k \in 0 .. Total \div plen :
                    k * plen .. k * plen + plen - 1 \subseteq Bytes(parts) }
    <3>1. \A k \in 0 .. Total \div plen : k \in Nat
      BY <2>2
    <3> QED BY <2>3, <2>4, <2>5, <3>1
  <2> QED BY <2>3, <2>6 DEF s
<1> HIDE DEF Within
<1> QED BY <1>1, <1>2, Invariance, PTL

-------------------------------------------------------------------------------
(* The loops of add and their closed forms. *)
LEMMA SpliceSame ==
    ASSUME NEW p \in Seq(Pair), NEW i \in Nat, NEW k \in Nat, NEW e,
           NEW q, NEW r, IsSplice(q, p, i, k, e), IsSplice(r, p, i, k, e)
    PROVE  q = r
<1>1. /\ q \in Seq(Pair) /\ r \in Seq(Pair) /\ Len(q) = Len(r) /\ Len(q) \in Nat
      /\ q[i] = e /\ r[i] = e
      /\ \A j \in 1 .. i - 1 : q[j] = r[j]
      /\ \A j \in i + 1 .. Len(q) : q[j] = r[j]
  BY LenProperties DEF IsSplice
<1>2. \A j \in 1 .. Len(q) : j \in 1 .. i - 1 \/ j = i \/ j \in i + 1 .. Len(q)
  BY <1>1
<1>3. \A j \in 1 .. Len(q) : q[j] = r[j]
  BY <1>1, <1>2
<1> QED BY <1>1, <1>3, SeqEqual

LEMMA Erased ==
    ASSUME NEW q \in Seq(Pair), NEW i \in 1 .. Len(q) - 1
    PROVE  LET r == RemoveAt(q, i + 1)
           IN  /\ r \in Seq(Pair) /\ Len(r) = Len(q) - 1
               /\ \A j \in 1 .. i : r[j] = q[j]
               /\ \A j \in i + 1 .. Len(q) - 1 : r[j] = q[j + 1]
<1> DEFINE n == Len(q)
           a == SubSeq(q, 1, i)
           b == SubSeq(q, i + 2, n)
           r == a \o b
<1>1. n \in Nat /\ i \in Nat /\ 1 <= i /\ i < n /\ \A j \in 1 .. n : q[j] \in Pair
  BY LenProperties, ElementOfSeq
<1>2. RemoveAt(q, i + 1) = r
  <2>1. i + 1 - 1 = i /\ i + 1 + 1 = i + 2
    BY <1>1
  <2> QED BY <2>1 DEF RemoveAt
<1> HIDE DEF n
<1>3. a \in Seq(Pair) /\ Len(a) = i /\ \A j \in 1 .. i : a[j] = q[j]
  <2>1. \A j \in 1 .. i : q[j] \in Pair
    BY <1>1
  <2>2. /\ a \in Seq(Pair) /\ Len(a) = IF 1 <= i THEN i - 1 + 1 ELSE 0
        /\ \A j \in 1 .. i - 1 + 1 : a[j] = q[1 + j - 1]
    BY <1>1, <2>1, SubSeqProperties
  <2> QED BY <1>1, <2>2
<1>4. b \in Seq(Pair) /\ Len(b) = n - i - 1 /\ \A j \in 1 .. n - i - 1 : b[j] = q[i + 1 + j]
  <2> DEFINE m == i + 2
  <2>1. m \in Int /\ n \in Int /\ \A j \in m .. n : q[j] \in Pair
    BY <1>1
  <2>2. /\ b \in Seq(Pair) /\ Len(b) = IF m <= n THEN n - m + 1 ELSE 0
        /\ \A j \in 1 .. n - m + 1 : b[j] = q[m + j - 1]
    BY <2>1, SubSeqProperties
  <2>3. n - m + 1 = n - i - 1 /\ \A j \in Int : m + j - 1 = i + 1 + j
    BY <1>1
  <2>4. Len(b) = n - i - 1
    BY <1>1, <2>2
  <2> QED BY <2>2, <2>3, <2>4
<1> HIDE DEF a, b
<1>5. /\ r \in Seq(Pair) /\ Len(r) = Len(a) + Len(b)
      /\ \A j \in 1 .. Len(a) + Len(b) : r[j] = IF j <= Len(a) THEN a[j] ELSE b[j - Len(a)]
  BY <1>3, <1>4, ConcatProperties
<1> HIDE DEF r
<1>6. Len(r) = n - 1
  BY <1>1, <1>3, <1>4, <1>5
<1>7. ASSUME NEW j \in 1 .. i PROVE r[j] = q[j]
  <2>1. j \in 1 .. Len(a) + Len(b) /\ j <= Len(a)
    BY <1>1, <1>3, <1>4
  <2>2. r[j] = a[j]
    BY <1>5, <2>1
  <2> QED BY <1>3, <2>2
<1>8. ASSUME NEW j \in i + 1 .. n - 1 PROVE r[j] = q[j + 1]
  <2>1. j \in 1 .. Len(a) + Len(b) /\ ~(j <= Len(a)) /\ j - i \in 1 .. n - i - 1
        /\ i + 1 + (j - i) = j + 1
    BY <1>1, <1>3, <1>4
  <2>2. r[j] = b[j - i]
    BY <1>3, <1>5, <2>1
  <2> QED BY <1>4, <2>1, <2>2
<1> QED BY <1>2, <1>5, <1>6, <1>7, <1>8 DEF n

LEMMA AbsorbTyped ==
    ASSUME NEW q \in Seq(Pair), NEW i \in Nat \ {0}
    PROVE  Absorb(q, i) \in Seq(Pair)
<1>1. CASE i >= Len(q) \/ Lo(q[i + 1]) > Hi(q[i]) + 1
  BY <1>1 DEF Absorb
<1>2. CASE ~(i >= Len(q) \/ Lo(q[i + 1]) > Hi(q[i]) + 1)
  <2> DEFINE r == IF Hi(q[i]) >= Hi(q[i + 1]) THEN q
                  ELSE ReplaceAt(q, i, <<Lo(q[i]), Hi(q[i + 1])>>)
  <2>1. Len(q) \in Nat /\ i \in 1 .. Len(q) - 1 /\ i \in 1 .. Len(q) /\ i + 1 \in 1 .. Len(q)
    BY <1>2, LenProperties
  <2>2. <<Lo(q[i]), Hi(q[i + 1])>> \in Pair
    BY <2>1, ElementOfSeq DEF Pair, Lo, Hi
  <2>3. r \in Seq(Pair) /\ Len(r) = Len(q)
    BY <2>1, <2>2, SpliceOfReplace DEF IsSplice
  <2>4. Absorb(q, i) = RemoveAt(r, i + 1)
    BY <1>2 DEF Absorb
  <2> HIDE DEF r
  <2>5. i \in 1 .. Len(r) - 1
    BY <2>1, <2>3
  <2> QED BY <2>3, <2>4, <2>5, Erased
<1> QED BY <1>1, <1>2

LEMMA MergeRuns ==
    ASSUME NEW p \in Seq(Pair), NEW i \in Nat \ {0}
    PROVE  \E g : /\ g \in [0 .. Len(p) -> Seq(Pair)] /\ g[0] = p
                  /\ \A k \in 1 .. Len(p) : g[k] = Absorb(g[k - 1], i)
                  /\ MergeLoop(p, i) = g[Len(p)]
<1> DEFINE n == Len(p)
           V == Seq(Pair)
           step == [x \in (1 .. n) \X V |-> Absorb(x[2], i)]
           Body(g) == [k \in 0 .. n |-> IF k = 0 THEN p ELSE Absorb(g[k - 1], i)]
           db == CHOOSE g : g = Body(g)
<1>1. n \in Nat /\ p \in V
  BY LenProperties
<1>2. MergeLoop(p, i) = db[n]
  BY DEF MergeLoop
<1> HIDE DEF n
<1>3. \A s \in V : Absorb(s, i) \in V
  BY AbsorbTyped
<1>4. step \in [(1 .. n) \X V -> V]
  BY <1>3
<1>5. \A k \in 1 .. n : \A s \in V : step[<<k, s>>] = Absorb(s, i)
  OBVIOUS
<1> HIDE DEF step, V
<1>6. PICK g : IsLoop(g, V, p, n, step)
  BY <1>1, <1>4, LoopRuns
<1>7. \A k \in 1 .. n : g[k] = Absorb(g[k - 1], i)
  <2> SUFFICES ASSUME NEW k \in 1 .. n PROVE g[k] = Absorb(g[k - 1], i)
    OBVIOUS
  <2>1. k - 1 \in 0 .. n
    BY <1>1
  <2> QED BY <1>5, <1>6, <2>1 DEF IsLoop
<1>8. g = Body(g)
  <2>1. \A k \in 0 .. n : k # 0 => k \in 1 .. n
    BY <1>1
  <2>2. \A k \in 0 .. n : g[k] = Body(g)[k]
    BY <1>6, <1>7, <2>1 DEF IsLoop
  <2>3. g = [k \in 0 .. n |-> g[k]] /\ Body(g) = [k \in 0 .. n |-> Body(g)[k]]
    BY <1>6 DEF IsLoop
  <2> HIDE DEF Body
  <2> QED BY <2>2, <2>3
<1>9. db = Body(db)
  <2> HIDE DEF Body
  <2> QED BY <1>8
<1>10. db[0] = p /\ \A k \in 1 .. n : db[k] = Absorb(db[k - 1], i)
  <2> HIDE DEF db
  <2>1. 0 \in 0 .. n /\ \A k \in 1 .. n : k \in 0 .. n /\ k # 0
    BY <1>1
  <2>2. \A k \in 0 .. n : db[k] = Body(db)[k]
    BY <1>9
  <2> QED BY <2>1, <2>2
<1> HIDE DEF db, Body
<1>11. db[n] = g[n]
  <2>1. \A k \in 1 .. n : db[k - 1] \in V => db[k] = step[<<k, db[k - 1]>>]
    BY <1>5, <1>10
  <2>2. \A k \in 0 .. n : db[k] = g[k]
    BY <1>6, <1>10, <2>1 DEF IsLoop
  <2> QED BY <1>1, <2>2
<1>12. g \in [0 .. n -> V] /\ g[0] = p
  BY <1>6 DEF IsLoop
<1> QED BY <1>2, <1>7, <1>11, <1>12 DEF n, V

(* One pass of the merge loop, on a list in which pair i stands for the     *)
(* pairs up to the one before m.                                            *)
LEMMA AbsorbStep ==
    ASSUME NEW p \in Seq(Pair), Sorted(p), NEW i \in 1 .. Len(p),
           NEW m \in i + 1 .. Len(p) + 1, NEW lo \in Nat, NEW bv \in Nat, NEW s,
           IsSplice(s, p, i, m, <<lo, Larger(bv, Hi(p[m - 1]))>>)
    PROVE  IF m <= Len(p) /\ Lo(p[m]) <= Larger(bv, Hi(p[m - 1])) + 1
           THEN IsSplice(Absorb(s, i), p, i, m + 1, <<lo, Larger(bv, Hi(p[m]))>>)
           ELSE Absorb(s, i) = s
<1> DEFINE n == Len(p)
           hi == Larger(bv, Hi(p[m - 1]))
           new == Larger(bv, Hi(p[m]))
<1>1. n \in Nat /\ i \in Nat /\ m \in Nat /\ 1 <= i /\ i < m /\ m <= n + 1
      /\ m - 1 \in 1 .. n
  BY LenProperties
<1>2. \A j \in 1 .. n : p[j] \in Pair /\ Lo(p[j]) \in Nat /\ Hi(p[j]) \in Nat
                         /\ Lo(p[j]) <= Hi(p[j])
  <2>1. \A j \in 1 .. n : p[j] \in Pair
    BY ElementOfSeq
  <2>2. \A j \in 1 .. n : Lo(p[j]) <= Hi(p[j])
    BY DEF Sorted
  <2>3. \A r \in Pair : Lo(r) \in Nat /\ Hi(r) \in Nat
    BY DEF Pair, Lo, Hi
  <2> HIDE DEF n
  <2> QED BY <2>1, <2>2, <2>3
<1>3. hi \in Nat
  BY <1>1, <1>2 DEF Larger
<1>4. /\ s \in Seq(Pair) /\ Len(s) = n - m + i + 1 /\ s[i] = <<lo, hi>>
      /\ \A j \in 1 .. i - 1 : s[j] = p[j]
      /\ \A j \in i + 1 .. Len(s) : s[j] = p[j + m - i - 1]
  BY DEF IsSplice
<1>5. Lo(s[i]) = lo /\ Hi(s[i]) = hi
  BY <1>4 DEF Lo, Hi
<1> HIDE DEF n
<1>6. i >= Len(s) <=> m > n
  BY <1>1, <1>4
<1>7. ASSUME m <= n
      PROVE  /\ i + 1 \in i + 1 .. Len(s) /\ s[i + 1] = p[m] /\ m \in 1 .. n
             /\ hi <= Larger(bv, Hi(p[m])) /\ Hi(p[m - 1]) < Hi(p[m])
  <2>1. i + 1 \in i + 1 .. Len(s) /\ i + 1 + m - i - 1 = m /\ m \in 1 .. n
    <3>1. Len(s) = n - m + i + 1
      BY <1>4
    <3>2. i + 1 <= Len(s) /\ i + 1 \in Int /\ Len(s) \in Int
      BY <1>1, <1>7, <3>1
    <3>3. i + 1 + m - i - 1 = m /\ m \in 1 .. n
      BY <1>1, <1>7
    <3> QED BY <3>2, <3>3
  <2>2. s[i + 1] = p[m]
    BY <1>4, <2>1
  <2>3. Hi(p[m - 1]) < Lo(p[m])
    <3>1. m - 1 < m
      BY <1>1
    <3>2. \A j, k \in 1 .. n : j < k => Hi(p[j]) < Lo(p[k])
      BY DEF Sorted, n
    <3>3. m - 1 \in 1 .. n /\ m \in 1 .. n
      BY <1>1, <2>1
    <3> QED BY <3>1, <3>2, <3>3, Zenon
  <2>4. Hi(p[m - 1]) < Hi(p[m]) /\ Hi(p[m - 1]) \in Nat /\ Hi(p[m]) \in Nat
    BY <1>1, <1>2, <2>1, <2>3
  <2> QED BY <2>1, <2>2, <2>4 DEF Larger
<1> HIDE DEF hi
<1>8. CASE m <= n /\ Lo(p[m]) <= hi + 1
  <2>1. ~(i >= Len(s)) /\ s[i + 1] = p[m] /\ m \in 1 .. n
    BY <1>6, <1>7, <1>8
  <2>2. Lo(p[m]) \in Nat /\ Hi(p[m]) \in Nat
    BY <1>2, <2>1
  <2>3. ~(Lo(s[i + 1]) > Hi(s[i]) + 1)
    BY <1>3, <1>5, <1>8, <2>1, <2>2
  <2> DEFINE r == IF Hi(s[i]) >= Hi(s[i + 1]) THEN s
                  ELSE ReplaceAt(s, i, <<Lo(s[i]), Hi(s[i + 1])>>)
  <2>4. Absorb(s, i) = RemoveAt(r, i + 1)
    BY <2>1, <2>3 DEF Absorb
  <2>5. i \in 1 .. Len(s) - 1 /\ i \in 1 .. Len(s) /\ Len(s) \in Nat
    BY <1>1, <1>4, <2>1, LenProperties
  <2>6. new \in Nat /\ (hi >= Hi(p[m]) => new = hi) /\ (~(hi >= Hi(p[m])) => new = Hi(p[m]))
    BY <1>1, <1>2, <1>7, <1>8, <2>2 DEF Larger, hi
  <2> HIDE DEF new
  <2>7. r \in Seq(Pair) /\ Len(r) = Len(s) /\ r[i] = <<lo, new>>
        /\ \A j \in 1 .. Len(s) : j # i => r[j] = s[j]
    <3>1. CASE hi >= Hi(p[m])
      BY <1>4, <1>5, <2>1, <2>6, <3>1
    <3>2. CASE ~(hi >= Hi(p[m]))
      <4>1. r = ReplaceAt(s, i, <<lo, new>>)
        BY <1>5, <2>1, <2>6, <3>2
      <4>2. <<lo, new>> \in Pair
        BY <2>6 DEF Pair
      <4> HIDE DEF r
      <4> QED BY <1>4, <2>5, <4>1, <4>2, ExceptSeq DEF ReplaceAt
    <3> QED BY <3>1, <3>2
  <2> HIDE DEF r
  <2> DEFINE t == RemoveAt(r, i + 1)
  <2>8. /\ t \in Seq(Pair) /\ Len(t) = Len(s) - 1
        /\ \A j \in 1 .. i : t[j] = r[j]
        /\ \A j \in i + 1 .. Len(s) - 1 : t[j] = r[j + 1]
    BY <2>5, <2>7, Erased
  <2> HIDE DEF t
  <2>9. t[i] = <<lo, new>> /\ Len(t) = n - (m + 1) + i + 1
    BY <1>1, <1>4, <2>5, <2>7, <2>8
  <2>10. \A j \in 1 .. i - 1 : t[j] = p[j]
    <3> SUFFICES ASSUME NEW j \in 1 .. i - 1 PROVE t[j] = p[j]
      OBVIOUS
    <3>1. j \in 1 .. i /\ j \in 1 .. Len(s) /\ j # i
      BY <2>5
    <3> QED BY <1>4, <2>7, <2>8, <3>1
  <2>11. \A j \in i + 1 .. Len(t) : t[j] = p[j + (m + 1) - i - 1]
    <3> SUFFICES ASSUME NEW j \in i + 1 .. Len(t) PROVE t[j] = p[j + (m + 1) - i - 1]
      OBVIOUS
    <3>1. j \in i + 1 .. Len(s) - 1 /\ j + 1 \in 1 .. Len(s) /\ j + 1 # i
          /\ j + 1 \in i + 1 .. Len(s) /\ (j + 1) + m - i - 1 = j + (m + 1) - i - 1
      BY <1>1, <2>5, <2>8
    <3>2. t[j] = s[j + 1]
      BY <2>7, <2>8, <3>1
    <3>3. s[j + 1] = p[(j + 1) + m - i - 1]
      BY <1>4, <3>1
    <3> QED BY <3>1, <3>2, <3>3
  <2>12. IsSplice(t, p, i, m + 1, <<lo, new>>)
    BY <2>8, <2>9, <2>10, <2>11 DEF IsSplice, n
  <2> QED BY <1>8, <2>4, <2>12 DEF t, n, hi, new
<1>9. CASE ~(m <= n /\ Lo(p[m]) <= hi + 1)
  <2>1. i >= Len(s) \/ Lo(s[i + 1]) > Hi(s[i]) + 1
    <3>1. CASE ~(m <= n)
      BY <1>1, <1>6, <3>1
    <3>2. CASE m <= n
      <4>1. s[i + 1] = p[m] /\ Lo(p[m]) \in Nat
        BY <1>2, <1>7, <3>2
      <4> QED BY <1>3, <1>5, <1>9, <3>2, <4>1
    <3> QED BY <3>1, <3>2
  <2>2. Absorb(s, i) = s
    BY <2>1 DEF Absorb
  <2> QED BY <1>9, <2>2 DEF n, hi
<1> QED BY <1>8, <1>9

(* The merge loop gives the closed form Merged. *)
LEMMA MergeLoopIs ==
    ASSUME NEW p \in Seq(Pair), Sorted(p), NEW i \in 1 .. Len(p),
           NEW lo \in Nat, NEW bv \in Nat, bv > Hi(p[i])
    PROVE  MergeLoop(ReplaceAt(p, i, <<lo, bv>>), i) = Merged(p, i, lo, bv)
<1> DEFINE n == Len(p)
           q == ReplaceAt(p, i, <<lo, bv>>)
           k == Kept(p, i, bv)
           top(m) == Larger(bv, Hi(p[m - 1]))
           at(j) == IF i + 1 + j < k THEN i + 1 + j ELSE k
<1>1. n \in Nat /\ i \in Nat \ {0} /\ i <= n
  BY LenProperties
<1>2. \A j \in 1 .. n : Lo(p[j]) \in Nat /\ Hi(p[j]) \in Nat
  BY ElementOfSeq DEF Pair, Lo, Hi
<1>3. /\ k \in i + 1 .. n + 1
      /\ k <= n => Lo(p[k]) > top(k) + 1
      /\ \A j \in i + 1 .. k - 1 : Lo(p[j]) <= top(j) + 1
  BY KeptFirst
<1> HIDE DEF k
<1>4. \A m \in i + 1 .. n + 1 : top(m) \in Nat
  <2> SUFFICES ASSUME NEW m \in i + 1 .. n + 1 PROVE top(m) \in Nat
    OBVIOUS
  <2>1. m - 1 \in 1 .. n
    BY <1>1
  <2> QED BY <1>2, <2>1 DEF Larger
<1>5. IsSplice(q, p, i, i + 1, <<lo, bv>>)
  <2>1. <<lo, bv>> \in Pair
    BY DEF Pair
  <2> QED BY <2>1, SpliceOfReplace
<1>6. top(i + 1) = bv
  <2>1. i + 1 - 1 = i /\ Hi(p[i]) \in Nat
    BY <1>1, <1>2
  <2> QED BY <2>1 DEF Larger
<1>7. q \in Seq(Pair) /\ Len(q) = n
  <2>1. Len(q) = n - (i + 1) + i + 1
    BY <1>5 DEF IsSplice
  <2> QED BY <1>1, <1>5, <2>1 DEF IsSplice
<1>8. PICK g : /\ g \in [0 .. Len(q) -> Seq(Pair)] /\ g[0] = q
               /\ \A j \in 1 .. Len(q) : g[j] = Absorb(g[j - 1], i)
               /\ MergeLoop(q, i) = g[Len(q)]
  <2> HIDE DEF q
  <2> QED BY <1>1, <1>7, MergeRuns
<1> HIDE DEF q, n, top
<1> DEFINE S == { j \in 0 .. n : IsSplice(g[j], p, i, at(j), <<lo, top(at(j))>>) }
<1>9. 0 \in S
  <2>1. at(0) = i + 1 /\ 0 \in 0 .. n
    BY <1>1, <1>3
  <2> QED BY <1>5, <1>6, <1>8, <2>1
<1>10. ASSUME NEW j \in 1 .. n, j - 1 \in S PROVE j \in S
  <2> DEFINE m == at(j - 1)
  <2>1. m \in i + 1 .. n + 1 /\ m <= k /\ j \in 0 .. n
    BY <1>1, <1>3
  <2>2. IsSplice(g[j - 1], p, i, m, <<lo, top(m)>>)
    BY <1>10
  <2>3. g[j] = Absorb(g[j - 1], i)
    BY <1>7, <1>8
  <2>4. IF m <= n /\ Lo(p[m]) <= top(m) + 1
        THEN IsSplice(g[j], p, i, m + 1, <<lo, Larger(bv, Hi(p[m]))>>)
        ELSE g[j] = g[j - 1]
    <3> HIDE DEF m
    <3> QED BY <2>1, <2>2, <2>3, AbsorbStep DEF n, top
  <2>5. CASE m < k
    <3>1. m \in i + 1 .. k - 1 /\ m <= n /\ at(j) = m + 1 /\ m + 1 - 1 = m
      BY <1>1, <1>3, <2>1, <2>5
    <3>2. Lo(p[m]) <= top(m) + 1
      <4> HIDE DEF m
      <4> QED BY <1>3, <3>1
    <3>3. IsSplice(g[j], p, i, m + 1, <<lo, Larger(bv, Hi(p[m]))>>)
      BY <2>4, <3>1, <3>2
    <3>4. top(m + 1) = Larger(bv, Hi(p[m]))
      BY <3>1 DEF top
    <3> QED BY <2>1, <3>1, <3>3, <3>4
  <2>6. CASE m = k
    <3>1. ~(m <= n /\ Lo(p[m]) <= top(m) + 1)
      <4>1. k <= n => Lo(p[k]) \in Nat /\ top(k) \in Nat
        BY <1>1, <1>2, <1>3, <1>4
      <4> QED BY <1>3, <2>6, <4>1
    <3>2. g[j] = g[j - 1]
      BY <2>4, <3>1
    <3>3. at(j) = m
      BY <1>1, <1>3, <2>6
    <3> QED BY <2>1, <2>2, <3>2, <3>3
  <2> QED BY <2>1, <2>5, <2>6
<1>11. IsSplice(g[n], p, i, k, <<lo, top(k)>>)
  <2>1. \A j \in 0 .. n : j \in S
    <3> HIDE DEF S
    <3> QED BY <1>1, <1>9, <1>10, UpTo
  <2>2. n \in 0 .. n /\ at(n) = k
    BY <1>1, <1>3
  <2> QED BY <2>1, <2>2
<1>12. IsSplice(Merged(p, i, lo, bv), p, i, k, <<lo, top(k)>>)
  <2>1. Merged(p, i, lo, bv) = SubSeq(p, 1, i - 1) \o << <<lo, top(k)>> >> \o SubSeq(p, k, n)
    BY DEF Merged, k, top, n
  <2>2. <<lo, top(k)>> \in Pair
    BY <1>3, <1>4 DEF Pair
  <2>3. i \in 1 .. Len(p) + 1 /\ k \in i .. Len(p) + 1
    BY <1>1, <1>3 DEF n
  <2> QED BY <2>1, <2>2, <2>3, SpliceOfParts DEF n
<1>13. MergeLoop(q, i) = g[n]
  BY <1>7, <1>8
<1>14. k \in Nat
  BY <1>1, <1>3
<1> QED BY <1>1, <1>11, <1>12, <1>13, <1>14, SpliceSame DEF q

(* The first loop, unrolled: from the end of the list, d pairs at a time.   *)
LEMMA AddLoopRuns ==
    ASSUME NEW p \in Seq(Pair), NEW av, NEW bv
    PROVE  \E g : /\ g[0] = <<Append(p, <<av, bv>>), IsDone(Append(p, <<av, bv>>), Total)>>
                  /\ \A d \in 1 .. Len(p) :
                        g[d] = LET i == Len(p) + 1 - d
                               IN  IF av > Lo(p[i]) + 1 /\ av > Hi(p[i]) + 1
                                   THEN g[d - 1] ELSE AddAt(p, i, av, bv)
                  /\ AddLoop(p, av, bv) = g[Len(p)]
<1> DEFINE n == Len(p)
           last == <<Append(p, <<av, bv>>), IsDone(Append(p, <<av, bv>>), Total)>>
           V == {last} \cup { AddAt(p, i, av, bv) : i \in 1 .. n }
           passes(i) == av > Lo(p[i]) + 1 /\ av > Hi(p[i]) + 1
           one(i, s) == IF passes(i) THEN s ELSE AddAt(p, i, av, bv)
           step == [x \in (1 .. n) \X V |-> one(n + 1 - x[1], x[2])]
           Body(g) == [d \in 0 .. n |->
                          LET i == n + 1 - d
                          IN  IF d = 0 THEN last
                              ELSE IF av > Lo(p[i]) + 1 /\ av > Hi(p[i]) + 1
                              THEN g[d - 1] ELSE AddAt(p, i, av, bv)]
           db == CHOOSE g : g = Body(g)
<1>1. n \in Nat /\ last \in V
  BY LenProperties
<1>2. AddLoop(p, av, bv) = db[n]
  BY DEF AddLoop
<1>3. \A g : \A d \in 1 .. n : Body(g)[d] = one(n + 1 - d, g[d - 1])
  BY <1>1
<1>4. \A g : Body(g)[0] = last
  BY <1>1
<1>5. \A g : Body(g) = [d \in 0 .. n |-> Body(g)[d]]
  OBVIOUS
<1> HIDE DEF n, last, Body, passes
<1>6. \A d \in 1 .. n : \A s \in V : one(n + 1 - d, s) \in V
  <2> SUFFICES ASSUME NEW d \in 1 .. n, NEW s \in V PROVE one(n + 1 - d, s) \in V
    OBVIOUS
  <2>1. n + 1 - d \in 1 .. n
    BY <1>1
  <2> QED BY <2>1
<1> HIDE DEF one, V
<1>7. step \in [(1 .. n) \X V -> V]
  BY <1>6
<1>8. \A d \in 1 .. n : \A s \in V : step[<<d, s>>] = one(n + 1 - d, s)
  OBVIOUS
<1> HIDE DEF step
<1>9. PICK g : IsLoop(g, V, last, n, step)
  BY <1>1, <1>7, LoopRuns
<1>10. \A d \in 1 .. n : g[d] = one(n + 1 - d, g[d - 1])
  <2> SUFFICES ASSUME NEW d \in 1 .. n PROVE g[d] = one(n + 1 - d, g[d - 1])
    OBVIOUS
  <2>1. d - 1 \in 0 .. n
    BY <1>1
  <2> QED BY <1>8, <1>9, <2>1 DEF IsLoop
<1>11. g = Body(g)
  <2>1. \A d \in 0 .. n : d = 0 \/ d \in 1 .. n
    BY <1>1
  <2>2. \A d \in 0 .. n : g[d] = Body(g)[d]
    BY <1>3, <1>4, <1>9, <1>10, <2>1 DEF IsLoop
  <2>3. g = [d \in 0 .. n |-> g[d]]
    BY <1>9 DEF IsLoop
  <2> QED BY <1>5, <2>2, <2>3
<1>12. db = Body(db)
  BY <1>11
<1>13. db[0] = last /\ \A d \in 1 .. n : db[d] = one(n + 1 - d, db[d - 1])
  <2> HIDE DEF db
  <2> QED BY <1>3, <1>4, <1>12
<1> HIDE DEF db
<1> QED BY <1>2, <1>13 DEF n, last, one, passes

(* What add does at the pair where the first loop stops. *)
LEMMA AddAtIs ==
    ASSUME NEW p \in Seq(Pair), Sorted(p), NEW av \in Nat, NEW bv \in Nat, av <= bv,
           Touched(p, av) # 0
    PROVE  AddAt(p, Touched(p, av), av, bv) = <<Added(p, av, bv), AddReturns(p, av, bv, Total)>>
<1> DEFINE i == Touched(p, av)
           lo == IF av <= Lo(p[i]) + 1 THEN av ELSE Lo(p[i])
           q == Added(p, av, bv)
           back == AddReturns(p, av, bv, Total)
           done(s) == <<s, IsDone(s, Total)>>
<1>1. i \in 1 .. Len(p) /\ Lo(p[i]) \in Nat /\ Hi(p[i]) \in Nat /\ Lo(p[i]) <= Hi(p[i])
  <2>1. i \in 1 .. Len(p)
    BY TouchedFirst, LenProperties
  <2> HIDE DEF i
  <2> QED BY <2>1, ElementOfSeq DEF Sorted, Pair, Lo, Hi
<1>2. q = IF bv < Lo(p[i]) THEN InsertAt(p, i, <<av, bv>>)
          ELSE IF bv <= Hi(p[i]) THEN ReplaceAt(p, i, <<lo, Hi(p[i])>>)
          ELSE Merged(p, i, lo, bv)
  BY DEF Added
<1>3. /\ back \in BOOLEAN
      /\ ~(bv > Hi(p[i])) => back = FALSE
      /\ bv > Hi(p[i]) => back = IsDone(q, Total)
  BY Zenon DEF AddReturns, IsDone
<1>4. AddAt(p, i, av, bv) =
        IF av <= Lo(p[i]) + 1
        THEN IF bv < Lo(p[i]) THEN <<InsertAt(p, i, <<av, bv>>), FALSE>>
             ELSE IF bv <= Hi(p[i]) THEN <<ReplaceAt(p, i, <<av, Hi(p[i])>>), FALSE>>
             ELSE done(MergeLoop(ReplaceAt(p, i, <<av, bv>>), i))
        ELSE IF bv <= Hi(p[i]) THEN <<p, FALSE>>
             ELSE done(MergeLoop(ReplaceAt(p, i, <<Lo(p[i]), bv>>), i))
  BY DEF AddAt
<1> HIDE DEF i, q, back
<1>5. CASE bv < Lo(p[i])
  <2>1. av <= Lo(p[i]) + 1 /\ ~(bv > Hi(p[i]))
    BY <1>1, <1>5
  <2>2. AddAt(p, i, av, bv) = <<InsertAt(p, i, <<av, bv>>), FALSE>>
    BY <1>4, <1>5, <2>1
  <2>3. q = InsertAt(p, i, <<av, bv>>) /\ back = FALSE
    BY <1>2, <1>3, <1>5, <2>1
  <2> QED BY <2>2, <2>3 DEF i, q, back
<1>6. CASE ~(bv < Lo(p[i])) /\ bv <= Hi(p[i])
  <2>1. ~(bv > Hi(p[i]))
    BY <1>1, <1>6
  <2>2. q = ReplaceAt(p, i, <<lo, Hi(p[i])>>) /\ back = FALSE
    BY <1>2, <1>3, <1>6, <2>1
  <2>3. CASE av <= Lo(p[i]) + 1
    <3>1. AddAt(p, i, av, bv) = <<ReplaceAt(p, i, <<av, Hi(p[i])>>), FALSE>>
      BY <1>4, <1>6, <2>3
    <3>2. lo = av
      BY <2>3
    <3> QED BY <2>2, <3>1, <3>2 DEF i, q, back
  <2>4. CASE ~(av <= Lo(p[i]) + 1)
    <3>1. AddAt(p, i, av, bv) = <<p, FALSE>>
      BY <1>4, <1>6, <2>4
    <3>2. lo = Lo(p[i])
      BY <2>4
    <3>3. <<Lo(p[i]), Hi(p[i])>> = p[i]
      <4>1. p[i] \in Pair
        BY <1>1, ElementOfSeq
      <4> QED BY <4>1 DEF Pair, Lo, Hi
    <3>4. q = ReplaceAt(p, i, p[i])
      BY <2>2, <3>2, <3>3
    <3>5. ReplaceAt(p, i, p[i]) = p
      <4> DEFINE r == ReplaceAt(p, i, p[i])
      <4>1. p[i] \in Pair
        BY <1>1, ElementOfSeq
      <4>2. /\ r \in Seq(Pair) /\ Len(r) = Len(p)
            /\ \A j \in 1 .. Len(p) : r[j] = IF j = i THEN p[i] ELSE p[j]
        BY <1>1, <4>1, ExceptSeq DEF ReplaceAt
      <4> HIDE DEF r
      <4>3. \A j \in 1 .. Len(p) : r[j] = p[j]
        BY <4>2
      <4>4. r = p
        BY <4>2, <4>3, SeqEqual
      <4> QED BY <4>4 DEF r
    <3> QED BY <2>2, <3>1, <3>4, <3>5 DEF i, q, back
  <2> QED BY <2>3, <2>4
<1>7. CASE ~(bv < Lo(p[i])) /\ ~(bv <= Hi(p[i]))
  <2>1. bv > Hi(p[i])
    BY <1>1, <1>7
  <2>2. q = Merged(p, i, lo, bv) /\ back = IsDone(q, Total)
    BY <1>2, <1>3, <1>7, <2>1
  <2>3. AddAt(p, i, av, bv) = done(MergeLoop(ReplaceAt(p, i, <<lo, bv>>), i))
    <3>1. CASE av <= Lo(p[i]) + 1
      BY <1>4, <1>7, <3>1
    <3>2. CASE ~(av <= Lo(p[i]) + 1)
      BY <1>4, <1>7, <3>2
    <3> QED BY <3>1, <3>2
  <2>4. lo \in Nat
    BY <1>1
  <2> HIDE DEF lo
  <2>5. MergeLoop(ReplaceAt(p, i, <<lo, bv>>), i) = q
    BY <1>1, <2>1, <2>2, <2>4, MergeLoopIs
  <2> QED BY <2>2, <2>3, <2>5 DEF i, q, back
<1> QED BY <1>5, <1>6, <1>7

(* add, loop by loop, gives its closed form. *)
LEMMA AddLoopIs ==
    ASSUME NEW p \in Seq(Pair), Sorted(p), NEW av \in Nat, NEW bv \in Nat, av <= bv
    PROVE  AddLoop(p, av, bv) = <<Added(p, av, bv), AddReturns(p, av, bv, Total)>>
<1> DEFINE n == Len(p)
           t == Touched(p, av)
           last == <<Append(p, <<av, bv>>), IsDone(Append(p, <<av, bv>>), Total)>>
           passes(i) == av > Lo(p[i]) + 1 /\ av > Hi(p[i]) + 1
           want == IF t = 0 THEN last ELSE AddAt(p, t, av, bv)
<1>1. n \in Nat
  BY LenProperties
<1>2. /\ t \in 0 .. n
      /\ t # 0 => ~passes(t)
      /\ \A j \in 1 .. n : (t = 0 \/ j < t) => passes(j)
  <2>1. /\ t \in 0 .. n
        /\ t # 0 => av <= Lo(p[t]) + 1 \/ av <= Hi(p[t]) + 1
        /\ \A j \in 1 .. n : (t = 0 \/ j < t) => av > Lo(p[j]) + 1 /\ av > Hi(p[j]) + 1
    BY TouchedFirst
  <2> HIDE DEF t
  <2>2. t # 0 => Lo(p[t]) \in Nat /\ Hi(p[t]) \in Nat
    <3>1. t # 0 => t \in 1 .. Len(p)
      BY <1>1, <2>1
    <3> QED BY <3>1, ElementOfSeq DEF Pair, Lo, Hi
  <2> QED BY <2>1, <2>2
<1>3. PICK g : /\ g[0] = last
               /\ \A d \in 1 .. n :
                     g[d] = LET i == n + 1 - d
                            IN  IF passes(i) THEN g[d - 1] ELSE AddAt(p, i, av, bv)
               /\ AddLoop(p, av, bv) = g[n]
  BY AddLoopRuns
<1>4. \A d \in 1 .. n : g[d] = IF passes(n + 1 - d) THEN g[d - 1]
                               ELSE AddAt(p, n + 1 - d, av, bv)
  BY <1>3
<1> HIDE DEF n, t, last, passes
<1> DEFINE S == { d \in 0 .. n : (t = 0 \/ d >= n + 1 - t) => g[d] = want }
<1>5. 0 \in S
  <2>1. 0 \in 0 .. n /\ ~(t # 0 /\ 0 >= n + 1 - t)
    BY <1>1, <1>2
  <2> QED BY <1>3, <2>1
<1>6. ASSUME NEW d \in 1 .. n, d - 1 \in S PROVE d \in S
  <2> SUFFICES ASSUME t = 0 \/ d >= n + 1 - t PROVE g[d] = want
    BY <1>1
  <2>1. n + 1 - d \in 1 .. n
    BY <1>1
  <2>2. CASE n + 1 - d = t
    <3>1. t # 0 /\ ~passes(n + 1 - d)
      BY <1>2, <2>1, <2>2
    <3> QED BY <1>4, <2>2, <3>1
  <2>3. CASE n + 1 - d # t
    <3>1. t = 0 \/ (n + 1 - d < t /\ d - 1 >= n + 1 - t)
      BY <1>1, <1>2, <2>3
    <3>2. passes(n + 1 - d)
      BY <1>2, <2>1, <3>1
    <3>3. g[d] = g[d - 1]
      BY <1>4, <3>2
    <3>4. g[d - 1] = want
      BY <1>6, <3>1
    <3> QED BY <3>3, <3>4
  <2> QED BY <2>2, <2>3
<1>7. g[n] = want
  <2>1. \A d \in 0 .. n : d \in S
    <3> HIDE DEF S
    <3> QED BY <1>1, <1>5, <1>6, UpTo
  <2>2. n \in 0 .. n /\ (t = 0 \/ n >= n + 1 - t)
    BY <1>1, <1>2
  <2> QED BY <2>1, <2>2
<1>8. CASE t = 0
  <2>1. Added(p, av, bv) = Append(p, <<av, bv>>)
    BY <1>8 DEF Added, t
  <2>2. AddReturns(p, av, bv, Total) = IsDone(Append(p, <<av, bv>>), Total)
    BY <1>8, <2>1, Zenon DEF AddReturns, IsDone, t
  <2> QED BY <1>3, <1>7, <1>8, <2>1, <2>2 DEF last
<1>9. CASE t # 0
  <2>1. AddAt(p, t, av, bv) = <<Added(p, av, bv), AddReturns(p, av, bv, Total)>>
    BY <1>9, AddAtIs DEF t
  <2> QED BY <1>3, <1>7, <1>9, <2>1
<1> QED BY <1>8, <1>9

(* LoopsAgree: for every list the calls build the closed forms the model is *)
(* made of give what the code's loops give.                                 *)
THEOREM ListLoopsAgree == Spec => []LoopsAgree
<1>1. Inv => LoopsAgree
  <2> SUFFICES ASSUME Inv PROVE LoopsAgree
    OBVIOUS
  <2>1. parts \in Seq(Pair) /\ Sorted(parts)
    BY DEF Inv, TypeOK, Ascending, Sorted, Pair
  <2>2. ASSUME NEW r \in Ranges
        PROVE  AddLoop(parts, r[1], r[2]) =
                  <<Added(parts, r[1], r[2]), AddReturns(parts, r[1], r[2], Total)>>
    <3>1. r[1] \in Nat /\ r[2] \in Nat /\ r[1] <= r[2]
      BY RangeHeld
    <3> QED BY <2>1, <3>1, AddLoopIs
  <2>3. ASSUME NEW max \in BlockSizes
        PROVE  Split(<< >>, Total, max, Width) = AllBlocks(Total, max, Width)
    <3>1. Total \in Nat \ {0} /\ max \in Nat \ {0} /\ Width \in Nat \ {0}
      BY PartListAssumption
    <3> QED BY <3>1, SplitOfNothing
  <2> QED BY <2>2, <2>3 DEF LoopsAgree
<1> QED BY <1>1, Invariance, PTL

===============================================================================
