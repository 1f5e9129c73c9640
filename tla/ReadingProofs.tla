--------------------------- MODULE ReadingProofs ----------------------------
(***************************************************************************)
(* Reading and writing a packet: what a read leaves of the bytes it is     *)
(* given, that a parse looks at no more of a packet than it reads, and     *)
(* that what was put is what is got, field by field, record by record and  *)
(* tag by tag.  LinkProofs builds on it.                                   *)
(***************************************************************************)
EXTENDS Link, SequenceTheorems, WellFoundedInduction, TLAPS

(* Bytes, a packed byte among them, are numbers. *)
Bytes == Seq(Nat)

(* The fields that hold lists of records; all others hold bytes. *)
ListFields == {"srvs", "parts", "fs", "ed2k"}
IsFields(m) == \A f \in DOMAIN m : f \notin ListFields => m[f] \in Bytes

IsCursor(d) ==
    /\ d.rest \in Bytes /\ IsFields(d.m)
    /\ d.ok => d = Cursor(d.rest, d.m)

-------------------------------------------------------------------------------
LEMMA NumTyped == \A s \in Bytes : Num(s) \in Nat
<1> SUFFICES ASSUME NEW s \in Bytes PROVE Num(s) \in Nat
  OBVIOUS
<1>1. \A i \in Nat : Digit(s, i) \in Nat
  BY LenProperties, ElementOfSeq DEF Digit, Bytes
<1> DEFINE a == Digit(s, 1)
           b == Digit(s, 2)
           c == Digit(s, 3)
<1>2. a \in Nat /\ b \in Nat /\ c \in Nat
  BY <1>1
<1> HIDE DEF a, b, c
<1>3. a + 256 * (b + 256 * c) \in Nat /\ 256 * 256 * 256 \in Nat
  BY <1>2
<1> QED BY <1>3 DEF Num, Beyond, a, b, c

LEMMA CursorIs ==
    \A b, c : /\ Cursor(b, c).ok = TRUE /\ Cursor(b, c).rest = b /\ Cursor(b, c).m = c
BY DEF Cursor

LEMMA ThrowIs == \A d : Throw(d).ok = FALSE /\ Throw(d).rest = d.rest /\ Throw(d).m = d.m
BY DEF Throw

LEMMA HoldingIs ==
    \A m, n, v : /\ DOMAIN Holding(m, n, v) = DOMAIN m \cup {n}
                 /\ Holding(m, n, v)[n] = v
                 /\ \A f \in DOMAIN m : f # n => Holding(m, n, v)[f] = m[f]
BY DEF Holding

LEMMA HoldingTyped ==
    ASSUME NEW m, IsFields(m), NEW n, NEW v \in Bytes
    PROVE  IsFields(Holding(m, n, v))
<1> DEFINE h == Holding(m, n, v)
<1>1. SUFFICES ASSUME NEW f \in DOMAIN h, f \notin ListFields PROVE h[f] \in Bytes
  BY DEF IsFields
<1>2. CASE f = n
  BY <1>2, HoldingIs
<1>3. CASE f # n
  <2>1. f \in DOMAIN m
    BY <1>3 DEF Holding
  <2>2. h[f] = m[f]
    BY <1>3, <2>1, HoldingIs
  <2> QED BY <1>1, <2>1, <2>2, Zenon DEF IsFields
<1> QED BY <1>2, <1>3

LEMMA Unnamed == IsFields(<<>>)
BY DEF IsFields

LEMMA CursorTyped ==
    ASSUME NEW b \in Bytes, NEW m, IsFields(m)
    PROVE  IsCursor(Cursor(b, m))
BY CursorIs DEF IsCursor

LEMMA ThrownTyped ==
    ASSUME NEW d, IsCursor(d)
    PROVE  IsCursor(Throw(d)) /\ Throw(d).ok = FALSE
BY ThrowIs DEF IsCursor

LEMMA TurnedTyped ==
    ASSUME NEW s \in Bytes, NEW big
    PROVE  Turned(s, big) \in Bytes
<1>1. Be(s) \in Bytes
  <2>1. \A i \in 1 .. Len(s) : s[(Len(s) - i) + 1] \in Nat
    BY LenProperties, ElementOfSeq DEF Bytes
  <2> QED BY <2>1, LenProperties, IsASeq DEF Be, Reverse, Bytes
<1> QED BY <1>1 DEF Turned

LEMMA UIs == \A n, w : /\ U(n, w).name = n /\ U(n, w).width = w
                       /\ U(n, w).of = "none" /\ U(n, w).big = FALSE
BY DEF U
LEMMA BIs == \A n, w : /\ B(n, w).name = n /\ B(n, w).width = w
                       /\ B(n, w).of = "none" /\ B(n, w).big = TRUE
BY DEF U, B
LEMMA DIs == \A n, o : D(n, o).name = n /\ D(n, o).of = o /\ D(n, o).big = FALSE
BY DEF U, D

(* A set of numbers that holds 0 and with a number the next.                *)
LEMMA UpTo ==
    ASSUME NEW n \in Nat, NEW S, 0 \in S, \A k \in 1 .. n : k - 1 \in S => k \in S
    PROVE  \A k \in 0 .. n : k \in S
<1> DEFINE Bad == { k \in 0 .. n : k \notin S }
           R == OpToRel(<, Nat)
<1>1. SUFFICES ASSUME Bad # {} PROVE FALSE
  OBVIOUS
<1>2. Bad \in SUBSET Nat
  OBVIOUS
<1>3. \E x \in Bad : \A y \in Bad : ~(<<y, x>> \in R)
  <2> HIDE DEF Bad
  <2> QED BY <1>1, <1>2, NatLessThanWellFounded, WFMin
<1>4. \A x, y \in Nat : x < y => <<x, y>> \in R
  BY DEF OpToRel
<1> HIDE DEF R
<1>5. PICK m \in Bad : \A y \in Bad : ~(<<y, m>> \in R)
  BY <1>3
<1>6. m \in 1 .. n /\ m - 1 \in 0 .. n
  OBVIOUS
<1>7. m - 1 \notin Bad
  <2>1. m \in Nat /\ m - 1 \in Nat /\ m - 1 < m
    BY <1>6
  <2> QED BY <1>4, <1>5, <2>1
<1>8. m - 1 \in S
  BY <1>6, <1>7
<1> QED BY <1>6, <1>8

(* The passes of Read. *)
LEMMA ReadRuns ==
    ASSUME NEW a, NEW n \in Nat, NEW l, Len(l) = n
    PROVE  \E r : /\ r[0] = a /\ \A k \in 1 .. n : r[k] = Get(r[k - 1], l[k])
                  /\ Read(a, l) = r[n]
<1> DEFINE Runs(r, m) == r[0] = a /\ \A k \in 1 .. m : r[k] = Get(r[k - 1], l[k])
           Built(r) == [k \in 0 .. n |-> IF k = 0 THEN a ELSE Get(r[k - 1], l[k])]
           run == CHOOSE r : r = Built(r)
           S == { m \in 0 .. n : \E r : Runs(r, m) }
<1>1. Runs([k \in 0 .. 0 |-> a], 0)
  OBVIOUS
<1>2. ASSUME NEW m \in 1 .. n, NEW h, Runs(h, m - 1) PROVE \E r : Runs(r, m)
  <2> DEFINE r == [k \in 0 .. m |-> IF k = m THEN Get(h[m - 1], l[m]) ELSE h[k]]
  <2>1. r[0] = a /\ r[m] = Get(h[m - 1], l[m]) /\ \A k \in 0 .. m - 1 : r[k] = h[k]
    BY <1>2
  <2>2. \A k \in 1 .. m : k - 1 \in 0 .. m - 1 /\ (k # m => k \in 1 .. m - 1)
    OBVIOUS
  <2> HIDE DEF r
  <2>3. Runs(r, m)
    BY <1>2, <2>1, <2>2
  <2> QED BY <2>3
<1>3. PICK r : Runs(r, n)
  <2>1. 0 \in S /\ \A m \in 1 .. n : m - 1 \in S => m \in S
    <3> HIDE DEF Runs
    <3> QED BY <1>1, <1>2
  <2>2. n \in S
    <3> HIDE DEF S
    <3> QED BY <2>1, UpTo
  <2> QED BY <2>2
<1> DEFINE g == [k \in 0 .. n |-> r[k]]
<1>4. g = Built(g)
  <2>1. \A k \in 0 .. n : g[k] = IF k = 0 THEN a ELSE Get(g[k - 1], l[k])
    BY <1>3
  <2>2. g = [k \in 0 .. n |-> g[k]]
    OBVIOUS
  <2> HIDE DEF g
  <2> QED BY <2>1, <2>2
<1>5. run = Built(run)
  <2> HIDE DEF Built, g
  <2> QED BY <1>4
<1>6. Runs(run, n)
  <2> HIDE DEF run
  <2> QED BY <1>5
<1> QED BY <1>6 DEF Read

-------------------------------------------------------------------------------
(* e is d on a packet that goes on with x, unless d has thrown.             *)
Longer(d, x) == Cursor(d.rest \o x, d.m)
Carries(d, e, x) == IsCursor(d) /\ (d.ok => e = Longer(d, x))

LEMMA ThrownCarries ==
    ASSUME NEW d, IsCursor(d), ~d.ok, NEW e, NEW x
    PROVE  Carries(d, e, x)
BY DEF Carries

LEMMA LongerIs ==
    ASSUME NEW d, NEW e, NEW x, Carries(d, e, x), d.ok
    PROVE  /\ e = Cursor(d.rest \o x, d.m) /\ d = Cursor(d.rest, d.m)
           /\ d.rest \in Bytes /\ IsFields(d.m)
BY DEF Carries, Longer, IsCursor

LEMMA MadeCarries ==
    ASSUME NEW b \in Bytes, NEW x, NEW m, IsFields(m)
    PROVE  Carries(Cursor(b, m), Cursor(b \o x, m), x)
BY CursorIs, CursorTyped DEF Carries, Longer

LEMMA Slice ==
    ASSUME NEW y \in Seq(Nat), NEW u \in Nat, NEW k \in Nat, u + k <= Len(y)
    PROVE  /\ SubSeq(y, u + 1, u + k) \in Seq(Nat) /\ Len(SubSeq(y, u + 1, u + k)) = k
           /\ \A i \in 1 .. k : SubSeq(y, u + 1, u + k)[i] = y[u + i]
<1> DEFINE a == u + 1
           b == u + k
<1>1. Len(y) \in Nat
  BY LenProperties
<1>2. \A i \in a .. b : i \in 1 .. Len(y)
  BY <1>1
<1>3. a \in Int /\ b \in Int /\ \A i \in a .. b : y[i] \in Nat
  BY <1>2, ElementOfSeq
<1>4. (a <= b <=> k # 0) /\ b - a + 1 = k
  OBVIOUS
<1>5. \A i \in 1 .. k : a + i - 1 = u + i
  OBVIOUS
<1> HIDE DEF a, b
<1>6. /\ SubSeq(y, a, b) \in Seq(Nat)
      /\ Len(SubSeq(y, a, b)) = IF a <= b THEN b - a + 1 ELSE 0
      /\ \A i \in 1 .. b - a + 1 : SubSeq(y, a, b)[i] = y[a + i - 1]
  BY <1>3, SubSeqProperties
<1>7. /\ SubSeq(y, a, b) \in Seq(Nat) /\ Len(SubSeq(y, a, b)) = k
      /\ \A i \in 1 .. k : SubSeq(y, a, b)[i] = y[u + i]
  BY <1>4, <1>5, <1>6
<1> QED BY <1>7 DEF a, b

(* A packet is taken apart where it was put together.                       *)
LEMMA CutOf ==
    ASSUME NEW a \in Bytes, NEW b \in Bytes
    PROVE  /\ SubSeq(a \o b, 1, Len(a)) = a
           /\ SubSeq(a \o b, Len(a) + 1, Len(a \o b)) = b
           /\ Len(a \o b) = Len(a) + Len(b) /\ a \o b \in Bytes
<1> DEFINE n == Len(a)
           k == Len(b)
           y == a \o b
<1>1. a \in Seq(Nat) /\ b \in Seq(Nat)
  BY DEF Bytes
<1>2. n \in Nat /\ k \in Nat
  BY <1>1, LenProperties
<1>3. /\ y \in Seq(Nat) /\ Len(y) = n + k
      /\ \A i \in 1 .. n + k : y[i] = IF i <= n THEN a[i] ELSE b[i - n]
  BY <1>1, ConcatProperties
<1>4. \A i \in 1 .. n + k : y[i] \in Nat
  BY <1>3, ElementOfSeq
<1> HIDE DEF y
<1>5. SubSeq(y, 1, n) = a
  <2> DEFINE p == SubSeq(y, 1, n)
  <2>1. p \in Seq(Nat) /\ Len(p) = n /\ \A i \in 1 .. n : p[i] = y[i]
    <3> HIDE DEF n
    <3> QED BY <1>2, <1>4, SubSeqProperties
  <2> HIDE DEF p
  <2>2. \A i \in 1 .. n : p[i] = a[i]
    BY <1>2, <1>3, <2>1
  <2> QED BY <1>1, <2>1, <2>2, SeqEqual DEF p
<1>6. SubSeq(y, n + 1, Len(y)) = b
  <2> DEFINE p == SubSeq(y, n + 1, n + k)
  <2>1. p \in Seq(Nat) /\ Len(p) = k /\ \A i \in 1 .. k : p[i] = y[n + i]
    <3>1. n + k <= Len(y)
      BY <1>2, <1>3
    <3> HIDE DEF n, k
    <3> QED BY <1>2, <1>3, <3>1, Slice
  <2> HIDE DEF p
  <2>2. \A i \in 1 .. k : p[i] = b[i]
    <3> SUFFICES ASSUME NEW i \in 1 .. k PROVE p[i] = b[i]
      OBVIOUS
    <3>1. n + i \in 1 .. n + k /\ ~(n + i <= n) /\ n + i - n = i
      BY <1>2
    <3>2. y[n + i] = b[n + i - n]
      BY <1>3, <3>1
    <3> HIDE DEF n, k
    <3> QED BY <2>1, <3>1, <3>2
  <2>3. p = b
    BY <1>1, <2>1, <2>2, SeqEqual
  <2> QED BY <1>3, <2>3 DEF p
<1> QED BY <1>3, <1>5, <1>6 DEF y, Bytes

LEMMA Joined ==
    ASSUME NEW a \in Bytes, NEW b \in Bytes, NEW c \in Bytes
    PROVE  (a \o b) \o c = a \o (b \o c) /\ b \o c \in Bytes
<1>1. a \in Seq(Nat) /\ b \in Seq(Nat) /\ c \in Seq(Nat)
  BY DEF Bytes
<1>2. (a \o b) \o c = a \o (b \o c)
  BY <1>1, ConcatAssociative
<1>3. b \o c \in Seq(Nat)
  BY <1>1, ConcatProperties
<1> QED BY <1>2, <1>3 DEF Bytes

(* The first w bytes of a packet, and what is behind them.                  *)
LEMMA CutAt ==
    ASSUME NEW s \in Bytes, NEW w \in Nat, w <= Len(s)
    PROVE  \E p, q \in Bytes : s = p \o q /\ Len(p) = w
<1> DEFINE n == Len(s)
           p == SubSeq(s, 1, w)
           q == SubSeq(s, w + 1, n)
<1>1. s \in Seq(Nat) /\ n \in Nat /\ \A i \in 1 .. n : s[i] \in Nat
  BY LenProperties, ElementOfSeq DEF Bytes
<1>2. p \in Seq(Nat) /\ Len(p) = w
  <2>1. \A i \in 1 .. w : i \in 1 .. n
    BY <1>1
  <2>2. Len(p) = IF 1 <= w THEN w - 1 + 1 ELSE 0
    BY <1>1, <2>1, SubSeqProperties
  <2>3. p \in Seq(Nat)
    BY <1>1, <2>1, SubSeqProperties
  <2> HIDE DEF p
  <2> QED BY <2>2, <2>3
<1>3. q \in Seq(Nat)
  <2>1. \A i \in w + 1 .. n : i \in 1 .. n
    BY <1>1
  <2>2. w + 1 \in Int /\ n \in Int
    BY <1>1
  <2> HIDE DEF n
  <2> QED BY <1>1, <2>1, <2>2, SubSeqProperties
<1>4. s = p \o q
  <2>1. 1 \in 1 .. n + 1 /\ w \in 1 - 1 .. n /\ n \in w .. n
    BY <1>1
  <2>2. SubSeq(s, 1, n) = p \o q
    BY <1>1, <2>1, ConcatAdjacentSubSeq
  <2> QED BY <1>1, <2>2, SubSeqFull
<1> HIDE DEF p, q
<1> QED BY <1>2, <1>3, <1>4 DEF Bytes

(* A field that is there is taken; nothing else is said of the packet than  *)
(* that it begins with it.                                                  *)
LEMMA TakeReads ==
    ASSUME NEW p \in Bytes, NEW q \in Bytes, NEW m, NEW f
    PROVE  Take(Cursor(p \o q, m), f, Len(p))
             = Cursor(q, Holding(m, f.name, Turned(p, f.big)))
<1> DEFINE d == Cursor(p \o q, m)
           w == Len(p)
<1>1. /\ SubSeq(p \o q, 1, w) = p /\ SubSeq(p \o q, w + 1, Len(p \o q)) = q
      /\ Len(p \o q) = w + Len(q) /\ w \in Nat /\ Len(q) \in Nat
  BY CutOf, LenProperties DEF Bytes
<1>2. d.rest = p \o q /\ d.m = m
  BY CursorIs
<1> HIDE DEF d, w
<1>3. ~(w > Len(p \o q))
  BY <1>1
<1> QED BY <1>1, <1>2, <1>3 DEF Take, d, w

LEMMA TakeCarries ==
    ASSUME NEW d, NEW e, NEW x \in Bytes, Carries(d, e, x), d.ok, NEW f, NEW w \in Nat
    PROVE  /\ Carries(Take(d, f, w), Take(e, f, w), x)
           /\ Take(d, f, w).ok => DOMAIN Take(d, f, w).m = DOMAIN d.m \cup {f.name}
<1>1. /\ d.rest \in Bytes /\ IsFields(d.m) /\ IsCursor(d)
      /\ d = Cursor(d.rest, d.m) /\ e = Cursor(d.rest \o x, d.m)
  BY LongerIs DEF Carries
<1>2. CASE w > Len(d.rest)
  <2>1. Take(d, f, w) = Throw(d)
    BY <1>2 DEF Take
  <2> QED BY <1>1, <2>1, ThrownTyped, ThrownCarries
<1>3. CASE ~(w > Len(d.rest))
  <2>1. w <= Len(d.rest)
    BY <1>1, <1>3, LenProperties DEF Bytes
  <2>2. PICK p \in Bytes, q \in Bytes : d.rest = p \o q /\ Len(p) = w
    BY <1>1, <2>1, CutAt
  <2> DEFINE m == Holding(d.m, f.name, Turned(p, f.big))
  <2>3. Take(Cursor(p \o q, d.m), f, Len(p)) = Cursor(q, m)
    BY TakeReads
  <2>4. (p \o q) \o x = p \o (q \o x) /\ q \o x \in Bytes
    BY Joined
  <2>5. Take(Cursor(p \o (q \o x), d.m), f, Len(p)) = Cursor(q \o x, m)
    BY <2>4, TakeReads
  <2>6. Turned(p, f.big) \in Bytes
    BY TurnedTyped
  <2>7. IsFields(m)
    BY <1>1, <2>6, HoldingTyped
  <2>8. DOMAIN m = DOMAIN d.m \cup {f.name}
    BY HoldingIs
  <2> HIDE DEF m
  <2>9. Carries(Cursor(q, m), Cursor(q \o x, m), x)
    BY <2>7, MadeCarries
  <2>10. d = Cursor(p \o q, d.m) /\ e = Cursor(p \o (q \o x), d.m)
    BY <1>1, <2>2, <2>4, Zenon
  <2>11. Take(d, f, w) = Cursor(q, m)
    BY <2>2, <2>3, <2>10, Zenon
  <2>12. Take(e, f, w) = Cursor(q \o x, m)
    BY <2>2, <2>5, <2>10, Zenon
  <2>13. Carries(Take(d, f, w), Take(e, f, w), x)
    BY <2>9, <2>11, <2>12, Zenon
  <2>14. DOMAIN Take(d, f, w).m = DOMAIN d.m \cup {f.name}
    <3>1. Cursor(q, m).m = m
      BY CursorIs
    <3> QED BY <2>8, <2>11, <3>1, Zenon
  <2> QED BY <2>13, <2>14
<1> QED BY <1>2, <1>3

(* A read whose width is known, or a field of bytes read before.            *)
CanGet(d, f) ==
    IF f.of = "none" THEN f.width \in Nat
    ELSE d.ok => f.of \in DOMAIN d.m /\ f.of \notin ListFields

LEMMA GetCarries ==
    ASSUME NEW d, NEW e, NEW x \in Bytes, Carries(d, e, x), NEW f, CanGet(d, f)
    PROVE  /\ Carries(Get(d, f), Get(e, f), x)
           /\ Get(d, f).ok => d.ok /\ DOMAIN Get(d, f).m = DOMAIN d.m \cup {f.name}
<1> DEFINE w == IF f.of = "none" THEN f.width ELSE Num(d.m[f.of])
<1>1. CASE ~d.ok
  <2>1. Get(d, f) = d
    BY <1>1 DEF Get, Then
  <2>2. Carries(d, Get(e, f), x)
    BY <1>1, ThrownCarries DEF Carries
  <2> QED BY <1>1, <2>1, <2>2
<1>2. CASE d.ok
  <2>1. e.ok /\ e.m = d.m /\ IsFields(d.m)
    BY <1>2, LongerIs, CursorIs
  <2>2. w \in Nat
    <3>1. CASE f.of = "none"
      BY <3>1 DEF CanGet
    <3>2. CASE f.of # "none"
      <4>1. d.m[f.of] \in Bytes
        BY <1>2, <2>1, <3>2 DEF CanGet, IsFields
      <4> QED BY <3>2, <4>1, NumTyped
    <3> QED BY <3>1, <3>2
  <2>3. Get(d, f) = Take(d, f, w)
    BY <1>2 DEF Get, Then
  <2>4. Get(e, f) = Take(e, f, w)
    BY <2>1 DEF Get, Then
  <2> HIDE DEF w
  <2> QED BY <1>2, <2>2, <2>3, <2>4, TakeCarries
<1> QED BY <1>1, <1>2

(* A layout says the width of each field, or names one in front of it.      *)
IsLayout(l) ==
    /\ Len(l) \in Nat
    /\ \A k \in 1 .. Len(l) :
         IF l[k].of = "none" THEN l[k].width \in Nat
         ELSE l[k].of \notin ListFields /\ \E j \in 1 .. k - 1 : l[j].name = l[k].of

LEMMA ReadCarries ==
    ASSUME NEW d, NEW e, NEW x \in Bytes, Carries(d, e, x), NEW l, IsLayout(l)
    PROVE  /\ Carries(Read(d, l), Read(e, l), x)
           /\ Read(d, l).ok => /\ d.ok /\ DOMAIN d.m \subseteq DOMAIN Read(d, l).m
                               /\ \A k \in 1 .. Len(l) : l[k].name \in DOMAIN Read(d, l).m
<1>1. PICK n \in Nat : Len(l) = n
  BY DEF IsLayout
<1>2. PICK r : /\ r[0] = d /\ \A k \in 1 .. n : r[k] = Get(r[k - 1], l[k])
               /\ Read(d, l) = r[n]
  BY <1>1, ReadRuns
<1>3. PICK t : /\ t[0] = e /\ \A k \in 1 .. n : t[k] = Get(t[k - 1], l[k])
               /\ Read(e, l) = t[n]
  BY <1>1, ReadRuns
<1> DEFINE Good(k) ==
             /\ Carries(r[k], t[k], x)
             /\ r[k].ok => /\ d.ok /\ DOMAIN d.m \subseteq DOMAIN r[k].m
                           /\ \A j \in 1 .. k : l[j].name \in DOMAIN r[k].m
           S == { k \in 0 .. n : Good(k) }
<1>4. Good(0)
  BY <1>2, <1>3
<1>5. ASSUME NEW k \in 1 .. n, Good(k - 1) PROVE Good(k)
  <2> DEFINE a == r[k - 1]
             f == l[k]
  <2>1. CanGet(a, f)
    <3>1. IF f.of = "none" THEN f.width \in Nat
          ELSE f.of \notin ListFields /\ \E j \in 1 .. k - 1 : l[j].name = f.of
      BY <1>1 DEF IsLayout
    <3>2. CASE f.of = "none"
      BY <3>1, <3>2 DEF CanGet
    <3>3. CASE f.of # "none"
      <4>1. PICK j \in 1 .. k - 1 : l[j].name = f.of
        BY <3>1, <3>3
      <4>2. a.ok => f.of \in DOMAIN a.m
        BY <1>5, <4>1
      <4> QED BY <3>1, <3>3, <4>2 DEF CanGet
    <3> QED BY <3>2, <3>3
  <2>2. r[k] = Get(a, f) /\ t[k] = Get(t[k - 1], f)
    BY <1>2, <1>3
  <2> HIDE DEF a, f
  <2>3. /\ Carries(r[k], t[k], x)
        /\ r[k].ok => a.ok /\ DOMAIN r[k].m = DOMAIN a.m \cup {f.name}
    BY <1>5, <2>1, <2>2, GetCarries DEF a
  <2>4. \A j \in 1 .. k : j # k => j \in 1 .. k - 1
    OBVIOUS
  <2> QED BY <1>5, <2>3, <2>4 DEF a, f
<1>6. 0 \in S /\ \A k \in 1 .. n : k - 1 \in S => k \in S
  <2> HIDE DEF Good
  <2>1. \A k \in 1 .. n : k \in 0 .. n
    OBVIOUS
  <2> QED BY <1>1, <1>4, <1>5, <2>1
<1>7. n \in S
  <2> HIDE DEF S
  <2>1. n \in 0 .. n
    BY <1>1
  <2> QED BY <1>1, <1>6, <2>1, UpTo
<1>8. Good(n)
  <2> HIDE DEF Good
  <2> QED BY <1>7
<1>9. /\ Carries(Read(d, l), Read(e, l), x)
      /\ Read(d, l).ok => /\ d.ok /\ DOMAIN d.m \subseteq DOMAIN Read(d, l).m
                          /\ \A k \in 1 .. n : l[k].name \in DOMAIN Read(d, l).m
  BY <1>2, <1>3, <1>8, Zenon
<1> QED BY <1>1, <1>9

-------------------------------------------------------------------------------
(* A read of one field is a get. *)
LEMMA ReadOne ==
    ASSUME NEW d, NEW f1
    PROVE  Read(d, <<f1>>) = Get(d, f1)
<1> DEFINE l == <<f1>>
<1>1. PICK n \in Nat : n = 1 /\ Len(l) = n
  OBVIOUS
<1>2. l[1] = f1
  OBVIOUS
<1> HIDE DEF l
<1>3. Len(l) = n
  BY <1>1
<1>4. PICK r : /\ r[0] = d /\ \A k \in 1 .. n : r[k] = Get(r[k - 1], l[k])
               /\ Read(d, l) = r[n]
  BY <1>3, ReadRuns
<1>5. /\ 1 \in 1 .. n
      /\ 1 - 1 = 0
  BY <1>1
<1>6. /\ r[1] = Get(r[1 - 1], l[1])
  BY <1>4, <1>5, Zenon
<1>7. /\ r[1] = Get(r[0], l[1])
  BY <1>5, <1>6
<1>8. Read(d, l) = Get(d, f1)
  BY <1>1, <1>2, <1>4, <1>7
<1> QED BY <1>8 DEF l

(* A read of two fields is two gets. *)
LEMMA ReadTwo ==
    ASSUME NEW d, NEW f1, NEW f2
    PROVE  Read(d, <<f1, f2>>) = Get(Get(d, f1), f2)
<1> DEFINE l == <<f1, f2>>
<1>1. PICK n \in Nat : n = 2 /\ Len(l) = n
  OBVIOUS
<1>2. l[1] = f1 /\ l[2] = f2
  OBVIOUS
<1> HIDE DEF l
<1>3. Len(l) = n
  BY <1>1
<1>4. PICK r : /\ r[0] = d /\ \A k \in 1 .. n : r[k] = Get(r[k - 1], l[k])
               /\ Read(d, l) = r[n]
  BY <1>3, ReadRuns
<1>5. /\ 1 \in 1 .. n /\ 2 \in 1 .. n
      /\ 1 - 1 = 0 /\ 2 - 1 = 1
  BY <1>1
<1>6. /\ r[1] = Get(r[1 - 1], l[1]) /\ r[2] = Get(r[2 - 1], l[2])
  BY <1>4, <1>5, Zenon
<1>7. /\ r[1] = Get(r[0], l[1]) /\ r[2] = Get(r[1], l[2])
  BY <1>5, <1>6
<1>8. Read(d, l) = Get(Get(d, f1), f2)
  BY <1>1, <1>2, <1>4, <1>7
<1> QED BY <1>8 DEF l

(* A read of three fields is three gets. *)
LEMMA ReadThree ==
    ASSUME NEW d, NEW f1, NEW f2, NEW f3
    PROVE  Read(d, <<f1, f2, f3>>) = Get(Get(Get(d, f1), f2), f3)
<1> DEFINE l == <<f1, f2, f3>>
<1>1. PICK n \in Nat : n = 3 /\ Len(l) = n
  OBVIOUS
<1>2. l[1] = f1 /\ l[2] = f2 /\ l[3] = f3
  OBVIOUS
<1> HIDE DEF l
<1>3. Len(l) = n
  BY <1>1
<1>4. PICK r : /\ r[0] = d /\ \A k \in 1 .. n : r[k] = Get(r[k - 1], l[k])
               /\ Read(d, l) = r[n]
  BY <1>3, ReadRuns
<1>5. /\ 1 \in 1 .. n /\ 2 \in 1 .. n /\ 3 \in 1 .. n
      /\ 1 - 1 = 0 /\ 2 - 1 = 1 /\ 3 - 1 = 2
  BY <1>1
<1>6. /\ r[1] = Get(r[1 - 1], l[1]) /\ r[2] = Get(r[2 - 1], l[2]) /\ r[3] = Get(r[3 - 1], l[3])
  BY <1>4, <1>5, Zenon
<1>7. /\ r[1] = Get(r[0], l[1]) /\ r[2] = Get(r[1], l[2]) /\ r[3] = Get(r[2], l[3])
  BY <1>5, <1>6
<1>8. Read(d, l) = Get(Get(Get(d, f1), f2), f3)
  BY <1>1, <1>2, <1>4, <1>7
<1> QED BY <1>8 DEF l

(* A read of four fields is four gets. *)
LEMMA ReadFour ==
    ASSUME NEW d, NEW f1, NEW f2, NEW f3, NEW f4
    PROVE  Read(d, <<f1, f2, f3, f4>>) = Get(Get(Get(Get(d, f1), f2), f3), f4)
<1> DEFINE l == <<f1, f2, f3, f4>>
<1>1. PICK n \in Nat : n = 4 /\ Len(l) = n
  OBVIOUS
<1>2. l[1] = f1 /\ l[2] = f2 /\ l[3] = f3 /\ l[4] = f4
  OBVIOUS
<1> HIDE DEF l
<1>3. Len(l) = n
  BY <1>1
<1>4. PICK r : /\ r[0] = d /\ \A k \in 1 .. n : r[k] = Get(r[k - 1], l[k])
               /\ Read(d, l) = r[n]
  BY <1>3, ReadRuns
<1>5. /\ 1 \in 1 .. n /\ 2 \in 1 .. n /\ 3 \in 1 .. n /\ 4 \in 1 .. n
      /\ 1 - 1 = 0 /\ 2 - 1 = 1 /\ 3 - 1 = 2 /\ 4 - 1 = 3
  BY <1>1
<1>6. /\ r[1] = Get(r[1 - 1], l[1]) /\ r[2] = Get(r[2 - 1], l[2]) /\ r[3] = Get(r[3 - 1], l[3])
      /\ r[4] = Get(r[4 - 1], l[4])
  BY <1>4, <1>5, Zenon
<1>7. /\ r[1] = Get(r[0], l[1]) /\ r[2] = Get(r[1], l[2]) /\ r[3] = Get(r[2], l[3])
      /\ r[4] = Get(r[3], l[4])
  BY <1>5, <1>6
<1>8. Read(d, l) = Get(Get(Get(Get(d, f1), f2), f3), f4)
  BY <1>1, <1>2, <1>4, <1>7
<1> QED BY <1>8 DEF l

(* A read of five fields is five gets. *)
LEMMA ReadFive ==
    ASSUME NEW d, NEW f1, NEW f2, NEW f3, NEW f4, NEW f5
    PROVE  Read(d, <<f1, f2, f3, f4, f5>>) = Get(Get(Get(Get(Get(d, f1), f2), f3), f4), f5)
<1> DEFINE l == <<f1, f2, f3, f4, f5>>
<1>1. PICK n \in Nat : n = 5 /\ Len(l) = n
  OBVIOUS
<1>2. l[1] = f1 /\ l[2] = f2 /\ l[3] = f3 /\ l[4] = f4 /\ l[5] = f5
  OBVIOUS
<1> HIDE DEF l
<1>3. Len(l) = n
  BY <1>1
<1>4. PICK r : /\ r[0] = d /\ \A k \in 1 .. n : r[k] = Get(r[k - 1], l[k])
               /\ Read(d, l) = r[n]
  BY <1>3, ReadRuns
<1>5. /\ 1 \in 1 .. n /\ 2 \in 1 .. n /\ 3 \in 1 .. n /\ 4 \in 1 .. n /\ 5 \in 1 .. n
      /\ 1 - 1 = 0 /\ 2 - 1 = 1 /\ 3 - 1 = 2 /\ 4 - 1 = 3 /\ 5 - 1 = 4
  BY <1>1
<1>6. /\ r[1] = Get(r[1 - 1], l[1]) /\ r[2] = Get(r[2 - 1], l[2]) /\ r[3] = Get(r[3 - 1], l[3])
      /\ r[4] = Get(r[4 - 1], l[4]) /\ r[5] = Get(r[5 - 1], l[5])
  BY <1>4, <1>5, Zenon
<1>7. /\ r[1] = Get(r[0], l[1]) /\ r[2] = Get(r[1], l[2]) /\ r[3] = Get(r[2], l[3])
      /\ r[4] = Get(r[3], l[4]) /\ r[5] = Get(r[4], l[5])
  BY <1>5, <1>6
<1>8. Read(d, l) = Get(Get(Get(Get(Get(d, f1), f2), f3), f4), f5)
  BY <1>1, <1>2, <1>4, <1>7
<1> QED BY <1>8 DEF l

(* A read of six fields is six gets. *)
LEMMA ReadSix ==
    ASSUME NEW d, NEW f1, NEW f2, NEW f3, NEW f4, NEW f5, NEW f6
    PROVE  Read(d, <<f1, f2, f3, f4, f5, f6>>) = Get(Get(Get(Get(Get(Get(d, f1), f2), f3), f4), f5), f6)
<1> DEFINE l == <<f1, f2, f3, f4, f5, f6>>
<1>1. PICK n \in Nat : n = 6 /\ Len(l) = n
  OBVIOUS
<1>2. l[1] = f1 /\ l[2] = f2 /\ l[3] = f3 /\ l[4] = f4 /\ l[5] = f5 /\ l[6] = f6
  OBVIOUS
<1> HIDE DEF l
<1>3. Len(l) = n
  BY <1>1
<1>4. PICK r : /\ r[0] = d /\ \A k \in 1 .. n : r[k] = Get(r[k - 1], l[k])
               /\ Read(d, l) = r[n]
  BY <1>3, ReadRuns
<1>5. /\ 1 \in 1 .. n /\ 2 \in 1 .. n /\ 3 \in 1 .. n /\ 4 \in 1 .. n /\ 5 \in 1 .. n /\ 6 \in 1 .. n
      /\ 1 - 1 = 0 /\ 2 - 1 = 1 /\ 3 - 1 = 2 /\ 4 - 1 = 3 /\ 5 - 1 = 4 /\ 6 - 1 = 5
  BY <1>1
<1>6. /\ r[1] = Get(r[1 - 1], l[1]) /\ r[2] = Get(r[2 - 1], l[2]) /\ r[3] = Get(r[3 - 1], l[3])
      /\ r[4] = Get(r[4 - 1], l[4]) /\ r[5] = Get(r[5 - 1], l[5]) /\ r[6] = Get(r[6 - 1], l[6])
  BY <1>4, <1>5, Zenon
<1>7. /\ r[1] = Get(r[0], l[1]) /\ r[2] = Get(r[1], l[2]) /\ r[3] = Get(r[2], l[3])
      /\ r[4] = Get(r[3], l[4]) /\ r[5] = Get(r[4], l[5]) /\ r[6] = Get(r[5], l[6])
  BY <1>5, <1>6
<1>8. Read(d, l) = Get(Get(Get(Get(Get(Get(d, f1), f2), f3), f4), f5), f6)
  BY <1>1, <1>2, <1>4, <1>7
<1> QED BY <1>8 DEF l

(* The passes of the loops, as operators.                                   *)
ListPass(e, name, l) == Listed(e, name, Read(Fresh(e), l))
ListTimes(d, n, name, l) == Times(d, n, LAMBDA e : Listed(e, name, Read(Fresh(e), l)))
ListLoop(d, n, name, l) == Repeat(d, n, LAMBDA e : Listed(e, name, Read(Fresh(e), l)))

-------------------------------------------------------------------------------
LEMMA FreshCarries ==
    ASSUME NEW d, NEW e, NEW x \in Bytes, Carries(d, e, x), d.ok
    PROVE  Carries(Fresh(d), Fresh(e), x)
<1>1. e = Cursor(d.rest \o x, d.m) /\ d.rest \in Bytes
  BY LongerIs
<1>2. Carries(Cursor(d.rest, <<>>), Cursor(d.rest \o x, <<>>), x)
  BY <1>1, Unnamed, MadeCarries
<1>3. Fresh(d) = Cursor(d.rest, <<>>) /\ Fresh(e) = Cursor(d.rest \o x, <<>>)
  BY <1>1, CursorIs DEF Fresh
<1> QED BY <1>2, <1>3

LEMMA ListedCarries ==
    ASSUME NEW d, NEW e, NEW x \in Bytes, Carries(d, e, x), d.ok,
           NEW r, NEW t, Carries(r, t, x), NEW name \in ListFields
    PROVE  Carries(Listed(d, name, r), Listed(e, name, t), x)
<1>1. CASE ~r.ok
  <2>1. Listed(d, name, r) = r
    BY <1>1 DEF Listed, Then
  <2> QED BY <1>1, <2>1, ThrownCarries DEF Carries
<1>2. CASE r.ok
  <2>1. /\ t = Cursor(r.rest \o x, r.m) /\ r.rest \in Bytes
        /\ e = Cursor(d.rest \o x, d.m) /\ IsFields(d.m)
    BY <1>2, LongerIs
  <2> DEFINE m == [d.m EXCEPT ![name] = Append(@, r.m)]
  <2>2. Listed(d, name, r) = Cursor(r.rest, m)
    BY <1>2 DEF Listed, Then
  <2>3. Listed(e, name, t) = Cursor(r.rest \o x, m)
    <3>1. t.ok /\ t.rest = r.rest \o x /\ t.m = r.m /\ e.m = d.m
      BY <2>1, CursorIs
    <3>2. Listed(e, name, t) = Cursor(t.rest, [e.m EXCEPT ![name] = Append(@, t.m)])
      BY <3>1 DEF Listed, Then
    <3> QED BY <3>1, <3>2
  <2>4. IsFields(m)
    <3>1. DOMAIN m = DOMAIN d.m /\ \A f \in DOMAIN m : f # name => m[f] = d.m[f]
      OBVIOUS
    <3> HIDE DEF m
    <3> QED BY <2>1, <3>1 DEF IsFields
  <2> HIDE DEF m
  <2> QED BY <2>1, <2>2, <2>3, <2>4, MadeCarries
<1> QED BY <1>1, <1>2

LEMMA LongerOk ==
    ASSUME NEW d, NEW e, NEW x, Carries(d, e, x), d.ok
    PROVE  /\ e.ok /\ e.rest = d.rest \o x /\ e.m = d.m
           /\ d.rest \in Bytes /\ IsFields(d.m) /\ IsCursor(d)
<1> DEFINE y == d.rest \o x
<1>1. e = Cursor(y, d.m) /\ d.rest \in Bytes /\ IsFields(d.m) /\ IsCursor(d)
  BY LongerIs DEF Carries
<1> HIDE DEF y
<1>2. Cursor(y, d.m).ok /\ Cursor(y, d.m).rest = y /\ Cursor(y, d.m).m = d.m
  BY CursorIs
<1>3. e.ok /\ e.rest = y /\ e.m = d.m
  BY <1>1, <1>2, Zenon
<1> QED BY <1>1, <1>3 DEF y

LEMMA HoldingList ==
    ASSUME NEW m, IsFields(m), NEW n \in ListFields, NEW v
    PROVE  IsFields(Holding(m, n, v))
<1> DEFINE h == Holding(m, n, v)
<1>1. SUFFICES ASSUME NEW f \in DOMAIN h, f \notin ListFields PROVE h[f] \in Bytes
  BY DEF IsFields
<1>2. f # n
  BY <1>1
<1>3. f \in DOMAIN m
  BY <1>2 DEF Holding
<1>4. h[f] = m[f]
  BY <1>2, <1>3, HoldingIs
<1> QED BY <1>1, <1>3, <1>4, Zenon DEF IsFields

LEMMA WithCarries ==
    ASSUME NEW d, NEW e, NEW x \in Bytes, Carries(d, e, x), d.ok,
           NEW name, NEW v, name \in ListFields \/ v \in Bytes
    PROVE  Carries(With(d, name, v), With(e, name, v), x)
<1>1. /\ e = Cursor(d.rest \o x, d.m) /\ d.rest \in Bytes /\ IsFields(d.m)
  BY LongerIs
<1> DEFINE m == Holding(d.m, name, v)
<1>2. With(d, name, v) = Cursor(d.rest, m) /\ With(e, name, v) = Cursor(d.rest \o x, m)
  BY <1>1, CursorIs DEF With
<1>3. IsFields(m)
  <2>1. CASE name \in ListFields
    BY <1>1, <2>1, HoldingList
  <2>2. CASE v \in Bytes
    BY <1>1, <2>2, HoldingTyped
  <2> QED BY <2>1, <2>2
<1> HIDE DEF m
<1> QED BY <1>1, <1>2, <1>3, MadeCarries

LEMMA ListPassCarries ==
    ASSUME NEW d, NEW e, NEW x \in Bytes, Carries(d, e, x), d.ok,
           NEW name \in ListFields, NEW l, IsLayout(l)
    PROVE  Carries(ListPass(d, name, l), ListPass(e, name, l), x)
<1>1. Carries(Read(Fresh(d), l), Read(Fresh(e), l), x)
  BY FreshCarries, ReadCarries
<1> DEFINE r == Read(Fresh(d), l)
           t == Read(Fresh(e), l)
<1>2. ListPass(d, name, l) = Listed(d, name, r) /\ ListPass(e, name, l) = Listed(e, name, t)
  BY DEF ListPass
<1> HIDE DEF r, t
<1> QED BY <1>1, <1>2, ListedCarries DEF r, t

(* The passes of ReadList. *)
LEMMA ListRuns ==
    ASSUME NEW a, NEW n \in Nat, NEW name, NEW l
    PROVE  \E r : /\ r[0] = a /\ \A k \in 1 .. n : r[k] = (IF r[k - 1].ok THEN ListPass(r[k - 1], name, l) ELSE r[k - 1])
                  /\ ListTimes(a, n, name, l) = r[n]
<1> DEFINE Runs(r, m) == r[0] = a /\ \A k \in 1 .. m : r[k] = (IF r[k - 1].ok THEN ListPass(r[k - 1], name, l) ELSE r[k - 1])
           Built(r) == [k \in 0 .. n |-> IF k = 0 THEN a ELSE (IF r[k - 1].ok THEN ListPass(r[k - 1], name, l) ELSE r[k - 1])]
           run == CHOOSE r : r = Built(r)
           S == { m \in 0 .. n : \E r : Runs(r, m) }
<1>1. Runs([k \in 0 .. 0 |-> a], 0)
  OBVIOUS
<1>2. ASSUME NEW m \in 1 .. n, NEW h, Runs(h, m - 1) PROVE \E r : Runs(r, m)
  <2> DEFINE r == [k \in 0 .. m |-> IF k = m THEN (IF h[m - 1].ok THEN ListPass(h[m - 1], name, l) ELSE h[m - 1]) ELSE h[k]]
  <2>1. r[0] = a /\ r[m] = (IF h[m - 1].ok THEN ListPass(h[m - 1], name, l) ELSE h[m - 1]) /\ \A k \in 0 .. m - 1 : r[k] = h[k]
    BY <1>2
  <2>2. \A k \in 1 .. m : k - 1 \in 0 .. m - 1 /\ (k # m => k \in 1 .. m - 1)
    OBVIOUS
  <2> HIDE DEF r
  <2>3. Runs(r, m)
    BY <1>2, <2>1, <2>2
  <2> QED BY <2>3
<1>3. PICK r : Runs(r, n)
  <2>1. 0 \in S /\ \A m \in 1 .. n : m - 1 \in S => m \in S
    <3> HIDE DEF Runs
    <3> QED BY <1>1, <1>2
  <2>2. n \in S
    <3> HIDE DEF S
    <3> QED BY <2>1, UpTo
  <2> QED BY <2>2
<1> DEFINE g == [k \in 0 .. n |-> r[k]]
<1>4. g = Built(g)
  <2>1. \A k \in 0 .. n : g[k] = IF k = 0 THEN a ELSE (IF g[k - 1].ok THEN ListPass(g[k - 1], name, l) ELSE g[k - 1])
    BY <1>3
  <2>2. g = [k \in 0 .. n |-> g[k]]
    OBVIOUS
  <2> HIDE DEF g
  <2> QED BY <2>1, <2>2
<1>5. run = Built(run)
  <2> HIDE DEF Built, g
  <2> QED BY <1>4
<1>6. Runs(run, n)
  <2> HIDE DEF run
  <2> QED BY <1>5
<1> QED BY <1>6 DEF ListTimes, Times, Then, ListPass

(* The loop of ReadList. *)
LEMMA ListLoopCarries ==
    ASSUME NEW d, NEW e, NEW x \in Bytes, Carries(d, e, x), NEW n \in Nat, NEW name \in ListFields, NEW l, IsLayout(l)
    PROVE  Carries(ListLoop(d, n, name, l), ListLoop(e, n, name, l), x)
<1> DEFINE whole == ListLoop(d, n, name, l)
           E == ListLoop(e, n, name, l)
<1>1. CASE ~d.ok
  <2>1. whole = d
    BY <1>1 DEF ListLoop, ListTimes, Repeat, Times, Then
  <2>2. Carries(d, E, x)
    BY <1>1, ThrownCarries DEF Carries
  <2> QED BY <2>1, <2>2, Zenon
<1>2. CASE d.ok
  <2>1. /\ e.ok /\ d.rest \in Bytes /\ e.rest = d.rest \o x /\ IsCursor(d)
    <3> HIDE DEF whole, E
    <3> QED BY <1>2, LongerOk
  <2>2. CASE n > Len(d.rest)
    <3>1. whole = Throw(d)
      BY <1>2, <2>2 DEF ListLoop, ListTimes, Repeat, Times, Then
    <3>2. Carries(Throw(d), E, x)
      BY <2>1, ThrownTyped, ThrownCarries
    <3> QED BY <3>1, <3>2, Zenon
  <2>3. CASE ~(n > Len(d.rest))
    <3>1. ~(n > Len(e.rest))
      <4>1. Len(d.rest \o x) = Len(d.rest) + Len(x) /\ Len(d.rest) \in Nat /\ Len(x) \in Nat
        BY <2>1, CutOf, LenProperties DEF Bytes
      <4> QED BY <2>1, <2>3, <4>1
    <3>2. PICK r : /\ r[0] = d /\ \A k \in 1 .. n : r[k] = (IF r[k - 1].ok THEN ListPass(r[k - 1], name, l) ELSE r[k - 1])
                   /\ whole = r[n]
      <4>1. \E r : /\ r[0] = d /\ \A k \in 1 .. n : r[k] = (IF r[k - 1].ok THEN ListPass(r[k - 1], name, l) ELSE r[k - 1])
                   /\ ListTimes(d, n, name, l) = r[n]
        BY ListRuns
      <4>2. whole = ListTimes(d, n, name, l)
        BY <1>2, <2>3 DEF ListLoop, ListTimes, Repeat, Times, Then
      <4> HIDE DEF whole
      <4> QED BY <4>1, <4>2
    <3>3. PICK t : /\ t[0] = e /\ \A k \in 1 .. n : t[k] = (IF t[k - 1].ok THEN ListPass(t[k - 1], name, l) ELSE t[k - 1])
                   /\ E = t[n]
      <4>1. \E t : /\ t[0] = e /\ \A k \in 1 .. n : t[k] = (IF t[k - 1].ok THEN ListPass(t[k - 1], name, l) ELSE t[k - 1])
                   /\ ListTimes(e, n, name, l) = t[n]
        BY ListRuns
      <4>2. E = ListTimes(e, n, name, l)
        BY <2>1, <3>1 DEF ListLoop, ListTimes, Repeat, Times, Then
      <4> HIDE DEF E
      <4> QED BY <4>1, <4>2
    <3> DEFINE S == { k \in 0 .. n : Carries(r[k], t[k], x) }
    <3>4. \A k \in 1 .. n : Carries(r[k - 1], t[k - 1], x) => Carries(r[k], t[k], x)
      <4> SUFFICES ASSUME NEW k \in 1 .. n, Carries(r[k - 1], t[k - 1], x)
                   PROVE  Carries(r[k], t[k], x)
        OBVIOUS
      <4> DEFINE a == r[k - 1]
                 b == t[k - 1]
      <4>1. r[k] = (IF a.ok THEN ListPass(a, name, l) ELSE a) /\ t[k] = (IF b.ok THEN ListPass(b, name, l) ELSE b)
        BY <3>2, <3>3
      <4> HIDE DEF a, b
      <4>2. Carries(a, b, x)
        BY DEF a, b
      <4>3. CASE ~a.ok
        <5>1. r[k] = a
          BY <4>1, <4>3
        <5> QED BY <4>2, <4>3, <5>1, ThrownCarries DEF Carries
      <4>4. CASE a.ok
        <5>1. b.ok
          BY <4>2, <4>4, LongerIs, CursorIs
        <5> QED BY <4>1, <4>2, <4>4, <5>1, ListPassCarries
      <4> QED BY <4>3, <4>4
    <3>5. 0 \in S /\ \A k \in 1 .. n : k - 1 \in S => k \in S
      <4>1. \A k \in 1 .. n : k \in 0 .. n
        OBVIOUS
      <4>2. Carries(r[0], t[0], x) /\ 0 \in 0 .. n
        BY <3>2, <3>3
      <4> QED BY <3>4, <4>1, <4>2
    <3>6. n \in S
      <4> HIDE DEF S
      <4>1. n \in 0 .. n
        OBVIOUS
      <4> QED BY <3>5, <4>1, UpTo
    <3>7. Carries(r[n], t[n], x)
      BY <3>6
    <3> QED BY <3>2, <3>3, <3>7, Zenon
  <2> QED BY <2>2, <2>3
<1> QED BY <1>1, <1>2

TagPass(e, texts, words, skip) ==
    Then(Get(e, U("tag", 1)), LAMBDA t : ReadTag(t, texts, words, skip))
TagTimes(d, n, texts, words, skip) ==
    Times(d, n, LAMBDA e : Then(Get(e, U("tag", 1)), LAMBDA t : ReadTag(t, texts, words, skip)))

EntryTagPass(e) ==
    Then(FTagParse(Fresh(e)), LAMBDA t : Tagged(Cursor(t.rest, e.m), t.m))
EntryTagTimes(d, n) ==
    Times(d, n, LAMBDA e : Then(FTagParse(Fresh(e)), LAMBDA t : Tagged(Cursor(t.rest, e.m), t.m)))
EntryTagLoop(d, n) ==
    Repeat(d, n, LAMBDA e : Then(FTagParse(Fresh(e)), LAMBDA t : Tagged(Cursor(t.rest, e.m), t.m)))

FilePass(e) == Listed(e, "fs", FileEntryParse(Fresh(e)))
FileTimes(d, n) == Times(d, n, LAMBDA e : Listed(e, "fs", FileEntryParse(Fresh(e))))
FileLoop(d, n) == Repeat(d, n, LAMBDA e : Listed(e, "fs", FileEntryParse(Fresh(e))))

-------------------------------------------------------------------------------
LEMMA ThrowCarries ==
    ASSUME NEW d, IsCursor(d), NEW e, NEW x
    PROVE  Carries(Throw(d), e, x)
BY ThrownTyped, ThrownCarries

(* A read of fields whose widths are known.                                 *)
LEMMA OneIs ==
    ASSUME NEW d, NEW e, NEW x \in Bytes, Carries(d, e, x), NEW name, NEW w \in Nat
    PROVE  /\ Carries(Get(d, U(name, w)), Get(e, U(name, w)), x)
           /\ Get(d, U(name, w)).ok =>
                d.ok /\ DOMAIN Get(d, U(name, w)).m = DOMAIN d.m \cup {name}
<1> DEFINE f == U(name, w)
<1>1. f.of = "none" /\ f.width = w /\ f.name = name
  BY UIs
<1> HIDE DEF f
<1>2. CanGet(d, f)
  BY <1>1 DEF CanGet
<1>3. /\ Carries(Get(d, f), Get(e, f), x)
      /\ Get(d, f).ok => d.ok /\ DOMAIN Get(d, f).m = DOMAIN d.m \cup {f.name}
  BY <1>2, GetCarries
<1> QED BY <1>1, <1>3 DEF f

LEMMA KeptCarries ==
    ASSUME NEW d, NEW e, NEW x \in Bytes, Carries(d, e, x), NEW table,
           d.ok => "tval" \in DOMAIN d.m
    PROVE  Carries(KeptTag(d, table), KeptTag(e, table), x)
<1>1. CASE ~d.ok
  <2>1. KeptTag(d, table) = d
    BY <1>1 DEF KeptTag
  <2> QED BY <1>1, <2>1, ThrownCarries DEF Carries
<1>2. CASE d.ok
  <2>1. e.ok /\ e.m = d.m /\ IsFields(d.m)
    BY <1>2, LongerOk
  <2>2. CASE Digit(d.m["tname"], 1) \in DOMAIN table
    <3> DEFINE n == table[d.m["tname"][1]]
               v == d.m["tval"]
    <3>1. KeptTag(d, table) = With(d, n, v)
      BY <1>2, <2>2 DEF KeptTag
    <3>2. KeptTag(e, table) = With(e, n, v)
      BY <2>1, <2>2 DEF KeptTag
    <3>3. v \in Bytes
      <4>1. "tval" \notin ListFields
        BY DEF ListFields
      <4> QED BY <1>2, <2>1, <4>1 DEF IsFields
    <3> HIDE DEF n, v
    <3> QED BY <1>2, <3>1, <3>2, <3>3, WithCarries
  <2>3. CASE Digit(d.m["tname"], 1) \notin DOMAIN table
    <3>1. KeptTag(d, table) = d /\ KeptTag(e, table) = e
      BY <2>1, <2>3 DEF KeptTag
    <3> QED BY <3>1
  <2> QED BY <2>2, <2>3
<1> QED BY <1>1, <1>2

LEMMA StrLayout ==
    LET l == <<U("nlen", 2), D("tname", "nlen"), U("vlen", 2), D("tval", "vlen")>>
    IN  /\ IsLayout(l) /\ \E k \in 1 .. Len(l) : l[k].name = "tval"
        /\ \E k \in 1 .. Len(l) : l[k].name = "tname"
<1> DEFINE l == <<U("nlen", 2), D("tname", "nlen"), U("vlen", 2), D("tval", "vlen")>>
<1>1. /\ Len(l) = 4 /\ l[1] = U("nlen", 2) /\ l[2] = D("tname", "nlen")
      /\ l[3] = U("vlen", 2) /\ l[4] = D("tval", "vlen")
  OBVIOUS
<1> HIDE DEF l
<1>2. /\ l[1].of = "none" /\ l[1].width = 2 /\ l[1].name = "nlen"
      /\ l[2].of = "nlen" /\ l[2].name = "tname" /\ l[3].of = "none" /\ l[3].width = 2
      /\ l[3].name = "vlen" /\ l[4].of = "vlen" /\ l[4].name = "tval"
  BY <1>1, UIs, DIs
<1>3. IsLayout(l)
  BY <1>1, <1>2 DEF IsLayout, ListFields
<1> QED BY <1>1, <1>2, <1>3 DEF l

LEMMA IntLayout ==
    LET l == <<U("nlen", 2), D("tname", "nlen"), U("tval", 4)>>
    IN  /\ IsLayout(l) /\ \E k \in 1 .. Len(l) : l[k].name = "tval"
        /\ \E k \in 1 .. Len(l) : l[k].name = "tname"
<1> DEFINE l == <<U("nlen", 2), D("tname", "nlen"), U("tval", 4)>>
<1>1. /\ Len(l) = 3 /\ l[1] = U("nlen", 2) /\ l[2] = D("tname", "nlen") /\ l[3] = U("tval", 4)
  OBVIOUS
<1> HIDE DEF l
<1>2. /\ l[1].of = "none" /\ l[1].width = 2 /\ l[1].name = "nlen"
      /\ l[2].of = "nlen" /\ l[2].name = "tname" /\ l[3].of = "none" /\ l[3].width = 4
      /\ l[3].name = "tval"
  BY <1>1, UIs, DIs
<1>3. IsLayout(l)
  BY <1>1, <1>2 DEF IsLayout, ListFields
<1> QED BY <1>1, <1>2, <1>3 DEF l

(* The buffers a tag was read into, behind cursors that hold the same.      *)
LEMMA BuffersCarry ==
    ASSUME NEW a, NEW b, IsFields(a.m), b.m = a.m,
           NEW d, NEW e, NEW x \in Bytes, Carries(d, e, x),
           d.ok => {"tname", "tval"} \subseteq DOMAIN d.m
    PROVE  /\ Carries(InBuffers(a, d), InBuffers(b, e), x)
           /\ InBuffers(a, d).ok => "tval" \in DOMAIN InBuffers(a, d).m
<1>1. CASE ~d.ok
  <2>1. InBuffers(a, d) = d
    BY <1>1 DEF InBuffers
  <2> QED BY <1>1, <2>1, ThrownCarries DEF Carries
<1>2. CASE d.ok
  <2>1. e.ok /\ e.m = d.m /\ IsCursor(d)
    BY <1>2, LongerOk DEF Carries
  <2> DEFINE long == Len(d.m["tname"]) > BufLen \/ Len(d.m["tval"]) > BufLen
             stale == d.m["tname"] = <<>> /\ "tname" \in DOMAIN a.m
             v == a.m["tname"]
  <2>2. /\ long => InBuffers(a, d) = Throw(d) /\ InBuffers(b, e) = Throw(e)
        /\ ~long /\ stale => /\ InBuffers(a, d) = With(d, "tname", v)
                             /\ InBuffers(b, e) = With(e, "tname", v)
        /\ ~long /\ ~stale => InBuffers(a, d) = d /\ InBuffers(b, e) = e
    BY <1>2, <2>1 DEF InBuffers
  <2>3. stale => v \in Bytes
    <3>1. "tname" \notin ListFields
      BY DEF ListFields
    <3> QED BY <3>1 DEF IsFields
  <2> HIDE DEF long, stale, v
  <2>4. CASE long
    BY <2>1, <2>2, <2>4, ThrowCarries, ThrowIs
  <2>5. CASE ~long /\ stale
    <3>1. Carries(With(d, "tname", v), With(e, "tname", v), x)
      BY <1>2, <2>3, <2>5, WithCarries
    <3>2. With(d, "tname", v) = Cursor(d.rest, Holding(d.m, "tname", v))
      BY DEF With
    <3>3. "tval" \in DOMAIN With(d, "tname", v).m
      <4>1. "tval" \in DOMAIN Holding(d.m, "tname", v)
        <5>1. "tval" \in DOMAIN d.m
          BY <1>2
        <5>2. DOMAIN Holding(d.m, "tname", v) = DOMAIN d.m \cup {"tname"}
          BY HoldingIs, Zenon
        <5> QED BY <5>1, <5>2, Zenon
      <4>2. With(d, "tname", v).m = Holding(d.m, "tname", v)
        BY <3>2, CursorIs
      <4> QED BY <4>1, <4>2, Zenon
    <3> QED BY <2>2, <2>5, <3>1, <3>3
  <2>6. CASE ~long /\ ~stale
    BY <1>2, <2>2, <2>6
  <2> QED BY <2>4, <2>5, <2>6
<1> QED BY <1>1, <1>2

(* A read that ends with the value of a tag, and what is kept of it.        *)
LEMMA KeptReadCarries ==
    ASSUME NEW d, NEW e, NEW x \in Bytes, Carries(d, e, x), d.ok, NEW table, NEW l, IsLayout(l),
           \E k \in 1 .. Len(l) : l[k].name = "tval",
           \E k \in 1 .. Len(l) : l[k].name = "tname"
    PROVE  Carries(KeptTag(InBuffers(d, Read(d, l)), table),
                   KeptTag(InBuffers(e, Read(e, l)), table), x)
<1>1. e.m = d.m /\ IsFields(d.m)
  BY LongerOk DEF Carries, IsCursor
<1>2. /\ Carries(Read(d, l), Read(e, l), x)
      /\ Read(d, l).ok => {"tname", "tval"} \subseteq DOMAIN Read(d, l).m
  BY ReadCarries
<1>3. /\ Carries(InBuffers(d, Read(d, l)), InBuffers(e, Read(e, l)), x)
      /\ InBuffers(d, Read(d, l)).ok => "tval" \in DOMAIN InBuffers(d, Read(d, l)).m
  BY <1>1, <1>2, BuffersCarry
<1> QED BY <1>3, KeptCarries

LEMMA TagPassCarries ==
    ASSUME NEW d, NEW e, NEW x \in Bytes, Carries(d, e, x), d.ok,
           NEW texts, NEW words, NEW skip
    PROVE  Carries(TagPass(d, texts, words, skip), TagPass(e, texts, words, skip), x)
<1> DEFINE a == Get(d, U("tag", 1))
           b == Get(e, U("tag", 1))
           sl == <<U("nlen", 2), D("tname", "nlen"), U("vlen", 2), D("tval", "vlen")>>
           il == <<U("nlen", 2), D("tname", "nlen"), U("tval", 4)>>
<1>1. Carries(a, b, x)
  BY OneIs
<1>2. /\ TagPass(d, texts, words, skip) = IF a.ok THEN ReadTag(a, texts, words, skip) ELSE a
      /\ TagPass(e, texts, words, skip) = IF b.ok THEN ReadTag(b, texts, words, skip) ELSE b
  BY DEF TagPass, Then
<1>3. \A c : ReadTag(c, texts, words, skip) =
               IF Num(c.m["tag"]) = STR_TAG THEN KeptTag(InBuffers(c, Read(c, sl)), texts)
               ELSE IF skip /\ Num(c.m["tag"]) = INT_TAG
                 THEN KeptTag(InBuffers(c, Read(c, il)), words)
               ELSE IF skip THEN c ELSE Throw(c)
  BY Zenon DEF ReadTag
<1>4. /\ IsLayout(sl) /\ \E k \in 1 .. Len(sl) : sl[k].name = "tval"
      /\ IsLayout(il) /\ \E k \in 1 .. Len(il) : il[k].name = "tval"
      /\ \E k \in 1 .. Len(sl) : sl[k].name = "tname"
      /\ \E k \in 1 .. Len(il) : il[k].name = "tname"
  BY StrLayout, IntLayout, Zenon
<1> HIDE DEF a, b, sl, il
<1>5. CASE ~a.ok
  BY <1>1, <1>2, <1>5, ThrownCarries DEF Carries
<1>6. CASE a.ok
  <2>1. b.ok /\ b.m = a.m /\ IsCursor(a)
    BY <1>1, <1>6, LongerOk
  <2>2. /\ Carries(KeptTag(InBuffers(a, Read(a, sl)), texts),
                   KeptTag(InBuffers(b, Read(b, sl)), texts), x)
        /\ Carries(KeptTag(InBuffers(a, Read(a, il)), words),
                   KeptTag(InBuffers(b, Read(b, il)), words), x)
        /\ Carries(Throw(a), Throw(b), x)
    BY <1>1, <1>4, <1>6, <2>1, KeptReadCarries, ThrowCarries
  <2>3. Carries(ReadTag(a, texts, words, skip), ReadTag(b, texts, words, skip), x)
    <3> DEFINE isStr == Num(a.m["tag"]) = STR_TAG
               isInt == Num(a.m["tag"]) = INT_TAG
    <3>1. /\ isStr => /\ ReadTag(a, texts, words, skip) = KeptTag(InBuffers(a, Read(a, sl)), texts)
                      /\ ReadTag(b, texts, words, skip) = KeptTag(InBuffers(b, Read(b, sl)), texts)
          /\ ~isStr /\ skip /\ isInt =>
               /\ ReadTag(a, texts, words, skip) = KeptTag(InBuffers(a, Read(a, il)), words)
               /\ ReadTag(b, texts, words, skip) = KeptTag(InBuffers(b, Read(b, il)), words)
          /\ ~isStr /\ ~(skip /\ isInt) /\ skip =>
               /\ ReadTag(a, texts, words, skip) = a
               /\ ReadTag(b, texts, words, skip) = b
          /\ ~isStr /\ ~skip => /\ ReadTag(a, texts, words, skip) = Throw(a)
                               /\ ReadTag(b, texts, words, skip) = Throw(b)
      BY <1>3, <2>1
    <3> HIDE DEF isStr, isInt
    <3> QED BY <1>1, <2>2, <3>1, Zenon
  <2> QED BY <1>2, <1>6, <2>1, <2>3, Zenon
<1> QED BY <1>5, <1>6

(* The passes of ReadTags. *)
LEMMA TagRuns ==
    ASSUME NEW a, NEW n \in Nat, NEW texts, NEW words, NEW skip
    PROVE  \E r : /\ r[0] = a /\ \A k \in 1 .. n : r[k] = (IF r[k - 1].ok THEN TagPass(r[k - 1], texts, words, skip) ELSE r[k - 1])
                  /\ TagTimes(a, n, texts, words, skip) = r[n]
<1> DEFINE Runs(r, m) == r[0] = a /\ \A k \in 1 .. m : r[k] = (IF r[k - 1].ok THEN TagPass(r[k - 1], texts, words, skip) ELSE r[k - 1])
           Built(r) == [k \in 0 .. n |-> IF k = 0 THEN a ELSE (IF r[k - 1].ok THEN TagPass(r[k - 1], texts, words, skip) ELSE r[k - 1])]
           run == CHOOSE r : r = Built(r)
           S == { m \in 0 .. n : \E r : Runs(r, m) }
<1>1. Runs([k \in 0 .. 0 |-> a], 0)
  OBVIOUS
<1>2. ASSUME NEW m \in 1 .. n, NEW h, Runs(h, m - 1) PROVE \E r : Runs(r, m)
  <2> DEFINE r == [k \in 0 .. m |-> IF k = m THEN (IF h[m - 1].ok THEN TagPass(h[m - 1], texts, words, skip) ELSE h[m - 1]) ELSE h[k]]
  <2>1. r[0] = a /\ r[m] = (IF h[m - 1].ok THEN TagPass(h[m - 1], texts, words, skip) ELSE h[m - 1]) /\ \A k \in 0 .. m - 1 : r[k] = h[k]
    BY <1>2
  <2>2. \A k \in 1 .. m : k - 1 \in 0 .. m - 1 /\ (k # m => k \in 1 .. m - 1)
    OBVIOUS
  <2> HIDE DEF r
  <2>3. Runs(r, m)
    BY <1>2, <2>1, <2>2
  <2> QED BY <2>3
<1>3. PICK r : Runs(r, n)
  <2>1. 0 \in S /\ \A m \in 1 .. n : m - 1 \in S => m \in S
    <3> HIDE DEF Runs
    <3> QED BY <1>1, <1>2
  <2>2. n \in S
    <3> HIDE DEF S
    <3> QED BY <2>1, UpTo
  <2> QED BY <2>2
<1> DEFINE g == [k \in 0 .. n |-> r[k]]
<1>4. g = Built(g)
  <2>1. \A k \in 0 .. n : g[k] = IF k = 0 THEN a ELSE (IF g[k - 1].ok THEN TagPass(g[k - 1], texts, words, skip) ELSE g[k - 1])
    BY <1>3
  <2>2. g = [k \in 0 .. n |-> g[k]]
    OBVIOUS
  <2> HIDE DEF g
  <2> QED BY <2>1, <2>2
<1>5. run = Built(run)
  <2> HIDE DEF Built, g
  <2> QED BY <1>4
<1>6. Runs(run, n)
  <2> HIDE DEF run
  <2> QED BY <1>5
<1> QED BY <1>6 DEF TagTimes, Times, Then, TagPass

(* The loop of ReadTags. *)
LEMMA ReadTagsCarries ==
    ASSUME NEW d, NEW e, NEW x \in Bytes, Carries(d, e, x), NEW n \in Nat, NEW texts, NEW words, NEW skip
    PROVE  Carries(ReadTags(d, n, texts, words, skip), ReadTags(e, n, texts, words, skip), x)
<1> DEFINE whole == ReadTags(d, n, texts, words, skip)
           E == ReadTags(e, n, texts, words, skip)
<1>1. CASE ~d.ok
  <2>1. whole = d
    BY <1>1 DEF ReadTags, TagTimes, Repeat, Times, Then
  <2>2. Carries(d, E, x)
    BY <1>1, ThrownCarries DEF Carries
  <2> QED BY <2>1, <2>2, Zenon
<1>2. CASE d.ok
  <2>1. /\ e.ok /\ d.rest \in Bytes /\ e.rest = d.rest \o x /\ IsCursor(d)
    <3> HIDE DEF whole, E
    <3> QED BY <1>2, LongerOk
  <2>2. CASE n > Len(d.rest)
    <3>1. whole = Throw(d)
      BY <1>2, <2>2 DEF ReadTags, TagTimes, Repeat, Times, Then
    <3>2. Carries(Throw(d), E, x)
      BY <2>1, ThrownTyped, ThrownCarries
    <3> QED BY <3>1, <3>2, Zenon
  <2>3. CASE ~(n > Len(d.rest))
    <3>1. ~(n > Len(e.rest))
      <4>1. Len(d.rest \o x) = Len(d.rest) + Len(x) /\ Len(d.rest) \in Nat /\ Len(x) \in Nat
        BY <2>1, CutOf, LenProperties DEF Bytes
      <4> QED BY <2>1, <2>3, <4>1
    <3>2. PICK r : /\ r[0] = d /\ \A k \in 1 .. n : r[k] = (IF r[k - 1].ok THEN TagPass(r[k - 1], texts, words, skip) ELSE r[k - 1])
                   /\ whole = r[n]
      <4>1. \E r : /\ r[0] = d /\ \A k \in 1 .. n : r[k] = (IF r[k - 1].ok THEN TagPass(r[k - 1], texts, words, skip) ELSE r[k - 1])
                   /\ TagTimes(d, n, texts, words, skip) = r[n]
        BY TagRuns
      <4>2. whole = TagTimes(d, n, texts, words, skip)
        BY <1>2, <2>3 DEF ReadTags, TagTimes, Repeat, Times, Then
      <4> HIDE DEF whole
      <4> QED BY <4>1, <4>2
    <3>3. PICK t : /\ t[0] = e /\ \A k \in 1 .. n : t[k] = (IF t[k - 1].ok THEN TagPass(t[k - 1], texts, words, skip) ELSE t[k - 1])
                   /\ E = t[n]
      <4>1. \E t : /\ t[0] = e /\ \A k \in 1 .. n : t[k] = (IF t[k - 1].ok THEN TagPass(t[k - 1], texts, words, skip) ELSE t[k - 1])
                   /\ TagTimes(e, n, texts, words, skip) = t[n]
        BY TagRuns
      <4>2. E = TagTimes(e, n, texts, words, skip)
        BY <2>1, <3>1 DEF ReadTags, TagTimes, Repeat, Times, Then
      <4> HIDE DEF E
      <4> QED BY <4>1, <4>2
    <3> DEFINE S == { k \in 0 .. n : Carries(r[k], t[k], x) }
    <3>4. \A k \in 1 .. n : Carries(r[k - 1], t[k - 1], x) => Carries(r[k], t[k], x)
      <4> SUFFICES ASSUME NEW k \in 1 .. n, Carries(r[k - 1], t[k - 1], x)
                   PROVE  Carries(r[k], t[k], x)
        OBVIOUS
      <4> DEFINE a == r[k - 1]
                 b == t[k - 1]
      <4>1. r[k] = (IF a.ok THEN TagPass(a, texts, words, skip) ELSE a) /\ t[k] = (IF b.ok THEN TagPass(b, texts, words, skip) ELSE b)
        BY <3>2, <3>3
      <4> HIDE DEF a, b
      <4>2. Carries(a, b, x)
        BY DEF a, b
      <4>3. CASE ~a.ok
        <5>1. r[k] = a
          BY <4>1, <4>3
        <5> QED BY <4>2, <4>3, <5>1, ThrownCarries DEF Carries
      <4>4. CASE a.ok
        <5>1. b.ok
          BY <4>2, <4>4, LongerIs, CursorIs
        <5> QED BY <4>1, <4>2, <4>4, <5>1, TagPassCarries
      <4> QED BY <4>3, <4>4
    <3>5. 0 \in S /\ \A k \in 1 .. n : k - 1 \in S => k \in S
      <4>1. \A k \in 1 .. n : k \in 0 .. n
        OBVIOUS
      <4>2. Carries(r[0], t[0], x) /\ 0 \in 0 .. n
        BY <3>2, <3>3
      <4> QED BY <3>4, <4>1, <4>2
    <3>6. n \in S
      <4> HIDE DEF S
      <4>1. n \in 0 .. n
        OBVIOUS
      <4> QED BY <3>5, <4>1, UpTo
    <3>7. Carries(r[n], t[n], x)
      BY <3>6
    <3> QED BY <3>2, <3>3, <3>7, Zenon
  <2> QED BY <2>2, <2>3
<1> QED BY <1>1, <1>2

-------------------------------------------------------------------------------
(* Layouts of fixed widths, and of one text.                                *)
LEMMA Fixed1 ==
    ASSUME NEW n1, NEW w1 \in Nat
    PROVE  LET l == <<U(n1, w1)>> IN IsLayout(l) /\ Len(l) = 1 /\ l[1].name = n1
<1> DEFINE l == <<U(n1, w1)>>
<1>1. Len(l) = 1 /\ l[1] = U(n1, w1)
  OBVIOUS
<1> HIDE DEF l
<1>2. l[1].of = "none" /\ l[1].width = w1 /\ l[1].name = n1
  BY <1>1, UIs
<1>3. IsLayout(l)
  BY <1>1, <1>2 DEF IsLayout
<1> QED BY <1>1, <1>2, <1>3 DEF l

LEMMA Fixed2 ==
    ASSUME NEW n1, NEW n2, NEW w1 \in Nat, NEW w2 \in Nat
    PROVE  LET l == <<U(n1, w1), U(n2, w2)>>
           IN  IsLayout(l) /\ Len(l) = 2 /\ l[1].name = n1 /\ l[2].name = n2
<1> DEFINE l == <<U(n1, w1), U(n2, w2)>>
<1>1. Len(l) = 2 /\ l[1] = U(n1, w1) /\ l[2] = U(n2, w2)
  OBVIOUS
<1> HIDE DEF l
<1>2. /\ l[1].of = "none" /\ l[1].width = w1 /\ l[1].name = n1
      /\ l[2].of = "none" /\ l[2].width = w2 /\ l[2].name = n2
  BY <1>1, UIs
<1>3. IsLayout(l)
  BY <1>1, <1>2 DEF IsLayout
<1> QED BY <1>1, <1>2, <1>3 DEF l

LEMMA Fixed3 ==
    ASSUME NEW n1, NEW n2, NEW n3, NEW w1 \in Nat, NEW w2 \in Nat, NEW w3 \in Nat
    PROVE  LET l == <<U(n1, w1), U(n2, w2), U(n3, w3)>>
           IN  /\ IsLayout(l) /\ Len(l) = 3
               /\ l[1].name = n1 /\ l[2].name = n2 /\ l[3].name = n3
<1> DEFINE l == <<U(n1, w1), U(n2, w2), U(n3, w3)>>
<1>1. Len(l) = 3 /\ l[1] = U(n1, w1) /\ l[2] = U(n2, w2) /\ l[3] = U(n3, w3)
  OBVIOUS
<1> HIDE DEF l
<1>2. /\ l[1].of = "none" /\ l[1].width = w1 /\ l[1].name = n1
      /\ l[2].of = "none" /\ l[2].width = w2 /\ l[2].name = n2
      /\ l[3].of = "none" /\ l[3].width = w3 /\ l[3].name = n3
  BY <1>1, UIs
<1>3. IsLayout(l)
  BY <1>1, <1>2 DEF IsLayout
<1> QED BY <1>1, <1>2, <1>3 DEF l

LEMMA Fixed4 ==
    ASSUME NEW n1, NEW n2, NEW n3, NEW n4,
           NEW w1 \in Nat, NEW w2 \in Nat, NEW w3 \in Nat, NEW w4 \in Nat
    PROVE  LET l == <<U(n1, w1), U(n2, w2), U(n3, w3), U(n4, w4)>>
           IN  IsLayout(l) /\ Len(l) = 4 /\ l[4].name = n4
<1> DEFINE l == <<U(n1, w1), U(n2, w2), U(n3, w3), U(n4, w4)>>
<1>1. Len(l) = 4 /\ l[1] = U(n1, w1) /\ l[2] = U(n2, w2) /\ l[3] = U(n3, w3) /\ l[4] = U(n4, w4)
  OBVIOUS
<1> HIDE DEF l
<1>2. /\ l[1].of = "none" /\ l[1].width = w1 /\ l[2].of = "none" /\ l[2].width = w2
      /\ l[3].of = "none" /\ l[3].width = w3 /\ l[4].of = "none" /\ l[4].width = w4
      /\ l[4].name = n4
  BY <1>1, UIs
<1>3. IsLayout(l)
  BY <1>1, <1>2 DEF IsLayout
<1> QED BY <1>1, <1>2, <1>3 DEF l

LEMMA Text1 ==
    ASSUME NEW n1, n1 \notin ListFields, n1 # "none", NEW n2, NEW w1 \in Nat
    PROVE  IsLayout(<<U(n1, w1), D(n2, n1)>>)
<1> DEFINE l == <<U(n1, w1), D(n2, n1)>>
<1>1. Len(l) = 2 /\ l[1] = U(n1, w1) /\ l[2] = D(n2, n1)
  OBVIOUS
<1> HIDE DEF l
<1>2. /\ l[1].of = "none" /\ l[1].width = w1 /\ l[1].name = n1
      /\ l[2].of = n1
  BY <1>1, UIs, DIs
<1>3. IsLayout(l)
  BY <1>1, <1>2 DEF IsLayout
<1> QED BY <1>3 DEF l

LEMMA Text2 ==
    ASSUME NEW n0, NEW n1, n1 \notin ListFields, n1 # "none", NEW n2,
           NEW w0 \in Nat, NEW w1 \in Nat
    PROVE  IsLayout(<<U(n0, w0), U(n1, w1), D(n2, n1)>>)
<1> DEFINE l == <<U(n0, w0), U(n1, w1), D(n2, n1)>>
<1>1. Len(l) = 3 /\ l[1] = U(n0, w0) /\ l[2] = U(n1, w1) /\ l[3] = D(n2, n1)
  OBVIOUS
<1> HIDE DEF l
<1>2. /\ l[1].of = "none" /\ l[1].width = w0
      /\ l[2].of = "none" /\ l[2].width = w1 /\ l[2].name = n1
      /\ l[3].of = n1
  BY <1>1, UIs, DIs
<1>3. IsLayout(l)
  BY <1>1, <1>2 DEF IsLayout
<1> QED BY <1>3 DEF l

LEMMA Turned2 ==
    ASSUME NEW n1, NEW n2, NEW w1 \in Nat, NEW w2 \in Nat
    PROVE  IsLayout(<<B(n1, w1), U(n2, w2)>>)
<1> DEFINE l == <<B(n1, w1), U(n2, w2)>>
<1>1. Len(l) = 2 /\ l[1] = B(n1, w1) /\ l[2] = U(n2, w2)
  OBVIOUS
<1> HIDE DEF l
<1>2. l[1].of = "none" /\ l[1].width = w1 /\ l[2].of = "none" /\ l[2].width = w2
  BY <1>1, UIs, BIs
<1>3. IsLayout(l)
  BY <1>1, <1>2 DEF IsLayout
<1> QED BY <1>3 DEF l

LEMMA Turned3 ==
    ASSUME NEW n1, NEW n2, NEW n3, NEW w1 \in Nat, NEW w2 \in Nat, NEW w3 \in Nat
    PROVE  IsLayout(<<B(n1, w1), U(n2, w2), U(n3, w3)>>)
<1> DEFINE l == <<B(n1, w1), U(n2, w2), U(n3, w3)>>
<1>1. Len(l) = 3 /\ l[1] = B(n1, w1) /\ l[2] = U(n2, w2) /\ l[3] = U(n3, w3)
  OBVIOUS
<1> HIDE DEF l
<1>2. /\ l[1].of = "none" /\ l[1].width = w1 /\ l[2].of = "none" /\ l[2].width = w2
      /\ l[3].of = "none" /\ l[3].width = w3
  BY <1>1, UIs, BIs
<1>3. IsLayout(l)
  BY <1>1, <1>2 DEF IsLayout
<1> QED BY <1>3 DEF l

-------------------------------------------------------------------------------
(* What is done with a cursor that is ok, and what is done with a longer    *)
(* one, by the rest of Then.                                                *)
LEMMA NumOfField ==
    ASSUME NEW d, NEW e, NEW x, Carries(d, e, x), d.ok,
           NEW f, f \in DOMAIN d.m, f \notin ListFields
    PROVE  Num(d.m[f]) \in Nat /\ d.m[f] \in Bytes /\ e.m = d.m
<1>1. IsFields(d.m) /\ e.m = d.m
  BY LongerOk
<1> QED BY <1>1, NumTyped DEF IsFields

LEMMA LeTyped ==
    ASSUME NEW n \in Nat, NEW w \in Int
    PROVE  Le(n, w) \in Bytes
<1> DEFINE k == IF w < 0 THEN 0 ELSE w
           v(i) == CASE i = 1 -> n % 256
                     [] i = 2 -> (n \div 256) % 256
                     [] i = 3 -> ((n \div 256) \div 256) % 256
                     [] OTHER -> 0
<1>1. 1 .. w = 1 .. k /\ k \in Nat
  OBVIOUS
<1>2. \A i \in 1 .. k : v(i) \in Nat
  <2>1. n % 256 \in Nat /\ n \div 256 \in Nat
    OBVIOUS
  <2>2. (n \div 256) % 256 \in Nat /\ (n \div 256) \div 256 \in Nat
    BY <2>1
  <2>3. ((n \div 256) \div 256) % 256 \in Nat
    BY <2>2
  <2> QED BY <2>1, <2>2, <2>3
<1>3. Le(n, w) = [i \in 1 .. k |-> v(i)]
  BY <1>1 DEF Le
<1> HIDE DEF v, k
<1>4. [i \in 1 .. k |-> v(i)] \in Seq(Nat)
  BY <1>1, <1>2, IsASeq
<1> QED BY <1>3, <1>4 DEF Bytes

LEMMA WidenedTyped ==
    ASSUME NEW b \in Bytes, NEW w \in Nat
    PROVE  Widened(b, w) \in Bytes
<1>1. Len(b) \in Nat /\ w - Len(b) \in Int
  BY LenProperties DEF Bytes
<1>2. Le(0, w - Len(b)) \in Bytes
  BY <1>1, LeTyped
<1> QED BY <1>2, CutOf DEF Widened

LEMMA TextCarries ==
    ASSUME NEW d, NEW e, NEW x \in Bytes, Carries(d, e, x), NEW name, NEW len \in Nat
    PROVE  Carries(GetString(d, name, len), GetString(e, name, len), x)
<1>1. CASE len # 0
  <2>1. GetString(d, name, len) = Get(d, U(name, len)) /\ GetString(e, name, len) = Get(e, U(name, len))
    BY <1>1 DEF GetString
  <2> QED BY <2>1, OneIs
<1>2. CASE len = 0
  <2> DEFINE l == <<U("slen", 2), D(name, "slen")>>
  <2>1. GetString(d, name, len) = Read(d, l) /\ GetString(e, name, len) = Read(e, l)
    BY <1>2 DEF GetString
  <2>2. IsLayout(l)
    BY Text1 DEF ListFields
  <2> HIDE DEF l
  <2> QED BY <2>1, <2>2, ReadCarries
<1> QED BY <1>1, <1>2

LEMMA TagValueCarries ==
    ASSUME NEW d, NEW e, NEW x \in Bytes, Carries(d, e, x), d.ok, NEW type
    PROVE  Carries(TagValue(d, type), TagValue(e, type), x)
<1> DEFINE A(c) == GetString(c, "sval", 0)
           Four(c) == Get(c, U("num", 4))
           Eight(c) == Get(c, U("num", 8))
           Two(c) == Get(c, U("num", 2))
           One(c) == Get(c, U("num", 1))
           n == type - TagType.STR1 + 1
           String(c) == GetString(c, "sval", n)
           Hash(c) == Get(c, U("sval", 16))
           Blob(c) == Read(c, <<U("blen", 4), D("sval", "blen")>>)
<1>1. \A c : TagValue(c, type) =
        CASE type = TagType.STRING -> A(c)
          [] type = TagType.UINT32 -> Four(c)
          [] type = TagType.UINT64 -> Eight(c)
          [] type = TagType.UINT16 -> Two(c)
          [] type = TagType.UINT8  -> One(c)
          [] type \in {TagType.FLOAT32, TagType.BOOL, TagType.BOOLARRAY} -> c
          [] type \in TagType.STR1..TagType.STR16 -> String(c)
          [] type = TagType.HASH -> Hash(c)
          [] type = TagType.BLOB -> Blob(c)
          [] OTHER -> Throw(c)
  BY DEF TagValue
<1>2. /\ Carries(A(d), A(e), x) /\ Carries(Four(d), Four(e), x) /\ Carries(Eight(d), Eight(e), x)
      /\ Carries(Two(d), Two(e), x) /\ Carries(One(d), One(e), x) /\ Carries(Hash(d), Hash(e), x)
  BY TextCarries, OneIs
<1>3. type \in TagType.STR1..TagType.STR16 => Carries(String(d), String(e), x)
  <2>1. type \in TagType.STR1..TagType.STR16 => n \in Nat
    BY DEF TagType
  <2> HIDE DEF n
  <2> QED BY <2>1, TextCarries
<1>4. Carries(Blob(d), Blob(e), x)
  <2> DEFINE l == <<U("blen", 4), D("sval", "blen")>>
  <2>1. IsLayout(l)
    BY Text1 DEF ListFields
  <2> HIDE DEF l
  <2>2. Carries(Read(d, l), Read(e, l), x)
    BY <2>1, ReadCarries
  <2> QED BY <2>2 DEF l
<1>5. Carries(Throw(d), Throw(e), x)
  BY ThrowCarries DEF Carries
<1> HIDE DEF A, Four, Eight, Two, One, String, Hash, Blob
<1> QED BY <1>1, <1>2, <1>3, <1>4, <1>5 DEF TagType

(* What follows unless it has thrown.                                       *)
LEMMA ThenCarries ==
    ASSUME NEW a, NEW b, NEW x, Carries(a, b, x), NEW c, NEW g, a.ok => Carries(c, g, x)
    PROVE  Carries(IF a.ok THEN c ELSE a, IF b.ok THEN g ELSE b, x)
<1>1. CASE ~a.ok
  <2> DEFINE h == IF b.ok THEN g ELSE b
  <2>1. Carries(a, h, x)
    BY <1>1, ThrownCarries DEF Carries
  <2> HIDE DEF h
  <2>2. Carries(IF a.ok THEN c ELSE a, h, x)
    BY <1>1, <2>1
  <2> QED BY <2>2 DEF h
<1>2. CASE a.ok
  <2>1. b.ok
    BY <1>2, LongerOk
  <2> QED BY <1>2, <2>1
<1> QED BY <1>1, <1>2

LEMMA OneByte == <<0>> \in Bytes
BY DEF Bytes

LEMMA TagNameCarries ==
    ASSUME NEW d, NEW e, NEW x \in Bytes, Carries(d, e, x), d.ok
    PROVE  Carries(TagName(d), TagName(e), x)
<1> DEFINE u(c) == Get(c, U("uname", 1))
           a == Get(d, U("nlen", 2))
           b == Get(e, U("nlen", 2))
           s(c) == GetString(With(c, "uname", <<0>>), "sname", Num(c.m["nlen"]))
           f(c) == IF Num(c.m["nlen"]) = 1 THEN u(c) ELSE s(c)
<1>1. /\ TagName(d) = IF Num(d.m["type"]) >= 128 THEN u(d) ELSE IF a.ok THEN f(a) ELSE a
      /\ TagName(e) = IF Num(e.m["type"]) >= 128 THEN u(e) ELSE IF b.ok THEN f(b) ELSE b
  BY DEF TagName, Then
<1>2. e.m = d.m
  BY LongerOk
<1>3. Carries(u(d), u(e), x)
  BY OneIs
<1>4. Carries(a, b, x) /\ (a.ok => "nlen" \in DOMAIN a.m)
  BY OneIs
<1>5. a.ok => Carries(f(a), f(b), x)
  <2> SUFFICES ASSUME a.ok PROVE Carries(f(a), f(b), x)
    OBVIOUS
  <2>1. Num(a.m["nlen"]) \in Nat /\ b.m = a.m
    BY <1>4, NumOfField DEF ListFields
  <2>2. Carries(u(a), u(b), x)
    BY <1>4, OneIs
  <2>3. Carries(s(a), s(b), x)
    <3>1. Carries(With(a, "uname", <<0>>), With(b, "uname", <<0>>), x)
      BY <1>4, OneByte, WithCarries
    <3> DEFINE k == Num(a.m["nlen"])
               wa == With(a, "uname", <<0>>)
               wb == With(b, "uname", <<0>>)
    <3>2. s(a) = GetString(wa, "sname", k) /\ s(b) = GetString(wb, "sname", k)
      BY <2>1
    <3>3. k \in Nat
      BY <2>1
    <3> HIDE DEF k, wa, wb
    <3>4. Carries(GetString(wa, "sname", k), GetString(wb, "sname", k), x)
      BY <3>1, <3>3, TextCarries DEF wa, wb
    <3> QED BY <3>2, <3>4
  <2> HIDE DEF u, s, a, b
  <2> QED BY <2>1, <2>2, <2>3
<1> DEFINE ga == IF a.ok THEN f(a) ELSE a
           gb == IF b.ok THEN f(b) ELSE b
<1>6. Carries(ga, gb, x)
  <2> DEFINE fa == f(a)
             fb == f(b)
  <2> HIDE DEF fa, fb, a, b
  <2>1. Carries(a, b, x) /\ (a.ok => Carries(fa, fb, x))
    BY <1>4, <1>5 DEF fa, fb
  <2>2. Carries(IF a.ok THEN fa ELSE a, IF b.ok THEN fb ELSE b, x)
    BY <2>1, ThenCarries
  <2> QED BY <2>2 DEF fa, fb
<1>7. /\ TagName(d) = IF Num(d.m["type"]) >= 128 THEN u(d) ELSE ga
      /\ TagName(e) = IF Num(e.m["type"]) >= 128 THEN u(e) ELSE gb
  BY <1>1
<1> HIDE DEF ga, gb, u
<1> QED BY <1>2, <1>3, <1>6, <1>7

LEMMA FTagParseCarries ==
    ASSUME NEW d, NEW e, NEW x \in Bytes, Carries(d, e, x)
    PROVE  Carries(FTagParse(d), FTagParse(e), x)
<1> DEFINE a == Get(d, U("type", 1))
           b == Get(e, U("type", 1))
           na == TagName(a)
           nb == TagName(b)
           ta == IF a.ok THEN na ELSE a
           tb == IF b.ok THEN nb ELSE b
           va == TagValue(ta, Num(ta.m["type"]) % 128)
           vb == TagValue(tb, Num(tb.m["type"]) % 128)
<1>1. FTagParse(d) = IF ta.ok THEN va ELSE ta
  BY DEF FTagParse, Then
<1>2. FTagParse(e) = IF tb.ok THEN vb ELSE tb
  BY DEF FTagParse, Then
<1>3. Carries(a, b, x)
  BY OneIs
<1>4. a.ok => Carries(na, nb, x)
  <2> HIDE DEF a, b
  <2> QED BY <1>3, TagNameCarries
<1>5. Carries(ta, tb, x)
  <2> HIDE DEF a, b, na, nb
  <2> QED BY <1>3, <1>4, ThenCarries
<1>6. ta.ok => Carries(va, vb, x)
  <2> SUFFICES ASSUME ta.ok PROVE Carries(va, vb, x)
    OBVIOUS
  <2> DEFINE k == Num(ta.m["type"]) % 128
  <2>1. tb.m = ta.m
    <3> HIDE DEF ta, tb
    <3> QED BY <1>5, LongerOk
  <2>2. va = TagValue(ta, k) /\ vb = TagValue(tb, k)
    <3> HIDE DEF ta, tb
    <3> QED BY <2>1
  <2> HIDE DEF k, ta, tb, va, vb
  <2>3. Carries(TagValue(ta, k), TagValue(tb, k), x)
    BY <1>5, TagValueCarries
  <2> QED BY <2>2, <2>3
<1> HIDE DEF ta, tb, va, vb
<1> QED BY <1>1, <1>2, <1>5, <1>6, ThenCarries

LEMMA ValuesTyped ==
    ASSUME NEW t, IsFields(t)
    PROVE  sval(t) \in Bytes /\ u64v(t) \in Bytes /\ u32v(t) \in Bytes /\ u8v(t) \in Bytes
<1>1. "sval" \notin ListFields /\ "num" \notin ListFields
  BY DEF ListFields
<1>2. /\ "sval" \in DOMAIN t => t["sval"] \in Bytes
      /\ "num" \in DOMAIN t => t["num"] \in Bytes
  BY <1>1 DEF IsFields
<1>3. Le(0, 8) \in Bytes /\ Le(0, 4) \in Bytes /\ Le(0, 1) \in Bytes
  BY LeTyped
<1>4. <<>> \in Bytes
  BY DEF Bytes
<1>5. sval(t) \in Bytes
  BY <1>2, <1>4 DEF sval
<1>6. /\ "num" \in DOMAIN t => Widened(t["num"], 8) \in Bytes
      /\ "num" \in DOMAIN t => Widened(t["num"], 4) \in Bytes
  BY <1>2, WidenedTyped
<1>7. u64v(t) \in Bytes
  BY <1>3, <1>6 DEF u64v
<1>8. u32v(t) \in Bytes
  BY <1>3, <1>6 DEF u32v
<1>9. u8v(t) \in Bytes
  BY <1>2, <1>3 DEF u8v
<1> QED BY <1>5, <1>7, <1>8, <1>9

(* What a tag does to a file is to set one field, to throw or nothing.      *)
LEMMA NumberedDoes ==
    ASSUME NEW t, IsFields(t)
    PROVE  \E name : \E v \in Bytes :
             \/ \A d : Numbered(d, t) = With(d, name, v)
             \/ \A d : Numbered(d, t) = d
<1> DEFINE k == Num(t["uname"])
           text == "sval" \in DOMAIN t
<1>1. sval(t) \in Bytes /\ u64v(t) \in Bytes /\ u32v(t) \in Bytes /\ u8v(t) \in Bytes
  BY ValuesTyped
<1>2. \A d : Numbered(d, t) =
        CASE k = Ft.FILENAME /\ text     -> With(d, "name", sval(t))
          [] k = Ft.FILESIZE             -> With(d, "size", u64v(t))
          [] k = Ft.FILETYPE             -> With(d, "type", sval(t))
          [] k = Ft.FILEFORMAT /\ text   -> With(d, "format", sval(t))
          [] k = Ft.SOURCES              -> With(d, "sources", u8v(t))
          [] k = Ft.COMPLETE_SOURCES     -> With(d, "completed", u8v(t))
          [] k = Ft.GAPSTART             -> With(d, "gapstart", u32v(t))
          [] OTHER                       -> d
  BY Zenon DEF Numbered
<1> HIDE DEF k, text
<1>3. CASE k = Ft.FILENAME /\ text
  BY <1>1, <1>2, <1>3 DEF Ft
<1>4. CASE k = Ft.FILESIZE
  BY <1>1, <1>2, <1>4 DEF Ft
<1>5. CASE k = Ft.FILETYPE
  BY <1>1, <1>2, <1>5 DEF Ft
<1>6. CASE k = Ft.FILEFORMAT /\ text
  BY <1>1, <1>2, <1>6 DEF Ft
<1>7. CASE k = Ft.SOURCES
  BY <1>1, <1>2, <1>7 DEF Ft
<1>8. CASE k = Ft.COMPLETE_SOURCES
  BY <1>1, <1>2, <1>8 DEF Ft
<1>9. CASE k = Ft.GAPSTART
  BY <1>1, <1>2, <1>9 DEF Ft
<1>10. CASE /\ ~(k = Ft.FILENAME /\ text) /\ k # Ft.FILESIZE /\ k # Ft.FILETYPE
            /\ ~(k = Ft.FILEFORMAT /\ text) /\ k # Ft.SOURCES /\ k # Ft.COMPLETE_SOURCES
            /\ k # Ft.GAPSTART
  BY <1>1, <1>2, <1>10
<1> QED BY <1>3, <1>4, <1>5, <1>6, <1>7, <1>8, <1>9, <1>10

LEMMA NamedDoes ==
    ASSUME NEW t, IsFields(t)
    PROVE  \E name : \E v \in Bytes :
             \/ \A d : Named(d, t) = With(d, name, v)
             \/ \A d : Named(d, t) = d
             \/ \A d : Named(d, t) = Throw(d)
<1> DEFINE key == t["sname"]
           text == "sval" \in DOMAIN t
           counts == { f \in {"length", "bitrate", "codec"} : Text[f] = sval(t) }
           one == CHOOSE f \in counts : TRUE
<1>1. sval(t) \in Bytes /\ u32v(t) \in Bytes
  BY ValuesTyped
<1>2. \A d : Named(d, t) =
        IF key = Text.Artist /\ text       THEN With(d, "artist", sval(t))
        ELSE IF key = Text.Album /\ text   THEN With(d, "album", sval(t))
        ELSE IF ~text                      THEN Throw(d)
        ELSE IF sval(t) = Text.Title       THEN With(d, "title", sval(t))
        ELSE IF counts # {} THEN With(d, one, u32v(t))
        ELSE d
  BY Zenon DEF Named
<1> DEFINE none == counts = {}
           artist == key = Text.Artist
           album == key = Text.Album
           title == sval(t) = Text.Title
<1>3. \A d : Named(d, t) =
        IF artist /\ text       THEN With(d, "artist", sval(t))
        ELSE IF album /\ text   THEN With(d, "album", sval(t))
        ELSE IF ~text           THEN Throw(d)
        ELSE IF title           THEN With(d, "title", sval(t))
        ELSE IF ~none           THEN With(d, one, u32v(t))
        ELSE d
  BY <1>2, Zenon
<1> HIDE DEF text, none, one, artist, album, title
<1>4. CASE artist /\ text
  BY <1>1, <1>3, <1>4
<1>5. CASE ~(artist /\ text) /\ album /\ text
  BY <1>1, <1>3, <1>5
<1>6. CASE ~text
  BY <1>1, <1>3, <1>6
<1>7. CASE ~(artist /\ text) /\ ~(album /\ text) /\ text /\ title
  BY <1>1, <1>3, <1>7
<1>8. CASE ~(artist /\ text) /\ ~(album /\ text) /\ text /\ ~title /\ ~none
  BY <1>1, <1>3, <1>8
<1>9. CASE ~(artist /\ text) /\ ~(album /\ text) /\ text /\ ~title /\ none
  BY <1>1, <1>3, <1>9
<1> QED BY <1>4, <1>5, <1>6, <1>7, <1>8, <1>9

LEMMA TaggedDoes ==
    ASSUME NEW t, IsFields(t)
    PROVE  \E name : \E v \in Bytes :
             \/ \A d : Tagged(d, t) = With(d, name, v)
             \/ \A d : Tagged(d, t) = d
             \/ \A d : Tagged(d, t) = Throw(d)
<1>1. CASE Num(t["uname"]) # 0
  <2>1. \A d : Tagged(d, t) = Numbered(d, t)
    BY <1>1 DEF Tagged
  <2> QED BY <2>1, NumberedDoes
<1>2. CASE Num(t["uname"]) = 0 /\ "sname" \in DOMAIN t
  <2>1. \A d : Tagged(d, t) = Named(d, t)
    BY <1>2 DEF Tagged
  <2> QED BY <2>1, NamedDoes
<1>3. CASE Num(t["uname"]) = 0 /\ "sname" \notin DOMAIN t
  <2>1. \A d : Tagged(d, t) = d
    BY <1>3 DEF Tagged
  <2>2. <<0>> \in Bytes
    BY OneByte
  <2> QED BY <2>1, <2>2
<1> QED BY <1>1, <1>2, <1>3

LEMMA EntryTagPassCarries ==
    ASSUME NEW d, NEW e, NEW x \in Bytes, Carries(d, e, x), d.ok
    PROVE  Carries(EntryTagPass(d), EntryTagPass(e), x)
<1> DEFINE a == FTagParse(Fresh(d))
           b == FTagParse(Fresh(e))
           ca == Tagged(Cursor(a.rest, d.m), a.m)
           cb == Tagged(Cursor(b.rest, e.m), b.m)
<1>1. /\ EntryTagPass(d) = IF a.ok THEN ca ELSE a
      /\ EntryTagPass(e) = IF b.ok THEN cb ELSE b
  BY DEF EntryTagPass, Then
<1>2. Carries(a, b, x)
  BY FreshCarries, FTagParseCarries
<1>3. a.ok => Carries(ca, cb, x)
  <2> SUFFICES ASSUME a.ok PROVE Carries(ca, cb, x)
    OBVIOUS
  <2> DEFINE t == a.m
             u == Cursor(a.rest, d.m)
             w == Cursor(a.rest \o x, d.m)
  <2>1. /\ b.rest = a.rest \o x /\ b.m = a.m /\ a.rest \in Bytes /\ IsFields(t)
        /\ e.m = d.m /\ IsFields(d.m)
    <3> HIDE DEF a, b
    <3> QED BY <1>2, LongerOk
  <2>2. Carries(u, w, x)
    <3> HIDE DEF a
    <3> QED BY <2>1, MadeCarries
  <2>3. ca = Tagged(u, t) /\ cb = Tagged(w, t)
    <3> HIDE DEF a, b
    <3> QED BY <2>1
  <2>4. u.ok /\ IsCursor(u)
    <3>1. u.ok
      BY CursorIs
    <3> HIDE DEF u, w
    <3> QED BY <2>2, <3>1 DEF Carries
  <2> HIDE DEF t, u, w, ca, cb
  <2>5. PICK name : \E v \in Bytes :
             \/ \A c : Tagged(c, t) = With(c, name, v)
             \/ \A c : Tagged(c, t) = c
             \/ \A c : Tagged(c, t) = Throw(c)
    BY <2>1, TaggedDoes
  <2>6. PICK v \in Bytes :
             \/ \A c : Tagged(c, t) = With(c, name, v)
             \/ \A c : Tagged(c, t) = c
             \/ \A c : Tagged(c, t) = Throw(c)
    BY <2>5
  <2>7. CASE \A c : Tagged(c, t) = With(c, name, v)
    <3>1. Carries(With(u, name, v), With(w, name, v), x)
      BY <2>2, <2>4, WithCarries
    <3> QED BY <2>3, <2>7, <3>1
  <2>8. CASE \A c : Tagged(c, t) = c
    BY <2>2, <2>3, <2>8
  <2>9. CASE \A c : Tagged(c, t) = Throw(c)
    BY <2>3, <2>4, <2>9, ThrowCarries
  <2> QED BY <2>6, <2>7, <2>8, <2>9
<1> HIDE DEF a, b, ca, cb
<1> QED BY <1>1, <1>2, <1>3, ThenCarries

(* The passes of FileEntryParse. *)
LEMMA EntryTagRuns ==
    ASSUME NEW a, NEW n \in Nat
    PROVE  \E r : /\ r[0] = a /\ \A k \in 1 .. n : r[k] = (IF r[k - 1].ok THEN EntryTagPass(r[k - 1]) ELSE r[k - 1])
                  /\ EntryTagTimes(a, n) = r[n]
<1> DEFINE Runs(r, m) == r[0] = a /\ \A k \in 1 .. m : r[k] = (IF r[k - 1].ok THEN EntryTagPass(r[k - 1]) ELSE r[k - 1])
           Built(r) == [k \in 0 .. n |-> IF k = 0 THEN a ELSE (IF r[k - 1].ok THEN EntryTagPass(r[k - 1]) ELSE r[k - 1])]
           run == CHOOSE r : r = Built(r)
           S == { m \in 0 .. n : \E r : Runs(r, m) }
<1>1. Runs([k \in 0 .. 0 |-> a], 0)
  OBVIOUS
<1>2. ASSUME NEW m \in 1 .. n, NEW h, Runs(h, m - 1) PROVE \E r : Runs(r, m)
  <2> DEFINE r == [k \in 0 .. m |-> IF k = m THEN (IF h[m - 1].ok THEN EntryTagPass(h[m - 1]) ELSE h[m - 1]) ELSE h[k]]
  <2>1. r[0] = a /\ r[m] = (IF h[m - 1].ok THEN EntryTagPass(h[m - 1]) ELSE h[m - 1]) /\ \A k \in 0 .. m - 1 : r[k] = h[k]
    BY <1>2
  <2>2. \A k \in 1 .. m : k - 1 \in 0 .. m - 1 /\ (k # m => k \in 1 .. m - 1)
    OBVIOUS
  <2> HIDE DEF r
  <2>3. Runs(r, m)
    BY <1>2, <2>1, <2>2
  <2> QED BY <2>3
<1>3. PICK r : Runs(r, n)
  <2>1. 0 \in S /\ \A m \in 1 .. n : m - 1 \in S => m \in S
    <3> HIDE DEF Runs
    <3> QED BY <1>1, <1>2
  <2>2. n \in S
    <3> HIDE DEF S
    <3> QED BY <2>1, UpTo
  <2> QED BY <2>2
<1> DEFINE g == [k \in 0 .. n |-> r[k]]
<1>4. g = Built(g)
  <2>1. \A k \in 0 .. n : g[k] = IF k = 0 THEN a ELSE (IF g[k - 1].ok THEN EntryTagPass(g[k - 1]) ELSE g[k - 1])
    BY <1>3
  <2>2. g = [k \in 0 .. n |-> g[k]]
    OBVIOUS
  <2> HIDE DEF g
  <2> QED BY <2>1, <2>2
<1>5. run = Built(run)
  <2> HIDE DEF Built, g
  <2> QED BY <1>4
<1>6. Runs(run, n)
  <2> HIDE DEF run
  <2> QED BY <1>5
<1> QED BY <1>6 DEF EntryTagTimes, Times, Then, EntryTagPass

(* The loop of FileEntryParse. *)
LEMMA EntryTagsCarries ==
    ASSUME NEW d, NEW e, NEW x \in Bytes, Carries(d, e, x), NEW n \in Nat
    PROVE  Carries(EntryTagLoop(d, n), EntryTagLoop(e, n), x)
<1> DEFINE whole == EntryTagLoop(d, n)
           E == EntryTagLoop(e, n)
<1>1. CASE ~d.ok
  <2>1. whole = d
    BY <1>1 DEF EntryTagLoop, EntryTagTimes, Repeat, Times, Then
  <2>2. Carries(d, E, x)
    BY <1>1, ThrownCarries DEF Carries
  <2> QED BY <2>1, <2>2, Zenon
<1>2. CASE d.ok
  <2>1. /\ e.ok /\ d.rest \in Bytes /\ e.rest = d.rest \o x /\ IsCursor(d)
    <3> HIDE DEF whole, E
    <3> QED BY <1>2, LongerOk
  <2>2. CASE n > Len(d.rest)
    <3>1. whole = Throw(d)
      BY <1>2, <2>2 DEF EntryTagLoop, EntryTagTimes, Repeat, Times, Then
    <3>2. Carries(Throw(d), E, x)
      BY <2>1, ThrownTyped, ThrownCarries
    <3> QED BY <3>1, <3>2, Zenon
  <2>3. CASE ~(n > Len(d.rest))
    <3>1. ~(n > Len(e.rest))
      <4>1. Len(d.rest \o x) = Len(d.rest) + Len(x) /\ Len(d.rest) \in Nat /\ Len(x) \in Nat
        BY <2>1, CutOf, LenProperties DEF Bytes
      <4> QED BY <2>1, <2>3, <4>1
    <3>2. PICK r : /\ r[0] = d /\ \A k \in 1 .. n : r[k] = (IF r[k - 1].ok THEN EntryTagPass(r[k - 1]) ELSE r[k - 1])
                   /\ whole = r[n]
      <4>1. \E r : /\ r[0] = d /\ \A k \in 1 .. n : r[k] = (IF r[k - 1].ok THEN EntryTagPass(r[k - 1]) ELSE r[k - 1])
                   /\ EntryTagTimes(d, n) = r[n]
        BY EntryTagRuns
      <4>2. whole = EntryTagTimes(d, n)
        BY <1>2, <2>3 DEF EntryTagLoop, EntryTagTimes, Repeat, Times, Then
      <4> HIDE DEF whole
      <4> QED BY <4>1, <4>2
    <3>3. PICK t : /\ t[0] = e /\ \A k \in 1 .. n : t[k] = (IF t[k - 1].ok THEN EntryTagPass(t[k - 1]) ELSE t[k - 1])
                   /\ E = t[n]
      <4>1. \E t : /\ t[0] = e /\ \A k \in 1 .. n : t[k] = (IF t[k - 1].ok THEN EntryTagPass(t[k - 1]) ELSE t[k - 1])
                   /\ EntryTagTimes(e, n) = t[n]
        BY EntryTagRuns
      <4>2. E = EntryTagTimes(e, n)
        BY <2>1, <3>1 DEF EntryTagLoop, EntryTagTimes, Repeat, Times, Then
      <4> HIDE DEF E
      <4> QED BY <4>1, <4>2
    <3> DEFINE S == { k \in 0 .. n : Carries(r[k], t[k], x) }
    <3>4. \A k \in 1 .. n : Carries(r[k - 1], t[k - 1], x) => Carries(r[k], t[k], x)
      <4> SUFFICES ASSUME NEW k \in 1 .. n, Carries(r[k - 1], t[k - 1], x)
                   PROVE  Carries(r[k], t[k], x)
        OBVIOUS
      <4> DEFINE a == r[k - 1]
                 b == t[k - 1]
      <4>1. r[k] = (IF a.ok THEN EntryTagPass(a) ELSE a) /\ t[k] = (IF b.ok THEN EntryTagPass(b) ELSE b)
        BY <3>2, <3>3
      <4> HIDE DEF a, b
      <4>2. Carries(a, b, x)
        BY DEF a, b
      <4>3. CASE ~a.ok
        <5>1. r[k] = a
          BY <4>1, <4>3
        <5> QED BY <4>2, <4>3, <5>1, ThrownCarries DEF Carries
      <4>4. CASE a.ok
        <5>1. b.ok
          BY <4>2, <4>4, LongerIs, CursorIs
        <5> QED BY <4>1, <4>2, <4>4, <5>1, EntryTagPassCarries
      <4> QED BY <4>3, <4>4
    <3>5. 0 \in S /\ \A k \in 1 .. n : k - 1 \in S => k \in S
      <4>1. \A k \in 1 .. n : k \in 0 .. n
        OBVIOUS
      <4>2. Carries(r[0], t[0], x) /\ 0 \in 0 .. n
        BY <3>2, <3>3
      <4> QED BY <3>4, <4>1, <4>2
    <3>6. n \in S
      <4> HIDE DEF S
      <4>1. n \in 0 .. n
        OBVIOUS
      <4> QED BY <3>5, <4>1, UpTo
    <3>7. Carries(r[n], t[n], x)
      BY <3>6
    <3> QED BY <3>2, <3>3, <3>7, Zenon
  <2> QED BY <2>2, <2>3
<1> QED BY <1>1, <1>2

LEMMA FileEntryCarries ==
    ASSUME NEW d, NEW e, NEW x \in Bytes, Carries(d, e, x)
    PROVE  Carries(FileEntryParse(d), FileEntryParse(e), x)
<1> DEFINE l == <<U("hash", 16), U("cid", 4), U("port", 2), U("tc", 4)>>
           a == Read(d, l)
           b == Read(e, l)
           ca == EntryTagLoop(a, Num(a.m["tc"]))
           cb == EntryTagLoop(b, Num(b.m["tc"]))
<1>1. /\ FileEntryParse(d) = IF a.ok THEN ca ELSE a
      /\ FileEntryParse(e) = IF b.ok THEN cb ELSE b
  BY DEF FileEntryParse, EntryTagLoop, Repeat, Times, Then
<1>2. IsLayout(l) /\ Len(l) = 4 /\ l[4].name = "tc"
  BY Fixed4
<1>3. Carries(a, b, x) /\ (a.ok => "tc" \in DOMAIN a.m)
  <2> HIDE DEF l
  <2> QED BY <1>2, ReadCarries
<1> HIDE DEF a, b
<1>4. a.ok => Carries(ca, cb, x)
  <2> SUFFICES ASSUME a.ok PROVE Carries(ca, cb, x)
    OBVIOUS
  <2> DEFINE k == Num(a.m["tc"])
  <2>1. k \in Nat /\ b.m = a.m
    BY <1>3, NumOfField DEF ListFields
  <2>2. cb = EntryTagLoop(b, k)
    BY <2>1
  <2> HIDE DEF k
  <2>3. Carries(EntryTagLoop(a, k), EntryTagLoop(b, k), x)
    BY <1>3, <2>1, EntryTagsCarries
  <2> QED BY <2>2, <2>3 DEF k
<1> HIDE DEF ca, cb
<1> QED BY <1>1, <1>3, <1>4, ThenCarries

LEMMA FilePassCarries ==
    ASSUME NEW d, NEW e, NEW x \in Bytes, Carries(d, e, x), d.ok
    PROVE  Carries(FilePass(d), FilePass(e), x)
<1> DEFINE r == FileEntryParse(Fresh(d))
           t == FileEntryParse(Fresh(e))
<1>1. Carries(r, t, x)
  BY FreshCarries, FileEntryCarries
<1>2. FilePass(d) = Listed(d, "fs", r) /\ FilePass(e) = Listed(e, "fs", t)
  BY DEF FilePass
<1>3. "fs" \in ListFields
  BY DEF ListFields
<1> HIDE DEF r, t
<1> QED BY <1>1, <1>2, <1>3, ListedCarries

(* The passes of FileListParse. *)
LEMMA FileRuns ==
    ASSUME NEW a, NEW n \in Nat
    PROVE  \E r : /\ r[0] = a /\ \A k \in 1 .. n : r[k] = (IF r[k - 1].ok THEN FilePass(r[k - 1]) ELSE r[k - 1])
                  /\ FileTimes(a, n) = r[n]
<1> DEFINE Runs(r, m) == r[0] = a /\ \A k \in 1 .. m : r[k] = (IF r[k - 1].ok THEN FilePass(r[k - 1]) ELSE r[k - 1])
           Built(r) == [k \in 0 .. n |-> IF k = 0 THEN a ELSE (IF r[k - 1].ok THEN FilePass(r[k - 1]) ELSE r[k - 1])]
           run == CHOOSE r : r = Built(r)
           S == { m \in 0 .. n : \E r : Runs(r, m) }
<1>1. Runs([k \in 0 .. 0 |-> a], 0)
  OBVIOUS
<1>2. ASSUME NEW m \in 1 .. n, NEW h, Runs(h, m - 1) PROVE \E r : Runs(r, m)
  <2> DEFINE r == [k \in 0 .. m |-> IF k = m THEN (IF h[m - 1].ok THEN FilePass(h[m - 1]) ELSE h[m - 1]) ELSE h[k]]
  <2>1. r[0] = a /\ r[m] = (IF h[m - 1].ok THEN FilePass(h[m - 1]) ELSE h[m - 1]) /\ \A k \in 0 .. m - 1 : r[k] = h[k]
    BY <1>2
  <2>2. \A k \in 1 .. m : k - 1 \in 0 .. m - 1 /\ (k # m => k \in 1 .. m - 1)
    OBVIOUS
  <2> HIDE DEF r
  <2>3. Runs(r, m)
    BY <1>2, <2>1, <2>2
  <2> QED BY <2>3
<1>3. PICK r : Runs(r, n)
  <2>1. 0 \in S /\ \A m \in 1 .. n : m - 1 \in S => m \in S
    <3> HIDE DEF Runs
    <3> QED BY <1>1, <1>2
  <2>2. n \in S
    <3> HIDE DEF S
    <3> QED BY <2>1, UpTo
  <2> QED BY <2>2
<1> DEFINE g == [k \in 0 .. n |-> r[k]]
<1>4. g = Built(g)
  <2>1. \A k \in 0 .. n : g[k] = IF k = 0 THEN a ELSE (IF g[k - 1].ok THEN FilePass(g[k - 1]) ELSE g[k - 1])
    BY <1>3
  <2>2. g = [k \in 0 .. n |-> g[k]]
    OBVIOUS
  <2> HIDE DEF g
  <2> QED BY <2>1, <2>2
<1>5. run = Built(run)
  <2> HIDE DEF Built, g
  <2> QED BY <1>4
<1>6. Runs(run, n)
  <2> HIDE DEF run
  <2> QED BY <1>5
<1> QED BY <1>6 DEF FileTimes, Times, Then, FilePass

(* The loop of FileListParse. *)
LEMMA FileLoopCarries ==
    ASSUME NEW d, NEW e, NEW x \in Bytes, Carries(d, e, x), NEW n \in Nat
    PROVE  Carries(FileLoop(d, n), FileLoop(e, n), x)
<1> DEFINE whole == FileLoop(d, n)
           E == FileLoop(e, n)
<1>1. CASE ~d.ok
  <2>1. whole = d
    BY <1>1 DEF FileLoop, FileTimes, Repeat, Times, Then
  <2>2. Carries(d, E, x)
    BY <1>1, ThrownCarries DEF Carries
  <2> QED BY <2>1, <2>2, Zenon
<1>2. CASE d.ok
  <2>1. /\ e.ok /\ d.rest \in Bytes /\ e.rest = d.rest \o x /\ IsCursor(d)
    <3> HIDE DEF whole, E
    <3> QED BY <1>2, LongerOk
  <2>2. CASE n > Len(d.rest)
    <3>1. whole = Throw(d)
      BY <1>2, <2>2 DEF FileLoop, FileTimes, Repeat, Times, Then
    <3>2. Carries(Throw(d), E, x)
      BY <2>1, ThrownTyped, ThrownCarries
    <3> QED BY <3>1, <3>2, Zenon
  <2>3. CASE ~(n > Len(d.rest))
    <3>1. ~(n > Len(e.rest))
      <4>1. Len(d.rest \o x) = Len(d.rest) + Len(x) /\ Len(d.rest) \in Nat /\ Len(x) \in Nat
        BY <2>1, CutOf, LenProperties DEF Bytes
      <4> QED BY <2>1, <2>3, <4>1
    <3>2. PICK r : /\ r[0] = d /\ \A k \in 1 .. n : r[k] = (IF r[k - 1].ok THEN FilePass(r[k - 1]) ELSE r[k - 1])
                   /\ whole = r[n]
      <4>1. \E r : /\ r[0] = d /\ \A k \in 1 .. n : r[k] = (IF r[k - 1].ok THEN FilePass(r[k - 1]) ELSE r[k - 1])
                   /\ FileTimes(d, n) = r[n]
        BY FileRuns
      <4>2. whole = FileTimes(d, n)
        BY <1>2, <2>3 DEF FileLoop, FileTimes, Repeat, Times, Then
      <4> HIDE DEF whole
      <4> QED BY <4>1, <4>2
    <3>3. PICK t : /\ t[0] = e /\ \A k \in 1 .. n : t[k] = (IF t[k - 1].ok THEN FilePass(t[k - 1]) ELSE t[k - 1])
                   /\ E = t[n]
      <4>1. \E t : /\ t[0] = e /\ \A k \in 1 .. n : t[k] = (IF t[k - 1].ok THEN FilePass(t[k - 1]) ELSE t[k - 1])
                   /\ FileTimes(e, n) = t[n]
        BY FileRuns
      <4>2. E = FileTimes(e, n)
        BY <2>1, <3>1 DEF FileLoop, FileTimes, Repeat, Times, Then
      <4> HIDE DEF E
      <4> QED BY <4>1, <4>2
    <3> DEFINE S == { k \in 0 .. n : Carries(r[k], t[k], x) }
    <3>4. \A k \in 1 .. n : Carries(r[k - 1], t[k - 1], x) => Carries(r[k], t[k], x)
      <4> SUFFICES ASSUME NEW k \in 1 .. n, Carries(r[k - 1], t[k - 1], x)
                   PROVE  Carries(r[k], t[k], x)
        OBVIOUS
      <4> DEFINE a == r[k - 1]
                 b == t[k - 1]
      <4>1. r[k] = (IF a.ok THEN FilePass(a) ELSE a) /\ t[k] = (IF b.ok THEN FilePass(b) ELSE b)
        BY <3>2, <3>3
      <4> HIDE DEF a, b
      <4>2. Carries(a, b, x)
        BY DEF a, b
      <4>3. CASE ~a.ok
        <5>1. r[k] = a
          BY <4>1, <4>3
        <5> QED BY <4>2, <4>3, <5>1, ThrownCarries DEF Carries
      <4>4. CASE a.ok
        <5>1. b.ok
          BY <4>2, <4>4, LongerIs, CursorIs
        <5> QED BY <4>1, <4>2, <4>4, <5>1, FilePassCarries
      <4> QED BY <4>3, <4>4
    <3>5. 0 \in S /\ \A k \in 1 .. n : k - 1 \in S => k \in S
      <4>1. \A k \in 1 .. n : k \in 0 .. n
        OBVIOUS
      <4>2. Carries(r[0], t[0], x) /\ 0 \in 0 .. n
        BY <3>2, <3>3
      <4> QED BY <3>4, <4>1, <4>2
    <3>6. n \in S
      <4> HIDE DEF S
      <4>1. n \in 0 .. n
        OBVIOUS
      <4> QED BY <3>5, <4>1, UpTo
    <3>7. Carries(r[n], t[n], x)
      BY <3>6
    <3> QED BY <3>2, <3>3, <3>7, Zenon
  <2> QED BY <2>2, <2>3
<1> QED BY <1>1, <1>2

-------------------------------------------------------------------------------
LEMMA BodyCarries ==
    ASSUME NEW data \in Bytes, NEW x \in Bytes, NEW ops, NEW packed, ~packed
    PROVE  Carries(Body(data, ops, packed), Body(data \o x, ops, packed), x)
<1> DEFINE c == Decoding(data)
           g == Decoding(data \o x)
           a == Get(c, U("op", 1))
           b == Get(g, U("op", 1))
           ia == IsOne(a, ops)
           ib == IsOne(b, ops)
           ta == IF a.ok THEN ia ELSE a
           tb == IF b.ok THEN ib ELSE b
<1>1. Body(data, ops, packed) = ta /\ Body(data \o x, ops, packed) = tb
  BY DEF Body, Then
<1>2. Carries(c, g, x)
  BY Unnamed, MadeCarries DEF Decoding
<1> HIDE DEF c, g
<1>3. Carries(a, b, x)
  BY <1>2, OneIs
<1> HIDE DEF a, b
<1>4. a.ok => Carries(ia, ib, x)
  <2> SUFFICES ASSUME a.ok PROVE Carries(ia, ib, x)
    OBVIOUS
  <2>1. b.m = a.m /\ IsCursor(a)
    BY <1>3, LongerOk
  <2>2. CASE Num(a.m["op"]) \in ops
    BY <1>3, <2>1, <2>2 DEF IsOne
  <2>3. CASE Num(a.m["op"]) \notin ops
    <3>1. ia = Throw(a)
      BY <2>3 DEF IsOne
    <3> QED BY <2>1, <3>1, ThrowCarries
  <2> QED BY <2>2, <2>3
<1> HIDE DEF ia, ib
<1> QED BY <1>1, <1>3, <1>4, ThenCarries

LEMMA SetHashCarries ==
    ASSUME NEW d, NEW e, NEW x, Carries(d, e, x)
    PROVE  Carries(SetHash(d), SetHash(e), x)
<1>1. CASE LengthSets
  BY <1>1 DEF SetHash
<1>2. CASE ~LengthSets
  BY <1>2, ThrowCarries DEF SetHash, Carries
<1> QED BY <1>1, <1>2

LEMMA NullHashCarries ==
    ASSUME NEW d, NEW e, NEW x, Carries(d, e, x)
    PROVE  Carries(NullHash(d), NullHash(e), x)
BY ThrowCarries DEF NullHash, Carries

LEMMA ReadListCarries ==
    ASSUME NEW d, NEW e, NEW x \in Bytes, Carries(d, e, x), d.ok,
           NEW n \in Nat, NEW name \in ListFields, NEW l, IsLayout(l)
    PROVE  Carries(ReadList(d, name, n, l), ReadList(e, name, n, l), x)
<1> DEFINE a == With(d, name, <<>>)
           b == With(e, name, <<>>)
<1>1. Carries(a, b, x)
  BY WithCarries
<1>2. ReadList(d, name, n, l) = ListLoop(a, n, name, l)
  BY DEF ReadList, ListLoop, Repeat, Times, Then
<1>3. ReadList(e, name, n, l) = ListLoop(b, n, name, l)
  BY DEF ReadList, ListLoop, Repeat, Times, Then
<1> HIDE DEF a, b
<1> QED BY <1>1, <1>2, <1>3, ListLoopCarries

(* A list behind its count.                                                 *)
LEMMA CountedCarries ==
    ASSUME NEW a, NEW b, NEW x \in Bytes, Carries(a, b, x),
           NEW c, c \notin ListFields, a.ok => c \in DOMAIN a.m,
           NEW name \in ListFields, NEW l, IsLayout(l)
    PROVE  Carries(IF a.ok THEN ReadList(a, name, Num(a.m[c]), l) ELSE a,
                   IF b.ok THEN ReadList(b, name, Num(b.m[c]), l) ELSE b, x)
<1> DEFINE p == ReadList(a, name, Num(a.m[c]), l)
           q == ReadList(b, name, Num(b.m[c]), l)
<1>1. a.ok => Carries(p, q, x)
  <2> SUFFICES ASSUME a.ok PROVE Carries(p, q, x)
    OBVIOUS
  <2> DEFINE k == Num(a.m[c])
  <2>1. k \in Nat /\ b.m = a.m
    BY NumOfField
  <2>2. q = ReadList(b, name, k, l)
    BY <2>1
  <2> HIDE DEF k
  <2>3. Carries(ReadList(a, name, k, l), ReadList(b, name, k, l), x)
    BY <2>1, ReadListCarries
  <2> QED BY <2>2, <2>3 DEF k
<1> HIDE DEF p, q
<1>2. Carries(IF a.ok THEN p ELSE a, IF b.ok THEN q ELSE b, x)
  BY <1>1, ThenCarries
<1> QED BY <1>2 DEF p, q

(* A layout with a field named c.                                           *)
LEMMA ReadTo ==
    ASSUME NEW d, NEW e, NEW x \in Bytes, Carries(d, e, x), NEW l, IsLayout(l),
           NEW c, \E k \in 1 .. Len(l) : l[k].name = c
    PROVE  /\ Carries(Read(d, l), Read(e, l), x)
           /\ Read(d, l).ok => c \in DOMAIN Read(d, l).m
BY ReadCarries

-------------------------------------------------------------------------------
(* The parses of what comes in, on a packet and on a longer one.            *)
LEMMA SrvMessageCarries ==
    ASSUME NEW data \in Bytes, NEW x \in Bytes, NEW packed, ~packed
    PROVE  Carries(SrvMessageParse(data, packed), SrvMessageParse(data \o x, packed), x)
<1> DEFINE l == <<U("len", 2), D("msg", "len")>>
<1>1. IsLayout(l)
  BY Text1 DEF ListFields
<1>2. \A s : SrvMessageParse(s, packed) = Read(Body(s, {Op.SERVERMESSAGE}, packed), l)
  BY DEF SrvMessageParse
<1> HIDE DEF l
<1> QED BY <1>1, <1>2, BodyCarries, ReadCarries

LEMMA IDCHANGECarries ==
    ASSUME NEW data \in Bytes, NEW x \in Bytes, NEW packed, ~packed
    PROVE  Carries(IDCHANGEParse(data, packed), IDCHANGEParse(data \o x, packed), x)
<1> DEFINE l == <<U("id", 4), U("bitmap", 4)>>
<1>1. IsLayout(l)
  BY Fixed2
<1>2. \A s : IDCHANGEParse(s, packed) = Read(Body(s, {Op.IDCHANGE}, packed), l)
  BY DEF IDCHANGEParse
<1> HIDE DEF l
<1> QED BY <1>1, <1>2, BodyCarries, ReadCarries

LEMMA SrvStatusCarries ==
    ASSUME NEW data \in Bytes, NEW x \in Bytes, NEW packed, ~packed
    PROVE  Carries(SrvStatusParse(data, packed), SrvStatusParse(data \o x, packed), x)
<1> DEFINE l == <<U("userc", 4), U("filec", 4)>>
<1>1. IsLayout(l)
  BY Fixed2
<1>2. \A s : SrvStatusParse(s, packed) = Read(Body(s, {Op.SERVERSTATUS}, packed), l)
  BY DEF SrvStatusParse
<1> HIDE DEF l
<1> QED BY <1>1, <1>2, BodyCarries, ReadCarries

LEMMA CallbackRequestedCarries ==
    ASSUME NEW data \in Bytes, NEW x \in Bytes, NEW packed, ~packed
    PROVE  Carries(CallbackRequestedParse(data, packed), CallbackRequestedParse(data \o x, packed), x)
<1> DEFINE l == <<U("first", 4), U("second", 2)>>
<1>1. IsLayout(l)
  BY Fixed2
<1>2. \A s : CallbackRequestedParse(s, packed) = Read(Body(s, {Op.CALLBACKREQUESTED}, packed), l)
  BY DEF CallbackRequestedParse
<1> HIDE DEF l
<1> QED BY <1>1, <1>2, BodyCarries, ReadCarries

LEMMA FidAnswerCarries ==
    ASSUME NEW data \in Bytes, NEW x \in Bytes, NEW packed, ~packed
    PROVE  Carries(FidAnswerParse(data, packed), FidAnswerParse(data \o x, packed), x)
<1> DEFINE l == <<U("hash", 16), U("len", 2), D("name", "len")>>
<1>1. IsLayout(l)
  BY Text2 DEF ListFields
<1>2. \A s : FidAnswerParse(s, packed) = Read(NullHash(Body(s, {Op.REQFILENAMEANSWER}, packed)), l)
  BY DEF FidAnswerParse
<1> HIDE DEF l
<1> QED BY <1>1, <1>2, BodyCarries, NullHashCarries, ReadCarries

LEMMA ServerListCarries ==
    ASSUME NEW data \in Bytes, NEW x \in Bytes, NEW packed, ~packed
    PROVE  Carries(ServerListParse(data, packed), ServerListParse(data \o x, packed), x)
<1> DEFINE l == <<U("addr", 4), U("port", 2)>>
           a == Get(Body(data, {Op.SERVERLIST}, packed), U("count", 1))
           b == Get(Body(data \o x, {Op.SERVERLIST}, packed), U("count", 1))
<1>1. IsLayout(l) /\ "count" \notin ListFields /\ "srvs" \in ListFields
  BY Fixed2 DEF ListFields
<1>2. Carries(a, b, x) /\ (a.ok => "count" \in DOMAIN a.m)
  BY BodyCarries, OneIs
<1>3. ServerListParse(data, packed) = IF a.ok THEN ReadList(a, "srvs", Num(a.m["count"]), l) ELSE a
  BY DEF ServerListParse, Then
<1>4. ServerListParse(data \o x, packed) = IF b.ok THEN ReadList(b, "srvs", Num(b.m["count"]), l) ELSE b
  BY DEF ServerListParse, Then
<1> HIDE DEF l, a, b
<1> QED BY <1>1, <1>2, <1>3, <1>4, CountedCarries

LEMMA FoundSourceCarries ==
    ASSUME NEW data \in Bytes, NEW x \in Bytes, NEW packed, ~packed
    PROVE  Carries(FoundSourceParse(data, packed), FoundSourceParse(data \o x, packed), x)
<1> DEFINE l == <<B("addr", 4), U("port", 2), U("obf", 1)>>
           h == <<U("hash", 16), U("count", 1)>>
           a == Read(Body(data, {Op.FOUNDSOURCES_OBFU}, packed), h)
           b == Read(Body(data \o x, {Op.FOUNDSOURCES_OBFU}, packed), h)
<1>1. IsLayout(l) /\ "count" \notin ListFields /\ "srvs" \in ListFields
  BY Turned3 DEF ListFields
<1>2. Carries(a, b, x) /\ (a.ok => "count" \in DOMAIN a.m)
  <2>1. IsLayout(h) /\ \E k \in 1 .. Len(h) : h[k].name = "count"
    <3>1. IsLayout(h) /\ Len(h) = 2 /\ h[2].name = "count"
      BY Fixed2
    <3> HIDE DEF h
    <3>2. 2 \in 1 .. Len(h)
      BY <3>1
    <3> QED BY <3>1, <3>2
  <2> DEFINE c == Body(data, {Op.FOUNDSOURCES_OBFU}, packed)
             g == Body(data \o x, {Op.FOUNDSOURCES_OBFU}, packed)
  <2>2. Carries(c, g, x)
    BY BodyCarries
  <2> HIDE DEF h, c, g
  <2>3. Carries(Read(c, h), Read(g, h), x) /\ (Read(c, h).ok => "count" \in DOMAIN Read(c, h).m)
    BY <2>1, <2>2, ReadTo
  <2> QED BY <2>3 DEF c, g
<1>3. FoundSourceParse(data, packed) = IF a.ok THEN ReadList(a, "srvs", Num(a.m["count"]), l) ELSE a
  BY DEF FoundSourceParse, Then
<1>4. FoundSourceParse(data \o x, packed) = IF b.ok THEN ReadList(b, "srvs", Num(b.m["count"]), l) ELSE b
  BY DEF FoundSourceParse, Then
<1> HIDE DEF l, a, b
<1> QED BY <1>1, <1>2, <1>3, <1>4, CountedCarries

LEMMA HashsetAnswerCarries ==
    ASSUME NEW data \in Bytes, NEW x \in Bytes, NEW packed, ~packed
    PROVE  Carries(HashsetAnswerParse(data, packed), HashsetAnswerParse(data \o x, packed), x)
<1> DEFINE l == <<U("hash", 16)>>
           h == <<U("hash", 16), U("pc", 2)>>
           a == Read(NullHash(Body(data, {Op.HASHSETANSWER2}, packed)), h)
           b == Read(NullHash(Body(data \o x, {Op.HASHSETANSWER2}, packed)), h)
<1>1. IsLayout(l) /\ "pc" \notin ListFields /\ "parts" \in ListFields
  BY Fixed1 DEF ListFields
<1>2. Carries(a, b, x) /\ (a.ok => "pc" \in DOMAIN a.m)
  <2>1. IsLayout(h) /\ \E k \in 1 .. Len(h) : h[k].name = "pc"
    <3>1. IsLayout(h) /\ Len(h) = 2 /\ h[2].name = "pc"
      BY Fixed2
    <3> HIDE DEF h
    <3>2. 2 \in 1 .. Len(h)
      BY <3>1
    <3> QED BY <3>1, <3>2
  <2> DEFINE c == NullHash(Body(data, {Op.HASHSETANSWER2}, packed))
             g == NullHash(Body(data \o x, {Op.HASHSETANSWER2}, packed))
  <2>2. Carries(c, g, x)
    BY BodyCarries, NullHashCarries
  <2> HIDE DEF h, c, g
  <2>3. Carries(Read(c, h), Read(g, h), x) /\ (Read(c, h).ok => "pc" \in DOMAIN Read(c, h).m)
    BY <2>1, <2>2, ReadTo
  <2> QED BY <2>3 DEF c, g
<1>3. HashsetAnswerParse(data, packed) = IF a.ok THEN ReadList(a, "parts", Num(a.m["pc"]), l) ELSE a
  BY DEF HashsetAnswerParse, Then
<1>4. HashsetAnswerParse(data \o x, packed) = IF b.ok THEN ReadList(b, "parts", Num(b.m["pc"]), l) ELSE b
  BY DEF HashsetAnswerParse, Then
<1> HIDE DEF l, a, b
<1> QED BY <1>1, <1>2, <1>3, <1>4, CountedCarries

LEMMA ServerIndentCarries ==
    ASSUME NEW data \in Bytes, NEW x \in Bytes, NEW packed, ~packed
    PROVE  Carries(ServerIndentParse(data, packed), ServerIndentParse(data \o x, packed), x)
<1> DEFINE h == <<U("hash", 16), U("addr", 4), U("port", 2), U("tc", 4)>>
           c == NullHash(Body(data, {Op.SERVERIDENT}, packed))
           g == NullHash(Body(data \o x, {Op.SERVERIDENT}, packed))
           a == Read(c, h)
           b == Read(g, h)
           t == 1 :> "name" @@ 11 :> "desc"
<1>1. IsLayout(h) /\ \E k \in 1 .. Len(h) : h[k].name = "tc"
  <2>1. IsLayout(h) /\ Len(h) = 4 /\ h[4].name = "tc"
    BY Fixed4
  <2> HIDE DEF h
  <2>2. 4 \in 1 .. Len(h)
    BY <2>1
  <2> QED BY <2>1, <2>2
<1>2. Carries(c, g, x)
  BY BodyCarries, NullHashCarries
<1> DEFINE s == FALSE
           w == <<>>
           p == ReadTags(a, Num(a.m["tc"]), t, w, s)
           q == ReadTags(b, Num(b.m["tc"]), t, w, s)
<1>3. ServerIndentParse(data, packed) = IF a.ok THEN p ELSE a
  BY DEF ServerIndentParse, Then, ReadTags, Repeat, Times
<1>4. ServerIndentParse(data \o x, packed) = IF b.ok THEN q ELSE b
  BY DEF ServerIndentParse, Then, ReadTags, Repeat, Times
<1> HIDE DEF h, c, g, t, w, s
<1>5. Carries(a, b, x) /\ (a.ok => "tc" \in DOMAIN a.m)
  BY <1>1, <1>2, ReadTo
<1> HIDE DEF a, b
<1>6. a.ok => Carries(p, q, x)
  <2> SUFFICES ASSUME a.ok PROVE Carries(p, q, x)
    OBVIOUS
  <2> DEFINE k == Num(a.m["tc"])
  <2>1. k \in Nat /\ b.m = a.m
    BY <1>5, NumOfField DEF ListFields
  <2>2. q = ReadTags(b, k, t, w, s)
    BY <2>1
  <2> HIDE DEF k
  <2>3. Carries(ReadTags(a, k, t, w, s), ReadTags(b, k, t, w, s), x)
    BY <1>5, <2>1, ReadTagsCarries
  <2> QED BY <2>2, <2>3 DEF k
<1> HIDE DEF p, q
<1> QED BY <1>3, <1>4, <1>5, <1>6, ThenCarries

LEMMA HelloCarries ==
    ASSUME NEW data \in Bytes, NEW x \in Bytes, NEW packed, ~packed
    PROVE  Carries(HelloParse(data, packed), HelloParse(data \o x, packed), x)
<1> DEFINE h == <<U("hash", 16), U("cid", 4), U("port", 2), U("tc", 4)>>
           l == <<B("saddr", 4), U("sport", 2)>>
           c == SetHash(Body(data, {Op.HELLOANSWER}, packed))
           g == SetHash(Body(data \o x, {Op.HELLOANSWER}, packed))
           a == Read(c, h)
           b == Read(g, h)
           t == HelloTexts
           w == HelloWords
           s == TRUE
           p == Read(ReadTags(a, Num(a.m["tc"]), t, w, s), l)
           q == Read(ReadTags(b, Num(b.m["tc"]), t, w, s), l)
<1>1. IsLayout(h) /\ \E k \in 1 .. Len(h) : h[k].name = "tc"
  <2>1. IsLayout(h) /\ Len(h) = 4 /\ h[4].name = "tc"
    BY Fixed4
  <2> HIDE DEF h
  <2>2. 4 \in 1 .. Len(h)
    BY <2>1
  <2> QED BY <2>1, <2>2
<1>7. IsLayout(l)
  BY Turned2
<1>2. Carries(c, g, x)
  BY BodyCarries, SetHashCarries
<1>3. HelloParse(data, packed) = IF a.ok THEN p ELSE a
  BY DEF HelloParse, Then, ReadTags, Repeat, Times
<1>4. HelloParse(data \o x, packed) = IF b.ok THEN q ELSE b
  BY DEF HelloParse, Then, ReadTags, Repeat, Times
<1> HIDE DEF h, l, c, g, t, w, s
<1>5. Carries(a, b, x) /\ (a.ok => "tc" \in DOMAIN a.m)
  BY <1>1, <1>2, ReadTo
<1> HIDE DEF a, b
<1>6. a.ok => Carries(p, q, x)
  <2> SUFFICES ASSUME a.ok PROVE Carries(p, q, x)
    OBVIOUS
  <2> DEFINE k == Num(a.m["tc"])
  <2>1. k \in Nat /\ b.m = a.m
    BY <1>5, NumOfField DEF ListFields
  <2>2. q = Read(ReadTags(b, k, t, w, s), l)
    BY <2>1
  <2> HIDE DEF k
  <2>3. Carries(ReadTags(a, k, t, w, s), ReadTags(b, k, t, w, s), x)
    BY <1>5, <2>1, ReadTagsCarries
  <2>4. Carries(Read(ReadTags(a, k, t, w, s), l), Read(ReadTags(b, k, t, w, s), l), x)
    BY <1>7, <2>3, ReadCarries
  <2> QED BY <2>2, <2>4 DEF k
<1> HIDE DEF p, q
<1> QED BY <1>3, <1>4, <1>5, <1>6, ThenCarries

(* The length of a block is never negative.                                 *)
LEMMA SpanTyped ==
    ASSUME NEW v, NEW u
    PROVE  Num(SubSeq(v, 1, 2)) \in Nat /\ Num(SubSeq(v, 3, 4)) \in Nat
             /\ Num(SubSeq(u, 1, 2)) \in Nat /\ Num(SubSeq(u, 3, 4)) \in Nat
           => Span(v, u) \in Nat
<1> DEFINE la == Num(SubSeq(v, 1, 2))
           ha == Num(SubSeq(v, 3, 4))
           lb == Num(SubSeq(u, 1, 2))
           hb == Num(SubSeq(u, 3, 4))
           carry == IF lb < la THEN 1 ELSE 0
           lo == (lb - la) % 65536
           hi == (hb - ha - carry) % 65536
<1>1. Span(v, u) = IF hi > 255 THEN Beyond ELSE hi * 65536 + lo
  BY DEF Span
<1> SUFFICES ASSUME la \in Nat, ha \in Nat, lb \in Nat, hb \in Nat PROVE Span(v, u) \in Nat
  OBVIOUS
<1> HIDE DEF la, ha, lb, hb
<1>2. hi \in Nat /\ lo \in Nat
  OBVIOUS
<1> HIDE DEF hi, lo
<1>3. hi * 65536 + lo \in Nat
  BY <1>2
<1>4. Beyond \in Nat
  BY DEF Beyond
<1> QED BY <1>1, <1>3, <1>4

(* What a read of w bytes has found.                                        *)
LEMMA OneGives ==
    ASSUME NEW d, IsCursor(d), NEW name, NEW w \in Nat, Get(d, U(name, w)).ok
    PROVE  /\ d.ok
           /\ \E p, q \in Bytes : /\ d.rest = p \o q /\ Len(p) = w
                                  /\ Get(d, U(name, w)) = Cursor(q, Holding(d.m, name, p))
<1> DEFINE f == U(name, w)
<1>1. f.of = "none" /\ f.width = w /\ f.name = name /\ f.big = FALSE
  BY UIs
<1> HIDE DEF f
<1>2. d.ok
  BY DEF Get, Then, f
<1>3. Get(d, f) = Take(d, f, w)
  BY <1>1, <1>2 DEF Get, Then
<1>4. d.rest \in Bytes /\ d = Cursor(d.rest, d.m)
  BY <1>2 DEF IsCursor
<1>5. CASE w > Len(d.rest)
  <2>1. Take(d, f, w) = Throw(d)
    BY <1>5 DEF Take
  <2>2. Get(d, U(name, w)) = Throw(d)
    BY <1>3, <2>1 DEF f
  <2> QED BY <2>2, ThrowIs
<1>6. CASE ~(w > Len(d.rest))
  <2>1. w <= Len(d.rest)
    BY <1>4, <1>6, LenProperties DEF Bytes
  <2>2. PICK p \in Bytes, q \in Bytes : d.rest = p \o q /\ Len(p) = w
    BY <1>4, <2>1, CutAt
  <2>3. Take(Cursor(p \o q, d.m), f, Len(p)) = Cursor(q, Holding(d.m, f.name, Turned(p, f.big)))
    BY TakeReads
  <2>4. Turned(p, f.big) = p
    BY <1>1 DEF Turned
  <2>5. d = Cursor(p \o q, d.m)
    BY <1>4, <2>2, Zenon
  <2>6. Get(d, U(name, w)) = Cursor(q, Holding(d.m, name, p))
    BY <1>1, <1>3, <2>2, <2>3, <2>4, <2>5, Zenon DEF f
  <2> QED BY <1>2, <2>2, <2>6
<1> QED BY <1>5, <1>6

LEMMA SendingPartCarries ==
    ASSUME NEW data \in Bytes, NEW x \in Bytes, NEW packed, ~packed
    PROVE  Carries(SendingPartParse(data, packed), SendingPartParse(data \o x, packed), x)
<1> DEFINE c == SetHash(Body(data, {Op.SENDINGPART}, packed))
           g == SetHash(Body(data \o x, {Op.SENDINGPART}, packed))
           h == <<U("hash", 16), U("start", 4), U("end", 4)>>
           a == Read(c, h)
           b == Read(g, h)
           p == Get(a, U("part", Span(a.m["start"], a.m["end"])))
           q == Get(b, U("part", Span(b.m["start"], b.m["end"])))
<1>1. SendingPartParse(data, packed) = IF a.ok THEN p ELSE a
  BY DEF SendingPartParse, Then
<1>2. SendingPartParse(data \o x, packed) = IF b.ok THEN q ELSE b
  BY DEF SendingPartParse, Then
<1>3. Carries(c, g, x)
  BY BodyCarries, SetHashCarries
<1>4. IsLayout(h)
  BY Fixed3
<1>5. Carries(a, b, x)
  <2> HIDE DEF h, c, g
  <2> QED BY <1>3, <1>4, ReadCarries
<1>6. a.ok => /\ a.m["start"] \in Bytes /\ Len(a.m["start"]) = 4
              /\ a.m["end"] \in Bytes /\ Len(a.m["end"]) = 4
  <2> SUFFICES ASSUME a.ok
               PROVE  /\ a.m["start"] \in Bytes /\ Len(a.m["start"]) = 4
                      /\ a.m["end"] \in Bytes /\ Len(a.m["end"]) = 4
    OBVIOUS
  <2> DEFINE a1 == Get(c, U("hash", 16))
             a2 == Get(a1, U("start", 4))
             a3 == Get(a2, U("end", 4))
  <2>1. a = a3
    <3> DEFINE f1 == U("hash", 16)
               f2 == U("start", 4)
               f3 == U("end", 4)
    <3> HIDE DEF f1, f2, f3, c
    <3>1. Read(c, <<f1, f2, f3>>) = Get(Get(Get(c, f1), f2), f3)
      BY ReadThree
    <3> QED BY <3>1, Zenon DEF f1, f2, f3
  <2>2. IsCursor(a1) /\ IsCursor(a2)
    <3>1. Carries(a1, Get(g, U("hash", 16)), x)
      <4> HIDE DEF c, g
      <4> QED BY <1>3, OneIs
    <3> HIDE DEF a1
    <3>2. Carries(a2, Get(Get(g, U("hash", 16)), U("start", 4)), x)
      BY <3>1, OneIs
    <3> QED BY <3>1, <3>2 DEF Carries
  <2> HIDE DEF a, a1
  <2>3. PICK p3, q3 \in Bytes : Len(p3) = 4 /\ a3 = Cursor(q3, Holding(a2.m, "end", p3)) /\ a2.ok
    <3> HIDE DEF a2
    <3>1. PICK w \in Nat : w = 4
      OBVIOUS
    <3>2. Get(a2, U("end", w)).ok
      BY <2>1, <3>1
    <3>3. a2.ok /\ \E p3, q3 \in Bytes : /\ a2.rest = p3 \o q3 /\ Len(p3) = w
                  /\ Get(a2, U("end", w)) = Cursor(q3, Holding(a2.m, "end", p3))
      BY <2>2, <3>2, OneGives, Zenon
    <3> QED BY <3>1, <3>3
  <2>4. PICK p2, q2 \in Bytes : Len(p2) = 4 /\ a2 = Cursor(q2, Holding(a1.m, "start", p2))
    <3>1. PICK w \in Nat : w = 4
      OBVIOUS
    <3>2. Get(a1, U("start", w)).ok
      BY <2>3, <3>1
    <3>3. \E p2, q2 \in Bytes : /\ a1.rest = p2 \o q2 /\ Len(p2) = w
                  /\ Get(a1, U("start", w)) = Cursor(q2, Holding(a1.m, "start", p2))
      BY <2>2, <3>2, OneGives, Zenon
    <3> QED BY <3>1, <3>3
  <2> HIDE DEF a2, a3
  <2>5. a2.m = Holding(a1.m, "start", p2) /\ a3.m = Holding(a2.m, "end", p3)
    BY <2>3, <2>4, CursorIs, Zenon
  <2>6. a2.m["start"] = p2 /\ "start" \in DOMAIN a2.m
    <3>1. /\ Holding(a1.m, "start", p2)["start"] = p2
          /\ DOMAIN Holding(a1.m, "start", p2) = DOMAIN a1.m \cup {"start"}
      <4> DEFINE k == a1.m
      <4> HIDE DEF k
      <4>1. Holding(k, "start", p2)["start"] = p2
        BY HoldingIs
      <4>2. DOMAIN Holding(k, "start", p2) = DOMAIN k \cup {"start"}
        BY HoldingIs
      <4> QED BY <4>1, <4>2 DEF k
    <3> QED BY <2>5, <3>1, Zenon
  <2>7. a3.m["end"] = p3
    BY <2>5, HoldingIs
  <2>8. a3.m["start"] = a2.m["start"]
    <3>1. \A f \in DOMAIN a2.m : f # "end" => Holding(a2.m, "end", p3)[f] = a2.m[f]
      BY HoldingIs
    <3> QED BY <2>5, <2>6, <3>1
  <2> QED BY <2>1, <2>3, <2>4, <2>6, <2>7, <2>8
<1> HIDE DEF a, b
<1>7. a.ok => Carries(p, q, x)
  <2> SUFFICES ASSUME a.ok PROVE Carries(p, q, x)
    OBVIOUS
  <2> DEFINE s == a.m["start"]
             e == a.m["end"]
             k == Span(s, e)
  <2>1. b.m = a.m
    BY <1>5, LongerOk
  <2>2. \A v \in Bytes : Len(v) = 4 => Num(SubSeq(v, 1, 2)) \in Nat /\ Num(SubSeq(v, 3, 4)) \in Nat
    <3> SUFFICES ASSUME NEW v \in Bytes, Len(v) = 4
                 PROVE  Num(SubSeq(v, 1, 2)) \in Nat /\ Num(SubSeq(v, 3, 4)) \in Nat
      OBVIOUS
    <3>1. \A i \in 1 .. 4 : v[i] \in Nat
      BY ElementOfSeq DEF Bytes
    <3>2. SubSeq(v, 1, 2) \in Bytes /\ SubSeq(v, 3, 4) \in Bytes
      BY <3>1, SubSeqProperties DEF Bytes
    <3> QED BY <3>2, NumTyped
  <2>3. k \in Nat
    <3> HIDE DEF s, e
    <3> QED BY <1>6, <2>2, SpanTyped DEF s, e
  <2>4. p = Get(a, U("part", k)) /\ q = Get(b, U("part", k))
    BY <2>1
  <2> HIDE DEF k
  <2> QED BY <1>5, <2>3, <2>4, OneIs
<1> HIDE DEF p, q
<1> QED BY <1>1, <1>2, <1>5, <1>7, ThenCarries

LEMMA FileListCarries ==
    ASSUME NEW data \in Bytes, NEW x \in Bytes, NEW packed, ~packed
    PROVE  Carries(FileListParse(data, packed), FileListParse(data \o x, packed), x)
<1> DEFINE a == Get(Body(data, {Op.SEARCHRESULT, Op.OFFERFILES}, packed), U("rc", 4))
           b == Get(Body(data \o x, {Op.SEARCHRESULT, Op.OFFERFILES}, packed), U("rc", 4))
           p == FileLoop(With(a, "fs", <<>>), Num(a.m["rc"]))
           q == FileLoop(With(b, "fs", <<>>), Num(b.m["rc"]))
<1>1. FileListParse(data, packed) = IF a.ok THEN p ELSE a
  BY DEF FileListParse, FileLoop, Repeat, Times, Then
<1>2. FileListParse(data \o x, packed) = IF b.ok THEN q ELSE b
  BY DEF FileListParse, FileLoop, Repeat, Times, Then
<1>3. Carries(a, b, x) /\ (a.ok => "rc" \in DOMAIN a.m)
  BY BodyCarries, OneIs
<1> HIDE DEF a, b
<1>4. a.ok => Carries(p, q, x)
  <2> SUFFICES ASSUME a.ok PROVE Carries(p, q, x)
    OBVIOUS
  <2> DEFINE k == Num(a.m["rc"])
             wa == With(a, "fs", <<>>)
             wb == With(b, "fs", <<>>)
  <2>1. k \in Nat /\ b.m = a.m
    BY <1>3, NumOfField DEF ListFields
  <2>2. Carries(wa, wb, x)
    BY <1>3, WithCarries DEF ListFields
  <2>3. q = FileLoop(wb, k)
    BY <2>1
  <2> HIDE DEF k, wa, wb
  <2>4. Carries(FileLoop(wa, k), FileLoop(wb, k), x)
    BY <2>1, <2>2, FileLoopCarries
  <2> QED BY <2>3, <2>4 DEF wa, k
<1> HIDE DEF p, q
<1> QED BY <1>1, <1>2, <1>3, <1>4, ThenCarries

(* A handler that runs on a packet runs on a longer one with the same       *)
(* fields, and leaves what the packet was lengthened by.                    *)
LEMMA ParsedCarries ==
    ASSUME NEW data \in Bytes, Len(data) > 0, NEW x \in Bytes, NEW packed, ~packed,
           data[1] \notin {Op.FILESTATUS, Op.FILEREQANSNOFIL}
    PROVE  Carries(Parsed(data, packed), Parsed(data \o x, packed), x)
<1> DEFINE op == Digit(data, 1)
           y == data \o x
<1>1. op = data[1] /\ Digit(y, 1) = op /\ y \in Bytes
  <2>1. data \in Seq(Nat) /\ x \in Seq(Nat) /\ Len(data) \in Nat /\ Len(x) \in Nat
    BY LenProperties DEF Bytes
  <2>2. 1 \in DOMAIN data /\ 1 \in DOMAIN y /\ y[1] = data[1]
    <3>1. 1 \in 1 .. Len(data) + Len(x) /\ 1 <= Len(data) /\ 1 \in 1 .. Len(data)
      BY <2>1
    <3> QED BY <2>1, <3>1, ConcatProperties, LenProperties
  <2> QED BY <2>2, CutOf DEF Digit
<1> HIDE DEF op, y
<1>2. \A s : Digit(s, 1) = op => Parsed(s, packed) =
        CASE op = Op.SERVERMESSAGE     -> SrvMessageParse(s, packed)
          [] op = Op.IDCHANGE          -> IDCHANGEParse(s, packed)
          [] op = Op.SERVERSTATUS      -> SrvStatusParse(s, packed)
          [] op = Op.SERVERLIST        -> ServerListParse(s, packed)
          [] op = Op.SERVERIDENT       -> ServerIndentParse(s, packed)
          [] op = Op.SEARCHRESULT      -> FileListParse(s, packed)
          [] op = Op.FOUNDSOURCES_OBFU -> FoundSourceParse(s, packed)
          [] op = Op.CALLBACKREQUESTED -> CallbackRequestedParse(s, packed)
          [] op = Op.HELLOANSWER       -> HelloParse(s, packed)
          [] op = Op.SENDINGPART       -> SendingPartParse(s, packed)
          [] op = Op.HASHSETANSWER     -> HashsetAnswerParse(s, packed)
          [] op = Op.REQFILENAMEANSWER -> FidAnswerParse(s, packed)
          [] op \in {Op.FILESTATUS, Op.FILEREQANSNOFIL} -> FileStatusParse(s, packed)
          [] OTHER                     -> Throw(Decoding(s))
  BY DEF Parsed
<1>3. op \notin {Op.FILESTATUS, Op.FILEREQANSNOFIL}
  BY <1>1
<1>4. Carries(Throw(Decoding(data)), Throw(Decoding(y)), x)
  BY CursorTyped, Unnamed, ThrowCarries DEF Decoding
<1>5. /\ Carries(SrvMessageParse(data, packed), SrvMessageParse(y, packed), x)
      /\ Carries(IDCHANGEParse(data, packed), IDCHANGEParse(y, packed), x)
      /\ Carries(SrvStatusParse(data, packed), SrvStatusParse(y, packed), x)
      /\ Carries(ServerListParse(data, packed), ServerListParse(y, packed), x)
      /\ Carries(ServerIndentParse(data, packed), ServerIndentParse(y, packed), x)
      /\ Carries(FileListParse(data, packed), FileListParse(y, packed), x)
      /\ Carries(FoundSourceParse(data, packed), FoundSourceParse(y, packed), x)
  BY SrvMessageCarries, IDCHANGECarries, SrvStatusCarries, ServerListCarries,
     ServerIndentCarries, FileListCarries, FoundSourceCarries DEF y
<1>6. /\ Carries(CallbackRequestedParse(data, packed), CallbackRequestedParse(y, packed), x)
      /\ Carries(HelloParse(data, packed), HelloParse(y, packed), x)
      /\ Carries(SendingPartParse(data, packed), SendingPartParse(y, packed), x)
      /\ Carries(HashsetAnswerParse(data, packed), HashsetAnswerParse(y, packed), x)
      /\ Carries(FidAnswerParse(data, packed), FidAnswerParse(y, packed), x)
  BY CallbackRequestedCarries, HelloCarries, SendingPartCarries, HashsetAnswerCarries,
     FidAnswerCarries DEF y
<1>7. Digit(data, 1) = op
  BY DEF op
<1>8. Carries(Parsed(data, packed), Parsed(y, packed), x)
  BY <1>1, <1>2, <1>3, <1>4, <1>5, <1>6, <1>7 DEF Op
<1> QED BY <1>8 DEF y

(* How wide a read is, and what it leaves.                                  *)
Wide(f, m) == IF f.of = "none" THEN f.width ELSE Num(m[f.of])
Keep(m, f, p) == Holding(m, f.name, Turned(p, f.big))

(* A field that is there is read.                                           *)
LEMMA GetReads ==
    ASSUME NEW p \in Bytes, NEW q \in Bytes, NEW m, NEW f, Wide(f, m) = Len(p)
    PROVE  Get(Cursor(p \o q, m), f) = Cursor(q, Keep(m, f, p))
<1> DEFINE d == Cursor(p \o q, m)
<1>1. d.ok /\ d.m = m
  BY CursorIs
<1>2. Take(d, f, Len(p)) = Cursor(q, Keep(m, f, p))
  BY TakeReads DEF Keep
<1> HIDE DEF d
<1>3. Get(d, f) = Take(d, f, Wide(f, m))
  BY <1>1 DEF Get, Then, Wide
<1> QED BY <1>2, <1>3 DEF d

LEMMA BeBe ==
    ASSUME NEW s \in Bytes
    PROVE  Be(s) \in Bytes /\ Len(Be(s)) = Len(s) /\ Be(Be(s)) = s
<1> DEFINE n == Len(s)
<1>1. n \in Nat /\ s \in Seq(Nat) /\ \A i \in 1 .. n : s[i] \in Nat
  BY LenProperties, ElementOfSeq DEF Bytes
<1>2. Be(s) = [i \in 1 .. n |-> s[(n - i) + 1]]
  BY DEF Be, Reverse
<1>3. \A i \in 1 .. n : s[(n - i) + 1] \in Nat
  BY <1>1
<1>4. Be(s) \in Seq(Nat) /\ Len(Be(s)) = n
  <2> HIDE DEF n
  <2> QED BY <1>1, <1>2, <1>3, IsASeq, LenProperties
<1>5. Be(Be(s)) = [i \in 1 .. n |-> Be(s)[(n - i) + 1]]
  BY <1>4 DEF Be, Reverse
<1>6. \A i \in 1 .. n : Be(s)[(n - i) + 1] = s[i]
  BY <1>1, <1>2
<1>7. s = [i \in 1 .. n |-> s[i]]
  BY <1>1
<1>8. Be(Be(s)) = s
  <2> HIDE DEF n
  <2> QED BY <1>5, <1>6, <1>7
<1> QED BY <1>4, <1>8 DEF Bytes

LEMMA WideIs ==
    /\ \A n, w, m : Wide(U(n, w), m) = w /\ Wide(B(n, w), m) = w
    /\ \A n, o, m : o # "none" => Wide(D(n, o), m) = Num(m[o])
<1>1. \A n, w, m : Wide(U(n, w), m) = w
  BY UIs DEF Wide
<1>2. \A n, w, m : Wide(B(n, w), m) = w
  BY BIs DEF Wide
<1>3. \A n, o, m : o # "none" => Wide(D(n, o), m) = Num(m[o])
  BY DIs DEF Wide
<1> QED BY <1>1, <1>2, <1>3

LEMMA KeepIs ==
    /\ \A n, w, m, p : Keep(m, U(n, w), p) = Holding(m, n, p)
    /\ \A n, w, m, p : Keep(m, B(n, w), p) = Holding(m, n, Be(p))
    /\ \A n, o, m, p : Keep(m, D(n, o), p) = Holding(m, n, p)
<1>1. \A n, w, m, p : Keep(m, U(n, w), p) = Holding(m, n, p)
  BY UIs DEF Keep, Turned
<1>2. \A n, w, m, p : Keep(m, B(n, w), p) = Holding(m, n, Be(p))
  BY BIs DEF Keep, Turned
<1>3. \A n, o, m, p : Keep(m, D(n, o), p) = Holding(m, n, p)
  BY DIs DEF Keep, Turned
<1> QED BY <1>1, <1>2, <1>3

-------------------------------------------------------------------------------
(* Numbers and texts as they are written.                                   *)
LEMMA WidthIs ==
    ASSUME NEW w \in Nat, NEW v \in Width(w)
    PROVE  v \in Bytes /\ Len(v) = w /\ \A i \in 1 .. w : v[i] \in 0 .. 255
<1>1. \A i \in 1 .. w : v[i] \in 0 .. 255
  BY DEF Width
<1>2. \A i \in 1 .. w : v[i] \in Nat
  BY <1>1
<1>3. v = [i \in 1 .. w |-> v[i]] /\ DOMAIN v = 1 .. w
  BY DEF Width
<1>4. [i \in 1 .. w |-> v[i]] \in Seq(Nat)
  BY <1>2, IsASeq
<1>5. v \in Seq(Nat)
  BY <1>3, <1>4, Zenon
<1>6. Len(v) = w
  BY <1>3, <1>5, LenProperties
<1> QED BY <1>1, <1>5, <1>6 DEF Bytes

LEMMA BelowIs ==
    ASSUME NEW n \in Nat, NEW s \in Below(n)
    PROVE  s \in Bytes /\ Len(s) \in Nat /\ Len(s) < n
<1>1. s \in Seq(0 .. 255) /\ Len(s) < n
  BY DEF Below, Short
<1>2. Len(s) \in Nat /\ \A i \in 1 .. Len(s) : s[i] \in Nat
  <2> DEFINE Byte == 0 .. 255
  <2>1. s \in Seq(Byte)
    BY <1>1
  <2> HIDE DEF Byte
  <2>2. Len(s) \in Nat /\ \A i \in 1 .. Len(s) : s[i] \in Byte
    BY <2>1, LenProperties, ElementOfSeq
  <2>3. \A b \in Byte : b \in Nat
    BY DEF Byte
  <2> QED BY <2>2, <2>3
<1>3. s = [i \in 1 .. Len(s) |-> s[i]]
  BY <1>1, LenProperties
<1> DEFINE k == Len(s)
<1> HIDE DEF k
<1>4. [i \in 1 .. k |-> s[i]] \in Seq(Nat)
  BY <1>2, IsASeq DEF k
<1>5. s \in Seq(Nat)
  BY <1>3, <1>4 DEF k
<1> QED BY <1>1, <1>2, <1>5 DEF Bytes

LEMMA LeIs ==
    ASSUME NEW n \in Nat, NEW w \in Nat
    PROVE  /\ Le(n, w) \in Bytes /\ Len(Le(n, w)) = w /\ DOMAIN Le(n, w) = 1 .. w
           /\ \A i \in 1 .. w : Le(n, w)[i] = CASE i = 1 -> n % 256
                                                [] i = 2 -> (n \div 256) % 256
                                                [] i = 3 -> ((n \div 256) \div 256) % 256
                                                [] OTHER -> 0
<1> DEFINE d(i) == CASE i = 1 -> n % 256
                     [] i = 2 -> (n \div 256) % 256
                     [] i = 3 -> ((n \div 256) \div 256) % 256
                     [] OTHER -> 0
<1>1. n % 256 \in Nat /\ (n \div 256) % 256 \in Nat /\ ((n \div 256) \div 256) % 256 \in Nat
  OBVIOUS
<1>2. \A i \in 1 .. w : d(i) \in Nat
  BY <1>1
<1>3. Le(n, w) = [i \in 1 .. w |-> d(i)]
  BY DEF Le
<1>4. DOMAIN Le(n, w) = 1 .. w /\ \A i \in 1 .. w : Le(n, w)[i] = d(i)
  <2> HIDE DEF d
  <2> QED BY <1>3
<1>5. Le(n, w) \in Seq(Nat) /\ Len(Le(n, w)) = w
  <2>1. \A i \in 1 .. w : Le(n, w)[i] \in Nat
    <3> HIDE DEF d
    <3> QED BY <1>2, <1>4
  <2>2. [i \in 1 .. w |-> d(i)] \in Seq(Nat)
    <3> HIDE DEF d
    <3> QED BY <1>2, IsASeq
  <2>3. Le(n, w) \in Seq(Nat)
    <3> HIDE DEF d
    <3> QED BY <1>3, <2>2
  <2> QED BY <1>4, <2>3, LenProperties
<1> QED BY <1>4, <1>5 DEF Bytes

LEMMA NumLe1 ==
    ASSUME NEW n \in 0 .. 255
    PROVE  Num(Le(n, 1)) = n
<1> DEFINE l == Le(n, 1)
<1>1. DOMAIN l = 1 .. 1 /\ l[1] = n % 256
  BY DEF Le
<1> HIDE DEF l
<1>2. Digit(l, 1) = n /\ Digit(l, 2) = 0 /\ Digit(l, 3) = 0
  BY <1>1 DEF Digit
<1>3. ~ \E i \in DOMAIN l : i > 3 /\ l[i] # 0
  BY <1>1
<1> QED BY <1>2, <1>3 DEF Num, l

LEMMA NumLe2 ==
    ASSUME NEW n \in Nat, n < 256 * 256
    PROVE  Num(Le(n, 2)) = n
<1> DEFINE l == Le(n, 2)
<1>1. DOMAIN l = 1 .. 2 /\ l[1] = n % 256 /\ l[2] = (n \div 256) % 256
  BY DEF Le
<1> HIDE DEF l
<1>2. Digit(l, 1) = n % 256 /\ Digit(l, 2) = (n \div 256) % 256 /\ Digit(l, 3) = 0
  BY <1>1 DEF Digit
<1>3. ~ \E i \in DOMAIN l : i > 3 /\ l[i] # 0
  BY <1>1
<1>4. n = (n % 256) + 256 * ((n \div 256) % 256)
  <2> DEFINE b == n \div 256
  <2>1. b \in Nat /\ n = (n % 256) + 256 * b /\ b < 256
    <3>1. n \in Nat /\ n < 256 * 256
      OBVIOUS
    <3> QED BY <3>1
  <2> HIDE DEF b
  <2>2. b % 256 = b
    BY <2>1
  <2> QED BY <2>1, <2>2 DEF b
<1>5. Num(l) = (n % 256) + 256 * (((n \div 256) % 256) + 256 * 0)
  BY <1>2, <1>3 DEF Num
<1> DEFINE c == (n \div 256) % 256
           a == n % 256
<1>6. a \in Nat /\ c \in Nat
  OBVIOUS
<1> HIDE DEF a, c
<1>7. n = a + 256 * c /\ Num(l) = a + 256 * (c + 256 * 0)
  BY <1>4, <1>5 DEF a, c
<1>8. Num(l) = n
  BY <1>6, <1>7
<1> QED BY <1>8 DEF l

LEMMA NumLe4 ==
    ASSUME NEW n \in Nat, n < Beyond
    PROVE  Num(Le(n, 4)) = n
<1> DEFINE l == Le(n, 4)
           b == n \div 256
           c == b \div 256
<1>1. /\ DOMAIN l = 1 .. 4 /\ l[1] = n % 256 /\ l[2] = b % 256
      /\ l[3] = c % 256 /\ l[4] = 0
  BY DEF Le
<1>2. b \in Nat /\ n = (n % 256) + 256 * b /\ b < 256 * 256
  BY DEF Beyond
<1>3. c \in Nat /\ b = (b % 256) + 256 * c /\ c < 256
  BY <1>2
<1> HIDE DEF l
<1>4. Digit(l, 1) = n % 256 /\ Digit(l, 2) = b % 256 /\ Digit(l, 3) = c
  <2>1. c % 256 = c
    <3> HIDE DEF c
    <3> QED BY <1>3
  <2> QED BY <1>1, <2>1 DEF Digit
<1>5. ~ \E i \in DOMAIN l : i > 3 /\ l[i] # 0
  BY <1>1
<1>6. Num(l) = (n % 256) + 256 * ((b % 256) + 256 * c)
  BY <1>4, <1>5 DEF Num
<1>7. (n % 256) + 256 * ((b % 256) + 256 * c) = n
  BY <1>2, <1>3
<1> QED BY <1>6, <1>7 DEF l

-------------------------------------------------------------------------------
(* Pieces put behind one another from the last on.                          *)
Glue(a, b) == a \o b
Behind(w, n, k, s) == Glue(w[(n - k) + 1], s)
Tails(w, n) == LET run[k \in 0 .. n] == IF k = 0 THEN <<>> ELSE Behind(w, n, k, run[k - 1])
               IN  run[n]

(* The pieces from the last on. *)
LEMMA TailRuns ==
    ASSUME NEW n \in Nat, NEW w
    PROVE  \E r : /\ r[0] = <<>> /\ \A k \in 1 .. n : r[k] = Behind(w, n, k, r[k - 1])
                  /\ Tails(w, n) = r[n]
<1> DEFINE Runs(r, m) == r[0] = <<>> /\ \A k \in 1 .. m : r[k] = Behind(w, n, k, r[k - 1])
           Built(r) == [k \in 0 .. n |-> IF k = 0 THEN <<>> ELSE Behind(w, n, k, r[k - 1])]
           run == CHOOSE r : r = Built(r)
           S == { m \in 0 .. n : \E r : Runs(r, m) }
<1>1. Runs([k \in 0 .. 0 |-> <<>>], 0)
  OBVIOUS
<1>2. ASSUME NEW m \in 1 .. n, NEW h, Runs(h, m - 1) PROVE \E r : Runs(r, m)
  <2> DEFINE r == [k \in 0 .. m |-> IF k = m THEN Behind(w, n, m, h[m - 1]) ELSE h[k]]
  <2>1. r[0] = <<>> /\ r[m] = Behind(w, n, m, h[m - 1]) /\ \A k \in 0 .. m - 1 : r[k] = h[k]
    BY <1>2
  <2>2. \A k \in 1 .. m : k - 1 \in 0 .. m - 1 /\ (k # m => k \in 1 .. m - 1)
    OBVIOUS
  <2> HIDE DEF r
  <2>3. Runs(r, m)
    BY <1>2, <2>1, <2>2
  <2> QED BY <2>3
<1>3. PICK r : Runs(r, n)
  <2>1. 0 \in S /\ \A m \in 1 .. n : m - 1 \in S => m \in S
    <3> HIDE DEF Runs
    <3> QED BY <1>1, <1>2
  <2>2. n \in S
    <3> HIDE DEF S
    <3> QED BY <2>1, UpTo
  <2> QED BY <2>2
<1> DEFINE g == [k \in 0 .. n |-> r[k]]
<1>4. g = Built(g)
  <2>1. \A k \in 0 .. n : g[k] = IF k = 0 THEN <<>> ELSE Behind(w, n, k, g[k - 1])
    BY <1>3
  <2>2. g = [k \in 0 .. n |-> g[k]]
    OBVIOUS
  <2> HIDE DEF g
  <2> QED BY <2>1, <2>2
<1>5. run = Built(run)
  <2> HIDE DEF Built, g
  <2> QED BY <1>4
<1>6. Runs(run, n)
  <2> HIDE DEF run
  <2> QED BY <1>5
<1> QED BY <1>6 DEF Tails

LEMMA FlattenRuns ==
    ASSUME NEW n \in Nat, n # 0, NEW w, Len(w) = n
    PROVE  \E f : /\ f[1] = w[1] /\ \A k \in 2 .. n : f[k] = Glue(f[k - 1], w[k])
                  /\ FlattenSeq(w) = f[n]
<1> DEFINE Runs(r, m) == r[1] = w[1] /\ \A k \in 2 .. m : r[k] = Glue(r[k - 1], w[k])
           Built(r) == [k \in 1 .. n |-> IF k = 1 THEN w[k] ELSE Glue(r[k - 1], w[k])]
           run == CHOOSE r : r = Built(r)
           S == { m \in 0 .. n : \E r : Runs(r, m + 1) }
<1>1. Runs([k \in 1 .. 1 |-> w[1]], 0 + 1)
  OBVIOUS
<1>2. ASSUME NEW m \in 1 .. n, NEW h, Runs(h, (m - 1) + 1) PROVE \E r : Runs(r, m + 1)
  <2> DEFINE r == [k \in 1 .. m + 1 |-> IF k = m + 1 THEN Glue(h[m], w[m + 1]) ELSE h[k]]
  <2>1. r[1] = w[1] /\ r[m + 1] = Glue(h[m], w[m + 1]) /\ \A k \in 1 .. m : r[k] = h[k]
    BY <1>2
  <2>2. /\ \A k \in 2 .. m + 1 : k - 1 \in 1 .. m /\ (k # m + 1 => k \in 2 .. m /\ k \in 1 .. m)
        /\ (m + 1) - 1 = m /\ (m - 1) + 1 = m
    OBVIOUS
  <2> HIDE DEF r
  <2>3. Runs(r, m + 1)
    BY <1>2, <2>1, <2>2
  <2> QED BY <2>3
<1>3. PICK r : Runs(r, n)
  <2>1. 0 \in S /\ \A m \in 1 .. n : m - 1 \in S => m \in S
    <3> HIDE DEF Runs
    <3> QED BY <1>1, <1>2
  <2>2. n - 1 \in S
    <3> HIDE DEF S
    <3> QED BY <2>1, UpTo
  <2>3. (n - 1) + 1 = n
    OBVIOUS
  <2> QED BY <2>2, <2>3
<1> DEFINE g == [k \in 1 .. n |-> r[k]]
<1>4. g = Built(g)
  <2>1. \A k \in 1 .. n : g[k] = IF k = 1 THEN w[k] ELSE Glue(g[k - 1], w[k])
    BY <1>3
  <2>2. g = [k \in 1 .. n |-> g[k]]
    OBVIOUS
  <2> HIDE DEF g
  <2> QED BY <2>1, <2>2
<1>5. run = Built(run)
  <2> HIDE DEF Built, g
  <2> QED BY <1>4
<1>6. Runs(run, n)
  <2> HIDE DEF run
  <2> QED BY <1>5
<1> QED BY <1>6 DEF FlattenSeq, Glue

LEMMA NothingBehind ==
    ASSUME NEW s \in Bytes
    PROVE  s \o <<>> = s /\ <<>> \o s = s /\ <<>> \in Bytes /\ Len(<<>>) = 0
BY ConcatEmptySeq, EmptySeq DEF Bytes

(* The pieces one by one, from the first to nothing.                        *)
LEMMA Pieces ==
    ASSUME NEW n \in Nat, NEW w \in Seq(Bytes), Len(w) = n
    PROVE  \E s : /\ s[0] = FlattenSeq(w) /\ s[n] = <<>>
                  /\ \A k \in 0 .. n : s[k] \in Bytes
                  /\ \A k \in 1 .. n : w[k] \in Bytes /\ s[k - 1] = w[k] \o s[k]
<1>1. \A k \in 1 .. n : w[k] \in Bytes
  BY ElementOfSeq
<1>2. PICK r : /\ r[0] = <<>> /\ \A k \in 1 .. n : r[k] = Behind(w, n, k, r[k - 1])
               /\ Tails(w, n) = r[n]
  BY TailRuns
<1>3. \A k \in 0 .. n : r[k] \in Bytes
  <2> DEFINE S == { k \in 0 .. n : r[k] \in Bytes }
  <2>1. 0 \in S
    <3>1. <<>> \in Bytes
      BY EmptySeq DEF Bytes
    <3>2. r[0] \in Bytes
      BY <1>2, <3>1, Zenon
    <3>3. 0 \in 0 .. n
      OBVIOUS
    <3> QED BY <3>2, <3>3
  <2>2. ASSUME NEW k \in 1 .. n, k - 1 \in S PROVE k \in S
    <3>1. (n - k) + 1 \in 1 .. n /\ r[k - 1] \in Bytes
      BY <2>2
    <3>2. w[(n - k) + 1] \o r[k - 1] \in Bytes
      BY <1>1, <3>1, CutOf
    <3>3. r[k] = w[(n - k) + 1] \o r[k - 1]
      BY <1>2 DEF Behind, Glue
    <3>4. r[k] \in Bytes
      BY <3>2, <3>3, Zenon
    <3> QED BY <3>4
  <2> HIDE DEF S
  <2>3. \A k \in 0 .. n : k \in S
    BY <2>1, <2>2, UpTo
  <2> QED BY <2>3 DEF S
<1> DEFINE s == [k \in 0 .. n |-> r[n - k]]
<1>4. \A k \in 0 .. n : s[k] \in Bytes
  BY <1>3
<1>5. s[n] = <<>>
  BY <1>2
<1>6. \A k \in 1 .. n : s[k - 1] = w[k] \o s[k]
  <2> SUFFICES ASSUME NEW k \in 1 .. n PROVE s[k - 1] = w[k] \o s[k]
    OBVIOUS
  <2>1. /\ n - (k - 1) \in 1 .. n /\ (n - (n - (k - 1))) + 1 = k /\ (n - (k - 1)) - 1 = n - k
        /\ k - 1 \in 0 .. n /\ k \in 0 .. n
    OBVIOUS
  <2>2. r[n - (k - 1)] = w[k] \o r[n - k]
    <3>1. r[n - (k - 1)] = Behind(w, n, n - (k - 1), r[(n - (k - 1)) - 1])
      BY <1>2, <2>1, Zenon
    <3> QED BY <2>1, <3>1 DEF Behind, Glue
  <2> QED BY <2>1, <2>2
<1> HIDE DEF s
<1>7. s[0] = FlattenSeq(w)
  <2>1. CASE n = 0
    <3>1. FlattenSeq(w) = w
      BY <2>1 DEF FlattenSeq
    <3>2. w = <<>>
      BY <2>1, EmptySeq
    <3> QED BY <1>5, <2>1, <3>1, <3>2
  <2>2. CASE n # 0
    <3>1. PICK f : /\ f[1] = w[1] /\ \A k \in 2 .. n : f[k] = Glue(f[k - 1], w[k])
                   /\ FlattenSeq(w) = f[n]
      BY <2>2, FlattenRuns
    <3> DEFINE Good(j) == f[j] \in Bytes /\ f[j] \o s[j] = s[0]
               S == { k \in 0 .. n - 1 : Good(k + 1) }
    <3>2. Good(0 + 1)
      <4>1. 1 \in 1 .. n /\ 1 - 1 = 0 /\ 0 + 1 = 1
        BY <2>2
      <4>2. s[1 - 1] = w[1] \o s[1]
        BY <1>6, <4>1, Zenon
      <4> QED BY <1>1, <3>1, <4>1, <4>2
    <3>3. ASSUME NEW k \in 1 .. n - 1, Good((k - 1) + 1) PROVE Good(k + 1)
      <4>1. /\ (k - 1) + 1 = k /\ k + 1 \in 2 .. n /\ k + 1 \in 1 .. n /\ (k + 1) - 1 = k
            /\ k + 1 \in 0 .. n
        OBVIOUS
      <4>2. f[k + 1] = f[k] \o w[k + 1] /\ s[k] = w[k + 1] \o s[k + 1]
        <5>1. f[k + 1] = Glue(f[(k + 1) - 1], w[k + 1]) /\ s[(k + 1) - 1] = w[k + 1] \o s[k + 1]
          BY <1>6, <3>1, <4>1, Zenon
        <5> QED BY <4>1, <5>1 DEF Glue
      <4>3. w[k + 1] \in Bytes /\ s[k + 1] \in Bytes /\ f[k] \in Bytes /\ f[k] \o s[k] = s[0]
        BY <1>1, <1>4, <3>3, <4>1
      <4>4. f[k + 1] \in Bytes /\ f[k + 1] \o s[k + 1] = s[0]
        <5>1. f[k] \o w[k + 1] \in Bytes
          BY <4>3, CutOf
        <5>2. (f[k] \o w[k + 1]) \o s[k + 1] = f[k] \o (w[k + 1] \o s[k + 1])
          BY <4>3, Joined
        <5> QED BY <4>2, <4>3, <5>1, <5>2, Zenon
      <4> QED BY <4>4
    <3>4. n - 1 \in S
      <4>1. 0 \in S /\ \A k \in 1 .. n - 1 : k - 1 \in S => k \in S
        <5>1. \A k \in 1 .. n - 1 : k \in 0 .. n - 1
          OBVIOUS
        <5>2. 0 \in 0 .. n - 1
          BY <2>2
        <5> HIDE DEF Good
        <5> QED BY <3>2, <3>3, <5>1, <5>2
      <4>2. n - 1 \in Nat /\ n - 1 \in 0 .. n - 1
        BY <2>2
      <4> HIDE DEF S
      <4> DEFINE j == n - 1
      <4> HIDE DEF j
      <4>3. j \in Nat /\ j \in 0 .. j /\ \A k \in 1 .. j : k - 1 \in S => k \in S
        BY <4>1, <4>2 DEF j
      <4>4. j \in S
        BY <4>1, <4>3, UpTo
      <4> QED BY <4>4 DEF j
    <3>5. Good(n)
      <4>1. (n - 1) + 1 = n
        OBVIOUS
      <4> QED BY <3>4, <4>1
    <3>6. f[n] = s[0]
      BY <1>5, <3>5, NothingBehind
    <3> QED BY <3>1, <3>6
  <2> QED BY <2>1, <2>2
<1> QED BY <1>1, <1>4, <1>5, <1>6, <1>7

ArePieces(w, n) == w \in Seq(Bytes) /\ Len(w) = n /\ \A k \in 1 .. n : Len(w[k]) > 0

(* Each piece has a byte at least.                                          *)
LEMMA NotShorter ==
    ASSUME NEW n \in Nat, NEW w \in Seq(Bytes), Len(w) = n,
           \A k \in 1 .. n : Len(w[k]) > 0
    PROVE  FlattenSeq(w) \in Bytes /\ Len(FlattenSeq(w)) >= n
<1>1. PICK s : /\ s[0] = FlattenSeq(w) /\ s[n] = <<>>
               /\ \A k \in 0 .. n : s[k] \in Bytes
               /\ \A k \in 1 .. n : w[k] \in Bytes /\ s[k - 1] = w[k] \o s[k]
  BY Pieces
<1> DEFINE S == { k \in 0 .. n : Len(s[n - k]) >= k }
<1>2. 0 \in S
  BY <1>1, NothingBehind
<1>3. ASSUME NEW k \in 1 .. n, k - 1 \in S PROVE k \in S
  <2> DEFINE j == (n - k) + 1
  <2>1. j \in 1 .. n /\ n - (k - 1) = j /\ j - 1 = n - k /\ j \in 0 .. n
    OBVIOUS
  <2>2. Len(s[j]) >= k - 1
    BY <1>3, <2>1
  <2> HIDE DEF j
  <2>3. s[j - 1] = w[j] \o s[j] /\ w[j] \in Bytes /\ s[j] \in Bytes /\ Len(w[j]) > 0
    BY <1>1, <2>1
  <2>4. Len(s[j - 1]) = Len(w[j]) + Len(s[j]) /\ Len(w[j]) \in Nat /\ Len(s[j]) \in Nat
    BY <2>3, CutOf, LenProperties DEF Bytes
  <2>5. Len(s[n - k]) >= k
    <3> DEFINE a == Len(w[j])
               b == Len(s[j])
               c == Len(s[j - 1])
    <3>1. c = a + b /\ a \in Nat /\ b \in Nat /\ a > 0 /\ b >= k - 1
      BY <2>2, <2>3, <2>4
    <3> HIDE DEF a, b, c
    <3>2. c >= k
      BY <3>1
    <3> QED BY <2>1, <3>2 DEF c
  <2> QED BY <2>5
<1>4. n \in S
  <2>1. \A k \in 1 .. n : k - 1 \in S => k \in S
    BY <1>3
  <2> HIDE DEF S
  <2>2. \A k \in 0 .. n : k \in S
    BY <1>2, <2>1, UpTo
  <2> QED BY <2>2
<1>5. n - n = 0 /\ 0 \in 0 .. n
  OBVIOUS
<1> QED BY <1>1, <1>4, <1>5

(* A loop over pieces each of which its pass reads. *)
ListPassReads(n, w, m, name, l) ==
    \A k \in 1 .. n : \A z \in Bytes : ListPass(Cursor(w[k] \o z, m[k - 1]), name, l) = Cursor(z, m[k])

LEMMA ListPassReadsAll ==
    ASSUME NEW n \in Nat, NEW w, ArePieces(w, n), NEW q \in Bytes, NEW m, NEW name, NEW l,
           ListPassReads(n, w, m, name, l)
    PROVE  ListLoop(Cursor(FlattenSeq(w) \o q, m[0]), n, name, l) = Cursor(q, m[n])
<1> DEFINE d == Cursor(FlattenSeq(w) \o q, m[0])
           whole == ListLoop(d, n, name, l)
<1>1. PICK s : /\ s[0] = FlattenSeq(w) /\ s[n] = <<>>
               /\ \A k \in 0 .. n : s[k] \in Bytes
               /\ \A k \in 1 .. n : w[k] \in Bytes /\ s[k - 1] = w[k] \o s[k]
  BY Pieces DEF ArePieces
<1>2. d.ok /\ d.rest = FlattenSeq(w) \o q
  BY CursorIs
<1>3. ~(n > Len(d.rest))
  <2>1. FlattenSeq(w) \in Bytes /\ Len(FlattenSeq(w)) >= n
    BY NotShorter DEF ArePieces
  <2>2. Len(FlattenSeq(w) \o q) = Len(FlattenSeq(w)) + Len(q)
    BY <2>1, CutOf
  <2>3. Len(FlattenSeq(w)) \in Nat /\ Len(q) \in Nat
    BY <2>1, LenProperties DEF Bytes
  <2> DEFINE a == FlattenSeq(w)
  <2> HIDE DEF a, d
  <2>4. Len(d.rest) = Len(a) + Len(q) /\ Len(a) >= n /\ Len(a) \in Nat
    BY <1>2, <2>1, <2>2, <2>3 DEF a
  <2> QED BY <2>3, <2>4
<1>4. PICK r : /\ r[0] = d /\ \A k \in 1 .. n : r[k] = (IF r[k - 1].ok THEN ListPass(r[k - 1], name, l) ELSE r[k - 1])
               /\ whole = r[n]
  <2> HIDE DEF d
  <2>1. \E r : /\ r[0] = d /\ \A k \in 1 .. n : r[k] = (IF r[k - 1].ok THEN ListPass(r[k - 1], name, l) ELSE r[k - 1])
               /\ ListTimes(d, n, name, l) = r[n]
    BY ListRuns
  <2>2. whole = ListTimes(d, n, name, l)
    BY <1>2, <1>3 DEF ListLoop, ListTimes, Repeat, Times, Then
  <2> HIDE DEF whole
  <2> QED BY <2>1, <2>2
<1> DEFINE S == { k \in 0 .. n : r[k] = Cursor(s[k] \o q, m[k]) }
<1>5. 0 \in S
  BY <1>1, <1>4
<1>6. ASSUME NEW k \in 1 .. n, k - 1 \in S PROVE k \in S
  <2> DEFINE a == r[k - 1]
             z == s[k] \o q
  <2>1. k \in 0 .. n /\ k - 1 \in 0 .. n
    OBVIOUS
  <2>2. a = Cursor(s[k - 1] \o q, m[k - 1])
    BY <1>6
  <2>3. s[k - 1] \o q = w[k] \o z /\ z \in Bytes
    <3>1. w[k] \in Bytes /\ s[k] \in Bytes /\ s[k - 1] = w[k] \o s[k]
      BY <1>1, <2>1
    <3>2. (w[k] \o s[k]) \o q = w[k] \o (s[k] \o q) /\ s[k] \o q \in Bytes
      BY <3>1, Joined
    <3> QED BY <3>1, <3>2, Zenon
  <2>4. r[k] = (IF a.ok THEN ListPass(a, name, l) ELSE a)
    BY <1>4
  <2> HIDE DEF a, z
  <2>5. a = Cursor(w[k] \o z, m[k - 1]) /\ a.ok
    BY <2>2, <2>3, CursorIs
  <2>6. ListPass(Cursor(w[k] \o z, m[k - 1]), name, l) = Cursor(z, m[k])
    BY <2>3 DEF ListPassReads
  <2>7. r[k] = ListPass(a, name, l)
    BY <2>4, <2>5
  <2>8. r[k] = Cursor(z, m[k])
    BY <2>5, <2>6, <2>7, Zenon
  <2> QED BY <2>1, <2>8 DEF z
<1>7. n \in S
  <2>1. \A k \in 1 .. n : k - 1 \in S => k \in S
    BY <1>6
  <2> HIDE DEF S
  <2>2. \A k \in 0 .. n : k \in S
    BY <1>5, <2>1, UpTo
  <2> QED BY <2>2
<1>8. r[n] = Cursor(s[n] \o q, m[n])
  BY <1>7
<1>9. s[n] \o q = q
  BY <1>1, NothingBehind
<1> QED BY <1>4, <1>8, <1>9, Zenon

LEMMA Appended ==
    ASSUME NEW k \in Nat, NEW v
    PROVE  Append([j \in 1 .. k |-> v[j]], v[k + 1]) = [j \in 1 .. k + 1 |-> v[j]]
<1> DEFINE s == [j \in 1 .. k |-> v[j]]
           t == [j \in 1 .. k + 1 |-> v[j]]
           V == { v[j] : j \in 1 .. k + 1 }
<1>1. /\ \A j \in 1 .. k : v[j] \in V
      /\ \A j \in 1 .. k + 1 : v[j] \in V
      /\ v[k + 1] \in V
  OBVIOUS
<1>2. k + 1 \in Nat
  OBVIOUS
<1> HIDE DEF V
<1>3. s \in Seq(V)
  BY <1>1, IsASeq
<1>4. t \in Seq(V)
  BY <1>1, <1>2, IsASeq
<1>5. DOMAIN s = 1 .. k /\ DOMAIN t = 1 .. k + 1
  OBVIOUS
<1>6. Len(s) = k /\ Len(t) = k + 1
  <2> HIDE DEF s, t
  <2> QED BY <1>2, <1>3, <1>4, <1>5, LenProperties
<1>7. (\A j \in 1 .. k : s[j] = v[j]) /\ \A j \in 1 .. k + 1 : t[j] = v[j]
  OBVIOUS
<1> HIDE DEF s, t
<1> DEFINE a == Append(s, v[k + 1])
<1>8. a \in Seq(V) /\ Len(a) = k + 1 /\ (\A j \in 1 .. k : a[j] = s[j]) /\ a[k + 1] = v[k + 1]
  BY <1>1, <1>3, <1>6, AppendProperties
<1> HIDE DEF a
<1>9. \A j \in 1 .. k + 1 : a[j] = t[j]
  <2>1. \A j \in 1 .. k + 1 : j = k + 1 \/ j \in 1 .. k
    OBVIOUS
  <2> QED BY <1>7, <1>8, <2>1
<1>10. a = t
  BY <1>4, <1>6, <1>8, <1>9, SeqEqual
<1> QED BY <1>10 DEF a, s, t

LEMMA Relisted ==
    ASSUME NEW m, NEW name, NEW a, NEW b
    PROVE  [Holding(m, name, a) EXCEPT ![name] = Append(@, b)] = Holding(m, name, Append(a, b))
<1> DEFINE h == Holding(m, name, a)
<1>1. DOMAIN h = DOMAIN m \cup {name} /\ h[name] = a
  <2>1. h[name] = a
    BY HoldingIs
  <2>2. DOMAIN h = DOMAIN m \cup {name}
    BY HoldingIs
  <2> QED BY <2>1, <2>2
<1>2. h = [f \in DOMAIN m \cup {name} |-> IF f = name THEN a ELSE m[f]]
  BY DEF Holding
<1> DEFINE k == Append(a, b)
<1>3. [h EXCEPT ![name] = Append(@, b)] = [f \in DOMAIN h |-> IF f = name THEN k ELSE h[f]]
  <2> HIDE DEF h
  <2> QED BY <1>1
<1> HIDE DEF k
<1>4. \A f \in DOMAIN m \cup {name} : f # name => h[f] = m[f]
  BY <1>2
<1>5. Holding(m, name, k) = [f \in DOMAIN m \cup {name} |-> IF f = name THEN k ELSE m[f]]
  BY DEF Holding
<1> HIDE DEF h
<1>6. [f \in DOMAIN h |-> IF f = name THEN k ELSE h[f]]
        = [f \in DOMAIN m \cup {name} |-> IF f = name THEN k ELSE m[f]]
  BY <1>1, <1>4
<1> QED BY <1>3, <1>5, <1>6, Zenon DEF k, h

ReadsEach(n, w, l, v) ==
    \A k \in 1 .. n : \A z \in Bytes : Read(Cursor(w[k] \o z, <<>>), l) = Cursor(z, v[k])

(* Records behind one another, each of which the layout reads.              *)
LEMMA ListReads ==
    ASSUME NEW n \in Nat, NEW w, ArePieces(w, n), NEW q \in Bytes, NEW g, NEW name, NEW l,
           NEW v, ReadsEach(n, w, l, v)
    PROVE  ReadList(Cursor(FlattenSeq(w) \o q, g), name, n, l)
             = Cursor(q, Holding(g, name, [j \in 1 .. n |-> v[j]]))
<1> DEFINE m == [k \in 0 .. n |-> Holding(g, name, [j \in 1 .. k |-> v[j]])]
           y == FlattenSeq(w) \o q
<1>1. ASSUME NEW k \in 1 .. n, NEW z \in Bytes
      PROVE  ListPass(Cursor(w[k] \o z, m[k - 1]), name, l) = Cursor(z, m[k])
  <2> DEFINE e == Cursor(w[k] \o z, m[k - 1])
             a == [j \in 1 .. k - 1 |-> v[j]]
  <2>1. e.rest = w[k] \o z /\ e.m = m[k - 1]
    BY CursorIs
  <2>2. m[k - 1] = Holding(g, name, a) /\ m[k] = Holding(g, name, [j \in 1 .. k |-> v[j]])
    OBVIOUS
  <2> HIDE DEF e, m
  <2>3. Read(Fresh(e), l) = Cursor(z, v[k])
    BY <2>1 DEF Fresh, ReadsEach
  <2>4. Listed(e, name, Cursor(z, v[k])) = Cursor(z, [e.m EXCEPT ![name] = Append(@, v[k])])
    BY CursorIs DEF Listed, Then
  <2>5. Append(a, v[k]) = [j \in 1 .. k |-> v[j]]
    <3> DEFINE i == k - 1
    <3>1. i \in Nat /\ i + 1 = k
      OBVIOUS
    <3> HIDE DEF i
    <3>2. Append([j \in 1 .. i |-> v[j]], v[i + 1]) = [j \in 1 .. i + 1 |-> v[j]]
      BY <3>1, Appended
    <3> QED BY <3>1, <3>2 DEF i
  <2> HIDE DEF a
  <2>6. [Holding(g, name, a) EXCEPT ![name] = Append(@, v[k])] = Holding(g, name, Append(a, v[k]))
    BY Relisted
  <2>7. [e.m EXCEPT ![name] = Append(@, v[k])] = m[k]
    BY <2>1, <2>2, <2>5, <2>6, Zenon
  <2>8. ListPass(e, name, l) = Cursor(z, m[k])
    BY <2>3, <2>4, <2>7, Zenon DEF ListPass
  <2> QED BY <2>8 DEF e
<1>2. m[0] = Holding(g, name, <<>>) /\ m[n] = Holding(g, name, [j \in 1 .. n |-> v[j]])
  OBVIOUS
<1> HIDE DEF m
<1>3. ListLoop(Cursor(y, m[0]), n, name, l) = Cursor(q, m[n])
  <2>1. ListPassReads(n, w, m, name, l)
    BY <1>1 DEF ListPassReads
  <2> QED BY <2>1, ListPassReadsAll
<1>4. With(Cursor(y, g), name, <<>>) = Cursor(y, m[0])
  <2> HIDE DEF y
  <2> QED BY <1>2, CursorIs DEF With
<1> HIDE DEF y
<1>5. ReadList(Cursor(y, g), name, n, l) = ListLoop(With(Cursor(y, g), name, <<>>), n, name, l)
  BY DEF ReadList, ListLoop
<1>6. ReadList(Cursor(y, g), name, n, l) = Cursor(q, Holding(g, name, [j \in 1 .. n |-> v[j]]))
  BY <1>2, <1>3, <1>4, <1>5, Zenon
<1> QED BY <1>6 DEF y

(* The same for tags. *)
TagPassReads(n, w, m, texts, words, skip) ==
    \A k \in 1 .. n : \A z \in Bytes : TagPass(Cursor(w[k] \o z, m[k - 1]), texts, words, skip) = Cursor(z, m[k])

LEMMA TagPassReadsAll ==
    ASSUME NEW n \in Nat, NEW w, ArePieces(w, n), NEW q \in Bytes, NEW m, NEW texts, NEW words, NEW skip,
           TagPassReads(n, w, m, texts, words, skip)
    PROVE  ReadTags(Cursor(FlattenSeq(w) \o q, m[0]), n, texts, words, skip) = Cursor(q, m[n])
<1> DEFINE d == Cursor(FlattenSeq(w) \o q, m[0])
           whole == ReadTags(d, n, texts, words, skip)
<1>1. PICK s : /\ s[0] = FlattenSeq(w) /\ s[n] = <<>>
               /\ \A k \in 0 .. n : s[k] \in Bytes
               /\ \A k \in 1 .. n : w[k] \in Bytes /\ s[k - 1] = w[k] \o s[k]
  BY Pieces DEF ArePieces
<1>2. d.ok /\ d.rest = FlattenSeq(w) \o q
  BY CursorIs
<1>3. ~(n > Len(d.rest))
  <2>1. FlattenSeq(w) \in Bytes /\ Len(FlattenSeq(w)) >= n
    BY NotShorter DEF ArePieces
  <2>2. Len(FlattenSeq(w) \o q) = Len(FlattenSeq(w)) + Len(q)
    BY <2>1, CutOf
  <2>3. Len(FlattenSeq(w)) \in Nat /\ Len(q) \in Nat
    BY <2>1, LenProperties DEF Bytes
  <2> DEFINE a == FlattenSeq(w)
  <2> HIDE DEF a, d
  <2>4. Len(d.rest) = Len(a) + Len(q) /\ Len(a) >= n /\ Len(a) \in Nat
    BY <1>2, <2>1, <2>2, <2>3 DEF a
  <2> QED BY <2>3, <2>4
<1>4. PICK r : /\ r[0] = d /\ \A k \in 1 .. n : r[k] = (IF r[k - 1].ok THEN TagPass(r[k - 1], texts, words, skip) ELSE r[k - 1])
               /\ whole = r[n]
  <2> HIDE DEF d
  <2>1. \E r : /\ r[0] = d /\ \A k \in 1 .. n : r[k] = (IF r[k - 1].ok THEN TagPass(r[k - 1], texts, words, skip) ELSE r[k - 1])
               /\ TagTimes(d, n, texts, words, skip) = r[n]
    BY TagRuns
  <2>2. whole = TagTimes(d, n, texts, words, skip)
    BY <1>2, <1>3 DEF ReadTags, TagTimes, Repeat, Times, Then
  <2> HIDE DEF whole
  <2> QED BY <2>1, <2>2
<1> DEFINE S == { k \in 0 .. n : r[k] = Cursor(s[k] \o q, m[k]) }
<1>5. 0 \in S
  BY <1>1, <1>4
<1>6. ASSUME NEW k \in 1 .. n, k - 1 \in S PROVE k \in S
  <2> DEFINE a == r[k - 1]
             z == s[k] \o q
  <2>1. k \in 0 .. n /\ k - 1 \in 0 .. n
    OBVIOUS
  <2>2. a = Cursor(s[k - 1] \o q, m[k - 1])
    BY <1>6
  <2>3. s[k - 1] \o q = w[k] \o z /\ z \in Bytes
    <3>1. w[k] \in Bytes /\ s[k] \in Bytes /\ s[k - 1] = w[k] \o s[k]
      BY <1>1, <2>1
    <3>2. (w[k] \o s[k]) \o q = w[k] \o (s[k] \o q) /\ s[k] \o q \in Bytes
      BY <3>1, Joined
    <3> QED BY <3>1, <3>2, Zenon
  <2>4. r[k] = (IF a.ok THEN TagPass(a, texts, words, skip) ELSE a)
    BY <1>4
  <2> HIDE DEF a, z
  <2>5. a = Cursor(w[k] \o z, m[k - 1]) /\ a.ok
    BY <2>2, <2>3, CursorIs
  <2>6. TagPass(Cursor(w[k] \o z, m[k - 1]), texts, words, skip) = Cursor(z, m[k])
    BY <2>3 DEF TagPassReads
  <2>7. r[k] = TagPass(a, texts, words, skip)
    BY <2>4, <2>5
  <2>8. r[k] = Cursor(z, m[k])
    BY <2>5, <2>6, <2>7, Zenon
  <2> QED BY <2>1, <2>8 DEF z
<1>7. n \in S
  <2>1. \A k \in 1 .. n : k - 1 \in S => k \in S
    BY <1>6
  <2> HIDE DEF S
  <2>2. \A k \in 0 .. n : k \in S
    BY <1>5, <2>1, UpTo
  <2> QED BY <2>2
<1>8. r[n] = Cursor(s[n] \o q, m[n])
  BY <1>7
<1>9. s[n] \o q = q
  BY <1>1, NothingBehind
<1> QED BY <1>4, <1>8, <1>9, Zenon

(* The same for the tags of a file. *)
EntryTagReads(n, w, m) ==
    \A k \in 1 .. n : \A z \in Bytes : EntryTagPass(Cursor(w[k] \o z, m[k - 1])) = Cursor(z, m[k])

LEMMA EntryTagReadsAll ==
    ASSUME NEW n \in Nat, NEW w, ArePieces(w, n), NEW q \in Bytes, NEW m,
           EntryTagReads(n, w, m)
    PROVE  EntryTagLoop(Cursor(FlattenSeq(w) \o q, m[0]), n) = Cursor(q, m[n])
<1> DEFINE d == Cursor(FlattenSeq(w) \o q, m[0])
           whole == EntryTagLoop(d, n)
<1>1. PICK s : /\ s[0] = FlattenSeq(w) /\ s[n] = <<>>
               /\ \A k \in 0 .. n : s[k] \in Bytes
               /\ \A k \in 1 .. n : w[k] \in Bytes /\ s[k - 1] = w[k] \o s[k]
  BY Pieces DEF ArePieces
<1>2. d.ok /\ d.rest = FlattenSeq(w) \o q
  BY CursorIs
<1>3. ~(n > Len(d.rest))
  <2>1. FlattenSeq(w) \in Bytes /\ Len(FlattenSeq(w)) >= n
    BY NotShorter DEF ArePieces
  <2>2. Len(FlattenSeq(w) \o q) = Len(FlattenSeq(w)) + Len(q)
    BY <2>1, CutOf
  <2>3. Len(FlattenSeq(w)) \in Nat /\ Len(q) \in Nat
    BY <2>1, LenProperties DEF Bytes
  <2> DEFINE a == FlattenSeq(w)
  <2> HIDE DEF a, d
  <2>4. Len(d.rest) = Len(a) + Len(q) /\ Len(a) >= n /\ Len(a) \in Nat
    BY <1>2, <2>1, <2>2, <2>3 DEF a
  <2> QED BY <2>3, <2>4
<1>4. PICK r : /\ r[0] = d /\ \A k \in 1 .. n : r[k] = (IF r[k - 1].ok THEN EntryTagPass(r[k - 1]) ELSE r[k - 1])
               /\ whole = r[n]
  <2> HIDE DEF d
  <2>1. \E r : /\ r[0] = d /\ \A k \in 1 .. n : r[k] = (IF r[k - 1].ok THEN EntryTagPass(r[k - 1]) ELSE r[k - 1])
               /\ EntryTagTimes(d, n) = r[n]
    BY EntryTagRuns
  <2>2. whole = EntryTagTimes(d, n)
    BY <1>2, <1>3 DEF EntryTagLoop, EntryTagTimes, Repeat, Times, Then
  <2> HIDE DEF whole
  <2> QED BY <2>1, <2>2
<1> DEFINE S == { k \in 0 .. n : r[k] = Cursor(s[k] \o q, m[k]) }
<1>5. 0 \in S
  BY <1>1, <1>4
<1>6. ASSUME NEW k \in 1 .. n, k - 1 \in S PROVE k \in S
  <2> DEFINE a == r[k - 1]
             z == s[k] \o q
  <2>1. k \in 0 .. n /\ k - 1 \in 0 .. n
    OBVIOUS
  <2>2. a = Cursor(s[k - 1] \o q, m[k - 1])
    BY <1>6
  <2>3. s[k - 1] \o q = w[k] \o z /\ z \in Bytes
    <3>1. w[k] \in Bytes /\ s[k] \in Bytes /\ s[k - 1] = w[k] \o s[k]
      BY <1>1, <2>1
    <3>2. (w[k] \o s[k]) \o q = w[k] \o (s[k] \o q) /\ s[k] \o q \in Bytes
      BY <3>1, Joined
    <3> QED BY <3>1, <3>2, Zenon
  <2>4. r[k] = (IF a.ok THEN EntryTagPass(a) ELSE a)
    BY <1>4
  <2> HIDE DEF a, z
  <2>5. a = Cursor(w[k] \o z, m[k - 1]) /\ a.ok
    BY <2>2, <2>3, CursorIs
  <2>6. EntryTagPass(Cursor(w[k] \o z, m[k - 1])) = Cursor(z, m[k])
    BY <2>3 DEF EntryTagReads
  <2>7. r[k] = EntryTagPass(a)
    BY <2>4, <2>5
  <2>8. r[k] = Cursor(z, m[k])
    BY <2>5, <2>6, <2>7, Zenon
  <2> QED BY <2>1, <2>8 DEF z
<1>7. n \in S
  <2>1. \A k \in 1 .. n : k - 1 \in S => k \in S
    BY <1>6
  <2> HIDE DEF S
  <2>2. \A k \in 0 .. n : k \in S
    BY <1>5, <2>1, UpTo
  <2> QED BY <2>2
<1>8. r[n] = Cursor(s[n] \o q, m[n])
  BY <1>7
<1>9. s[n] \o q = q
  BY <1>1, NothingBehind
<1> QED BY <1>4, <1>8, <1>9, Zenon

(* The same for files. *)
FileReads(n, w, m) ==
    \A k \in 1 .. n : \A z \in Bytes : FilePass(Cursor(w[k] \o z, m[k - 1])) = Cursor(z, m[k])

LEMMA FileReadsAll ==
    ASSUME NEW n \in Nat, NEW w, ArePieces(w, n), NEW q \in Bytes, NEW m,
           FileReads(n, w, m)
    PROVE  FileLoop(Cursor(FlattenSeq(w) \o q, m[0]), n) = Cursor(q, m[n])
<1> DEFINE d == Cursor(FlattenSeq(w) \o q, m[0])
           whole == FileLoop(d, n)
<1>1. PICK s : /\ s[0] = FlattenSeq(w) /\ s[n] = <<>>
               /\ \A k \in 0 .. n : s[k] \in Bytes
               /\ \A k \in 1 .. n : w[k] \in Bytes /\ s[k - 1] = w[k] \o s[k]
  BY Pieces DEF ArePieces
<1>2. d.ok /\ d.rest = FlattenSeq(w) \o q
  BY CursorIs
<1>3. ~(n > Len(d.rest))
  <2>1. FlattenSeq(w) \in Bytes /\ Len(FlattenSeq(w)) >= n
    BY NotShorter DEF ArePieces
  <2>2. Len(FlattenSeq(w) \o q) = Len(FlattenSeq(w)) + Len(q)
    BY <2>1, CutOf
  <2>3. Len(FlattenSeq(w)) \in Nat /\ Len(q) \in Nat
    BY <2>1, LenProperties DEF Bytes
  <2> DEFINE a == FlattenSeq(w)
  <2> HIDE DEF a, d
  <2>4. Len(d.rest) = Len(a) + Len(q) /\ Len(a) >= n /\ Len(a) \in Nat
    BY <1>2, <2>1, <2>2, <2>3 DEF a
  <2> QED BY <2>3, <2>4
<1>4. PICK r : /\ r[0] = d /\ \A k \in 1 .. n : r[k] = (IF r[k - 1].ok THEN FilePass(r[k - 1]) ELSE r[k - 1])
               /\ whole = r[n]
  <2> HIDE DEF d
  <2>1. \E r : /\ r[0] = d /\ \A k \in 1 .. n : r[k] = (IF r[k - 1].ok THEN FilePass(r[k - 1]) ELSE r[k - 1])
               /\ FileTimes(d, n) = r[n]
    BY FileRuns
  <2>2. whole = FileTimes(d, n)
    BY <1>2, <1>3 DEF FileLoop, FileTimes, Repeat, Times, Then
  <2> HIDE DEF whole
  <2> QED BY <2>1, <2>2
<1> DEFINE S == { k \in 0 .. n : r[k] = Cursor(s[k] \o q, m[k]) }
<1>5. 0 \in S
  BY <1>1, <1>4
<1>6. ASSUME NEW k \in 1 .. n, k - 1 \in S PROVE k \in S
  <2> DEFINE a == r[k - 1]
             z == s[k] \o q
  <2>1. k \in 0 .. n /\ k - 1 \in 0 .. n
    OBVIOUS
  <2>2. a = Cursor(s[k - 1] \o q, m[k - 1])
    BY <1>6
  <2>3. s[k - 1] \o q = w[k] \o z /\ z \in Bytes
    <3>1. w[k] \in Bytes /\ s[k] \in Bytes /\ s[k - 1] = w[k] \o s[k]
      BY <1>1, <2>1
    <3>2. (w[k] \o s[k]) \o q = w[k] \o (s[k] \o q) /\ s[k] \o q \in Bytes
      BY <3>1, Joined
    <3> QED BY <3>1, <3>2, Zenon
  <2>4. r[k] = (IF a.ok THEN FilePass(a) ELSE a)
    BY <1>4
  <2> HIDE DEF a, z
  <2>5. a = Cursor(w[k] \o z, m[k - 1]) /\ a.ok
    BY <2>2, <2>3, CursorIs
  <2>6. FilePass(Cursor(w[k] \o z, m[k - 1])) = Cursor(z, m[k])
    BY <2>3 DEF FileReads
  <2>7. r[k] = FilePass(a)
    BY <2>4, <2>5
  <2>8. r[k] = Cursor(z, m[k])
    BY <2>5, <2>6, <2>7, Zenon
  <2> QED BY <2>1, <2>8 DEF z
<1>7. n \in S
  <2>1. \A k \in 1 .. n : k - 1 \in S => k \in S
    BY <1>6
  <2> HIDE DEF S
  <2>2. \A k \in 0 .. n : k \in S
    BY <1>5, <2>1, UpTo
  <2> QED BY <2>2
<1>8. r[n] = Cursor(s[n] \o q, m[n])
  BY <1>7
<1>9. s[n] \o q = q
  BY <1>1, NothingBehind
<1> QED BY <1>4, <1>8, <1>9, Zenon

-------------------------------------------------------------------------------
LEMMA Held == \A m, n, v : Holding(m, n, v)[n] = v /\ n \in DOMAIN Holding(m, n, v)
<1> SUFFICES ASSUME NEW m, NEW n, NEW v
             PROVE  Holding(m, n, v)[n] = v /\ n \in DOMAIN Holding(m, n, v)
  OBVIOUS
<1>1. Holding(m, n, v)[n] = v
  BY HoldingIs
<1>2. DOMAIN Holding(m, n, v) = DOMAIN m \cup {n}
  BY HoldingIs
<1> QED BY <1>1, <1>2

LEMMA HeldBefore ==
    \A m, n, v, f : f \in DOMAIN m /\ f # n =>
      f \in DOMAIN Holding(m, n, v) /\ Holding(m, n, v)[f] = m[f]
<1> SUFFICES ASSUME NEW m, NEW n, NEW v, NEW f, f \in DOMAIN m, f # n
             PROVE  f \in DOMAIN Holding(m, n, v) /\ Holding(m, n, v)[f] = m[f]
  OBVIOUS
<1>1. DOMAIN Holding(m, n, v) = DOMAIN m \cup {n}
  BY HoldingIs
<1>2. Holding(m, n, v)[f] = m[f]
  BY HoldingIs
<1> QED BY <1>1, <1>2

LEMMA WideOf == \A n, o, m : o # "none" => Wide(D(n, o), m) = Num(m[o])
BY DIs DEF Wide

(* The layouts of the messages, field by field. *)
LEMMA IdReads ==
    ASSUME NEW m, NEW q \in Bytes, NEW p1 \in Bytes, NEW p2 \in Bytes,
           Len(p1) = 4, Len(p2) = 4
    PROVE  Read(Cursor(p1 \o (p2 \o q), m), <<U("id", 4), U("bitmap", 4)>>)
             = Cursor(q, Holding(Holding(m, "id", p1), "bitmap", p2))
<1> DEFINE f1 == U("id", 4)
           f2 == U("bitmap", 4)
           m0 == m
           m1 == Holding(m0, "id", p1)
           m2 == Holding(m1, "bitmap", p2)
<1>1. Wide(f1, m0) = Len(p1)
  BY WideIs
<1>2. Keep(m0, f1, p1) = m1
  BY KeepIs
<1>3. Wide(f2, m1) = Len(p2)
  BY WideIs
<1>4. Keep(m1, f2, p2) = m2
  BY KeepIs
<1> DEFINE t0 == p1 \o (p2 \o q)
           t1 == p2 \o q
           t2 == q
<1>5. t0 \in Bytes /\ t1 \in Bytes /\ t2 \in Bytes
  BY Joined
<1> HIDE DEF f1, f2, m1, m2
<1>6. Get(Cursor(t0, m0), f1) = Cursor(t1, m1)
  <2>1. Get(Cursor(t0, m0), f1) = Cursor(t1, Keep(m0, f1, p1))
    BY <1>1, <1>5, GetReads
  <2> QED BY <2>1, <1>2, Zenon
<1>7. Get(Cursor(t1, m1), f2) = Cursor(t2, m2)
  <2>1. Get(Cursor(t1, m1), f2) = Cursor(t2, Keep(m1, f2, p2))
    BY <1>3, <1>5, GetReads
  <2> QED BY <2>1, <1>4, Zenon
<1> HIDE DEF t0, t1, t2, m0
<1>8. Read(Cursor(t0, m0), <<f1, f2>>)
        = Get(Get(Cursor(t0, m0), f1), f2)
  BY ReadTwo
<1>9. Read(Cursor(t0, m0), <<f1, f2>>) = Cursor(t2, m2)
  BY <1>8, <1>6, <1>7, Zenon
<1> QED BY <1>9, Zenon DEF f1, f2, m0, m1, m2, t0, t1, t2

(* A status. *)
LEMMA StatusReads ==
    ASSUME NEW m, NEW q \in Bytes, NEW p1 \in Bytes, NEW p2 \in Bytes,
           Len(p1) = 4, Len(p2) = 4
    PROVE  Read(Cursor(p1 \o (p2 \o q), m), <<U("userc", 4), U("filec", 4)>>)
             = Cursor(q, Holding(Holding(m, "userc", p1), "filec", p2))
<1> DEFINE f1 == U("userc", 4)
           f2 == U("filec", 4)
           m0 == m
           m1 == Holding(m0, "userc", p1)
           m2 == Holding(m1, "filec", p2)
<1>1. Wide(f1, m0) = Len(p1)
  BY WideIs
<1>2. Keep(m0, f1, p1) = m1
  BY KeepIs
<1>3. Wide(f2, m1) = Len(p2)
  BY WideIs
<1>4. Keep(m1, f2, p2) = m2
  BY KeepIs
<1> DEFINE t0 == p1 \o (p2 \o q)
           t1 == p2 \o q
           t2 == q
<1>5. t0 \in Bytes /\ t1 \in Bytes /\ t2 \in Bytes
  BY Joined
<1> HIDE DEF f1, f2, m1, m2
<1>6. Get(Cursor(t0, m0), f1) = Cursor(t1, m1)
  <2>1. Get(Cursor(t0, m0), f1) = Cursor(t1, Keep(m0, f1, p1))
    BY <1>1, <1>5, GetReads
  <2> QED BY <2>1, <1>2, Zenon
<1>7. Get(Cursor(t1, m1), f2) = Cursor(t2, m2)
  <2>1. Get(Cursor(t1, m1), f2) = Cursor(t2, Keep(m1, f2, p2))
    BY <1>3, <1>5, GetReads
  <2> QED BY <2>1, <1>4, Zenon
<1> HIDE DEF t0, t1, t2, m0
<1>8. Read(Cursor(t0, m0), <<f1, f2>>)
        = Get(Get(Cursor(t0, m0), f1), f2)
  BY ReadTwo
<1>9. Read(Cursor(t0, m0), <<f1, f2>>) = Cursor(t2, m2)
  BY <1>8, <1>6, <1>7, Zenon
<1> QED BY <1>9, Zenon DEF f1, f2, m0, m1, m2, t0, t1, t2

(* A text behind its length. *)
LEMMA TextReads ==
    ASSUME NEW m, NEW q \in Bytes, NEW p1 \in Bytes, NEW p2 \in Bytes,
           Len(p1) = 2, Num(p1) = Len(p2)
    PROVE  Read(Cursor(p1 \o (p2 \o q), m), <<U("len", 2), D("msg", "len")>>)
             = Cursor(q, Holding(Holding(m, "len", p1), "msg", p2))
<1> DEFINE f1 == U("len", 2)
           f2 == D("msg", "len")
           m0 == m
           m1 == Holding(m0, "len", p1)
           m2 == Holding(m1, "msg", p2)
<1>1. Wide(f1, m0) = Len(p1)
  BY WideIs
<1>2. Keep(m0, f1, p1) = m1
  BY KeepIs
<1>3. m1["len"] = p1
  BY Held
<1>4. Wide(f2, m1) = Len(p2)
  BY <1>3, WideOf
<1>5. Keep(m1, f2, p2) = m2
  BY KeepIs
<1> DEFINE t0 == p1 \o (p2 \o q)
           t1 == p2 \o q
           t2 == q
<1>6. t0 \in Bytes /\ t1 \in Bytes /\ t2 \in Bytes
  BY Joined
<1> HIDE DEF f1, f2, m1, m2
<1>7. Get(Cursor(t0, m0), f1) = Cursor(t1, m1)
  <2>1. Get(Cursor(t0, m0), f1) = Cursor(t1, Keep(m0, f1, p1))
    BY <1>1, <1>6, GetReads
  <2> QED BY <2>1, <1>2, Zenon
<1>8. Get(Cursor(t1, m1), f2) = Cursor(t2, m2)
  <2>1. Get(Cursor(t1, m1), f2) = Cursor(t2, Keep(m1, f2, p2))
    BY <1>4, <1>6, GetReads
  <2> QED BY <2>1, <1>5, Zenon
<1> HIDE DEF t0, t1, t2, m0
<1>9. Read(Cursor(t0, m0), <<f1, f2>>)
        = Get(Get(Cursor(t0, m0), f1), f2)
  BY ReadTwo
<1>10. Read(Cursor(t0, m0), <<f1, f2>>) = Cursor(t2, m2)
  BY <1>9, <1>7, <1>8, Zenon
<1> QED BY <1>10, Zenon DEF f1, f2, m0, m1, m2, t0, t1, t2

(* An address to call back. *)
LEMMA CalledReads ==
    ASSUME NEW m, NEW q \in Bytes, NEW p1 \in Bytes, NEW p2 \in Bytes,
           Len(p1) = 4, Len(p2) = 2
    PROVE  Read(Cursor(p1 \o (p2 \o q), m), <<U("first", 4), U("second", 2)>>)
             = Cursor(q, Holding(Holding(m, "first", p1), "second", p2))
<1> DEFINE f1 == U("first", 4)
           f2 == U("second", 2)
           m0 == m
           m1 == Holding(m0, "first", p1)
           m2 == Holding(m1, "second", p2)
<1>1. Wide(f1, m0) = Len(p1)
  BY WideIs
<1>2. Keep(m0, f1, p1) = m1
  BY KeepIs
<1>3. Wide(f2, m1) = Len(p2)
  BY WideIs
<1>4. Keep(m1, f2, p2) = m2
  BY KeepIs
<1> DEFINE t0 == p1 \o (p2 \o q)
           t1 == p2 \o q
           t2 == q
<1>5. t0 \in Bytes /\ t1 \in Bytes /\ t2 \in Bytes
  BY Joined
<1> HIDE DEF f1, f2, m1, m2
<1>6. Get(Cursor(t0, m0), f1) = Cursor(t1, m1)
  <2>1. Get(Cursor(t0, m0), f1) = Cursor(t1, Keep(m0, f1, p1))
    BY <1>1, <1>5, GetReads
  <2> QED BY <2>1, <1>2, Zenon
<1>7. Get(Cursor(t1, m1), f2) = Cursor(t2, m2)
  <2>1. Get(Cursor(t1, m1), f2) = Cursor(t2, Keep(m1, f2, p2))
    BY <1>3, <1>5, GetReads
  <2> QED BY <2>1, <1>4, Zenon
<1> HIDE DEF t0, t1, t2, m0
<1>8. Read(Cursor(t0, m0), <<f1, f2>>)
        = Get(Get(Cursor(t0, m0), f1), f2)
  BY ReadTwo
<1>9. Read(Cursor(t0, m0), <<f1, f2>>) = Cursor(t2, m2)
  BY <1>8, <1>6, <1>7, Zenon
<1> QED BY <1>9, Zenon DEF f1, f2, m0, m1, m2, t0, t1, t2

(* A server of a list. *)
LEMMA ServerReads ==
    ASSUME NEW m, NEW q \in Bytes, NEW p1 \in Bytes, NEW p2 \in Bytes,
           Len(p1) = 4, Len(p2) = 2
    PROVE  Read(Cursor(p1 \o (p2 \o q), m), <<U("addr", 4), U("port", 2)>>)
             = Cursor(q, Holding(Holding(m, "addr", p1), "port", p2))
<1> DEFINE f1 == U("addr", 4)
           f2 == U("port", 2)
           m0 == m
           m1 == Holding(m0, "addr", p1)
           m2 == Holding(m1, "port", p2)
<1>1. Wide(f1, m0) = Len(p1)
  BY WideIs
<1>2. Keep(m0, f1, p1) = m1
  BY KeepIs
<1>3. Wide(f2, m1) = Len(p2)
  BY WideIs
<1>4. Keep(m1, f2, p2) = m2
  BY KeepIs
<1> DEFINE t0 == p1 \o (p2 \o q)
           t1 == p2 \o q
           t2 == q
<1>5. t0 \in Bytes /\ t1 \in Bytes /\ t2 \in Bytes
  BY Joined
<1> HIDE DEF f1, f2, m1, m2
<1>6. Get(Cursor(t0, m0), f1) = Cursor(t1, m1)
  <2>1. Get(Cursor(t0, m0), f1) = Cursor(t1, Keep(m0, f1, p1))
    BY <1>1, <1>5, GetReads
  <2> QED BY <2>1, <1>2, Zenon
<1>7. Get(Cursor(t1, m1), f2) = Cursor(t2, m2)
  <2>1. Get(Cursor(t1, m1), f2) = Cursor(t2, Keep(m1, f2, p2))
    BY <1>3, <1>5, GetReads
  <2> QED BY <2>1, <1>4, Zenon
<1> HIDE DEF t0, t1, t2, m0
<1>8. Read(Cursor(t0, m0), <<f1, f2>>)
        = Get(Get(Cursor(t0, m0), f1), f2)
  BY ReadTwo
<1>9. Read(Cursor(t0, m0), <<f1, f2>>) = Cursor(t2, m2)
  BY <1>8, <1>6, <1>7, Zenon
<1> QED BY <1>9, Zenon DEF f1, f2, m0, m1, m2, t0, t1, t2

(* A source. *)
LEMMA SourceReads ==
    ASSUME NEW m, NEW q \in Bytes, NEW p1 \in Bytes, NEW p2 \in Bytes, NEW p3 \in Bytes,
           Len(p1) = 4, Len(p2) = 2, Len(p3) = 1
    PROVE  Read(Cursor(p1 \o (p2 \o (p3 \o q)), m), <<B("addr", 4), U("port", 2), U("obf", 1)>>)
             = Cursor(q, Holding(Holding(Holding(m, "addr", Be(p1)), "port", p2), "obf", p3))
<1> DEFINE f1 == B("addr", 4)
           f2 == U("port", 2)
           f3 == U("obf", 1)
           m0 == m
           m1 == Holding(m0, "addr", Be(p1))
           m2 == Holding(m1, "port", p2)
           m3 == Holding(m2, "obf", p3)
<1>1. Wide(f1, m0) = Len(p1)
  BY WideIs
<1>2. Keep(m0, f1, p1) = m1
  BY KeepIs
<1>3. Wide(f2, m1) = Len(p2)
  BY WideIs
<1>4. Keep(m1, f2, p2) = m2
  BY KeepIs
<1>5. Wide(f3, m2) = Len(p3)
  BY WideIs
<1>6. Keep(m2, f3, p3) = m3
  BY KeepIs
<1> DEFINE t0 == p1 \o (p2 \o (p3 \o q))
           t1 == p2 \o (p3 \o q)
           t2 == p3 \o q
           t3 == q
<1>7. t0 \in Bytes /\ t1 \in Bytes /\ t2 \in Bytes /\ t3 \in Bytes
  BY Joined
<1> HIDE DEF f1, f2, f3, m1, m2, m3
<1>8. Get(Cursor(t0, m0), f1) = Cursor(t1, m1)
  <2>1. Get(Cursor(t0, m0), f1) = Cursor(t1, Keep(m0, f1, p1))
    BY <1>1, <1>7, GetReads
  <2> QED BY <2>1, <1>2, Zenon
<1>9. Get(Cursor(t1, m1), f2) = Cursor(t2, m2)
  <2>1. Get(Cursor(t1, m1), f2) = Cursor(t2, Keep(m1, f2, p2))
    BY <1>3, <1>7, GetReads
  <2> QED BY <2>1, <1>4, Zenon
<1>10. Get(Cursor(t2, m2), f3) = Cursor(t3, m3)
  <2>1. Get(Cursor(t2, m2), f3) = Cursor(t3, Keep(m2, f3, p3))
    BY <1>5, <1>7, GetReads
  <2> QED BY <2>1, <1>6, Zenon
<1> HIDE DEF t0, t1, t2, t3, m0
<1>11. Read(Cursor(t0, m0), <<f1, f2, f3>>)
        = Get(Get(Get(Cursor(t0, m0), f1), f2), f3)
  BY ReadThree
<1>12. Read(Cursor(t0, m0), <<f1, f2, f3>>) = Cursor(t3, m3)
  BY <1>11, <1>8, <1>9, <1>10, Zenon
<1> QED BY <1>12, Zenon DEF f1, f2, f3, m0, m1, m2, m3, t0, t1, t2, t3

(* The head of a list of sources. *)
LEMMA SourcesReads ==
    ASSUME NEW m, NEW q \in Bytes, NEW p1 \in Bytes, NEW p2 \in Bytes,
           Len(p1) = 16, Len(p2) = 1
    PROVE  Read(Cursor(p1 \o (p2 \o q), m), <<U("hash", 16), U("count", 1)>>)
             = Cursor(q, Holding(Holding(m, "hash", p1), "count", p2))
<1> DEFINE f1 == U("hash", 16)
           f2 == U("count", 1)
           m0 == m
           m1 == Holding(m0, "hash", p1)
           m2 == Holding(m1, "count", p2)
<1>1. Wide(f1, m0) = Len(p1)
  BY WideIs
<1>2. Keep(m0, f1, p1) = m1
  BY KeepIs
<1>3. Wide(f2, m1) = Len(p2)
  BY WideIs
<1>4. Keep(m1, f2, p2) = m2
  BY KeepIs
<1> DEFINE t0 == p1 \o (p2 \o q)
           t1 == p2 \o q
           t2 == q
<1>5. t0 \in Bytes /\ t1 \in Bytes /\ t2 \in Bytes
  BY Joined
<1> HIDE DEF f1, f2, m1, m2
<1>6. Get(Cursor(t0, m0), f1) = Cursor(t1, m1)
  <2>1. Get(Cursor(t0, m0), f1) = Cursor(t1, Keep(m0, f1, p1))
    BY <1>1, <1>5, GetReads
  <2> QED BY <2>1, <1>2, Zenon
<1>7. Get(Cursor(t1, m1), f2) = Cursor(t2, m2)
  <2>1. Get(Cursor(t1, m1), f2) = Cursor(t2, Keep(m1, f2, p2))
    BY <1>3, <1>5, GetReads
  <2> QED BY <2>1, <1>4, Zenon
<1> HIDE DEF t0, t1, t2, m0
<1>8. Read(Cursor(t0, m0), <<f1, f2>>)
        = Get(Get(Cursor(t0, m0), f1), f2)
  BY ReadTwo
<1>9. Read(Cursor(t0, m0), <<f1, f2>>) = Cursor(t2, m2)
  BY <1>8, <1>6, <1>7, Zenon
<1> QED BY <1>9, Zenon DEF f1, f2, m0, m1, m2, t0, t1, t2

(* The head of a block. *)
LEMMA BlockReads ==
    ASSUME NEW m, NEW q \in Bytes, NEW p1 \in Bytes, NEW p2 \in Bytes, NEW p3 \in Bytes,
           Len(p1) = 16, Len(p2) = 4, Len(p3) = 4
    PROVE  Read(Cursor(p1 \o (p2 \o (p3 \o q)), m), <<U("hash", 16), U("start", 4), U("end", 4)>>)
             = Cursor(q, Holding(Holding(Holding(m, "hash", p1), "start", p2), "end", p3))
<1> DEFINE f1 == U("hash", 16)
           f2 == U("start", 4)
           f3 == U("end", 4)
           m0 == m
           m1 == Holding(m0, "hash", p1)
           m2 == Holding(m1, "start", p2)
           m3 == Holding(m2, "end", p3)
<1>1. Wide(f1, m0) = Len(p1)
  BY WideIs
<1>2. Keep(m0, f1, p1) = m1
  BY KeepIs
<1>3. Wide(f2, m1) = Len(p2)
  BY WideIs
<1>4. Keep(m1, f2, p2) = m2
  BY KeepIs
<1>5. Wide(f3, m2) = Len(p3)
  BY WideIs
<1>6. Keep(m2, f3, p3) = m3
  BY KeepIs
<1> DEFINE t0 == p1 \o (p2 \o (p3 \o q))
           t1 == p2 \o (p3 \o q)
           t2 == p3 \o q
           t3 == q
<1>7. t0 \in Bytes /\ t1 \in Bytes /\ t2 \in Bytes /\ t3 \in Bytes
  BY Joined
<1> HIDE DEF f1, f2, f3, m1, m2, m3
<1>8. Get(Cursor(t0, m0), f1) = Cursor(t1, m1)
  <2>1. Get(Cursor(t0, m0), f1) = Cursor(t1, Keep(m0, f1, p1))
    BY <1>1, <1>7, GetReads
  <2> QED BY <2>1, <1>2, Zenon
<1>9. Get(Cursor(t1, m1), f2) = Cursor(t2, m2)
  <2>1. Get(Cursor(t1, m1), f2) = Cursor(t2, Keep(m1, f2, p2))
    BY <1>3, <1>7, GetReads
  <2> QED BY <2>1, <1>4, Zenon
<1>10. Get(Cursor(t2, m2), f3) = Cursor(t3, m3)
  <2>1. Get(Cursor(t2, m2), f3) = Cursor(t3, Keep(m2, f3, p3))
    BY <1>5, <1>7, GetReads
  <2> QED BY <2>1, <1>6, Zenon
<1> HIDE DEF t0, t1, t2, t3, m0
<1>11. Read(Cursor(t0, m0), <<f1, f2, f3>>)
        = Get(Get(Get(Cursor(t0, m0), f1), f2), f3)
  BY ReadThree
<1>12. Read(Cursor(t0, m0), <<f1, f2, f3>>) = Cursor(t3, m3)
  BY <1>11, <1>8, <1>9, <1>10, Zenon
<1> QED BY <1>12, Zenon DEF f1, f2, f3, m0, m1, m2, m3, t0, t1, t2, t3

(* The head of a greeting or of a file. *)
LEMMA HeadReads ==
    ASSUME NEW m, NEW q \in Bytes, NEW p1 \in Bytes, NEW p2 \in Bytes, NEW p3 \in Bytes, NEW p4 \in Bytes,
           Len(p1) = 16, Len(p2) = 4, Len(p3) = 2, Len(p4) = 4
    PROVE  Read(Cursor(p1 \o (p2 \o (p3 \o (p4 \o q))), m), <<U("hash", 16), U("cid", 4), U("port", 2), U("tc", 4)>>)
             = Cursor(q, Holding(Holding(Holding(Holding(m, "hash", p1), "cid", p2), "port", p3), "tc", p4))
<1> DEFINE f1 == U("hash", 16)
           f2 == U("cid", 4)
           f3 == U("port", 2)
           f4 == U("tc", 4)
           m0 == m
           m1 == Holding(m0, "hash", p1)
           m2 == Holding(m1, "cid", p2)
           m3 == Holding(m2, "port", p3)
           m4 == Holding(m3, "tc", p4)
<1>1. Wide(f1, m0) = Len(p1)
  BY WideIs
<1>2. Keep(m0, f1, p1) = m1
  BY KeepIs
<1>3. Wide(f2, m1) = Len(p2)
  BY WideIs
<1>4. Keep(m1, f2, p2) = m2
  BY KeepIs
<1>5. Wide(f3, m2) = Len(p3)
  BY WideIs
<1>6. Keep(m2, f3, p3) = m3
  BY KeepIs
<1>7. Wide(f4, m3) = Len(p4)
  BY WideIs
<1>8. Keep(m3, f4, p4) = m4
  BY KeepIs
<1> DEFINE t0 == p1 \o (p2 \o (p3 \o (p4 \o q)))
           t1 == p2 \o (p3 \o (p4 \o q))
           t2 == p3 \o (p4 \o q)
           t3 == p4 \o q
           t4 == q
<1>9. t0 \in Bytes /\ t1 \in Bytes /\ t2 \in Bytes /\ t3 \in Bytes /\ t4 \in Bytes
  BY Joined
<1> HIDE DEF f1, f2, f3, f4, m1, m2, m3, m4
<1>10. Get(Cursor(t0, m0), f1) = Cursor(t1, m1)
  <2>1. Get(Cursor(t0, m0), f1) = Cursor(t1, Keep(m0, f1, p1))
    BY <1>1, <1>9, GetReads
  <2> QED BY <2>1, <1>2, Zenon
<1>11. Get(Cursor(t1, m1), f2) = Cursor(t2, m2)
  <2>1. Get(Cursor(t1, m1), f2) = Cursor(t2, Keep(m1, f2, p2))
    BY <1>3, <1>9, GetReads
  <2> QED BY <2>1, <1>4, Zenon
<1>12. Get(Cursor(t2, m2), f3) = Cursor(t3, m3)
  <2>1. Get(Cursor(t2, m2), f3) = Cursor(t3, Keep(m2, f3, p3))
    BY <1>5, <1>9, GetReads
  <2> QED BY <2>1, <1>6, Zenon
<1>13. Get(Cursor(t3, m3), f4) = Cursor(t4, m4)
  <2>1. Get(Cursor(t3, m3), f4) = Cursor(t4, Keep(m3, f4, p4))
    BY <1>7, <1>9, GetReads
  <2> QED BY <2>1, <1>8, Zenon
<1> HIDE DEF t0, t1, t2, t3, t4, m0
<1>14. Read(Cursor(t0, m0), <<f1, f2, f3, f4>>)
        = Get(Get(Get(Get(Cursor(t0, m0), f1), f2), f3), f4)
  BY ReadFour
<1>15. Read(Cursor(t0, m0), <<f1, f2, f3, f4>>) = Cursor(t4, m4)
  BY <1>14, <1>10, <1>11, <1>12, <1>13, Zenon
<1> QED BY <1>15, Zenon DEF f1, f2, f3, f4, m0, m1, m2, m3, m4, t0, t1, t2, t3, t4

(* The end of a greeting. *)
LEMMA EndReads ==
    ASSUME NEW m, NEW q \in Bytes, NEW p1 \in Bytes, NEW p2 \in Bytes,
           Len(p1) = 4, Len(p2) = 2
    PROVE  Read(Cursor(p1 \o (p2 \o q), m), <<B("saddr", 4), U("sport", 2)>>)
             = Cursor(q, Holding(Holding(m, "saddr", Be(p1)), "sport", p2))
<1> DEFINE f1 == B("saddr", 4)
           f2 == U("sport", 2)
           m0 == m
           m1 == Holding(m0, "saddr", Be(p1))
           m2 == Holding(m1, "sport", p2)
<1>1. Wide(f1, m0) = Len(p1)
  BY WideIs
<1>2. Keep(m0, f1, p1) = m1
  BY KeepIs
<1>3. Wide(f2, m1) = Len(p2)
  BY WideIs
<1>4. Keep(m1, f2, p2) = m2
  BY KeepIs
<1> DEFINE t0 == p1 \o (p2 \o q)
           t1 == p2 \o q
           t2 == q
<1>5. t0 \in Bytes /\ t1 \in Bytes /\ t2 \in Bytes
  BY Joined
<1> HIDE DEF f1, f2, m1, m2
<1>6. Get(Cursor(t0, m0), f1) = Cursor(t1, m1)
  <2>1. Get(Cursor(t0, m0), f1) = Cursor(t1, Keep(m0, f1, p1))
    BY <1>1, <1>5, GetReads
  <2> QED BY <2>1, <1>2, Zenon
<1>7. Get(Cursor(t1, m1), f2) = Cursor(t2, m2)
  <2>1. Get(Cursor(t1, m1), f2) = Cursor(t2, Keep(m1, f2, p2))
    BY <1>3, <1>5, GetReads
  <2> QED BY <2>1, <1>4, Zenon
<1> HIDE DEF t0, t1, t2, m0
<1>8. Read(Cursor(t0, m0), <<f1, f2>>)
        = Get(Get(Cursor(t0, m0), f1), f2)
  BY ReadTwo
<1>9. Read(Cursor(t0, m0), <<f1, f2>>) = Cursor(t2, m2)
  BY <1>8, <1>6, <1>7, Zenon
<1> QED BY <1>9, Zenon DEF f1, f2, m0, m1, m2, t0, t1, t2

(* A tag with a text. *)
LEMMA TextTagReads ==
    ASSUME NEW m, NEW q \in Bytes, NEW p1 \in Bytes, NEW p2 \in Bytes, NEW p3 \in Bytes, NEW p4 \in Bytes,
           Len(p1) = 2, Num(p1) = Len(p2), Len(p3) = 2, Num(p3) = Len(p4)
    PROVE  Read(Cursor(p1 \o (p2 \o (p3 \o (p4 \o q))), m), <<U("nlen", 2), D("tname", "nlen"), U("vlen", 2), D("tval", "vlen")>>)
             = Cursor(q, Holding(Holding(Holding(Holding(m, "nlen", p1), "tname", p2), "vlen", p3), "tval", p4))
<1> DEFINE f1 == U("nlen", 2)
           f2 == D("tname", "nlen")
           f3 == U("vlen", 2)
           f4 == D("tval", "vlen")
           m0 == m
           m1 == Holding(m0, "nlen", p1)
           m2 == Holding(m1, "tname", p2)
           m3 == Holding(m2, "vlen", p3)
           m4 == Holding(m3, "tval", p4)
<1>1. Wide(f1, m0) = Len(p1)
  BY WideIs
<1>2. Keep(m0, f1, p1) = m1
  BY KeepIs
<1>3. m1["nlen"] = p1
  BY Held
<1>4. Wide(f2, m1) = Len(p2)
  BY <1>3, WideOf
<1>5. Keep(m1, f2, p2) = m2
  BY KeepIs
<1>6. Wide(f3, m2) = Len(p3)
  BY WideIs
<1>7. Keep(m2, f3, p3) = m3
  BY KeepIs
<1>8. m3["vlen"] = p3
  BY Held
<1>9. Wide(f4, m3) = Len(p4)
  BY <1>8, WideOf
<1>10. Keep(m3, f4, p4) = m4
  BY KeepIs
<1> DEFINE t0 == p1 \o (p2 \o (p3 \o (p4 \o q)))
           t1 == p2 \o (p3 \o (p4 \o q))
           t2 == p3 \o (p4 \o q)
           t3 == p4 \o q
           t4 == q
<1>11. t0 \in Bytes /\ t1 \in Bytes /\ t2 \in Bytes /\ t3 \in Bytes /\ t4 \in Bytes
  BY Joined
<1> HIDE DEF f1, f2, f3, f4, m1, m2, m3, m4
<1>12. Get(Cursor(t0, m0), f1) = Cursor(t1, m1)
  <2>1. Get(Cursor(t0, m0), f1) = Cursor(t1, Keep(m0, f1, p1))
    BY <1>1, <1>11, GetReads
  <2> QED BY <2>1, <1>2, Zenon
<1>13. Get(Cursor(t1, m1), f2) = Cursor(t2, m2)
  <2>1. Get(Cursor(t1, m1), f2) = Cursor(t2, Keep(m1, f2, p2))
    BY <1>4, <1>11, GetReads
  <2> QED BY <2>1, <1>5, Zenon
<1>14. Get(Cursor(t2, m2), f3) = Cursor(t3, m3)
  <2>1. Get(Cursor(t2, m2), f3) = Cursor(t3, Keep(m2, f3, p3))
    BY <1>6, <1>11, GetReads
  <2> QED BY <2>1, <1>7, Zenon
<1>15. Get(Cursor(t3, m3), f4) = Cursor(t4, m4)
  <2>1. Get(Cursor(t3, m3), f4) = Cursor(t4, Keep(m3, f4, p4))
    BY <1>9, <1>11, GetReads
  <2> QED BY <2>1, <1>10, Zenon
<1> HIDE DEF t0, t1, t2, t3, t4, m0
<1>16. Read(Cursor(t0, m0), <<f1, f2, f3, f4>>)
        = Get(Get(Get(Get(Cursor(t0, m0), f1), f2), f3), f4)
  BY ReadFour
<1>17. Read(Cursor(t0, m0), <<f1, f2, f3, f4>>) = Cursor(t4, m4)
  BY <1>16, <1>12, <1>13, <1>14, <1>15, Zenon
<1> QED BY <1>17, Zenon DEF f1, f2, f3, f4, m0, m1, m2, m3, m4, t0, t1, t2, t3, t4

(* A tag with a number. *)
LEMMA WordTagReads ==
    ASSUME NEW m, NEW q \in Bytes, NEW p1 \in Bytes, NEW p2 \in Bytes, NEW p3 \in Bytes,
           Len(p1) = 2, Num(p1) = Len(p2), Len(p3) = 4
    PROVE  Read(Cursor(p1 \o (p2 \o (p3 \o q)), m), <<U("nlen", 2), D("tname", "nlen"), U("tval", 4)>>)
             = Cursor(q, Holding(Holding(Holding(m, "nlen", p1), "tname", p2), "tval", p3))
<1> DEFINE f1 == U("nlen", 2)
           f2 == D("tname", "nlen")
           f3 == U("tval", 4)
           m0 == m
           m1 == Holding(m0, "nlen", p1)
           m2 == Holding(m1, "tname", p2)
           m3 == Holding(m2, "tval", p3)
<1>1. Wide(f1, m0) = Len(p1)
  BY WideIs
<1>2. Keep(m0, f1, p1) = m1
  BY KeepIs
<1>3. m1["nlen"] = p1
  BY Held
<1>4. Wide(f2, m1) = Len(p2)
  BY <1>3, WideOf
<1>5. Keep(m1, f2, p2) = m2
  BY KeepIs
<1>6. Wide(f3, m2) = Len(p3)
  BY WideIs
<1>7. Keep(m2, f3, p3) = m3
  BY KeepIs
<1> DEFINE t0 == p1 \o (p2 \o (p3 \o q))
           t1 == p2 \o (p3 \o q)
           t2 == p3 \o q
           t3 == q
<1>8. t0 \in Bytes /\ t1 \in Bytes /\ t2 \in Bytes /\ t3 \in Bytes
  BY Joined
<1> HIDE DEF f1, f2, f3, m1, m2, m3
<1>9. Get(Cursor(t0, m0), f1) = Cursor(t1, m1)
  <2>1. Get(Cursor(t0, m0), f1) = Cursor(t1, Keep(m0, f1, p1))
    BY <1>1, <1>8, GetReads
  <2> QED BY <2>1, <1>2, Zenon
<1>10. Get(Cursor(t1, m1), f2) = Cursor(t2, m2)
  <2>1. Get(Cursor(t1, m1), f2) = Cursor(t2, Keep(m1, f2, p2))
    BY <1>4, <1>8, GetReads
  <2> QED BY <2>1, <1>5, Zenon
<1>11. Get(Cursor(t2, m2), f3) = Cursor(t3, m3)
  <2>1. Get(Cursor(t2, m2), f3) = Cursor(t3, Keep(m2, f3, p3))
    BY <1>6, <1>8, GetReads
  <2> QED BY <2>1, <1>7, Zenon
<1> HIDE DEF t0, t1, t2, t3, m0
<1>12. Read(Cursor(t0, m0), <<f1, f2, f3>>)
        = Get(Get(Get(Cursor(t0, m0), f1), f2), f3)
  BY ReadThree
<1>13. Read(Cursor(t0, m0), <<f1, f2, f3>>) = Cursor(t3, m3)
  BY <1>12, <1>9, <1>10, <1>11, Zenon
<1> QED BY <1>13, Zenon DEF f1, f2, f3, m0, m1, m2, m3, t0, t1, t2, t3

(* A text of a search result. *)
LEMMA StringReads ==
    ASSUME NEW m, NEW q \in Bytes, NEW p1 \in Bytes, NEW p2 \in Bytes,
           Len(p1) = 2, Num(p1) = Len(p2)
    PROVE  Read(Cursor(p1 \o (p2 \o q), m), <<U("slen", 2), D("sval", "slen")>>)
             = Cursor(q, Holding(Holding(m, "slen", p1), "sval", p2))
<1> DEFINE f1 == U("slen", 2)
           f2 == D("sval", "slen")
           m0 == m
           m1 == Holding(m0, "slen", p1)
           m2 == Holding(m1, "sval", p2)
<1>1. Wide(f1, m0) = Len(p1)
  BY WideIs
<1>2. Keep(m0, f1, p1) = m1
  BY KeepIs
<1>3. m1["slen"] = p1
  BY Held
<1>4. Wide(f2, m1) = Len(p2)
  BY <1>3, WideOf
<1>5. Keep(m1, f2, p2) = m2
  BY KeepIs
<1> DEFINE t0 == p1 \o (p2 \o q)
           t1 == p2 \o q
           t2 == q
<1>6. t0 \in Bytes /\ t1 \in Bytes /\ t2 \in Bytes
  BY Joined
<1> HIDE DEF f1, f2, m1, m2
<1>7. Get(Cursor(t0, m0), f1) = Cursor(t1, m1)
  <2>1. Get(Cursor(t0, m0), f1) = Cursor(t1, Keep(m0, f1, p1))
    BY <1>1, <1>6, GetReads
  <2> QED BY <2>1, <1>2, Zenon
<1>8. Get(Cursor(t1, m1), f2) = Cursor(t2, m2)
  <2>1. Get(Cursor(t1, m1), f2) = Cursor(t2, Keep(m1, f2, p2))
    BY <1>4, <1>6, GetReads
  <2> QED BY <2>1, <1>5, Zenon
<1> HIDE DEF t0, t1, t2, m0
<1>9. Read(Cursor(t0, m0), <<f1, f2>>)
        = Get(Get(Cursor(t0, m0), f1), f2)
  BY ReadTwo
<1>10. Read(Cursor(t0, m0), <<f1, f2>>) = Cursor(t2, m2)
  BY <1>9, <1>7, <1>8, Zenon
<1> QED BY <1>10, Zenon DEF f1, f2, m0, m1, m2, t0, t1, t2

(* A blob of a search result. *)
LEMMA BlobReads ==
    ASSUME NEW m, NEW q \in Bytes, NEW p1 \in Bytes, NEW p2 \in Bytes,
           Len(p1) = 4, Num(p1) = Len(p2)
    PROVE  Read(Cursor(p1 \o (p2 \o q), m), <<U("blen", 4), D("sval", "blen")>>)
             = Cursor(q, Holding(Holding(m, "blen", p1), "sval", p2))
<1> DEFINE f1 == U("blen", 4)
           f2 == D("sval", "blen")
           m0 == m
           m1 == Holding(m0, "blen", p1)
           m2 == Holding(m1, "sval", p2)
<1>1. Wide(f1, m0) = Len(p1)
  BY WideIs
<1>2. Keep(m0, f1, p1) = m1
  BY KeepIs
<1>3. m1["blen"] = p1
  BY Held
<1>4. Wide(f2, m1) = Len(p2)
  BY <1>3, WideOf
<1>5. Keep(m1, f2, p2) = m2
  BY KeepIs
<1> DEFINE t0 == p1 \o (p2 \o q)
           t1 == p2 \o q
           t2 == q
<1>6. t0 \in Bytes /\ t1 \in Bytes /\ t2 \in Bytes
  BY Joined
<1> HIDE DEF f1, f2, m1, m2
<1>7. Get(Cursor(t0, m0), f1) = Cursor(t1, m1)
  <2>1. Get(Cursor(t0, m0), f1) = Cursor(t1, Keep(m0, f1, p1))
    BY <1>1, <1>6, GetReads
  <2> QED BY <2>1, <1>2, Zenon
<1>8. Get(Cursor(t1, m1), f2) = Cursor(t2, m2)
  <2>1. Get(Cursor(t1, m1), f2) = Cursor(t2, Keep(m1, f2, p2))
    BY <1>4, <1>6, GetReads
  <2> QED BY <2>1, <1>5, Zenon
<1> HIDE DEF t0, t1, t2, m0
<1>9. Read(Cursor(t0, m0), <<f1, f2>>)
        = Get(Get(Cursor(t0, m0), f1), f2)
  BY ReadTwo
<1>10. Read(Cursor(t0, m0), <<f1, f2>>) = Cursor(t2, m2)
  BY <1>9, <1>7, <1>8, Zenon
<1> QED BY <1>10, Zenon DEF f1, f2, m0, m1, m2, t0, t1, t2

(* A name of a tag of a search result. *)
LEMMA NamedReads ==
    ASSUME NEW m, NEW q \in Bytes, NEW p1 \in Bytes, NEW p2 \in Bytes,
           Len(p1) = 2, Num(p1) = Len(p2)
    PROVE  Read(Cursor(p1 \o (p2 \o q), m), <<U("slen", 2), D("sname", "slen")>>)
             = Cursor(q, Holding(Holding(m, "slen", p1), "sname", p2))
<1> DEFINE f1 == U("slen", 2)
           f2 == D("sname", "slen")
           m0 == m
           m1 == Holding(m0, "slen", p1)
           m2 == Holding(m1, "sname", p2)
<1>1. Wide(f1, m0) = Len(p1)
  BY WideIs
<1>2. Keep(m0, f1, p1) = m1
  BY KeepIs
<1>3. m1["slen"] = p1
  BY Held
<1>4. Wide(f2, m1) = Len(p2)
  BY <1>3, WideOf
<1>5. Keep(m1, f2, p2) = m2
  BY KeepIs
<1> DEFINE t0 == p1 \o (p2 \o q)
           t1 == p2 \o q
           t2 == q
<1>6. t0 \in Bytes /\ t1 \in Bytes /\ t2 \in Bytes
  BY Joined
<1> HIDE DEF f1, f2, m1, m2
<1>7. Get(Cursor(t0, m0), f1) = Cursor(t1, m1)
  <2>1. Get(Cursor(t0, m0), f1) = Cursor(t1, Keep(m0, f1, p1))
    BY <1>1, <1>6, GetReads
  <2> QED BY <2>1, <1>2, Zenon
<1>8. Get(Cursor(t1, m1), f2) = Cursor(t2, m2)
  <2>1. Get(Cursor(t1, m1), f2) = Cursor(t2, Keep(m1, f2, p2))
    BY <1>4, <1>6, GetReads
  <2> QED BY <2>1, <1>5, Zenon
<1> HIDE DEF t0, t1, t2, m0
<1>9. Read(Cursor(t0, m0), <<f1, f2>>)
        = Get(Get(Cursor(t0, m0), f1), f2)
  BY ReadTwo
<1>10. Read(Cursor(t0, m0), <<f1, f2>>) = Cursor(t2, m2)
  BY <1>9, <1>7, <1>8, Zenon
<1> QED BY <1>10, Zenon DEF f1, f2, m0, m1, m2, t0, t1, t2

(* What sources are asked with. *)
LEMMA AskedReads ==
    ASSUME NEW m, NEW q \in Bytes, NEW p1 \in Bytes, NEW p2 \in Bytes,
           Len(p1) = 16, Len(p2) = 4
    PROVE  Read(Cursor(p1 \o (p2 \o q), m), <<U("hash", 16), U("size", 4)>>)
             = Cursor(q, Holding(Holding(m, "hash", p1), "size", p2))
<1> DEFINE f1 == U("hash", 16)
           f2 == U("size", 4)
           m0 == m
           m1 == Holding(m0, "hash", p1)
           m2 == Holding(m1, "size", p2)
<1>1. Wide(f1, m0) = Len(p1)
  BY WideIs
<1>2. Keep(m0, f1, p1) = m1
  BY KeepIs
<1>3. Wide(f2, m1) = Len(p2)
  BY WideIs
<1>4. Keep(m1, f2, p2) = m2
  BY KeepIs
<1> DEFINE t0 == p1 \o (p2 \o q)
           t1 == p2 \o q
           t2 == q
<1>5. t0 \in Bytes /\ t1 \in Bytes /\ t2 \in Bytes
  BY Joined
<1> HIDE DEF f1, f2, m1, m2
<1>6. Get(Cursor(t0, m0), f1) = Cursor(t1, m1)
  <2>1. Get(Cursor(t0, m0), f1) = Cursor(t1, Keep(m0, f1, p1))
    BY <1>1, <1>5, GetReads
  <2> QED BY <2>1, <1>2, Zenon
<1>7. Get(Cursor(t1, m1), f2) = Cursor(t2, m2)
  <2>1. Get(Cursor(t1, m1), f2) = Cursor(t2, Keep(m1, f2, p2))
    BY <1>3, <1>5, GetReads
  <2> QED BY <2>1, <1>4, Zenon
<1> HIDE DEF t0, t1, t2, m0
<1>8. Read(Cursor(t0, m0), <<f1, f2>>)
        = Get(Get(Cursor(t0, m0), f1), f2)
  BY ReadTwo
<1>9. Read(Cursor(t0, m0), <<f1, f2>>) = Cursor(t2, m2)
  BY <1>8, <1>6, <1>7, Zenon
<1> QED BY <1>9, Zenon DEF f1, f2, m0, m1, m2, t0, t1, t2

-------------------------------------------------------------------------------
(* A packet as it comes: plain, or packed behind its operation.             *)
Wrap(y, packed) == IF packed THEN Packed(y) ELSE y
Opened(op) == Holding(<<>>, "op", <<op>>)

LEMMA NumOne ==
    ASSUME NEW n \in Nat
    PROVE  Num(<<n>>) = n /\ <<n>> \in Bytes /\ Len(<<n>>) = 1 /\ <<n>>[1] = n
<1> DEFINE s == <<n>>
<1>1. DOMAIN s = 1 .. 1 /\ s[1] = n /\ Len(s) = 1 /\ s \in Seq(Nat)
  OBVIOUS
<1> HIDE DEF s
<1>2. Digit(s, 1) = n /\ Digit(s, 2) = 0 /\ Digit(s, 3) = 0
  BY <1>1 DEF Digit
<1>3. ~ \E i \in DOMAIN s : i > 3 /\ s[i] # 0
  BY <1>1
<1>4. Num(s) = n
  BY <1>2, <1>3 DEF Num
<1> QED BY <1>1, <1>4 DEF s, Bytes

(* One field in front is read.                                              *)
LEMMA OneReads ==
    ASSUME NEW m, NEW n, NEW p \in Bytes, NEW q \in Bytes
    PROVE  Get(Cursor(p \o q, m), U(n, Len(p))) = Cursor(q, Holding(m, n, p))
<1> DEFINE f == U(n, Len(p))
<1>1. Wide(f, m) = Len(p)
  BY WideIs
<1>2. Keep(m, f, p) = Holding(m, n, p)
  BY KeepIs
<1> HIDE DEF f
<1>3. Get(Cursor(p \o q, m), f) = Cursor(q, Keep(m, f, p))
  BY <1>1, GetReads
<1> QED BY <1>2, <1>3, Zenon DEF f

(* What was packed is inflated to what it was.                              *)
LEMMA Inflated ==
    ASSUME NEW y \in Bytes, NEW m
    PROVE  LET high == [i \in 1 .. Len(y) |-> y[i] + 256]
           IN  high \in Bytes /\ Inflate(Cursor(high, m)) = Cursor(y, m)
<1> DEFINE n == Len(y)
           high == [i \in 1 .. n |-> y[i] + 256]
           d == Cursor(high, m)
<1>1. n \in Nat /\ y \in Seq(Nat) /\ \A i \in 1 .. n : y[i] \in Nat
  BY LenProperties, ElementOfSeq DEF Bytes
<1>2. DOMAIN high = 1 .. n /\ \A i \in 1 .. n : high[i] = y[i] + 256
  OBVIOUS
<1>3. high \in Bytes
  <2>1. \A i \in 1 .. n : y[i] + 256 \in Nat
    BY <1>1
  <2> HIDE DEF n
  <2> QED BY <1>1, <2>1, IsASeq DEF Bytes
<1> HIDE DEF high
<1>4. d.rest = high /\ d.m = m
  BY CursorIs
<1> HIDE DEF d
<1>5. \A i \in DOMAIN d.rest : d.rest[i] >= 256
  BY <1>1, <1>2, <1>4
<1>6. Inflate(d) = Cursor([i \in 1 .. n |-> high[i] - 256], m)
  BY <1>2, <1>4, <1>5 DEF Inflate
<1>7. [i \in 1 .. n |-> high[i] - 256] = y
  <2>1. \A i \in 1 .. n : high[i] - 256 = y[i]
    BY <1>1, <1>2
  <2>2. y = [i \in 1 .. n |-> y[i]]
    BY <1>1
  <2> HIDE DEF n
  <2> QED BY <2>1, <2>2
<1> QED BY <1>3, <1>6, <1>7 DEF d, high

(* A parse is at the fields, whether they came packed or not.               *)
LEMMA BodyReads ==
    ASSUME NEW op \in Nat, NEW y \in Bytes, NEW ops, op \in ops, NEW packed
    PROVE  /\ Body(Wrap(<<op>> \o y, packed), ops, packed) = Cursor(y, Opened(op))
           /\ Digit(Wrap(<<op>> \o y, packed), 1) = op
<1> DEFINE p == <<op>>
           data == Wrap(p \o y, packed)
           m == Opened(op)
           high == [i \in 1 .. Len(y) |-> y[i] + 256]
<1>1. p \in Bytes /\ Len(p) = 1 /\ p[1] = op /\ Num(p) = op
  BY NumOne
<1>2. m["op"] = p /\ m = Holding(<<>>, "op", p)
  BY Held DEF Opened
<1> HIDE DEF m, p
<1>3. p \o y \in Bytes /\ Len(p \o y) = 1 + Len(y) /\ Len(y) \in Nat
  BY <1>1, CutOf, LenProperties DEF Bytes
<1>4. /\ DOMAIN (p \o y) = 1 .. 1 + Len(y) /\ (p \o y)[1] = op
      /\ \A i \in 1 .. Len(y) : (p \o y)[i + 1] = y[i]
  <2>1. p \in Seq(Nat) /\ y \in Seq(Nat) /\ p \o y \in Seq(Nat)
    BY <1>1, <1>3 DEF Bytes
  <2>2. DOMAIN (p \o y) = 1 .. 1 + Len(y)
    BY <1>3, <2>1, LenProperties
  <2>3. \A i \in 1 .. Len(p) + Len(y) : (p \o y)[i] = IF i <= Len(p) THEN p[i] ELSE y[i - Len(p)]
    BY <2>1, ConcatProperties
  <2>4. (p \o y)[1] = op
    <3>1. 1 \in 1 .. Len(p) + Len(y) /\ 1 <= Len(p)
      BY <1>1, <1>3
    <3> QED BY <1>1, <2>3, <3>1
  <2>5. \A i \in 1 .. Len(y) : (p \o y)[i + 1] = y[i]
    <3> SUFFICES ASSUME NEW i \in 1 .. Len(y) PROVE (p \o y)[i + 1] = y[i]
      OBVIOUS
    <3>1. /\ i + 1 \in 1 .. Len(p) + Len(y) /\ ~(i + 1 <= Len(p)) /\ (i + 1) - Len(p) = i
      BY <1>1, <1>3
    <3>2. (p \o y)[i + 1] = y[(i + 1) - Len(p)]
      BY <2>3, <3>1
    <3> QED BY <3>1, <3>2
  <2> QED BY <2>2, <2>4, <2>5
<1> DEFINE s == p \o y
<1> HIDE DEF s
<1>5. CASE ~packed
  <2>1. data = s
    BY <1>5 DEF Wrap, s
  <2>2. Get(Decoding(s), U("op", 1)) = Cursor(y, m)
    <3>1. Get(Cursor(p \o y, <<>>), U("op", Len(p))) = Cursor(y, Holding(<<>>, "op", p))
      BY <1>1, OneReads
    <3> QED BY <1>1, <1>2, <3>1, Zenon DEF Decoding, s
  <2>3. IsOne(Cursor(y, m), ops) = Cursor(y, m)
    BY <1>1, <1>2, CursorIs DEF IsOne
  <2>4. Body(data, ops, packed) = Cursor(y, m)
    BY <1>5, <2>1, <2>2, <2>3, CursorIs DEF Body, Then
  <2>5. Digit(data, 1) = op
    BY <1>3, <1>4, <2>1 DEF Digit, s
  <2> QED BY <2>4, <2>5 DEF m, p
<1>6. CASE packed
  <2>1. data = [i \in DOMAIN s |-> IF i = 1 THEN s[i] ELSE s[i] + 256]
    BY <1>6 DEF Wrap, Packed, s
  <2>2. high \in Bytes /\ Inflate(Cursor(high, m)) = Cursor(y, m) /\ Len(high) = Len(y)
    <3>1. high \in Bytes /\ Inflate(Cursor(high, m)) = Cursor(y, m)
      BY Inflated
    <3>2. high \in Seq(Nat) /\ DOMAIN high = 1 .. Len(y)
      BY <3>1 DEF Bytes
    <3>3. Len(high) = Len(y)
      <4> HIDE DEF high
      <4> QED BY <1>3, <3>2, LenProperties
    <3> QED BY <3>1, <3>3
  <2>3. data = p \o high
    <3>1. /\ DOMAIN data = 1 .. 1 + Len(y) /\ data[1] = op
          /\ \A i \in 1 .. Len(y) : data[i + 1] = y[i] + 256
      <4>1. DOMAIN s = 1 .. 1 + Len(y) /\ s[1] = op /\ \A i \in 1 .. Len(y) : s[i + 1] = y[i]
        BY <1>4 DEF s
      <4>2. DOMAIN data = DOMAIN s /\ \A i \in DOMAIN s : data[i] = IF i = 1 THEN s[i] ELSE s[i] + 256
        BY <2>1
      <4>3. 1 \in DOMAIN s /\ \A i \in 1 .. Len(y) : i + 1 \in DOMAIN s /\ i + 1 # 1
        BY <1>3, <4>1
      <4> HIDE DEF data
      <4>4. data[1] = op
        BY <4>1, <4>2, <4>3
      <4>5. \A i \in 1 .. Len(y) : data[i + 1] = y[i] + 256
        <5> SUFFICES ASSUME NEW i \in 1 .. Len(y) PROVE data[i + 1] = y[i] + 256
          OBVIOUS
        <5> DEFINE j == i + 1
        <5>1. j \in DOMAIN s /\ j # 1 /\ s[j] = y[i]
          BY <4>1, <4>3
        <5> HIDE DEF j
        <5>2. data[j] = s[j] + 256
          BY <4>2, <5>1
        <5> QED BY <5>1, <5>2 DEF j
      <4> QED BY <4>1, <4>2, <4>4, <4>5
    <3>2. /\ DOMAIN (p \o high) = 1 .. 1 + Len(y) /\ (p \o high)[1] = op
          /\ \A i \in 1 .. Len(y) : (p \o high)[i + 1] = y[i] + 256
      <4>1. p \in Seq(Nat) /\ high \in Seq(Nat) /\ \A i \in 1 .. Len(y) : high[i] = y[i] + 256
        BY <1>1, <2>2 DEF Bytes
      <4> HIDE DEF high
      <4>2. /\ p \o high \in Seq(Nat) /\ Len(p \o high) = Len(p) + Len(high)
            /\ \A i \in 1 .. Len(p) + Len(high) :
                 (p \o high)[i] = IF i <= Len(p) THEN p[i] ELSE high[i - Len(p)]
        BY <4>1, ConcatProperties
      <4>3. DOMAIN (p \o high) = 1 .. 1 + Len(y)
        BY <1>1, <2>2, <4>2, LenProperties
      <4>4. (p \o high)[1] = op
        <5>1. 1 \in 1 .. Len(p) + Len(high) /\ 1 <= Len(p)
          BY <1>1, <1>3, <2>2
        <5> QED BY <1>1, <4>2, <5>1
      <4>5. \A i \in 1 .. Len(y) : (p \o high)[i + 1] = y[i] + 256
        <5> SUFFICES ASSUME NEW i \in 1 .. Len(y) PROVE (p \o high)[i + 1] = y[i] + 256
          OBVIOUS
        <5>1. /\ i + 1 \in 1 .. Len(p) + Len(high) /\ ~(i + 1 <= Len(p)) /\ (i + 1) - Len(p) = i
          BY <1>1, <1>3, <2>2
        <5>2. (p \o high)[i + 1] = high[(i + 1) - Len(p)]
          BY <4>2, <5>1
        <5> QED BY <4>1, <5>1, <5>2
      <4> QED BY <4>3, <4>4, <4>5
    <3>3. \A j \in 1 .. 1 + Len(y) : data[j] = (p \o high)[j]
      <4> SUFFICES ASSUME NEW j \in 1 .. 1 + Len(y) PROVE data[j] = (p \o high)[j]
        OBVIOUS
      <4>1. CASE j = 1
        BY <3>1, <3>2, <4>1
      <4>2. CASE j # 1
        <5> DEFINE i == j - 1
        <5>1. i \in 1 .. Len(y) /\ i + 1 = j
          BY <1>3, <4>2
        <5> HIDE DEF i, data, high
        <5>2. data[i + 1] = (p \o high)[i + 1]
          BY <3>1, <3>2, <5>1
        <5> QED BY <5>1, <5>2
      <4> QED BY <4>1, <4>2
    <3> DEFINE t == p \o high
    <3>4. t = [j \in DOMAIN t |-> t[j]]
      <4>1. t \in Seq(Nat)
        BY <1>1, <2>2, CutOf DEF Bytes
      <4> HIDE DEF t
      <4> QED BY <4>1
    <3>5. data = [j \in DOMAIN data |-> data[j]]
      BY <2>1
    <3> HIDE DEF t, data, high
    <3> QED BY <3>1, <3>2, <3>3, <3>4, <3>5 DEF t
  <2> HIDE DEF data
  <2>4. Get(Decoding(data), U("op", 1)) = Cursor(high, m)
    <3> HIDE DEF high
    <3>1. Get(Cursor(p \o high, <<>>), U("op", Len(p))) = Cursor(high, Holding(<<>>, "op", p))
      BY <1>1, <2>2, OneReads
    <3> QED BY <1>1, <1>2, <2>3, <3>1, Zenon DEF Decoding
  <2>5. IsOne(Cursor(high, m), ops) = Cursor(high, m)
    BY <1>1, <1>2, CursorIs DEF IsOne
  <2>6. Body(data, ops, packed) = Cursor(y, m)
    <3> HIDE DEF high
    <3> QED BY <1>6, <2>2, <2>4, <2>5, CursorIs DEF Body, Then
  <2>7. Digit(data, 1) = op
    <3>1. DOMAIN s = 1 .. 1 + Len(y) /\ s[1] = op
      BY <1>4 DEF s
    <3>2. DOMAIN data = DOMAIN s /\ \A i \in DOMAIN s : data[i] = IF i = 1 THEN s[i] ELSE s[i] + 256
      BY <2>1
    <3>3. 1 \in DOMAIN s
      BY <1>3, <3>1
    <3> QED BY <3>1, <3>2, <3>3 DEF Digit
  <2> QED BY <2>6, <2>7 DEF m, p, data
<1> QED BY <1>5, <1>6
=============================================================================
