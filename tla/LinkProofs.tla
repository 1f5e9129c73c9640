----------------------------- MODULE LinkProofs -----------------------------
(***************************************************************************)
(* What the reader of every message understands, for messages of any       *)
(* length and any content: the messages of each kind, the files of a       *)
(* search result tag by tag, and the properties of Link.                   *)
(***************************************************************************)
EXTENDS ReadingProofs

LEMMA Closed == \A a, b \in Bytes : a \o b \in Bytes
BY CutOf

LEMMA Assoc == \A a, b, c \in Bytes : (a \o b) \o c = a \o (b \o c)
BY Joined

(* Pieces one behind the other, however they were put together, with        *)
(* something behind the last.                                               *)
Flat3(a, b, c) == a \o b \o c = a \o (b \o c) /\ b \o c \in Bytes /\ a \o (b \o c) \in Bytes
Flat4(a, b, c, d) ==
    /\ a \o b \o c \o d = a \o (b \o (c \o d))
    /\ b \o (c \o d) \in Bytes /\ a \o (b \o (c \o d)) \in Bytes
Flat5(a, b, c, d, e) ==
    /\ a \o b \o c \o d \o e = a \o (b \o (c \o (d \o e)))
    /\ b \o (c \o (d \o e)) \in Bytes /\ a \o (b \o (c \o (d \o e))) \in Bytes
Then2(a, b, z) == (a \o b) \o z = a \o (b \o z) /\ b \o z \in Bytes
Then3(a, b, c, z) == (a \o (b \o c)) \o z = a \o (b \o (c \o z)) /\ b \o (c \o z) \in Bytes
Then4(a, b, c, d, z) ==
    (a \o (b \o (c \o d))) \o z = a \o (b \o (c \o (d \o z))) /\ b \o (c \o (d \o z)) \in Bytes
Then5(a, b, c, d, e, z) ==
    /\ (a \o (b \o (c \o (d \o e)))) \o z = a \o (b \o (c \o (d \o (e \o z))))
    /\ b \o (c \o (d \o (e \o z))) \in Bytes

LEMMA ThreeFlat ==
    ASSUME NEW a \in Bytes, NEW b \in Bytes, NEW c \in Bytes
    PROVE  Flat3(a, b, c)
<1>1. b \o c \in Bytes
  BY Closed, Zenon
<1>2. a \o (b \o c) \in Bytes
  BY <1>1, Closed, Zenon
<1>3. (a \o b) \o c = a \o (b \o c)
  BY Assoc, Zenon
<1> QED BY <1>1, <1>2, <1>3, Zenon DEF Flat3

LEMMA FourFlat ==
    ASSUME NEW a \in Bytes, NEW b \in Bytes, NEW c \in Bytes, NEW d \in Bytes
    PROVE  Flat4(a, b, c, d)
<1> DEFINE ab == a \o b
<1>1. ab \in Bytes
  BY Closed, Zenon
<1>2. Flat3(ab, c, d)
  <2> HIDE DEF ab
  <2> QED BY <1>1, ThreeFlat
<1>3. c \o d \in Bytes
  BY Closed, Zenon
<1>4. ab \o (c \o d) = a \o (b \o (c \o d)) /\ b \o (c \o d) \in Bytes /\ a \o (b \o (c \o d)) \in Bytes
  <2> DEFINE cd == c \o d
  <2> HIDE DEF cd
  <2>1. Flat3(a, b, cd)
    BY <1>3, ThreeFlat DEF cd
  <2> QED BY <2>1 DEF Flat3, cd
<1> QED BY <1>2, <1>4 DEF Flat3, Flat4

LEMMA FiveFlat ==
    ASSUME NEW a \in Bytes, NEW b \in Bytes, NEW c \in Bytes, NEW d \in Bytes, NEW e \in Bytes
    PROVE  Flat5(a, b, c, d, e)
<1> DEFINE ab == a \o b
           cde == c \o (d \o e)
<1>1. ab \in Bytes
  BY Closed, Zenon
<1>2. Flat4(ab, c, d, e)
  <2> HIDE DEF ab
  <2> QED BY <1>1, FourFlat
<1>3. cde \in Bytes
  <2>1. Flat3(c, d, e)
    BY ThreeFlat
  <2> QED BY <2>1 DEF Flat3
<1>4. ab \o cde = a \o (b \o cde) /\ b \o cde \in Bytes /\ a \o (b \o cde) \in Bytes
  <2> HIDE DEF cde
  <2>1. Flat3(a, b, cde)
    BY <1>3, ThreeFlat
  <2> QED BY <2>1 DEF Flat3
<1> QED BY <1>2, <1>4 DEF Flat4, Flat5

LEMMA TwoThen ==
    ASSUME NEW a \in Bytes, NEW b \in Bytes, NEW z \in Bytes
    PROVE  Then2(a, b, z)
<1>1. b \o z \in Bytes
  BY Closed, Zenon
<1>2. (a \o b) \o z = a \o (b \o z)
  BY Assoc, Zenon
<1> QED BY <1>1, <1>2, Zenon DEF Then2

LEMMA ThreeThen ==
    ASSUME NEW a \in Bytes, NEW b \in Bytes, NEW c \in Bytes, NEW z \in Bytes
    PROVE  Then3(a, b, c, z)
<1> DEFINE r == b \o c
           t == b \o (c \o z)
<1>1. r \o z = t /\ t \in Bytes
  <2>1. Then2(b, c, z)
    BY TwoThen
  <2>2. c \o z \in Bytes
    BY Closed, Zenon
  <2>3. b \o (c \o z) \in Bytes
    BY <2>2, Closed, Zenon
  <2> QED BY <2>1, <2>3 DEF Then2
<1>2. r \in Bytes
  BY Closed, Zenon
<1>3. (a \o r) \o z = a \o (r \o z)
  <2> HIDE DEF r
  <2> QED BY <1>2, Assoc
<1> QED BY <1>1, <1>3 DEF Then3

LEMMA FourThen ==
    ASSUME NEW a \in Bytes, NEW b \in Bytes, NEW c \in Bytes, NEW d \in Bytes, NEW z \in Bytes
    PROVE  Then4(a, b, c, d, z)
<1> DEFINE r == b \o (c \o d)
           t == b \o (c \o (d \o z))
           u == c \o (d \o z)
<1>1. r \o z = t /\ u \in Bytes
  <2>1. Then3(b, c, d, z)
    BY ThreeThen
  <2> QED BY <2>1 DEF Then3
<1>2. r \in Bytes
  <2>1. Flat3(b, c, d)
    BY ThreeFlat
  <2> QED BY <2>1 DEF Flat3
<1>3. (a \o r) \o z = a \o (r \o z)
  <2> HIDE DEF r
  <2> QED BY <1>2, Assoc
<1>4. t \in Bytes
  <2>1. t = b \o u
    OBVIOUS
  <2> HIDE DEF u, t
  <2> QED BY <1>1, <2>1, Closed
<1> QED BY <1>1, <1>3, <1>4 DEF Then4

LEMMA FiveThen ==
    ASSUME NEW a \in Bytes, NEW b \in Bytes, NEW c \in Bytes, NEW d \in Bytes, NEW e \in Bytes,
           NEW z \in Bytes
    PROVE  Then5(a, b, c, d, e, z)
<1> DEFINE r == b \o (c \o (d \o e))
           t == b \o (c \o (d \o (e \o z)))
           u == c \o (d \o (e \o z))
<1>1. r \o z = t /\ u \in Bytes
  <2>1. Then4(b, c, d, e, z)
    BY FourThen
  <2> QED BY <2>1 DEF Then4
<1>2. r \in Bytes
  <2>1. Flat4(b, c, d, e)
    BY FourFlat
  <2> QED BY <2>1 DEF Flat4
<1>3. (a \o r) \o z = a \o (r \o z)
  <2> HIDE DEF r
  <2> QED BY <1>2, Assoc
<1>4. t \in Bytes
  <2>1. t = b \o u
    OBVIOUS
  <2> HIDE DEF u, t
  <2> QED BY <1>1, <2>1, Closed
<1> QED BY <1>1, <1>3, <1>4 DEF Then5

(* The longest layouts, by name.                                            *)
TextTagRead(m, q, p1, p2, p3, p4) ==
    Read(Cursor(p1 \o (p2 \o (p3 \o (p4 \o q))), m),
         <<U("nlen", 2), D("tname", "nlen"), U("vlen", 2), D("tval", "vlen")>>)
      = Cursor(q, Holding(Holding(Holding(Holding(m, "nlen", p1), "tname", p2), "vlen", p3), "tval", p4))
WordTagRead(m, q, p1, p2, p3) ==
    Read(Cursor(p1 \o (p2 \o (p3 \o q)), m), <<U("nlen", 2), D("tname", "nlen"), U("tval", 4)>>)
      = Cursor(q, Holding(Holding(Holding(m, "nlen", p1), "tname", p2), "tval", p3))
HeadRead(m, q, p1, p2, p3, p4) ==
    Read(Cursor(p1 \o (p2 \o (p3 \o (p4 \o q))), m), <<U("hash", 16), U("cid", 4), U("port", 2), U("tc", 4)>>)
      = Cursor(q, Holding(Holding(Holding(Holding(m, "hash", p1), "cid", p2), "port", p3), "tc", p4))

LEMMA TextTagDoes ==
    ASSUME NEW m, NEW q \in Bytes, NEW p1 \in Bytes, NEW p2 \in Bytes, NEW p3 \in Bytes, NEW p4 \in Bytes,
           Len(p1) = 2, Num(p1) = Len(p2), Len(p3) = 2, Num(p3) = Len(p4)
    PROVE  TextTagRead(m, q, p1, p2, p3, p4)
BY TextTagReads DEF TextTagRead

LEMMA WordTagDoes ==
    ASSUME NEW m, NEW q \in Bytes, NEW p1 \in Bytes, NEW p2 \in Bytes, NEW p3 \in Bytes,
           Len(p1) = 2, Num(p1) = Len(p2), Len(p3) = 4
    PROVE  WordTagRead(m, q, p1, p2, p3)
BY WordTagReads DEF WordTagRead

LEMMA HeadDoes ==
    ASSUME NEW m, NEW q \in Bytes, NEW p1 \in Bytes, NEW p2 \in Bytes, NEW p3 \in Bytes, NEW p4 \in Bytes,
           Len(p1) = 16, Len(p2) = 4, Len(p3) = 2, Len(p4) = 4
    PROVE  HeadRead(m, q, p1, p2, p3, p4)
BY HeadReads DEF HeadRead

(* What a reader is to make of a message that comes in.                     *)
Well(m, packed) ==
    LET d == Parsed(Packet(m, packed), packed)
    IN  Fields(m) \in Bytes /\ d.ok /\ Reads(d, m) /\ (m.kind # "IDCHANGE" => d.rest = <<>>)

LEMMA Widths ==
    /\ \A v \in Width(1) : v \in Bytes /\ Len(v) = 1
    /\ \A v \in Width(2) : v \in Bytes /\ Len(v) = 2
    /\ \A v \in Width(4) : v \in Bytes /\ Len(v) = 4
    /\ \A v \in Width(8) : v \in Bytes /\ Len(v) = 8
    /\ \A v \in Width(16) : v \in Bytes /\ Len(v) = 16
    /\ \A v \in Width(20) : v \in Bytes /\ Len(v) = 20
<1>1. \A w \in Nat : \A v \in Width(w) : v \in Bytes /\ Len(v) = w
  BY WidthIs
<1>2. 1 \in Nat /\ 2 \in Nat /\ 4 \in Nat /\ 8 \in Nat /\ 16 \in Nat /\ 20 \in Nat
  OBVIOUS
<1>3. \A v \in Width(1) : v \in Bytes /\ Len(v) = 1
  BY <1>1, <1>2, Zenon
<1>4. \A v \in Width(2) : v \in Bytes /\ Len(v) = 2
  BY <1>1, <1>2, Zenon
<1>5. \A v \in Width(4) : v \in Bytes /\ Len(v) = 4
  BY <1>1, <1>2, Zenon
<1>6. \A v \in Width(8) : v \in Bytes /\ Len(v) = 8
  BY <1>1, <1>2, Zenon
<1>7. \A v \in Width(16) : v \in Bytes /\ Len(v) = 16
  BY <1>1, <1>2, Zenon
<1>8. \A v \in Width(20) : v \in Bytes /\ Len(v) = 20
  BY <1>1, <1>2, Zenon
<1> QED BY <1>3, <1>4, <1>5, <1>6, <1>7, <1>8, Zenon

LEMMA Texts ==
    /\ \A s \in Below(256 * 256) : s \in Bytes /\ Len(s) \in Nat /\ Len(s) < 256 * 256
    /\ \A s \in TagText :
         s \in Bytes /\ Len(s) \in Nat /\ Len(s) < 256 * 256 /\ Len(s) <= BufLen
<1>1. \A n \in Nat : \A s \in Below(n) : s \in Bytes /\ Len(s) \in Nat /\ Len(s) < n
  BY BelowIs
<1>2. 256 * 256 \in Nat /\ BufLen + 1 \in Nat
  BY DEF BufLen
<1>3. \A s \in Below(BufLen + 1) : s \in Bytes /\ Len(s) \in Nat /\ Len(s) < BufLen + 1
  BY <1>1, <1>2, Zenon
<1>4. \A s \in TagText : s \in Bytes /\ Len(s) \in Nat /\ Len(s) < BufLen + 1
  BY <1>3, Zenon DEF TagText
<1>5. ASSUME NEW s \in TagText
      PROVE  s \in Bytes /\ Len(s) \in Nat /\ Len(s) < 256 * 256 /\ Len(s) <= BufLen
  <2> DEFINE n == Len(s)
  <2>1. s \in Bytes /\ n \in Nat /\ n < BufLen + 1
    BY <1>4
  <2> HIDE DEF n
  <2>2. n < 256 * 256 /\ n <= BufLen
    BY <2>1 DEF BufLen
  <2> QED BY <2>1, <2>2 DEF n
<1>6. \A s \in Below(256 * 256) : s \in Bytes /\ Len(s) \in Nat /\ Len(s) < 256 * 256
  BY <1>1, <1>2, Zenon
<1> QED BY <1>5, <1>6, Zenon

(* What was read of a tag fits the buffers, and has a name.                  *)
LEMMA FitsBuffers ==
    ASSUME NEW a, NEW z, NEW h, NEW c, NEW e, h["tname"] = c, h["tval"] = e,
           c \in Bytes, Len(c) = 1, e \in Bytes, Len(e) <= BufLen
    PROVE  InBuffers(a, Cursor(z, h)) = Cursor(z, h)
<1> DEFINE n == Len(c)
<1>1. n = 1
  OBVIOUS
<1>2. ~(n > BufLen) /\ ~(Len(e) > BufLen)
  <2> DEFINE k == Len(e)
  <2>1. k \in Nat /\ k <= BufLen
    BY LenProperties DEF Bytes
  <2> HIDE DEF n, k
  <2>2. ~(n > BufLen) /\ ~(k > BufLen)
    BY <1>1, <2>1 DEF BufLen
  <2> QED BY <2>2 DEF k
<1>3. c # <<>>
  OBVIOUS
<1>4. Cursor(z, h).m = h
  BY CursorIs
<1> QED BY <1>2, <1>3, <1>4 DEF InBuffers

LEMMA PacketIs ==
    ASSUME NEW m, NEW packed, NEW op, Op[m.kind] = op
    PROVE  Packet(m, packed) = Wrap(<<op>> \o Fields(m), packed)
BY DEF Packet, Documented, Wrap

(* A status of a server is read. *)
LEMMA StatusWell ==
    ASSUME NEW m \in [kind : {"SERVERSTATUS"}, userc : Width(4), filec : Width(4)], NEW packed
    PROVE  Well(m, packed)
<1> DEFINE op == Op.SERVERSTATUS
           data == Packet(m, packed)
           u == m.userc
           v == m.filec
           q == <<>>
           y == u \o (v \o (q))
           g == Holding(Holding(Opened(op), "userc", u), "filec", v)
           ops == {op}
<1>1. m.kind = "SERVERSTATUS" /\ DOMAIN m = {"kind", "userc", "filec"}
  OBVIOUS
<1>2. m.userc \in Bytes /\ Len(m.userc) = 4 /\ m.filec \in Bytes /\ Len(m.filec) = 4
  <2>1. m.userc \in Width(4) /\ m.filec \in Width(4)
    OBVIOUS
  <2> QED BY <2>1, Widths, Texts
<1>3. u \in Bytes /\ Len(u) = 4 /\ v \in Bytes /\ Len(v) = 4 /\ q \in Bytes
  BY <1>2 DEF Bytes
<1>4. Fields(m) = y /\ y \in Bytes
  <2>1. Fields(m) = u \o v
    BY <1>1 DEF Fields
  <2> HIDE DEF q, u, v
  <2>2. u \o v = y /\ y \in Bytes
    BY <1>3, Joined, CutOf, NothingBehind DEF q
  <2> QED BY <2>1, <2>2, Zenon
<1>5. op \in Nat /\ op \in ops /\ Op[m.kind] = op
  BY <1>1 DEF Op
<1>6. data = Wrap(<<op>> \o y, packed)
  <2> HIDE DEF y, op
  <2> QED BY <1>4, <1>5, PacketIs
<1> HIDE DEF data, y, g, ops
<1>7. Digit(data, 1) = op /\ Body(data, ops, packed) = Cursor(y, Opened(op))
  <2> HIDE DEF op
  <2> QED BY <1>4, <1>5, <1>6, BodyReads
<1>8. Parsed(data, packed) = Read(Body(data, ops, packed), <<U("userc", 4), U("filec", 4)>>)
  BY <1>7 DEF Parsed, SrvStatusParse, Op, ops
<1> HIDE DEF op, u, v
<1>9. Read(Cursor(y, Opened(op)), <<U("userc", 4), U("filec", 4)>>) = Cursor(q, g)
  <2> HIDE DEF q
  <2> QED BY <1>3, StatusReads DEF y, g
<1>10. Parsed(data, packed) = Cursor(q, g)
  BY <1>7, <1>8, <1>9, Zenon
<1>11. "userc" \in DOMAIN g /\ g["userc"] = u /\ "filec" \in DOMAIN g /\ g["filec"] = v
  BY Held, HeldBefore DEF g
<1> QED BY <1>1, <1>4, <1>10, <1>11, CursorIs DEF Well, Reads, Find, data, u, v

(* An id a server gives is read. *)
LEMMA IdWell ==
    ASSUME NEW m \in [kind : {"IDCHANGE"}, id : Width(4), bitmap : Width(4)], NEW packed
    PROVE  Well(m, packed)
<1> DEFINE op == Op.IDCHANGE
           data == Packet(m, packed)
           u == m.id
           v == m.bitmap
           q == <<54, 18, 0, 0, 1, 2, 3, 4>>
           y == u \o (v \o (q))
           g == Holding(Holding(Opened(op), "id", u), "bitmap", v)
           ops == {op}
<1>1. m.kind = "IDCHANGE" /\ DOMAIN m = {"kind", "id", "bitmap"}
  OBVIOUS
<1>2. m.id \in Bytes /\ Len(m.id) = 4 /\ m.bitmap \in Bytes /\ Len(m.bitmap) = 4
  <2>1. m.id \in Width(4) /\ m.bitmap \in Width(4)
    OBVIOUS
  <2> QED BY <2>1, Widths, Texts
<1>3. u \in Bytes /\ Len(u) = 4 /\ v \in Bytes /\ Len(v) = 4 /\ q \in Bytes
  BY <1>2 DEF Bytes
<1>4. Fields(m) = y /\ y \in Bytes
  <2>1. Fields(m) = u \o v \o q
    BY <1>1 DEF Fields
  <2> HIDE DEF q, u, v
  <2>2. u \o v \o q = y /\ y \in Bytes
    BY <1>3, Joined, CutOf
  <2> QED BY <2>1, <2>2, Zenon
<1>5. op \in Nat /\ op \in ops /\ Op[m.kind] = op
  BY <1>1 DEF Op
<1>6. data = Wrap(<<op>> \o y, packed)
  <2> HIDE DEF y, op
  <2> QED BY <1>4, <1>5, PacketIs
<1> HIDE DEF data, y, g, ops
<1>7. Digit(data, 1) = op /\ Body(data, ops, packed) = Cursor(y, Opened(op))
  <2> HIDE DEF op
  <2> QED BY <1>4, <1>5, <1>6, BodyReads
<1>8. Parsed(data, packed) = Read(Body(data, ops, packed), <<U("id", 4), U("bitmap", 4)>>)
  BY <1>7 DEF Parsed, IDCHANGEParse, Op, ops
<1> HIDE DEF op, u, v
<1>9. Read(Cursor(y, Opened(op)), <<U("id", 4), U("bitmap", 4)>>) = Cursor(q, g)
  <2> HIDE DEF q
  <2> QED BY <1>3, IdReads DEF y, g
<1>10. Parsed(data, packed) = Cursor(q, g)
  BY <1>7, <1>8, <1>9, Zenon
<1>11. "id" \in DOMAIN g /\ g["id"] = u /\ "bitmap" \in DOMAIN g /\ g["bitmap"] = v
  BY Held, HeldBefore DEF g
<1> QED BY <1>1, <1>4, <1>10, <1>11, CursorIs DEF Well, Reads, Find, data, u, v

(* An address to call back is read. *)
LEMMA CalledWell ==
    ASSUME NEW m \in [kind : {"CALLBACKREQUESTED"}, first : Width(4), second : Width(2)], NEW packed
    PROVE  Well(m, packed)
<1> DEFINE op == Op.CALLBACKREQUESTED
           data == Packet(m, packed)
           u == m.first
           v == m.second
           q == <<>>
           y == u \o (v \o (q))
           g == Holding(Holding(Opened(op), "first", u), "second", v)
           ops == {op}
<1>1. m.kind = "CALLBACKREQUESTED" /\ DOMAIN m = {"kind", "first", "second"}
  OBVIOUS
<1>2. m.first \in Bytes /\ Len(m.first) = 4 /\ m.second \in Bytes /\ Len(m.second) = 2
  <2>1. m.first \in Width(4) /\ m.second \in Width(2)
    OBVIOUS
  <2> QED BY <2>1, Widths, Texts
<1>3. u \in Bytes /\ Len(u) = 4 /\ v \in Bytes /\ Len(v) = 2 /\ q \in Bytes
  BY <1>2 DEF Bytes
<1>4. Fields(m) = y /\ y \in Bytes
  <2>1. Fields(m) = u \o v
    BY <1>1 DEF Fields
  <2> HIDE DEF q, u, v
  <2>2. u \o v = y /\ y \in Bytes
    BY <1>3, Joined, CutOf, NothingBehind DEF q
  <2> QED BY <2>1, <2>2, Zenon
<1>5. op \in Nat /\ op \in ops /\ Op[m.kind] = op
  BY <1>1 DEF Op
<1>6. data = Wrap(<<op>> \o y, packed)
  <2> HIDE DEF y, op
  <2> QED BY <1>4, <1>5, PacketIs
<1> HIDE DEF data, y, g, ops
<1>7. Digit(data, 1) = op /\ Body(data, ops, packed) = Cursor(y, Opened(op))
  <2> HIDE DEF op
  <2> QED BY <1>4, <1>5, <1>6, BodyReads
<1>8. Parsed(data, packed) = Read(Body(data, ops, packed), <<U("first", 4), U("second", 2)>>)
  BY <1>7 DEF Parsed, CallbackRequestedParse, Op, ops
<1> HIDE DEF op, u, v
<1>9. Read(Cursor(y, Opened(op)), <<U("first", 4), U("second", 2)>>) = Cursor(q, g)
  <2> HIDE DEF q
  <2> QED BY <1>3, CalledReads DEF y, g
<1>10. Parsed(data, packed) = Cursor(q, g)
  BY <1>7, <1>8, <1>9, Zenon
<1>11. "first" \in DOMAIN g /\ g["first"] = u /\ "second" \in DOMAIN g /\ g["second"] = v
  BY Held, HeldBefore DEF g
<1> QED BY <1>1, <1>4, <1>10, <1>11, CursorIs DEF Well, Reads, Find, data, u, v

(* A message of a server is read. *)
LEMMA TextWell ==
    ASSUME NEW m \in [kind : {"SERVERMESSAGE"}, msg : Below(256 * 256)], NEW packed
    PROVE  Well(m, packed)
<1> DEFINE op == Op.SERVERMESSAGE
           data == Packet(m, packed)
           u == Le(Len(m.msg), 2)
           v == m.msg
           q == <<>>
           y == u \o (v \o (q))
           g == Holding(Holding(Opened(op), "len", u), "msg", v)
           ops == {op}
<1>1. m.kind = "SERVERMESSAGE" /\ DOMAIN m = {"kind", "msg"}
  OBVIOUS
<1>2. m.msg \in Bytes /\ Len(m.msg) \in Nat /\ Len(m.msg) < 256 * 256
  <2>1. m.msg \in Below(256 * 256)
    OBVIOUS
  <2> QED BY <2>1, Widths, Texts
<1>3. u \in Bytes /\ Len(u) = 2 /\ Num(u) = Len(m.msg) /\ v \in Bytes /\ Len(v) = Len(m.msg) /\ q \in Bytes
  <2> DEFINE n == Len(m.msg)
  <2>1. m.msg \in Bytes /\ n \in Nat /\ n < 256 * 256 /\ 2 \in Nat
    BY <1>2
  <2> HIDE DEF n
  <2>2. Le(n, 2) \in Bytes /\ Len(Le(n, 2)) = 2
    BY <2>1, LeIs
  <2>3. Num(Le(n, 2)) = n
    BY <2>1, NumLe2
  <2>4. q \in Bytes
    BY DEF Bytes
  <2> QED BY <2>1, <2>2, <2>3, <2>4 DEF n
<1>4. Fields(m) = y /\ y \in Bytes
  <2>1. Fields(m) = u \o v
    BY <1>1 DEF Fields
  <2> HIDE DEF q, u, v
  <2>2. u \o v = y /\ y \in Bytes
    BY <1>3, Joined, CutOf, NothingBehind DEF q
  <2> QED BY <2>1, <2>2, Zenon
<1>5. op \in Nat /\ op \in ops /\ Op[m.kind] = op
  BY <1>1 DEF Op
<1>6. data = Wrap(<<op>> \o y, packed)
  <2> HIDE DEF y, op
  <2> QED BY <1>4, <1>5, PacketIs
<1> HIDE DEF data, y, g, ops
<1>7. Digit(data, 1) = op /\ Body(data, ops, packed) = Cursor(y, Opened(op))
  <2> HIDE DEF op
  <2> QED BY <1>4, <1>5, <1>6, BodyReads
<1>8. Parsed(data, packed) = Read(Body(data, ops, packed), <<U("len", 2), D("msg", "len")>>)
  BY <1>7 DEF Parsed, SrvMessageParse, Op, ops
<1> HIDE DEF op, u, v
<1>9. Read(Cursor(y, Opened(op)), <<U("len", 2), D("msg", "len")>>) = Cursor(q, g)
  <2> HIDE DEF q
  <2> QED BY <1>3, TextReads DEF y, g
<1>10. Parsed(data, packed) = Cursor(q, g)
  BY <1>7, <1>8, <1>9, Zenon
<1>11. "len" \in DOMAIN g /\ g["len"] = u /\ "msg" \in DOMAIN g /\ g["msg"] = v
  BY Held, HeldBefore DEF g
<1> QED BY <1>1, <1>4, <1>10, <1>11, CursorIs DEF Well, Reads, Find, data, u, v

(* What is below a length. *)
LEMMA ShortIs ==
    ASSUME NEW S, NEW n \in Nat, NEW s \in Short(S, n)
    PROVE  /\ Len(s) \in Nat /\ Len(s) < n /\ DOMAIN s = 1 .. Len(s)
           /\ \A i \in 1 .. Len(s) : s[i] \in S
<1>1. s \in Seq(S) /\ Len(s) < n
  BY DEF Short
<1> QED BY <1>1, LenProperties, ElementOfSeq

(* A list of pieces, each with a byte at least. *)
LEMMA Gathered ==
    ASSUME NEW n \in Nat, NEW w, DOMAIN w = 1 .. n, w = [i \in 1 .. n |-> w[i]],
           \A i \in 1 .. n : w[i] \in Bytes /\ Len(w[i]) > 0
    PROVE  ArePieces(w, n)
<1>1. [i \in 1 .. n |-> w[i]] \in Seq(Bytes)
  BY IsASeq
<1>2. w \in Seq(Bytes)
  BY <1>1, Zenon
<1>3. Len(w) = n
  BY <1>2, LenProperties
<1> QED BY <1>2, <1>3 DEF ArePieces

(* What a source is read as. *)
SourceRead(s) == Holding(Holding(Holding(<<>>, "addr", s.addr), "port", s.port), "obf", s.obf)

(* A source is read from where it stands. *)
LEMMA SourceWell ==
    ASSUME NEW s \in [addr : Width(4), port : Width(2), obf : [1 .. 1 -> 0 .. 7]]
    PROVE  /\ SourceBytes(s) \in Bytes /\ Len(SourceBytes(s)) > 0
           /\ \A z \in Bytes : Read(Cursor(SourceBytes(s) \o z, <<>>),
                                    <<B("addr", 4), U("port", 2), U("obf", 1)>>)
                                 = Cursor(z, SourceRead(s))
<1> DEFINE a == s.addr
           b == s.port
           c == s.obf
           r == Be(a)
           l == <<B("addr", 4), U("port", 2), U("obf", 1)>>
<1>1. a \in Width(4) /\ b \in Width(2) /\ c \in [1 .. 1 -> 0 .. 7]
  OBVIOUS
<1>2. c \in Width(1)
  BY <1>1 DEF Width
<1>3. /\ a \in Bytes /\ Len(a) = 4 /\ b \in Bytes /\ Len(b) = 2
      /\ c \in Bytes /\ Len(c) = 1
  <2> HIDE DEF a, b, c
  <2> QED BY <1>1, <1>2, Widths
<1>4. SourceBytes(s) = r \o b \o c /\ SourceRead(s) = Holding(Holding(Holding(<<>>, "addr", a), "port", b), "obf", c)
  BY DEF SourceBytes, SourceRead
<1> HIDE DEF a, b, c
<1>5. r \in Bytes /\ Len(r) = 4 /\ Be(r) = a
  BY <1>3, BeBe
<1> HIDE DEF r
<1>6. r \o b \o c = r \o (b \o c) /\ b \o c \in Bytes
  BY <1>3, <1>5, Joined
<1>7. r \o b \o c \in Bytes /\ Len(r \o b \o c) > 0
  <2>1. Len(r \o (b \o c)) = 4 + Len(b \o c) /\ Len(b \o c) \in Nat /\ r \o (b \o c) \in Bytes
    BY <1>5, <1>6, CutOf, LenProperties DEF Bytes
  <2> QED BY <1>6, <2>1
<1>8. ASSUME NEW z \in Bytes
      PROVE  Read(Cursor(SourceBytes(s) \o z, <<>>), l) = Cursor(z, SourceRead(s))
  <2>1. (r \o (b \o c)) \o z = r \o (b \o (c \o z))
    <3>1. (b \o c) \o z = b \o (c \o z)
      BY <1>3, Joined
    <3>2. (r \o (b \o c)) \o z = r \o ((b \o c) \o z)
      BY <1>5, <1>6, Joined
    <3> QED BY <3>1, <3>2, Zenon
  <2>2. SourceBytes(s) \o z = r \o (b \o (c \o z))
    BY <1>4, <1>6, <2>1, Zenon
  <2>3. Read(Cursor(r \o (b \o (c \o z)), <<>>), l)
          = Cursor(z, Holding(Holding(Holding(<<>>, "addr", Be(r)), "port", b), "obf", c))
    BY <1>3, <1>5, SourceReads
  <2> QED BY <1>4, <1>5, <2>2, <2>3, Zenon
<1> QED BY <1>4, <1>7, <1>8, Zenon

(* The sources of a file are read, each with its address. *)
LEMMA SourcesWell ==
    ASSUME NEW m \in [kind : {"FOUNDSOURCES_OBFU"}, hash : Width(16),
                      srvs : Servers([1 .. 1 -> 0 .. 7])],
           NEW packed
    PROVE  Well(m, packed)
<1> DEFINE op == Op.FOUNDSOURCES_OBFU
           data == Packet(m, packed)
           n == Len(m.srvs)
           w == [i \in DOMAIN m.srvs |-> SourceBytes(m.srvs[i])]
           v == [i \in 1 .. n |-> SourceRead(m.srvs[i])]
           u == m.hash
           c == Le(n, 1)
           x == FlattenSeq(w)
           y == u \o (c \o x)
           h == Holding(Holding(Opened(op), "hash", u), "count", c)
           list == [j \in 1 .. n |-> v[j]]
           g == Holding(h, "srvs", list)
           ops == {op}
           l == <<B("addr", 4), U("port", 2), U("obf", 1)>>
           S == [addr : Width(4), port : Width(2), obf : [1 .. 1 -> 0 .. 7]]
<1>1. m.kind = "FOUNDSOURCES_OBFU" /\ m.hash \in Width(16) /\ m.srvs \in Short(S, 256)
  BY DEF Servers
<1>2. n \in Nat /\ n < 256 /\ DOMAIN m.srvs = 1 .. n /\ \A i \in 1 .. n : m.srvs[i] \in S
  <2> HIDE DEF S
  <2> QED BY <1>1, ShortIs
<1>3. \A i \in 1 .. n : /\ w[i] = SourceBytes(m.srvs[i]) /\ v[i] = SourceRead(m.srvs[i])
                        /\ w[i] \in Bytes /\ Len(w[i]) > 0
  <2> HIDE DEF n
  <2>1. \A i \in 1 .. n : w[i] = SourceBytes(m.srvs[i]) /\ v[i] = SourceRead(m.srvs[i])
    BY <1>2
  <2>2. ASSUME NEW i \in 1 .. n PROVE SourceBytes(m.srvs[i]) \in Bytes /\ Len(SourceBytes(m.srvs[i])) > 0
    BY <1>2, SourceWell
  <2> QED BY <2>1, <2>2
<1>4. ArePieces(w, n)
  <2>1. DOMAIN w = 1 .. n /\ w = [i \in 1 .. n |-> w[i]]
    BY <1>2
  <2> HIDE DEF w, n
  <2> QED BY <1>2, <1>3, <2>1, Gathered
<1>5. ReadsEach(n, w, l, v)
  <2>1. ASSUME NEW k \in 1 .. n, NEW z \in Bytes PROVE Read(Cursor(w[k] \o z, <<>>), l) = Cursor(z, v[k])
    <3>1. m.srvs[k] \in S
      BY <1>2
    <3>2. Read(Cursor(SourceBytes(m.srvs[k]) \o z, <<>>), l) = Cursor(z, SourceRead(m.srvs[k]))
      BY <3>1, SourceWell
    <3>3. w[k] = SourceBytes(m.srvs[k]) /\ v[k] = SourceRead(m.srvs[k])
      BY <1>3
    <3> QED BY <3>2, <3>3, Zenon
  <2> QED BY <2>1 DEF ReadsEach
<1>6. u \in Bytes /\ Len(u) = 16
  BY <1>1, Widths
<1>7. c \in Bytes /\ Len(c) = 1 /\ Num(c) = n
  <2> HIDE DEF n
  <2>1. n \in 0 .. 255 /\ 1 \in Nat
    BY <1>2
  <2> QED BY <1>2, <2>1, LeIs, NumLe1
<1>8. x \in Bytes
  <2> HIDE DEF w, n
  <2> QED BY <1>2, <1>4, NotShorter DEF ArePieces
<1>9. Fields(m) = y /\ y \in Bytes
  <2>1. Fields(m) = u \o c \o x
    BY <1>1 DEF Fields
  <2> HIDE DEF u, c, x
  <2>2. u \o c \o x = y /\ c \o x \in Bytes
    BY <1>6, <1>7, <1>8, Joined
  <2>3. y \in Bytes
    BY <1>6, <2>2, CutOf
  <2> QED BY <2>1, <2>2, <2>3, Zenon
<1>10. op \in Nat /\ op \in ops /\ Op[m.kind] = op
  BY <1>1 DEF Op
<1>11. data = Wrap(<<op>> \o y, packed)
  <2> HIDE DEF y, op
  <2> QED BY <1>9, <1>10, PacketIs
<1> HIDE DEF data, y, ops
<1>12. Digit(data, 1) = op /\ Body(data, ops, packed) = Cursor(y, Opened(op))
  <2> HIDE DEF op
  <2> QED BY <1>9, <1>10, <1>11, BodyReads
<1> DEFINE b == Read(Body(data, ops, packed), <<U("hash", 16), U("count", 1)>>)
<1>13. Parsed(data, packed) = IF b.ok THEN ReadList(b, "srvs", Num(b.m["count"]), l) ELSE b
  BY <1>12 DEF Parsed, FoundSourceParse, Then, Op, ops
<1> HIDE DEF op, u, c, x
<1>14. b = Cursor(x, h)
  BY <1>6, <1>7, <1>8, <1>12, SourcesReads DEF y
<1>15. "count" \in DOMAIN h /\ h["count"] = c /\ "hash" \in DOMAIN h /\ h["hash"] = u
  BY Held, HeldBefore
<1> HIDE DEF b, h
<1>16. Parsed(data, packed) = ReadList(Cursor(x, h), "srvs", n, l)
  <2> HIDE DEF n, l
  <2>1. b.ok /\ b.m = h
    BY <1>14, CursorIs
  <2>2. Parsed(data, packed) = ReadList(b, "srvs", Num(c), l)
    BY <1>13, <1>15, <2>1
  <2> QED BY <1>7, <1>14, <2>2, Zenon
<1>17. Parsed(data, packed) = Cursor(<<>>, g)
  <2>1. <<>> \in Bytes /\ x \o <<>> = x
    BY <1>8, NothingBehind
  <2>2. ReadList(Cursor(x \o <<>>, h), "srvs", n, l) = Cursor(<<>>, g)
    <3> DEFINE e == <<>>
               name == "srvs"
    <3>1. e \in Bytes
      BY <2>1
    <3> HIDE DEF n, l, w, v, e, name
    <3>2. ReadList(Cursor(FlattenSeq(w) \o e, h), name, n, l)
            = Cursor(e, Holding(h, name, [j \in 1 .. n |-> v[j]]))
      BY <1>2, <1>4, <1>5, <3>1, ListReads
    <3> QED BY <3>2 DEF e, name, x
  <2> QED BY <1>16, <2>1, <2>2, Zenon
<1>18. g["srvs"] = list /\ "hash" \in DOMAIN g /\ g["hash"] = u
  BY <1>15, Held, HeldBefore
<1>19. Addresses(list) = Addresses(m.srvs)
  <2>1. DOMAIN list = 1 .. n /\ \A i \in 1 .. n : list[i] = SourceRead(m.srvs[i])
    BY <1>3
  <2>2. ASSUME NEW i \in 1 .. n PROVE list[i].addr = m.srvs[i].addr /\ list[i].port = m.srvs[i].port
    BY <2>1, Held, HeldBefore DEF SourceRead
  <2> HIDE DEF list
  <2> QED BY <1>2, <2>1, <2>2 DEF Addresses
<1> HIDE DEF g, list
<1>20. Parsed(data, packed).ok /\ Parsed(data, packed).rest = <<>> /\ Parsed(data, packed).m = g
  BY <1>17, CursorIs
<1> QED BY <1>1, <1>9, <1>18, <1>19, <1>20 DEF Well, Reads, data, u

(* What a server is read as. *)
ServerRead(s) == Holding(Holding(<<>>, "addr", s.addr), "port", s.port)

LEMMA ServerReadIs == \A s : ServerRead(s)["addr"] = s.addr /\ ServerRead(s)["port"] = s.port
BY Held, HeldBefore DEF ServerRead

(* A server is read from where it stands. *)
LEMMA ServerWell ==
    ASSUME NEW s \in [addr : Width(4), port : Width(2), obf : Width(1)]
    PROVE  /\ s.addr \o s.port \in Bytes /\ Len(s.addr \o s.port) > 0
           /\ \A z \in Bytes : Read(Cursor((s.addr \o s.port) \o z, <<>>),
                                    <<U("addr", 4), U("port", 2)>>)
                                 = Cursor(z, ServerRead(s))
<1> DEFINE a == s.addr
           b == s.port
           l == <<U("addr", 4), U("port", 2)>>
<1>1. a \in Width(4) /\ b \in Width(2)
  OBVIOUS
<1>2. a \in Bytes /\ Len(a) = 4 /\ b \in Bytes /\ Len(b) = 2
  <2> HIDE DEF a, b
  <2> QED BY <1>1, Widths
<1>3. ServerRead(s) = Holding(Holding(<<>>, "addr", a), "port", b)
  BY DEF ServerRead
<1> HIDE DEF a, b
<1>4. a \o b \in Bytes /\ Len(a \o b) > 0
  <2>1. Len(a \o b) = 4 + 2 /\ a \o b \in Bytes
    BY <1>2, CutOf
  <2> QED BY <2>1
<1>5. ASSUME NEW z \in Bytes
      PROVE  Read(Cursor((a \o b) \o z, <<>>), l) = Cursor(z, ServerRead(s))
  <2>1. (a \o b) \o z = a \o (b \o z)
    BY <1>2, Joined
  <2>2. Read(Cursor(a \o (b \o z), <<>>), l) = Cursor(z, Holding(Holding(<<>>, "addr", a), "port", b))
    BY <1>2, ServerReads
  <2> QED BY <1>3, <2>1, <2>2, Zenon
<1> QED BY <1>4, <1>5 DEF a, b

(* The servers of a list are read, each with its address. *)
LEMMA ServersWell ==
    ASSUME NEW m \in [kind : {"SERVERLIST"}, srvs : Servers(Width(1))],
           NEW packed
    PROVE  Well(m, packed)
<1> DEFINE op == Op.SERVERLIST
           data == Packet(m, packed)
           n == Len(m.srvs)
           w == [i \in DOMAIN m.srvs |-> m.srvs[i].addr \o m.srvs[i].port]
           v == [i \in 1 .. n |-> ServerRead(m.srvs[i])]
           c == Le(n, 1)
           x == FlattenSeq(w)
           y == c \o x
           h == Holding(Opened(op), "count", c)
           list == [j \in 1 .. n |-> v[j]]
           g == Holding(h, "srvs", list)
           ops == {op}
           l == <<U("addr", 4), U("port", 2)>>
           S == [addr : Width(4), port : Width(2), obf : Width(1)]
<1>1. m.kind = "SERVERLIST" /\ m.srvs \in Short(S, 256)
  BY DEF Servers
<1>2. n \in Nat /\ n < 256 /\ DOMAIN m.srvs = 1 .. n /\ \A i \in 1 .. n : m.srvs[i] \in S
  <2> HIDE DEF S
  <2> QED BY <1>1, ShortIs
<1>3. \A i \in 1 .. n : /\ w[i] = m.srvs[i].addr \o m.srvs[i].port /\ v[i] = ServerRead(m.srvs[i])
                        /\ w[i] \in Bytes /\ Len(w[i]) > 0
  <2> HIDE DEF n
  <2>1. \A i \in 1 .. n : w[i] = m.srvs[i].addr \o m.srvs[i].port /\ v[i] = ServerRead(m.srvs[i])
    BY <1>2
  <2>2. ASSUME NEW i \in 1 .. n PROVE m.srvs[i].addr \o m.srvs[i].port \in Bytes /\ Len(m.srvs[i].addr \o m.srvs[i].port) > 0
    BY <1>2, ServerWell
  <2> QED BY <2>1, <2>2
<1>4. ArePieces(w, n)
  <2>1. DOMAIN w = 1 .. n /\ w = [i \in 1 .. n |-> w[i]]
    BY <1>2
  <2> HIDE DEF w, n
  <2> QED BY <1>2, <1>3, <2>1, Gathered
<1>5. ReadsEach(n, w, l, v)
  <2>1. ASSUME NEW k \in 1 .. n, NEW z \in Bytes PROVE Read(Cursor(w[k] \o z, <<>>), l) = Cursor(z, v[k])
    <3>1. m.srvs[k] \in S
      BY <1>2
    <3>2. Read(Cursor((m.srvs[k].addr \o m.srvs[k].port) \o z, <<>>), l) = Cursor(z, ServerRead(m.srvs[k]))
      BY <3>1, ServerWell
    <3>3. w[k] = (m.srvs[k].addr \o m.srvs[k].port) /\ v[k] = ServerRead(m.srvs[k])
      BY <1>3
    <3> QED BY <3>2, <3>3, Zenon
  <2> QED BY <2>1 DEF ReadsEach
<1>7. c \in Bytes /\ Len(c) = 1 /\ Num(c) = n
  <2> HIDE DEF n
  <2>1. n \in Nat /\ n < 256
    BY <1>2
  <2>2. n \in 0 .. 255 /\ 1 \in Nat
    BY <2>1
  <2> QED BY <2>1, <2>2, LeIs, NumLe1
<1>8. x \in Bytes
  <2> HIDE DEF w, n
  <2> QED BY <1>2, <1>4, NotShorter DEF ArePieces
<1>9. Fields(m) = y /\ y \in Bytes
  <2>1. Fields(m) = c \o x
    BY <1>1 DEF Fields
  <2> HIDE DEF c, x
  <2>2. y \in Bytes
    BY <1>7, <1>8, CutOf
  <2> QED BY <2>1, <2>2, Zenon
<1>10. op \in Nat /\ op \in ops /\ Op[m.kind] = op
  BY <1>1 DEF Op
<1>11. data = Wrap(<<op>> \o y, packed)
  <2> HIDE DEF y, op
  <2> QED BY <1>9, <1>10, PacketIs
<1> HIDE DEF data, y, ops
<1>12. Digit(data, 1) = op /\ Body(data, ops, packed) = Cursor(y, Opened(op))
  <2> HIDE DEF op
  <2> QED BY <1>9, <1>10, <1>11, BodyReads
<1> DEFINE b == Get(Body(data, ops, packed), U("count", 1))
<1>13. Parsed(data, packed) = IF b.ok THEN ReadList(b, "srvs", Num(b.m["count"]), l) ELSE b
  BY <1>12 DEF Parsed, ServerListParse, Then, Op, ops
<1> HIDE DEF op, c, x
<1>14. b = Cursor(x, h)
  <2>1. Get(Cursor(c \o x, Opened(op)), U("count", Len(c))) = Cursor(x, Holding(Opened(op), "count", c))
    BY <1>7, <1>8, OneReads
  <2> QED BY <1>7, <1>12, <2>1 DEF y
<1>15. "count" \in DOMAIN h /\ h["count"] = c
  BY Held
<1> HIDE DEF b, h
<1>16. Parsed(data, packed) = ReadList(Cursor(x, h), "srvs", n, l)
  <2> HIDE DEF n, l
  <2>1. b.ok /\ b.m = h
    BY <1>14, CursorIs
  <2>2. Parsed(data, packed) = ReadList(b, "srvs", Num(c), l)
    BY <1>13, <1>15, <2>1
  <2> QED BY <1>7, <1>14, <2>2, Zenon
<1>17. Parsed(data, packed) = Cursor(<<>>, g)
  <2>1. <<>> \in Bytes /\ x \o <<>> = x
    BY <1>8, NothingBehind
  <2>2. ReadList(Cursor(x \o <<>>, h), "srvs", n, l) = Cursor(<<>>, g)
    <3> DEFINE e == <<>>
               name == "srvs"
    <3>1. e \in Bytes
      BY <2>1
    <3> HIDE DEF n, l, w, v, e, name
    <3>2. ReadList(Cursor(FlattenSeq(w) \o e, h), name, n, l)
            = Cursor(e, Holding(h, name, [j \in 1 .. n |-> v[j]]))
      BY <1>2, <1>4, <1>5, <3>1, ListReads
    <3> QED BY <3>2 DEF e, name, x
  <2> QED BY <1>16, <2>1, <2>2, Zenon
<1>18. g["srvs"] = list
  BY Held
<1>19. Addresses(list) = Addresses(m.srvs)
  <2>1. DOMAIN list = 1 .. n /\ \A i \in 1 .. n : list[i] = ServerRead(m.srvs[i])
    BY <1>3
  <2>2. ASSUME NEW i \in 1 .. n PROVE list[i].addr = m.srvs[i].addr /\ list[i].port = m.srvs[i].port
    BY <2>1, ServerReadIs
  <2> HIDE DEF list
  <2> QED BY <1>2, <2>1, <2>2 DEF Addresses
<1> HIDE DEF g, list
<1>20. Parsed(data, packed).ok /\ Parsed(data, packed).rest = <<>> /\ Parsed(data, packed).m = g
  BY <1>17, CursorIs
<1> QED BY <1>1, <1>9, <1>18, <1>19, <1>20 DEF Well, Reads, data

(* The carry of an addition of bytes. *)
LEMMA Carry ==
    ASSUME NEW x \in Nat, x < 512
    PROVE  \E c \in Nat : c <= 1 /\ x \div 256 = c /\ x % 256 = x - 256 * c
                            /\ x % 256 \in Nat /\ x % 256 < 256
<1>1. CASE x < 256
  <2>1. x \div 256 = 0 /\ x % 256 = x
    BY <1>1
  <2> QED BY <1>1, <2>1
<1>2. CASE x >= 256
  <2>1. x \div 256 = 1 /\ x % 256 = x - 256 /\ x - 256 \in Nat /\ x - 256 < 256
    BY <1>2
  <2> QED BY <2>1
<1> QED BY <1>1, <1>2

LEMMA In16 ==
    ASSUME NEW x \in Nat, x < 65536
    PROVE  x % 65536 = x /\ (x - 65536) % 65536 = x
<1>1. x % 65536 = x
  OBVIOUS
<1>2. (x - 65536) % 65536 = x
  OBVIOUS
<1> QED BY <1>1, <1>2

(* A number below Beyond in three bytes. *)
LEMMA Digits ==
    ASSUME NEW n \in Nat, n < Beyond
    PROVE  \E x \in Nat, y \in Nat, z \in Nat :
             /\ x < 256 /\ y < 256 /\ z < 256 /\ n = x + 256 * y + 65536 * z
             /\ n % 256 = x /\ (n \div 256) % 256 = y /\ ((n \div 256) \div 256) % 256 = z
<1> DEFINE x == n % 256
           m == n \div 256
           y == m % 256
           k == m \div 256
           z == k % 256
<1>1. x \in Nat /\ x < 256 /\ m \in Nat /\ n = x + 256 * m /\ m < 65536
  BY DEF Beyond
<1> HIDE DEF x, m
<1>2. y \in Nat /\ y < 256 /\ k \in Nat /\ m = y + 256 * k /\ k < 256
  BY <1>1
<1> HIDE DEF y, k
<1>3. z = k
  BY <1>2
<1> HIDE DEF z
<1>4. n = x + 256 * y + 65536 * z
  BY <1>1, <1>2, <1>3
<1>5. n % 256 = x /\ (n \div 256) % 256 = y /\ ((n \div 256) \div 256) % 256 = z
  BY DEF x, y, z, m, k
<1> QED BY <1>1, <1>2, <1>3, <1>4, <1>5

(* The lower and the higher half of an end less those of a start.           *)
LEMMA LowerHalf ==
    ASSUME NEW s1 \in Nat, NEW s2 \in Nat, NEW x \in Nat, NEW y \in Nat, NEW ca \in Nat, NEW cb \in Nat,
           s1 < 256, s2 < 256, x < 256, y < 256, ca <= 1, cb <= 1,
           NEW e1 \in Nat, NEW e2 \in Nat, e1 < 256, e2 < 256,
           e1 = s1 + x - 256 * ca, e2 = s2 + y + ca - 256 * cb
    PROVE  LET ls == s1 + 256 * s2
               le == e1 + 256 * e2
           IN  /\ (IF le < ls THEN 1 ELSE 0) = cb
               /\ (le - ls) % 65536 = x + 256 * y
<1> DEFINE ls == s1 + 256 * s2
           le == e1 + 256 * e2
           l == x + 256 * y
<1>1. le = ls + l - 65536 * cb
  OBVIOUS
<1>2. l \in Nat /\ l < 65536 /\ ls \in Nat /\ ls < 65536 /\ le \in Nat /\ le < 65536
  OBVIOUS
<1> HIDE DEF ls, le, l
<1>3. CASE cb = 0
  <2>1. ~(le < ls) /\ le - ls = l
    BY <1>1, <1>2, <1>3
  <2>2. l % 65536 = l
    BY <1>2, In16
  <2> QED BY <1>3, <2>1, <2>2 DEF ls, le, l
<1>4. CASE cb = 1
  <2>1. le < ls /\ le - ls = l - 65536
    BY <1>1, <1>2, <1>4
  <2>2. (l - 65536) % 65536 = l
    BY <1>2, In16
  <2>3. (IF le < ls THEN 1 ELSE 0) = 1 /\ (le - ls) % 65536 = l
    BY <2>1, <2>2
  <2> QED BY <1>4, <2>3 DEF ls, le, l
<1>5. cb = 0 \/ cb = 1
  OBVIOUS
<1> QED BY <1>3, <1>4, <1>5

LEMMA HigherHalf ==
    ASSUME NEW s3 \in Nat, NEW s4 \in Nat, NEW z \in Nat, NEW cb \in Nat, NEW cc \in Nat, NEW cd \in Nat,
           z < 256, cb <= 1, cc <= 1, cd <= 1,
           NEW e3 \in Nat, NEW e4 \in Nat,
           e3 = s3 + z + cb - 256 * cc, e4 = s4 + cc - 256 * cd
    PROVE  ((e3 + 256 * e4) - (s3 + 256 * s4) - cb) % 65536 = z
<1> DEFINE h == (e3 + 256 * e4) - (s3 + 256 * s4) - cb
<1>1. h = z - 65536 * cd
  OBVIOUS
<1> HIDE DEF h
<1>2. CASE cd = 0
  <2>1. h = z /\ z < 65536
    BY <1>1, <1>2
  <2> QED BY <2>1, In16 DEF h
<1>3. CASE cd = 1
  <2>1. h = z - 65536 /\ z < 65536
    BY <1>1, <1>3
  <2> QED BY <2>1, In16 DEF h
<1>4. cd = 0 \/ cd = 1
  OBVIOUS
<1> QED BY <1>2, <1>3, <1>4

(* The halves of a number of four bytes. *)
LEMMA HalvesAre ==
    ASSUME NEW v \in Seq(Nat), Len(v) = 4
    PROVE  /\ Num(SubSeq(v, 1, 2)) = v[1] + 256 * v[2]
           /\ Num(SubSeq(v, 3, 4)) = v[3] + 256 * v[4]
<1>1. ASSUME NEW s \in Seq(Nat), Len(s) = 2 PROVE Num(s) = s[1] + 256 * s[2]
  <2>1. DOMAIN s = 1 .. 2 /\ s[1] \in Nat /\ s[2] \in Nat
    <3>1. DOMAIN s = 1 .. Len(s) /\ \A i \in 1 .. Len(s) : s[i] \in Nat
      BY LenProperties, ElementOfSeq
    <3> QED BY <1>1, <3>1
  <2>2. Digit(s, 1) = s[1] /\ Digit(s, 2) = s[2] /\ Digit(s, 3) = 0
    BY <2>1 DEF Digit
  <2>3. ~ \E i \in DOMAIN s : i > 3 /\ s[i] # 0
    BY <2>1
  <2> QED BY <2>1, <2>2, <2>3 DEF Num
<1>2. /\ SubSeq(v, 1, 2) \in Seq(Nat) /\ Len(SubSeq(v, 1, 2)) = 2
      /\ SubSeq(v, 1, 2)[1] = v[1] /\ SubSeq(v, 1, 2)[2] = v[2]
  <2> DEFINE s == SubSeq(v, 1, 2)
  <2>1. /\ s \in Seq(Nat) /\ Len(s) = 2
        /\ \A i \in 1 .. 2 : s[i] = v[0 + i]
    <3> DEFINE u == 0
               k == 2
    <3>1. u \in Nat /\ k \in Nat /\ u + k <= Len(v) /\ u + 1 = 1 /\ u + k = 2
      OBVIOUS
    <3> HIDE DEF u, k
    <3>2. /\ SubSeq(v, u + 1, u + k) \in Seq(Nat) /\ Len(SubSeq(v, u + 1, u + k)) = k
          /\ \A i \in 1 .. k : SubSeq(v, u + 1, u + k)[i] = v[u + i]
      BY <3>1, Slice
    <3>3. k = 2 /\ u = 0
      BY DEF k, u
    <3> QED BY <3>1, <3>2, <3>3
  <2> HIDE DEF s
  <2>2. s[1] = v[1] /\ s[2] = v[2] /\ Len(s) = 2
    BY <2>1
  <2> QED BY <2>1, <2>2 DEF s
<1>3. /\ SubSeq(v, 3, 4) \in Seq(Nat) /\ Len(SubSeq(v, 3, 4)) = 2
      /\ SubSeq(v, 3, 4)[1] = v[3] /\ SubSeq(v, 3, 4)[2] = v[4]
  <2> DEFINE s == SubSeq(v, 3, 4)
  <2>1. /\ s \in Seq(Nat) /\ Len(s) = 2
        /\ \A i \in 1 .. 2 : s[i] = v[2 + i]
    <3> DEFINE u == 2
               k == 2
    <3>1. u \in Nat /\ k \in Nat /\ u + k <= Len(v) /\ u + 1 = 3 /\ u + k = 4
      OBVIOUS
    <3> HIDE DEF u, k
    <3>2. /\ SubSeq(v, u + 1, u + k) \in Seq(Nat) /\ Len(SubSeq(v, u + 1, u + k)) = k
          /\ \A i \in 1 .. k : SubSeq(v, u + 1, u + k)[i] = v[u + i]
      BY <3>1, Slice
    <3>3. k = 2 /\ u = 2
      BY DEF k, u
    <3> QED BY <3>1, <3>2, <3>3
  <2> HIDE DEF s
  <2>2. s[1] = v[3] /\ s[2] = v[4] /\ Len(s) = 2
    BY <2>1
  <2> QED BY <2>1, <2>2 DEF s
<1> HIDE DEF Num
<1>4. Num(SubSeq(v, 1, 2)) = SubSeq(v, 1, 2)[1] + 256 * SubSeq(v, 1, 2)[2]
  BY <1>1, <1>2
<1>5. Num(SubSeq(v, 3, 4)) = SubSeq(v, 3, 4)[1] + 256 * SubSeq(v, 3, 4)[2]
  BY <1>1, <1>3
<1> QED BY <1>2, <1>3, <1>4, <1>5

(* Four bytes and three, with their carries.                                *)
LEMMA Added ==
    ASSUME NEW s1 \in Nat, NEW s2 \in Nat, NEW s3 \in Nat, NEW s4 \in Nat,
           s1 < 256, s2 < 256, s3 < 256, s4 < 256,
           NEW x \in Nat, NEW y \in Nat, NEW z \in Nat, x < 256, y < 256, z < 256,
           NEW a, NEW b, NEW c, NEW d,
           a = s1 + x, b = s2 + y + (a \div 256), c = s3 + z + (b \div 256), d = s4 + (c \div 256)
    PROVE  /\ a % 256 \in Nat /\ a % 256 < 256 /\ a \div 256 \in Nat /\ a \div 256 <= 1
           /\ b % 256 \in Nat /\ b % 256 < 256 /\ b \div 256 \in Nat /\ b \div 256 <= 1
           /\ c % 256 \in Nat /\ c % 256 < 256 /\ c \div 256 \in Nat /\ c \div 256 <= 1
           /\ d % 256 \in Nat /\ d % 256 < 256 /\ d \div 256 \in Nat /\ d \div 256 <= 1
           /\ a % 256 = s1 + x - 256 * (a \div 256)
           /\ b % 256 = s2 + y + (a \div 256) - 256 * (b \div 256)
           /\ c % 256 = s3 + z + (b \div 256) - 256 * (c \div 256)
           /\ d % 256 = s4 + (c \div 256) - 256 * (d \div 256)
<1>1. a \in Nat /\ a < 512
  OBVIOUS
<1>2. PICK ca \in Nat : ca <= 1 /\ a \div 256 = ca /\ a % 256 = a - 256 * ca
                       /\ a % 256 \in Nat /\ a % 256 < 256
  BY <1>1, Carry
<1>3. b = s2 + y + ca /\ b \in Nat /\ b < 512
  <2>1. b = s2 + y + ca
    BY <1>2
  <2> QED BY <1>2, <2>1
<1>4. PICK cb \in Nat : cb <= 1 /\ b \div 256 = cb /\ b % 256 = b - 256 * cb
                       /\ b % 256 \in Nat /\ b % 256 < 256
  BY <1>3, Carry
<1>5. c = s3 + z + cb /\ c \in Nat /\ c < 512
  <2>1. c = s3 + z + cb
    BY <1>4
  <2> QED BY <1>4, <2>1
<1>6. PICK cc \in Nat : cc <= 1 /\ c \div 256 = cc /\ c % 256 = c - 256 * cc
                       /\ c % 256 \in Nat /\ c % 256 < 256
  BY <1>5, Carry
<1>7. d = s4 + cc /\ d \in Nat /\ d < 512
  <2>1. d = s4 + cc
    BY <1>6
  <2> QED BY <1>6, <2>1
<1>8. PICK cd \in Nat : cd <= 1 /\ d \div 256 = cd /\ d % 256 = d - 256 * cd
                       /\ d % 256 \in Nat /\ d % 256 < 256
  BY <1>7, Carry
<1>9. /\ a % 256 = s1 + x - 256 * ca /\ b % 256 = s2 + y + ca - 256 * cb
      /\ c % 256 = s3 + z + cb - 256 * cc /\ d % 256 = s4 + cc - 256 * cd
  <2>1. a % 256 = s1 + x - 256 * ca
    BY <1>2
  <2>2. b % 256 = s2 + y + ca - 256 * cb
    BY <1>3, <1>4
  <2>3. c % 256 = s3 + z + cb - 256 * cc
    BY <1>5, <1>6
  <2>4. d % 256 = s4 + cc - 256 * cd
    BY <1>7, <1>8
  <2> QED BY <2>1, <2>2, <2>3, <2>4
<1> QED BY <1>2, <1>4, <1>6, <1>8, <1>9

(* The end of a block less its start is its length, whatever wraps round.   *)
LEMMA SpanOfPlus ==
    ASSUME NEW s \in Width(4), NEW n \in Nat, n < Beyond
    PROVE  Plus(s, n) \in Bytes /\ Len(Plus(s, n)) = 4 /\ Span(s, Plus(s, n)) = n
<1>1. s \in Seq(Nat) /\ Len(s) = 4 /\ \A i \in 1 .. 4 : s[i] \in 0 .. 255
  <2> DEFINE w == 4
  <2>1. s \in Width(w) /\ w \in Nat
    OBVIOUS
  <2> HIDE DEF w
  <2>2. s \in Bytes /\ Len(s) = w /\ \A i \in 1 .. w : s[i] \in 0 .. 255
    BY <2>1, WidthIs
  <2> QED BY <2>2 DEF w, Bytes
<1> DEFINE s1 == s[1]
           s2 == s[2]
           s3 == s[3]
           s4 == s[4]
<1>2. /\ s1 \in Nat /\ s2 \in Nat /\ s3 \in Nat /\ s4 \in Nat
      /\ s[1] = s1 /\ s[2] = s2 /\ s[3] = s3 /\ s[4] = s4
      /\ s1 < 256 /\ s2 < 256 /\ s3 < 256 /\ s4 < 256
  <2>1. s[1] \in 0 .. 255 /\ s[2] \in 0 .. 255 /\ s[3] \in 0 .. 255 /\ s[4] \in 0 .. 255
    BY <1>1
  <2>2. \A i \in 0 .. 255 : i \in Nat /\ i < 256
    OBVIOUS
  <2> QED BY <2>1, <2>2
<1> HIDE DEF s1, s2, s3, s4
<1>3. PICK x \in Nat, y \in Nat, z \in Nat :
        /\ x < 256 /\ y < 256 /\ z < 256 /\ n = x + 256 * y + 65536 * z
        /\ n % 256 = x /\ (n \div 256) % 256 = y /\ ((n \div 256) \div 256) % 256 = z
  BY Digits
<1> DEFINE a == s1 + x
           b == s2 + y + (a \div 256)
           c == s3 + z + (b \div 256)
           d == s4 + (c \div 256)
<1>4. Plus(s, n) = <<a % 256, b % 256, c % 256, d % 256>>
  BY <1>2, <1>3 DEF Plus
<1>5. a = s1 + x /\ b = s2 + y + (a \div 256) /\ c = s3 + z + (b \div 256) /\ d = s4 + (c \div 256)
  OBVIOUS
<1> HIDE DEF a, b, c, d
<1>6. /\ a % 256 \in Nat /\ a % 256 < 256 /\ a \div 256 \in Nat /\ a \div 256 <= 1
      /\ b % 256 \in Nat /\ b % 256 < 256 /\ b \div 256 \in Nat /\ b \div 256 <= 1
      /\ c % 256 \in Nat /\ c % 256 < 256 /\ c \div 256 \in Nat /\ c \div 256 <= 1
      /\ d % 256 \in Nat /\ d % 256 < 256 /\ d \div 256 \in Nat /\ d \div 256 <= 1
      /\ a % 256 = s1 + x - 256 * (a \div 256)
      /\ b % 256 = s2 + y + (a \div 256) - 256 * (b \div 256)
      /\ c % 256 = s3 + z + (b \div 256) - 256 * (c \div 256)
      /\ d % 256 = s4 + (c \div 256) - 256 * (d \div 256)
  BY <1>2, <1>3, <1>5, Added
<1> DEFINE e1 == a % 256
           e2 == b % 256
           e3 == c % 256
           e4 == d % 256
           ca == a \div 256
           cb == b \div 256
           cc == c \div 256
           cd == d \div 256
<1>16. /\ e1 \in Nat /\ e2 \in Nat /\ e3 \in Nat /\ e4 \in Nat
       /\ ca \in Nat /\ cb \in Nat /\ cc \in Nat /\ cd \in Nat
       /\ ca <= 1 /\ cb <= 1 /\ cc <= 1 /\ cd <= 1
       /\ e1 < 256 /\ e2 < 256 /\ e3 < 256 /\ e4 < 256
       /\ e1 = s1 + x - 256 * ca /\ e2 = s2 + y + ca - 256 * cb
       /\ e3 = s3 + z + cb - 256 * cc /\ e4 = s4 + cc - 256 * cd
  BY <1>6
<1>17. Plus(s, n) = <<e1, e2, e3, e4>>
  BY <1>4
<1> HIDE DEF e1, e2, e3, e4, ca, cb, cc, cd
<1> DEFINE e == <<e1, e2, e3, e4>>
<1>7. Plus(s, n) = e
  BY <1>17
<1>8. e \in Seq(Nat) /\ Len(e) = 4 /\ e[1] = e1 /\ e[2] = e2 /\ e[3] = e3 /\ e[4] = e4
  BY <1>16
<1> HIDE DEF e
<1> DEFINE ls == s1 + 256 * s2
           hs == s3 + 256 * s4
           le == e1 + 256 * e2
           he == e3 + 256 * e4
<1>9. Num(SubSeq(s, 1, 2)) = ls /\ Num(SubSeq(s, 3, 4)) = hs
  <2>1. Num(SubSeq(s, 1, 2)) = s[1] + 256 * s[2] /\ Num(SubSeq(s, 3, 4)) = s[3] + 256 * s[4]
    BY <1>1, HalvesAre
  <2> QED BY <1>2, <2>1
<1>10. Num(SubSeq(e, 1, 2)) = le /\ Num(SubSeq(e, 3, 4)) = he
  <2>1. Num(SubSeq(e, 1, 2)) = e[1] + 256 * e[2] /\ Num(SubSeq(e, 3, 4)) = e[3] + 256 * e[4]
    BY <1>8, HalvesAre
  <2> QED BY <1>8, <2>1
<1>11. (IF le < ls THEN 1 ELSE 0) = cb /\ (le - ls) % 65536 = x + 256 * y
  BY <1>2, <1>3, <1>16, LowerHalf
<1>12. (he - hs - cb) % 65536 = z
  BY <1>2, <1>3, <1>16, HigherHalf
<1> HIDE DEF ls, hs, le, he
<1>13. Span(s, e) = IF z > 255 THEN Beyond ELSE z * 65536 + (x + 256 * y)
  <2> DEFINE carry == IF le < ls THEN 1 ELSE 0
             lo == (le - ls) % 65536
             hi == (he - hs - carry) % 65536
  <2>1. Span(s, e) = IF hi > 255 THEN Beyond ELSE hi * 65536 + lo
    BY <1>9, <1>10 DEF Span
  <2>2. carry = cb
    BY <1>11
  <2> HIDE DEF carry
  <2>3. lo = x + 256 * y /\ hi = z
    BY <1>11, <1>12, <2>2
  <2> HIDE DEF lo, hi
  <2> QED BY <2>1, <2>3
<1>14. Span(s, e) = n
  <2>1. ~(z > 255) /\ z * 65536 + (x + 256 * y) = n
    BY <1>3
  <2> QED BY <1>13, <2>1
<1> QED BY <1>7, <1>8, <1>14 DEF Bytes

(* What the bytes of a block are. *)
LEMMA PartFields ==
    ASSUME NEW m \in SendingParts
    PROVE  /\ Fields(m) = m.hash \o (m.start \o (m.end \o m.part)) /\ Fields(m) \in Bytes
           /\ m.hash \in Bytes /\ Len(m.hash) = 16 /\ m.start \in Bytes /\ Len(m.start) = 4
           /\ m.end \in Bytes /\ Len(m.end) = 4
           /\ m.part \in Bytes /\ Len(m.part) \in Nat /\ Len(m.part) < Beyond
<1> DEFINE u == m.hash
           s == m.start
           e == m.end
           p == m.part
           y == u \o (s \o (e \o p))
<1>1. /\ m.kind = "SENDINGPART"
      /\ u \in Width(16) /\ s \in Width(4) /\ e \in Width(4) /\ p \in Below(Beyond)
  BY DEF SendingParts
<1>2. u \in Bytes /\ Len(u) = 16 /\ s \in Bytes /\ Len(s) = 4 /\ e \in Bytes /\ Len(e) = 4
  <2> HIDE DEF u, s, e
  <2> QED BY <1>1, Widths
<1>3. p \in Bytes /\ Len(p) \in Nat /\ Len(p) < Beyond
  <2>1. Beyond \in Nat
    BY DEF Beyond
  <2> HIDE DEF p
  <2>2. p \in Bytes /\ Len(p) \in Nat /\ Len(p) < Beyond
    BY <1>1, <2>1, BelowIs
  <2> QED BY <2>2
<1>4. /\ e \o p \in Bytes /\ s \o (e \o p) \in Bytes /\ y \in Bytes /\ u \o s \o e \o p = y
  <2> HIDE DEF u, s, e, p
  <2>1. e \o p \in Bytes
    BY <1>2, <1>3, Joined
  <2>2. s \o (e \o p) \in Bytes /\ (s \o e) \o p = s \o (e \o p) /\ s \o e \in Bytes
    BY <1>2, <1>3, <2>1, Joined
  <2>3. y \in Bytes
    BY <1>2, <2>2, CutOf
  <2>4. (u \o s) \o e = u \o (s \o e) /\ (u \o (s \o e)) \o p = u \o ((s \o e) \o p)
    BY <1>2, <1>3, <2>2, Joined
  <2> QED BY <2>1, <2>2, <2>3, <2>4, Zenon
<1>5. Fields(m) = y
  <2>1. Fields(m) = u \o s \o e \o p
    BY <1>1 DEF Fields
  <2> QED BY <1>4, <2>1, Zenon
<1> QED BY <1>2, <1>3, <1>4, <1>5

(* A block is read, with as many bytes as lie between its start and its end. *)
LEMMA PartWell ==
    ASSUME LengthSets, NEW m \in SendingParts, NEW packed
    PROVE  Well(m, packed)
<1> DEFINE op == Op.SENDINGPART
           data == Packet(m, packed)
           n == Len(m.part)
           u == m.hash
           s == m.start
           e == m.end
           p == m.part
           y == u \o (s \o (e \o p))
           h == Holding(Holding(Holding(Opened(op), "hash", u), "start", s), "end", e)
           g == Holding(h, "part", p)
           ops == {op}
           l == <<U("hash", 16), U("start", 4), U("end", 4)>>
<1>1. /\ m.kind = "SENDINGPART" /\ DOMAIN m = {"kind", "hash", "start", "end", "part"}
      /\ u \in Width(16) /\ s \in Width(4) /\ e \in Width(4) /\ p \in Below(Beyond)
      /\ e = Plus(s, n)
  BY DEF SendingParts
<1>2. u \in Bytes /\ Len(u) = 16 /\ s \in Bytes /\ Len(s) = 4 /\ e \in Bytes /\ Len(e) = 4
  BY PartFields
<1>3. p \in Bytes /\ n \in Nat /\ n < Beyond
  BY PartFields
<1>4. Span(s, e) = n
  <2> HIDE DEF s, e, n
  <2> QED BY <1>1, <1>3, SpanOfPlus
<1>5. y \in Bytes /\ Fields(m) = y
  BY PartFields
<1>7. op \in Nat /\ op \in ops /\ Op[m.kind] = op
  BY <1>1 DEF Op
<1>8. data = Wrap(<<op>> \o y, packed)
  <2> HIDE DEF y, op
  <2> QED BY <1>5, <1>7, PacketIs
<1> HIDE DEF data, y, ops
<1>9. Digit(data, 1) = op /\ Body(data, ops, packed) = Cursor(y, Opened(op))
  <2> HIDE DEF op
  <2> QED BY <1>5, <1>7, <1>8, BodyReads
<1> DEFINE b == Read(Body(data, ops, packed), l)
<1>10. Parsed(data, packed)
         = IF b.ok THEN Get(b, U("part", Span(b.m["start"], b.m["end"]))) ELSE b
  BY <1>9 DEF Parsed, SendingPartParse, SetHash, Then, Op, ops
<1> HIDE DEF op, u, s, e, p
<1>12. b = Cursor(p, h)
  <2>1. Read(Cursor(u \o (s \o (e \o p)), Opened(op)), l) = Cursor(p, h)
    BY <1>2, <1>3, BlockReads
  <2> QED BY <1>9, <2>1 DEF y
<1>13. /\ h["end"] = e /\ "end" \in DOMAIN h /\ h["start"] = s /\ "start" \in DOMAIN h
       /\ h["hash"] = u /\ "hash" \in DOMAIN h
  BY Held, HeldBefore
<1> HIDE DEF b, h
<1>14. Parsed(data, packed) = Cursor(<<>>, g)
  <2> DEFINE k == Span(s, e)
             z == <<>>
  <2>1. k = Len(p) /\ z \in Bytes /\ p \o z = p
    BY <1>3, <1>4, NothingBehind DEF p
  <2>2. b.ok /\ b.m = h
    BY <1>12, CursorIs
  <2>3. Parsed(data, packed) = Get(b, U("part", k))
    BY <1>10, <1>13, <2>2
  <2> HIDE DEF k, z
  <2>4. Get(Cursor(p \o z, h), U("part", Len(p))) = Cursor(z, Holding(h, "part", p))
    BY <1>3, <2>1, OneReads
  <2> QED BY <1>12, <2>1, <2>3, <2>4 DEF z
<1>15. /\ g["part"] = p /\ "part" \in DOMAIN g /\ g["hash"] = u /\ "hash" \in DOMAIN g
       /\ g["start"] = s /\ "start" \in DOMAIN g /\ g["end"] = e /\ "end" \in DOMAIN g
  BY <1>13, Held, HeldBefore
<1> HIDE DEF g
<1> QED BY <1>1, <1>5, <1>14, <1>15, CursorIs DEF Well, Reads, Find, data, u, s, e, p

(* What is held once a text or a number of a tag was read.                  *)
TextHeld(m, k, text) ==
    Holding(Holding(Holding(Holding(Holding(m, "tag", <<STR_TAG>>), "nlen", Le(1, 2)),
      "tname", <<k>>), "vlen", Le(Len(text), 2)), "tval", text)
WordHeld(m, k, word) ==
    Holding(Holding(Holding(Holding(m, "tag", <<INT_TAG>>), "nlen", Le(1, 2)), "tname", <<k>>),
            "tval", word)
TagFields == {"tag", "nlen", "tname", "vlen", "tval"}

(* A tag overwrites its own fields only. *)
LEMMA TagKeeps ==
    ASSUME NEW m, NEW k, NEW t, NEW f \in DOMAIN m, f \notin TagFields
    PROVE  /\ f \in DOMAIN TextHeld(m, k, t) /\ TextHeld(m, k, t)[f] = m[f]
           /\ f \in DOMAIN WordHeld(m, k, t) /\ WordHeld(m, k, t)[f] = m[f]
<1>1. f \in DOMAIN TextHeld(m, k, t) /\ TextHeld(m, k, t)[f] = m[f]
  BY HeldBefore DEF TextHeld, TagFields
<1>2. f \in DOMAIN WordHeld(m, k, t) /\ WordHeld(m, k, t)[f] = m[f]
  BY HeldBefore DEF WordHeld, TagFields
<1> QED BY <1>1, <1>2

LEMMA OneLe == Le(1, 2) \in Bytes /\ Len(Le(1, 2)) = 2 /\ Num(Le(1, 2)) = 1
<1> DEFINE n == 1
           w == 2
<1>1. n \in Nat /\ n < 256 * 256 /\ w \in Nat
  OBVIOUS
<1>2. Num(Le(n, 2)) = n
  <2> HIDE DEF n
  <2> QED BY <1>1, NumLe2
<1> HIDE DEF n, w
<1>3. Le(n, w) \in Bytes /\ Len(Le(n, w)) = w
  BY <1>1, LeIs
<1> QED BY <1>2, <1>3 DEF n, w

(* A tag that is there is read, and the next begins behind it.              *)
PassesTo(p, m, h, texts, words, skip) ==
    /\ p \in Bytes /\ Len(p) > 0
    /\ \A z \in Bytes : TagPass(Cursor(p \o z, m), texts, words, skip) = Cursor(z, h)
AllTags(n, w, q, m, texts, words, skip) ==
    ReadTags(Cursor(FlattenSeq(w) \o q, m[0]), n, texts, words, skip) = Cursor(q, m[n])

(* A text tag of a greeting is read and kept if its name is asked for.      *)
LEMMA TextPass ==
    ASSUME NEW m, NEW k \in Nat, NEW text \in TagText, NEW texts, NEW words, NEW skip
    PROVE  /\ StrTag(k, text) \in Bytes /\ Len(StrTag(k, text)) > 0
           /\ \A z \in Bytes :
                TagPass(Cursor(StrTag(k, text) \o z, m), texts, words, skip)
                  = IF k \in DOMAIN texts
                      THEN Cursor(z, Holding(TextHeld(m, k, text), texts[k], text))
                      ELSE Cursor(z, TextHeld(m, k, text))
<1> DEFINE a == <<STR_TAG>>
           b == Le(1, 2)
           c == <<k>>
           d == Le(Len(text), 2)
           e == text
           l == <<U("nlen", 2), D("tname", "nlen"), U("vlen", 2), D("tval", "vlen")>>
           m1 == Holding(m, "tag", a)
           h == Holding(Holding(Holding(Holding(m1, "nlen", b), "tname", c), "vlen", d), "tval", e)
<1>1. a \in Bytes /\ Len(a) = 1 /\ Num(a) = STR_TAG
  BY NumOne DEF STR_TAG
<1>2. b \in Bytes /\ Len(b) = 2 /\ Num(b) = 1
  BY OneLe
<1>3. c \in Bytes /\ Len(c) = 1 /\ c[1] = k /\ Digit(c, 1) = k
  BY NumOne DEF Digit
<1>4. e \in Bytes /\ d \in Bytes /\ Len(d) = 2 /\ Num(d) = Len(e) /\ Len(e) <= BufLen
  <2> DEFINE n == Len(text)
             w == 2
  <2>1. text \in Bytes /\ n \in Nat /\ n < 256 * 256 /\ w \in Nat /\ n <= BufLen
    BY Texts
  <2>2. Num(Le(n, 2)) = n
    <3> HIDE DEF n
    <3> QED BY <2>1, NumLe2
  <2> HIDE DEF n, w
  <2>3. Le(n, w) \in Bytes /\ Len(Le(n, w)) = w
    BY <2>1, LeIs
  <2> QED BY <2>1, <2>2, <2>3 DEF n, w
<1>5. StrTag(k, text) = a \o b \o c \o d \o e
  BY DEF StrTag
<1>6. TextHeld(m, k, text) = h
  BY DEF TextHeld
<1> HIDE DEF a, b, c, d, e
<1>7. /\ a \o b \o c \o d \o e = a \o (b \o (c \o (d \o e)))
      /\ b \o (c \o (d \o e)) \in Bytes
  <2>1. Flat5(a, b, c, d, e)
    BY <1>1, <1>2, <1>3, <1>4, FiveFlat
  <2> QED BY <2>1 DEF Flat5
<1>8. StrTag(k, text) \in Bytes /\ Len(StrTag(k, text)) > 0
  <2> DEFINE y == b \o (c \o (d \o e))
  <2>1. y \in Bytes /\ Len(y) \in Nat
    BY <1>7, LenProperties DEF Bytes
  <2> HIDE DEF y
  <2>2. a \o y \in Bytes /\ Len(a \o y) = 1 + Len(y)
    BY <1>1, <2>1, CutOf
  <2> QED BY <1>5, <1>7, <2>1, <2>2 DEF y
<1>9. ASSUME NEW z \in Bytes
      PROVE  TagPass(Cursor(StrTag(k, text) \o z, m), texts, words, skip)
               = IF k \in DOMAIN texts THEN Cursor(z, Holding(h, texts[k], e)) ELSE Cursor(z, h)
  <2>1. StrTag(k, text) \o z = a \o (b \o (c \o (d \o (e \o z)))) /\ b \o (c \o (d \o (e \o z))) \in Bytes
    <3>1. Then5(a, b, c, d, e, z)
      BY <1>1, <1>2, <1>3, <1>4, FiveThen
    <3> QED BY <1>5, <1>7, <3>1 DEF Then5
  <2> DEFINE y == b \o (c \o (d \o (e \o z)))
             t == Get(Cursor(a \o y, m), U("tag", 1))
  <2>2. t = Cursor(y, m1)
    <3> HIDE DEF y, m1
    <3>1. Get(Cursor(a \o y, m), U("tag", Len(a))) = Cursor(y, Holding(m, "tag", a))
      BY <1>1, <2>1, OneReads DEF y
    <3> QED BY <1>1, <3>1 DEF m1
  <2>3. m1["tag"] = a
    BY Held
  <2>4. Read(Cursor(y, m1), l) = Cursor(z, h)
    <3>1. Num(b) = Len(c) /\ Num(d) = Len(e)
      BY <1>2, <1>3, <1>4
    <3>2. TextTagRead(m1, z, b, c, d, e)
      <4> HIDE DEF m1
      <4> QED BY <1>2, <1>3, <1>4, <3>1, TextTagDoes
    <3> QED BY <3>2 DEF TextTagRead
  <2>5. h["tname"] = c /\ h["tval"] = e
    BY Held, HeldBefore
  <2> HIDE DEF y, t, m1, h
  <2>6. t.ok /\ t.m = m1
    BY <2>2, CursorIs
  <2>7. TagPass(Cursor(a \o y, m), texts, words, skip) = KeptTag(Cursor(z, h), texts)
    <3>1. TagPass(Cursor(a \o y, m), texts, words, skip) = ReadTag(t, texts, words, skip)
      BY <2>6 DEF TagPass, Then, t
    <3>2. ReadTag(t, texts, words, skip) = KeptTag(InBuffers(t, Read(t, l)), texts)
      BY <1>1, <2>3, <2>6 DEF ReadTag
    <3>3. InBuffers(t, Cursor(z, h)) = Cursor(z, h)
      BY <1>3, <1>4, <2>5, FitsBuffers
    <3> QED BY <2>2, <2>4, <3>1, <3>2, <3>3, Zenon
  <2>8. KeptTag(Cursor(z, h), texts)
          = IF k \in DOMAIN texts THEN Cursor(z, Holding(h, texts[k], e)) ELSE Cursor(z, h)
    BY <1>3, <2>5, CursorIs DEF KeptTag, With
  <2> QED BY <2>1, <2>7, <2>8 DEF y
<1> QED BY <1>6, <1>8, <1>9 DEF e

(* The same for a number.                                                   *)
WordRead(z, m, k, word, texts, words, skip) ==
    TagPass(Cursor(IntTag(k, word) \o z, m), texts, words, skip)
      = IF k \in DOMAIN words THEN Cursor(z, Holding(WordHeld(m, k, word), words[k], word))
                              ELSE Cursor(z, WordHeld(m, k, word))
LEMMA WordPass ==
    ASSUME NEW m, NEW k \in Nat, NEW word \in Bytes, Len(word) = 4,
           NEW texts, NEW words, NEW skip, skip
    PROVE  /\ IntTag(k, word) \in Bytes /\ Len(IntTag(k, word)) > 0
           /\ \A z \in Bytes : WordRead(z, m, k, word, texts, words, skip)
<1> DEFINE a == <<INT_TAG>>
           b == Le(1, 2)
           c == <<k>>
           d == word
           l == <<U("nlen", 2), D("tname", "nlen"), U("tval", 4)>>
           m1 == Holding(m, "tag", a)
           h == Holding(Holding(Holding(m1, "nlen", b), "tname", c), "tval", d)
<1>1. a \in Bytes /\ Len(a) = 1 /\ Num(a) = INT_TAG
  BY NumOne DEF INT_TAG
<1>2. b \in Bytes /\ Len(b) = 2 /\ Num(b) = 1
  BY OneLe
<1>3. c \in Bytes /\ Len(c) = 1 /\ c[1] = k /\ Digit(c, 1) = k
  BY NumOne DEF Digit
<1>4. d \in Bytes /\ Len(d) = 4
  OBVIOUS
<1>5. IntTag(k, word) = a \o b \o c \o d
  BY DEF IntTag
<1>6. WordHeld(m, k, word) = h
  BY DEF WordHeld
<1> HIDE DEF a, b, c, d
<1>7. /\ a \o b \o c \o d = a \o (b \o (c \o d))
      /\ b \o (c \o d) \in Bytes
  <2>1. Flat4(a, b, c, d)
    BY <1>1, <1>2, <1>3, <1>4, FourFlat
  <2> QED BY <2>1 DEF Flat4
<1>8. IntTag(k, word) \in Bytes /\ Len(IntTag(k, word)) > 0
  <2> DEFINE y == b \o (c \o d)
  <2>1. y \in Bytes /\ Len(y) \in Nat
    BY <1>7, LenProperties DEF Bytes
  <2> HIDE DEF y
  <2>2. a \o y \in Bytes /\ Len(a \o y) = 1 + Len(y)
    BY <1>1, <2>1, CutOf
  <2> QED BY <1>5, <1>7, <2>1, <2>2 DEF y
<1>9. ASSUME NEW z \in Bytes
      PROVE  TagPass(Cursor(IntTag(k, word) \o z, m), texts, words, skip)
               = IF k \in DOMAIN words THEN Cursor(z, Holding(h, words[k], d)) ELSE Cursor(z, h)
  <2>1. IntTag(k, word) \o z = a \o (b \o (c \o (d \o z))) /\ b \o (c \o (d \o z)) \in Bytes
    <3>1. Then4(a, b, c, d, z)
      BY <1>1, <1>2, <1>3, <1>4, FourThen
    <3> QED BY <1>5, <1>7, <3>1 DEF Then4
  <2> DEFINE y == b \o (c \o (d \o z))
             t == Get(Cursor(a \o y, m), U("tag", 1))
  <2>2. t = Cursor(y, m1)
    <3> HIDE DEF y, m1
    <3>1. Get(Cursor(a \o y, m), U("tag", Len(a))) = Cursor(y, Holding(m, "tag", a))
      BY <1>1, <2>1, OneReads DEF y
    <3> QED BY <1>1, <3>1 DEF m1
  <2>3. m1["tag"] = a
    BY Held
  <2>4. Read(Cursor(y, m1), l) = Cursor(z, h)
    <3>1. Num(b) = Len(c)
      BY <1>2, <1>3, <1>4
    <3>2. WordTagRead(m1, z, b, c, d)
      <4> HIDE DEF m1
      <4> QED BY <1>2, <1>3, <1>4, <3>1, WordTagDoes
    <3> QED BY <3>2 DEF WordTagRead
  <2>5. h["tname"] = c /\ h["tval"] = d
    BY Held, HeldBefore
  <2> HIDE DEF y, t, m1, h
  <2>6. t.ok /\ t.m = m1
    BY <2>2, CursorIs
  <2>7. TagPass(Cursor(a \o y, m), texts, words, skip) = KeptTag(Cursor(z, h), words)
    <3>1. TagPass(Cursor(a \o y, m), texts, words, skip) = ReadTag(t, texts, words, skip)
      BY <2>6 DEF TagPass, Then, t
    <3>2. ReadTag(t, texts, words, skip) = KeptTag(InBuffers(t, Read(t, l)), words)
      BY <1>1, <2>3, <2>6 DEF ReadTag, STR_TAG, INT_TAG
    <3>3. InBuffers(t, Cursor(z, h)) = Cursor(z, h)
      <4>1. Len(d) <= BufLen
        BY <1>4 DEF BufLen
      <4> QED BY <1>3, <1>4, <2>5, <4>1, FitsBuffers
    <3> QED BY <2>2, <2>4, <3>1, <3>2, <3>3, Zenon
  <2>8. KeptTag(Cursor(z, h), words)
          = IF k \in DOMAIN words THEN Cursor(z, Holding(h, words[k], d)) ELSE Cursor(z, h)
    BY <1>3, <2>5, CursorIs DEF KeptTag, With
  <2> QED BY <2>1, <2>7, <2>8 DEF y
<1> QED BY <1>6, <1>8, <1>9 DEF WordRead, d

LEMMA WordPasses ==
    ASSUME NEW m, NEW k \in Nat, NEW word \in Bytes, Len(word) = 4,
           NEW texts, NEW words, NEW skip, skip, k \notin DOMAIN words
    PROVE  PassesTo(IntTag(k, word), m, WordHeld(m, k, word), texts, words, skip)
<1>1. IntTag(k, word) \in Bytes /\ Len(IntTag(k, word)) > 0
      /\ \A z \in Bytes : WordRead(z, m, k, word, texts, words, skip)
  BY WordPass
<1> QED BY <1>1, Zenon DEF PassesTo, WordRead

(* What is held once a text was kept.                                       *)
Kept(m, k, text, texts) == Holding(TextHeld(m, k, text), texts[k], text)

LEMMA TextPasses ==
    ASSUME NEW g, NEW k \in Nat, NEW t \in TagText, NEW texts, NEW words, NEW skip,
           k \in DOMAIN texts
    PROVE  PassesTo(StrTag(k, t), g, Kept(g, k, t, texts), texts, words, skip)
BY TextPass DEF PassesTo, Kept

LEMMA AllTagsRead ==
    ASSUME NEW n \in Nat, NEW w, ArePieces(w, n), NEW q \in Bytes, NEW m, NEW texts, NEW words, NEW skip,
           TagPassReads(n, w, m, texts, words, skip)
    PROVE  AllTags(n, w, q, m, texts, words, skip)
BY TagPassReadsAll DEF AllTags

(* One tag, two and three, by name.                                         *)
OneRead(g, q, texts, words, skip, k, t) ==
    /\ FlattenSeq(<<StrTag(k, t)>>) \in Bytes
    /\ ReadTags(Cursor(FlattenSeq(<<StrTag(k, t)>>) \o q, g), 1, texts, words, skip)
         = Cursor(q, Kept(g, k, t, texts))
TwoRead(g, q, texts, words, skip, k, t, j, u) ==
    /\ FlattenSeq(<<StrTag(k, t), IntTag(j, u)>>) \in Bytes
    /\ ReadTags(Cursor(FlattenSeq(<<StrTag(k, t), IntTag(j, u)>>) \o q, g), 2, texts, words, skip)
         = Cursor(q, WordHeld(Kept(g, k, t, texts), j, u))
ThreeRead(g, q, texts, words, skip, k, t, l, s, j, u) ==
    /\ FlattenSeq(<<StrTag(k, t), StrTag(l, s), IntTag(j, u)>>) \in Bytes
    /\ ReadTags(Cursor(FlattenSeq(<<StrTag(k, t), StrTag(l, s), IntTag(j, u)>>) \o q, g), 3,
                texts, words, skip)
         = Cursor(q, WordHeld(Kept(Kept(g, k, t, texts), l, s, texts), j, u))

(* A tag with a text. *)
LEMMA OneText ==
    ASSUME NEW g, NEW q \in Bytes, NEW texts, NEW words, NEW skip, skip,
           NEW k \in Nat, NEW t \in TagText, k \in DOMAIN texts
    PROVE  OneRead(g, q, texts, words, skip, k, t)
<1> DEFINE h1 == Kept(g, k, t, texts)
           p1 == StrTag(k, t)
           w == <<p1>>
           n == 1
           m == [i \in 0 .. n |-> IF i = 0 THEN g ELSE h1]
<1>1. PassesTo(p1, g, h1, texts, words, skip)
  <2> QED BY TextPasses
<1> HIDE DEF p1, h1
<1>2. n \in Nat /\ DOMAIN w = 1 .. n /\ w = [i \in 1 .. n |-> w[i]] /\ w[1] = p1
  OBVIOUS
<1>3. \A i \in 1 .. n : i = 1
  OBVIOUS
<1>4. m[0] = g /\ m[1] = h1 /\ m[n] = h1
  OBVIOUS
<1> HIDE DEF w, n, m
<1>5. ArePieces(w, n)
  <2>1. \A i \in 1 .. n : w[i] \in Bytes /\ Len(w[i]) > 0
    BY <1>1, <1>2, <1>3 DEF PassesTo
  <2> QED BY <1>2, <2>1, Gathered
<1>6. TagPassReads(n, w, m, texts, words, skip)
  <2>1. ASSUME NEW i \in 1 .. n, NEW z \in Bytes
        PROVE  TagPass(Cursor(w[i] \o z, m[i - 1]), texts, words, skip) = Cursor(z, m[i])
    <3>1. CASE i = 1
      <4>1. w[i] = p1 /\ m[i - 1] = g /\ m[i] = h1
        BY <1>2, <1>4, <3>1
      <4> QED BY <1>1, <4>1 DEF PassesTo
    <3> QED BY <1>3, <3>1
  <2> QED BY <2>1 DEF TagPassReads
<1>7. AllTags(n, w, q, m, texts, words, skip)
  BY <1>2, <1>5, <1>6, AllTagsRead
<1>8. FlattenSeq(w) \in Bytes
  BY <1>2, <1>5, NotShorter DEF ArePieces
<1> QED BY <1>4, <1>7, <1>8 DEF AllTags, OneRead, w, n, p1, h1

(* A tag with a text and one with a number that is not kept. *)
LEMMA TextThenWord ==
    ASSUME NEW g, NEW q \in Bytes, NEW texts, NEW words, NEW skip, skip,
           NEW k \in Nat, NEW t \in TagText, k \in DOMAIN texts,
           NEW j \in Nat, NEW u \in Bytes, Len(u) = 4, j \notin DOMAIN words
    PROVE  TwoRead(g, q, texts, words, skip, k, t, j, u)
<1> DEFINE h1 == Kept(g, k, t, texts)
           h2 == WordHeld(h1, j, u)
           p1 == StrTag(k, t)
           p2 == IntTag(j, u)
           w == <<p1, p2>>
           n == 2
           m == [i \in 0 .. n |-> IF i = 0 THEN g ELSE IF i = 1 THEN h1 ELSE h2]
<1>1. PassesTo(p1, g, h1, texts, words, skip)
  <2> QED BY TextPasses
<1>2. PassesTo(p2, h1, h2, texts, words, skip)
  <2> HIDE DEF h1
  <2> QED BY WordPasses
<1> HIDE DEF p1, h1, p2, h2
<1>3. n \in Nat /\ DOMAIN w = 1 .. n /\ w = [i \in 1 .. n |-> w[i]] /\ w[1] = p1 /\ w[2] = p2
  OBVIOUS
<1>4. \A i \in 1 .. n : i = 1 \/ i = 2
  OBVIOUS
<1>5. m[0] = g /\ m[1] = h1 /\ m[2] = h2 /\ m[n] = h2
  OBVIOUS
<1> HIDE DEF w, n, m
<1>6. ArePieces(w, n)
  <2>1. \A i \in 1 .. n : w[i] \in Bytes /\ Len(w[i]) > 0
    BY <1>1, <1>2, <1>3, <1>4 DEF PassesTo
  <2> QED BY <1>3, <2>1, Gathered
<1>7. TagPassReads(n, w, m, texts, words, skip)
  <2>1. ASSUME NEW i \in 1 .. n, NEW z \in Bytes
        PROVE  TagPass(Cursor(w[i] \o z, m[i - 1]), texts, words, skip) = Cursor(z, m[i])
    <3>1. CASE i = 1
      <4>1. w[i] = p1 /\ m[i - 1] = g /\ m[i] = h1
        BY <1>3, <1>5, <3>1
      <4> QED BY <1>1, <4>1 DEF PassesTo
    <3>2. CASE i = 2
      <4>1. w[i] = p2 /\ m[i - 1] = h1 /\ m[i] = h2
        BY <1>3, <1>5, <3>2
      <4> QED BY <1>2, <4>1 DEF PassesTo
    <3> QED BY <1>4, <3>1, <3>2
  <2> QED BY <2>1 DEF TagPassReads
<1>8. AllTags(n, w, q, m, texts, words, skip)
  BY <1>3, <1>6, <1>7, AllTagsRead
<1>9. FlattenSeq(w) \in Bytes
  BY <1>3, <1>6, NotShorter DEF ArePieces
<1> QED BY <1>5, <1>8, <1>9 DEF AllTags, TwoRead, w, n, p1, h1, p2, h2

(* Two tags with texts and one with a number that is not kept. *)
LEMMA TextsThenWord ==
    ASSUME NEW g, NEW q \in Bytes, NEW texts, NEW words, NEW skip, skip,
           NEW k \in Nat, NEW t \in TagText, k \in DOMAIN texts,
           NEW l \in Nat, NEW s \in TagText, l \in DOMAIN texts,
           NEW j \in Nat, NEW u \in Bytes, Len(u) = 4, j \notin DOMAIN words
    PROVE  ThreeRead(g, q, texts, words, skip, k, t, l, s, j, u)
<1> DEFINE h1 == Kept(g, k, t, texts)
           h2 == Kept(h1, l, s, texts)
           h3 == WordHeld(h2, j, u)
           p1 == StrTag(k, t)
           p2 == StrTag(l, s)
           p3 == IntTag(j, u)
           w == <<p1, p2, p3>>
           n == 3
           m == [i \in 0 .. n |-> IF i = 0 THEN g ELSE IF i = 1 THEN h1 ELSE IF i = 2 THEN h2 ELSE h3]
<1>1. PassesTo(p1, g, h1, texts, words, skip)
  <2> QED BY TextPasses
<1>2. PassesTo(p2, h1, h2, texts, words, skip)
  <2> HIDE DEF h1
  <2> QED BY TextPasses
<1>3. PassesTo(p3, h2, h3, texts, words, skip)
  <2> HIDE DEF h1, h2
  <2> QED BY WordPasses
<1> HIDE DEF p1, h1, p2, h2, p3, h3
<1>4. n \in Nat /\ DOMAIN w = 1 .. n /\ w = [i \in 1 .. n |-> w[i]] /\ w[1] = p1 /\ w[2] = p2 /\ w[3] = p3
  OBVIOUS
<1>5. \A i \in 1 .. n : i = 1 \/ i = 2 \/ i = 3
  OBVIOUS
<1>6. m[0] = g /\ m[1] = h1 /\ m[2] = h2 /\ m[3] = h3 /\ m[n] = h3
  OBVIOUS
<1> HIDE DEF w, n, m
<1>7. ArePieces(w, n)
  <2>1. \A i \in 1 .. n : w[i] \in Bytes /\ Len(w[i]) > 0
    BY <1>1, <1>2, <1>3, <1>4, <1>5 DEF PassesTo
  <2> QED BY <1>4, <2>1, Gathered
<1>8. TagPassReads(n, w, m, texts, words, skip)
  <2>1. ASSUME NEW i \in 1 .. n, NEW z \in Bytes
        PROVE  TagPass(Cursor(w[i] \o z, m[i - 1]), texts, words, skip) = Cursor(z, m[i])
    <3>1. CASE i = 1
      <4>1. w[i] = p1 /\ m[i - 1] = g /\ m[i] = h1
        BY <1>4, <1>6, <3>1
      <4> QED BY <1>1, <4>1 DEF PassesTo
    <3>2. CASE i = 2
      <4>1. w[i] = p2 /\ m[i - 1] = h1 /\ m[i] = h2
        BY <1>4, <1>6, <3>2
      <4> QED BY <1>2, <4>1 DEF PassesTo
    <3>3. CASE i = 3
      <4>1. w[i] = p3 /\ m[i - 1] = h2 /\ m[i] = h3
        BY <1>4, <1>6, <3>3
      <4> QED BY <1>3, <4>1 DEF PassesTo
    <3> QED BY <1>5, <3>1, <3>2, <3>3
  <2> QED BY <2>1 DEF TagPassReads
<1>9. AllTags(n, w, q, m, texts, words, skip)
  BY <1>4, <1>7, <1>8, AllTagsRead
<1>10. FlattenSeq(w) \in Bytes
  BY <1>4, <1>7, NotShorter DEF ArePieces
<1> QED BY <1>6, <1>9, <1>10 DEF AllTags, ThreeRead, w, n, p1, h1, p2, h2, p3, h3

(* The tags of a client that answers a greeting.                            *)
Flags == <<1, 2, 3, 4>>
Greeted(m) ==
    IF m.version = <<>> THEN <<StrTag(1, m.name), IntTag(32, Flags)>>
    ELSE <<StrTag(1, m.name), StrTag(17, m.version), IntTag(32, Flags)>>
GreetedCount(m) == IF m.version = <<>> THEN 2 ELSE 3

(* What reading them keeps, and what it leaves as it was.                   *)
GreetingKeeps(m, g, h) ==
    /\ "name" \in DOMAIN h /\ h["name"] = m.name
    /\ m.version # <<>> => "version" \in DOMAIN h /\ h["version"] = m.version
    /\ \A f \in DOMAIN g \ (TagFields \cup {"name", "version"}) : f \in DOMAIN h /\ h[f] = g[f]
GreetingRead(m, q, g, h, skip) ==
    /\ ReadTags(Cursor(FlattenSeq(Greeted(m)) \o q, g), GreetedCount(m), HelloTexts, HelloWords, skip)
         = Cursor(q, h)
    /\ GreetingKeeps(m, g, h)

LEMMA KeptKeeps ==
    ASSUME NEW g, NEW k, NEW t, NEW texts
    PROVE  /\ texts[k] \in DOMAIN Kept(g, k, t, texts) /\ Kept(g, k, t, texts)[texts[k]] = t
           /\ \A f \in DOMAIN g \ (TagFields \cup {texts[k]}) :
                f \in DOMAIN Kept(g, k, t, texts) /\ Kept(g, k, t, texts)[f] = g[f]
<1>1. texts[k] \in DOMAIN Kept(g, k, t, texts) /\ Kept(g, k, t, texts)[texts[k]] = t
  BY Held DEF Kept
<1>2. ASSUME NEW f \in DOMAIN g \ (TagFields \cup {texts[k]})
      PROVE  f \in DOMAIN Kept(g, k, t, texts) /\ Kept(g, k, t, texts)[f] = g[f]
  <2>1. f \in DOMAIN TextHeld(g, k, t) /\ TextHeld(g, k, t)[f] = g[f]
    BY TagKeeps
  <2> QED BY <2>1, HeldBefore DEF Kept
<1> QED BY <1>1, <1>2

LEMMA AnswerNames ==
    /\ 1 \in DOMAIN HelloTexts /\ HelloTexts[1] = "name"
    /\ 17 \in DOMAIN HelloTexts /\ HelloTexts[17] = "version"
    /\ 32 \notin DOMAIN HelloWords
BY DEF HelloTexts, HelloWords

LEMMA FlagBytes == Flags \in Bytes /\ Len(Flags) = 4
BY DEF Flags, Bytes

(* The tags of an answer to a greeting are read.                            *)
LEMMA GreetingReads ==
    ASSUME NEW m, m.name \in TagText, m.version \in TagText,
           NEW q \in Bytes, NEW g, NEW skip, skip
    PROVE  /\ FlattenSeq(Greeted(m)) \in Bytes
           /\ \E h : GreetingRead(m, q, g, h, skip)
<1> DEFINE a == 1
           b == 17
           j == 32
           t == m.name
           s == m.version
           x == HelloTexts
           y == HelloWords
           h1 == Kept(g, a, t, x)
           h2 == Kept(h1, b, s, x)
<1>1. /\ a \in Nat /\ b \in Nat /\ j \in Nat /\ a \in DOMAIN x /\ b \in DOMAIN x /\ j \notin DOMAIN y
      /\ x[a] = "name" /\ x[b] = "version"
  BY AnswerNames
<1>2. Flags \in Bytes /\ Len(Flags) = 4 /\ t \in TagText /\ s \in TagText
  BY FlagBytes
<1>3. /\ "name" \in DOMAIN h1 /\ h1["name"] = t
      /\ \A f \in DOMAIN g \ (TagFields \cup {"name"}) : f \in DOMAIN h1 /\ h1[f] = g[f]
  <2> HIDE DEF a, t, x
  <2> QED BY <1>1, KeptKeeps
<1>4. /\ "version" \in DOMAIN h2 /\ h2["version"] = s
      /\ \A f \in DOMAIN h1 \ (TagFields \cup {"version"}) : f \in DOMAIN h2 /\ h2[f] = h1[f]
  <2> HIDE DEF b, s, x, h1
  <2> QED BY <1>1, KeptKeeps
<1>5. CASE m.version = <<>>
  <2> DEFINE h == WordHeld(h1, j, Flags)
             T == <<StrTag(a, t), IntTag(j, Flags)>>
  <2>1. Greeted(m) = T /\ GreetedCount(m) = 2
    BY <1>5 DEF Greeted, GreetedCount
  <2>2. FlattenSeq(T) \in Bytes /\ ReadTags(Cursor(FlattenSeq(T) \o q, g), 2, x, y, skip) = Cursor(q, h)
    <3> DEFINE u == Flags
    <3> HIDE DEF a, j, t, x, y, u
    <3>1. TwoRead(g, q, x, y, skip, a, t, j, u)
      BY <1>1, <1>2, TextThenWord DEF u
    <3> QED BY <3>1 DEF TwoRead, u
  <2>3. GreetingKeeps(m, g, h)
    <3>1. \A f \in DOMAIN h1 \ TagFields : f \in DOMAIN h /\ h[f] = h1[f]
      <4> HIDE DEF h1, j
      <4> QED BY TagKeeps
    <3> HIDE DEF h1, h, x
    <3>2. "name" \notin TagFields
      BY DEF TagFields
    <3> QED BY <1>3, <1>5, <3>1, <3>2 DEF GreetingKeeps
  <2> HIDE DEF h, T
  <2>4. GreetingRead(m, q, g, h, skip)
    BY <2>1, <2>2, <2>3 DEF GreetingRead
  <2> QED BY <2>1, <2>2, <2>4
<1>6. CASE m.version # <<>>
  <2> DEFINE h == WordHeld(h2, j, Flags)
             T == <<StrTag(a, t), StrTag(b, s), IntTag(j, Flags)>>
  <2>1. Greeted(m) = T /\ GreetedCount(m) = 3
    BY <1>6 DEF Greeted, GreetedCount
  <2>2. FlattenSeq(T) \in Bytes /\ ReadTags(Cursor(FlattenSeq(T) \o q, g), 3, x, y, skip) = Cursor(q, h)
    <3> DEFINE u == Flags
    <3> HIDE DEF a, b, j, t, s, x, y, u
    <3>1. ThreeRead(g, q, x, y, skip, a, t, b, s, j, u)
      BY <1>1, <1>2, TextsThenWord DEF u
    <3> QED BY <3>1 DEF ThreeRead, u
  <2>3. GreetingKeeps(m, g, h)
    <3>1. \A f \in DOMAIN h2 \ TagFields : f \in DOMAIN h /\ h[f] = h2[f]
      <4> HIDE DEF h2, j
      <4> QED BY TagKeeps
    <3> HIDE DEF h2, h1, h, x
    <3>2. "name" \notin TagFields /\ "version" \notin TagFields
      BY DEF TagFields
    <3>3. "name" \in DOMAIN h /\ h["name"] = t
      BY <1>3, <1>4, <3>1, <3>2
    <3>4. "version" \in DOMAIN h /\ h["version"] = s
      BY <1>4, <3>1, <3>2
    <3>5. ASSUME NEW f \in DOMAIN g \ (TagFields \cup {"name", "version"})
          PROVE  f \in DOMAIN h /\ h[f] = g[f]
      <4>1. f \in DOMAIN h1 /\ h1[f] = g[f]
        BY <1>3, <3>5
      <4>2. f \in DOMAIN h2 /\ h2[f] = h1[f]
        BY <1>4, <3>5, <4>1
      <4> QED BY <3>1, <3>5, <4>1, <4>2
    <3> QED BY <3>3, <3>4, <3>5 DEF GreetingKeeps
  <2> HIDE DEF h, T
  <2>4. GreetingRead(m, q, g, h, skip)
    BY <2>1, <2>2, <2>3 DEF GreetingRead
  <2> QED BY <2>1, <2>2, <2>4
<1> QED BY <1>5, <1>6

LEMMA Two == \A a, c : <<a>> \o <<>> \o <<c>> = <<a, c>> /\ Len(<<a, c>>) = 2
<1> SUFFICES ASSUME NEW a, NEW c PROVE <<a>> \o <<>> \o <<c>> = <<a, c>> /\ Len(<<a, c>>) = 2
  OBVIOUS
<1> DEFINE S == {a, c}
           p == <<a>>
           q == <<c>>
           r == <<a, c>>
<1>1. /\ p \in Seq(S) /\ Len(p) = 1 /\ p[1] = a /\ q \in Seq(S) /\ Len(q) = 1 /\ q[1] = c
      /\ r \in Seq(S) /\ Len(r) = 2 /\ r[1] = a /\ r[2] = c
  OBVIOUS
<1> HIDE DEF p, q, r, S
<1>2. p \o <<>> = p
  BY <1>1, ConcatEmptySeq
<1>3. p \o q \in Seq(S) /\ Len(p \o q) = 2 /\ (p \o q)[1] = a /\ (p \o q)[2] = c
  BY <1>1, ConcatProperties
<1>4. p \o q = r
  <2>1. \A i \in 1 .. 2 : i = 1 \/ i = 2
    OBVIOUS
  <2>2. \A i \in 1 .. Len(p \o q) : (p \o q)[i] = r[i]
    BY <1>1, <1>3, <2>1
  <2> QED BY <1>1, <1>3, <2>2, SeqEqual
<1> QED BY <1>1, <1>2, <1>4 DEF p, q, r

LEMMA Three == \A a, b, c : <<a>> \o <<b>> \o <<c>> = <<a, b, c>> /\ Len(<<a, b, c>>) = 3
<1> SUFFICES ASSUME NEW a, NEW b, NEW c
             PROVE  <<a>> \o <<b>> \o <<c>> = <<a, b, c>> /\ Len(<<a, b, c>>) = 3
  OBVIOUS
<1> DEFINE S == {a, b, c}
           p == <<a>>
           o == <<b>>
           q == <<c>>
           r == <<a, b, c>>
<1>1. /\ p \in Seq(S) /\ Len(p) = 1 /\ p[1] = a /\ q \in Seq(S) /\ Len(q) = 1 /\ q[1] = c
      /\ o \in Seq(S) /\ Len(o) = 1 /\ o[1] = b
      /\ r \in Seq(S) /\ Len(r) = 3 /\ r[1] = a /\ r[2] = b /\ r[3] = c
  OBVIOUS
<1> HIDE DEF p, o, q, r, S
<1> DEFINE po == p \o o
<1>2. po \in Seq(S) /\ Len(po) = 2 /\ po[1] = a /\ po[2] = b
  <2>1. po \in Seq(S) /\ Len(po) = Len(p) + Len(o)
    BY <1>1, ConcatProperties, Zenon
  <2>2. \A i \in 1 .. Len(p) + Len(o) : po[i] = IF i <= Len(p) THEN p[i] ELSE o[i - Len(p)]
    BY <1>1, ConcatProperties, Zenon
  <2> HIDE DEF po
  <2>3. \A i \in 1 .. 2 : po[i] = IF i <= 1 THEN p[i] ELSE o[i - 1]
    BY <1>1, <2>2
  <2>4. po[1] = a /\ po[2] = b
    BY <1>1, <2>3
  <2> QED BY <1>1, <2>1, <2>4
<1> HIDE DEF po
<1>3. po \o q \in Seq(S) /\ Len(po \o q) = 3 /\ (po \o q)[1] = a /\ (po \o q)[2] = b /\ (po \o q)[3] = c
  <2>1. po \o q \in Seq(S) /\ Len(po \o q) = 3
    <3>1. po \in Seq(S) /\ q \in Seq(S)
      BY <1>1, <1>2
    <3>2. po \o q \in Seq(S) /\ Len(po \o q) = Len(po) + Len(q)
      BY <3>1, ConcatProperties, Zenon
    <3> QED BY <1>1, <1>2, <3>2
  <2>2. \A i \in 1 .. 3 : (po \o q)[i] = IF i <= 2 THEN po[i] ELSE q[i - 2]
    BY <1>1, <1>2, <2>1, ConcatProperties
  <2> QED BY <1>1, <1>2, <2>1, <2>2
<1>4. po \o q = r
  <2>1. \A i \in 1 .. 3 : i = 1 \/ i = 2 \/ i = 3
    OBVIOUS
  <2>2. \A i \in 1 .. Len(po \o q) : (po \o q)[i] = r[i]
    BY <1>1, <1>3, <2>1
  <2> QED BY <1>1, <1>3, <2>2, SeqEqual
<1> QED BY <1>1, <1>4 DEF p, o, q, r, po

(* Its bytes.                                                               *)
LEMMA ClientTagsAre ==
    ASSUME NEW m
    PROVE  ClientTags(m) = Le(GreetedCount(m), 4) \o FlattenSeq(Greeted(m))
<1> DEFINE version == IF m.version = <<>> THEN <<>> ELSE <<StrTag(17, m.version)>>
           a == StrTag(1, m.name)
           b == StrTag(17, m.version)
           c == IntTag(32, <<1, 2, 3, 4>>)
           tags == <<a>> \o version \o <<c>>
<1>1. ClientTags(m) = Le(Len(tags), 4) \o FlattenSeq(tags)
  BY DEF ClientTags
<1>2. tags = Greeted(m) /\ Len(tags) = GreetedCount(m)
  <2>1. CASE m.version = <<>>
    <3>1. Greeted(m) = <<a, c>> /\ GreetedCount(m) = 2 /\ version = <<>>
      BY <2>1 DEF Greeted, GreetedCount, Flags
    <3> QED BY <3>1, Two
  <2>2. CASE m.version # <<>>
    <3>1. Greeted(m) = <<a, b, c>> /\ GreetedCount(m) = 3 /\ version = <<b>>
      BY <2>2 DEF Greeted, GreetedCount, Flags
    <3> QED BY <3>1, Three
  <2> QED BY <2>1, <2>2
<1> QED BY <1>1, <1>2

(* Six pieces, the fourth of two.                                           *)
Flat7(a, b, c, d, t, e, f) ==
    /\ a \o b \o c \o (d \o t) \o e \o f = a \o (b \o (c \o (d \o (t \o (e \o f)))))
    /\ a \o (b \o (c \o (d \o (t \o (e \o f))))) \in Bytes
    /\ b \o (c \o (d \o (t \o (e \o f)))) \in Bytes
    /\ t \o (e \o f) \in Bytes /\ e \o f \in Bytes

LEMMA SevenFlat ==
    ASSUME NEW a \in Bytes, NEW b \in Bytes, NEW c \in Bytes, NEW d \in Bytes, NEW t \in Bytes,
           NEW e \in Bytes, NEW f \in Bytes
    PROVE  Flat7(a, b, c, d, t, e, f)
<1> DEFINE x == d \o t
           z == e \o f
           y == a \o (b \o (c \o x))
           r == c \o (d \o (t \o z))
           s == b \o r
<1>1. x \in Bytes /\ z \in Bytes
  BY Closed, Zenon
<1>2. a \o b \o c \o x = y /\ y \in Bytes
  <2> HIDE DEF x
  <2>1. Flat4(a, b, c, x)
    BY <1>1, FourFlat
  <2> QED BY <2>1 DEF Flat4
<1>3. y \o e \o f = y \o z
  <2> HIDE DEF y
  <2>1. Flat3(y, e, f)
    BY <1>2, ThreeFlat
  <2> QED BY <2>1 DEF Flat3
<1>4. y \o z = a \o (b \o (c \o (x \o z)))
  <2> HIDE DEF x, z
  <2>1. Then4(a, b, c, x, z)
    BY <1>1, FourThen
  <2> QED BY <2>1 DEF Then4
<1>5. x \o z = d \o (t \o z) /\ t \o z \in Bytes
  <2> HIDE DEF z
  <2>1. Then2(d, t, z)
    BY <1>1, TwoThen
  <2> QED BY <2>1 DEF Then2
<1>6. r \in Bytes
  <2> DEFINE v == t \o z
  <2> HIDE DEF v
  <2>1. Flat3(c, d, v)
    BY <1>5, ThreeFlat DEF v
  <2> QED BY <2>1 DEF Flat3, v
<1>7. s \in Bytes
  <2> HIDE DEF r
  <2> QED BY <1>6, Closed
<1>8. a \o s \in Bytes
  <2> HIDE DEF s
  <2> QED BY <1>7, Closed
<1>9. a \o b \o c \o x \o e \o f = a \o s
  BY <1>2, <1>3, <1>4, <1>5
<1> QED BY <1>1, <1>5, <1>7, <1>8, <1>9 DEF Flat7

(* The address of a server ends a greeting.                                 *)
EndRead(m, q, p1, p2) ==
    Read(Cursor(p1 \o (p2 \o q), m), <<B("saddr", 4), U("sport", 2)>>)
      = Cursor(q, Holding(Holding(m, "saddr", Be(p1)), "sport", p2))

LEMMA EndDoes ==
    ASSUME NEW m, NEW q \in Bytes, NEW p1 \in Bytes, NEW p2 \in Bytes, Len(p1) = 4, Len(p2) = 2
    PROVE  EndRead(m, q, p1, p2)
BY EndReads DEF EndRead

(* What a client that answers a greeting may say of itself. *)
Answers ==
    [kind : {"HELLOANSWER"}, hash : Width(16), cid : Width(4), port : Width(2),
     name : TagText, version : TagText, saddr : Width(4), sport : Width(2)]
GreetingBytes(m) ==
    m.hash \o (m.cid \o (m.port \o (Le(GreetedCount(m), 4)
      \o (FlattenSeq(Greeted(m)) \o (Be(m.saddr) \o m.sport)))))

(* What the bytes of an answer to a greeting are. *)
LEMMA HelloFields ==
    ASSUME NEW m \in Answers
    PROVE  Fields(m) = GreetingBytes(m) /\ Fields(m) \in Bytes
<1> DEFINE u == m.hash
           c == m.cid
           p == m.port
           n == GreetedCount(m)
           tc == Le(n, 4)
           t == FlattenSeq(Greeted(m))
           e == Be(m.saddr)
           s == m.sport
           z == e \o s
           y == u \o (c \o (p \o (tc \o (t \o z))))
<1>1. /\ m.kind = "HELLOANSWER" /\ u \in Width(16) /\ c \in Width(4) /\ p \in Width(2)
      /\ m.name \in TagText /\ m.version \in TagText
      /\ m.saddr \in Width(4) /\ s \in Width(2)
  BY DEF Answers
<1>2. /\ u \in Bytes /\ Len(u) = 16 /\ c \in Bytes /\ Len(c) = 4 /\ p \in Bytes /\ Len(p) = 2
      /\ m.saddr \in Bytes /\ Len(m.saddr) = 4 /\ s \in Bytes /\ Len(s) = 2
  <2> HIDE DEF u, c, p, s
  <2> QED BY <1>1, Widths
<1>3. e \in Bytes /\ Len(e) = 4 /\ Be(e) = m.saddr
  BY <1>2, BeBe
<1>4. n \in Nat /\ n < Beyond /\ n = GreetedCount(m)
  BY DEF GreetedCount, Beyond
<1>5. tc \in Bytes /\ Len(tc) = 4 /\ Num(tc) = n
  <2> DEFINE w == 4
  <2>1. w \in Nat
    OBVIOUS
  <2> HIDE DEF n
  <2>2. Num(Le(n, 4)) = n
    BY <1>4, NumLe4
  <2> HIDE DEF w
  <2>3. Le(n, w) \in Bytes /\ Len(Le(n, w)) = w
    BY <1>4, <2>1, LeIs
  <2> QED BY <2>2, <2>3 DEF w
<1>6. t \in Bytes
  BY <1>1, <1>3, GreetingReads
<1>7. Flat7(u, c, p, tc, t, e, s)
  <2> HIDE DEF u, c, p, tc, t, e, s
  <2> QED BY <1>2, <1>3, <1>5, <1>6, SevenFlat
<1>8. Fields(m) = y /\ y \in Bytes /\ t \o z \in Bytes /\ z \in Bytes
  <2>1. Fields(m) = u \o c \o p \o ClientTags(m) \o e \o s
    BY <1>1 DEF Fields
  <2>2. ClientTags(m) = tc \o t
    BY ClientTagsAre
  <2> HIDE DEF u, c, p, tc, t, e, s
  <2> QED BY <1>7, <2>1, <2>2 DEF Flat7
<1> QED BY <1>8 DEF GreetingBytes

(* An answer to a greeting is read, with the version if there is one.       *)
LEMMA HelloWell ==
    ASSUME LengthSets, NEW packed,
           NEW m \in Answers
    PROVE  Well(m, packed)
<1> DEFINE op == Op.HELLOANSWER
           data == Packet(m, packed)
           u == m.hash
           c == m.cid
           p == m.port
           n == GreetedCount(m)
           tc == Le(n, 4)
           t == FlattenSeq(Greeted(m))
           e == Be(m.saddr)
           s == m.sport
           z == e \o s
           y == u \o (c \o (p \o (tc \o (t \o z))))
           h == Holding(Holding(Holding(Holding(Opened(op), "hash", u), "cid", c), "port", p), "tc", tc)
           ops == {op}
           l == <<U("hash", 16), U("cid", 4), U("port", 2), U("tc", 4)>>
           k == <<B("saddr", 4), U("sport", 2)>>
           skip == TRUE
<1>1. /\ m.kind = "HELLOANSWER" /\ u \in Width(16) /\ c \in Width(4) /\ p \in Width(2)
      /\ m.name \in TagText /\ m.version \in TagText
      /\ m.saddr \in Width(4) /\ s \in Width(2)
  BY DEF Answers
<1>2. /\ u \in Bytes /\ Len(u) = 16 /\ c \in Bytes /\ Len(c) = 4 /\ p \in Bytes /\ Len(p) = 2
      /\ m.saddr \in Bytes /\ Len(m.saddr) = 4 /\ s \in Bytes /\ Len(s) = 2
  <2> HIDE DEF u, c, p, s
  <2> QED BY <1>1, Widths
<1>3. e \in Bytes /\ Len(e) = 4 /\ Be(e) = m.saddr
  BY <1>2, BeBe
<1>4. n \in Nat /\ n < Beyond /\ n = GreetedCount(m)
  BY DEF GreetedCount, Beyond
<1>5. tc \in Bytes /\ Len(tc) = 4 /\ Num(tc) = n
  <2> DEFINE w == 4
  <2>1. w \in Nat
    OBVIOUS
  <2> HIDE DEF n
  <2>2. Num(Le(n, 4)) = n
    BY <1>4, NumLe4
  <2> HIDE DEF w
  <2>3. Le(n, w) \in Bytes /\ Len(Le(n, w)) = w
    BY <1>4, <2>1, LeIs
  <2> QED BY <2>2, <2>3 DEF w
<1>6. t \in Bytes
  BY <1>1, <1>3, GreetingReads
<1> DEFINE v == <<>>
<1>8. Fields(m) = y /\ y \in Bytes /\ t \o z \in Bytes /\ z \in Bytes
  <2>1. Fields(m) = y /\ Fields(m) \in Bytes
    BY HelloFields DEF GreetingBytes
  <2> HIDE DEF t, e, s, y
  <2>2. z \in Bytes /\ t \o z \in Bytes
    BY <1>2, <1>3, <1>6, Closed
  <2> QED BY <2>1, <2>2
<1>9. op \in Nat /\ op \in ops /\ Op[m.kind] = op
  BY <1>1 DEF Op
<1>10. data = Wrap(<<op>> \o y, packed)
  <2> HIDE DEF y, op
  <2> QED BY <1>8, <1>9, PacketIs
<1> HIDE DEF data, y, ops
<1>11. Digit(data, 1) = op /\ Body(data, ops, packed) = Cursor(y, Opened(op))
  <2> HIDE DEF op
  <2> QED BY <1>8, <1>9, <1>10, BodyReads
<1> DEFINE b == Read(Body(data, ops, packed), l)
<1>12. Parsed(data, packed)
         = IF b.ok THEN Read(ReadTags(b, Num(b.m["tc"]), HelloTexts, HelloWords, skip), k) ELSE b
  BY <1>11 DEF Parsed, HelloParse, SetHash, Then, ReadTags, Repeat, Times, Op, ops
<1> HIDE DEF op, u, c, p, tc, t, e, s, skip
<1>13. b = Cursor(t \o z, h)
  <2> DEFINE tz == t \o z
  <2> HIDE DEF z, tz
  <2>1. HeadRead(Opened(op), tz, u, c, p, tc)
    BY <1>2, <1>5, <1>8, HeadDoes DEF tz
  <2> QED BY <1>11, <2>1 DEF HeadRead, y, tz
<1>14. /\ "tc" \in DOMAIN h /\ h["tc"] = tc /\ "hash" \in DOMAIN h /\ h["hash"] = u
       /\ "cid" \in DOMAIN h /\ h["cid"] = c /\ "port" \in DOMAIN h /\ h["port"] = p
  BY Held, HeldBefore
<1> HIDE DEF b, h
<1>15. PICK g : GreetingRead(m, z, h, g, skip)
  <2>1. skip
    BY DEF skip
  <2> HIDE DEF z
  <2> QED BY <1>1, <1>8, <2>1, GreetingReads
<1> DEFINE i == Holding(Holding(g, "saddr", m.saddr), "sport", s)
<1>16. Parsed(data, packed) = Read(Cursor(z, g), k)
  <2> HIDE DEF k, z, n
  <2>1. b.ok /\ b.m = h
    BY <1>13, CursorIs
  <2>2. Parsed(data, packed) = Read(ReadTags(b, n, HelloTexts, HelloWords, skip), k)
    BY <1>5, <1>12, <1>14, <2>1
  <2>3. ReadTags(b, n, HelloTexts, HelloWords, skip) = Cursor(z, g)
    BY <1>4, <1>13, <1>15 DEF GreetingRead, t
  <2> QED BY <2>2, <2>3, Zenon
<1>17. Parsed(data, packed) = Cursor(v, i)
  <2>1. v \in Bytes /\ s \o v = s
    BY <1>2, NothingBehind
  <2> HIDE DEF v
  <2>2. EndRead(g, v, e, s)
    BY <1>2, <1>3, <2>1, EndDoes
  <2>3. Read(Cursor(z, g), k) = Cursor(v, Holding(Holding(g, "saddr", Be(e)), "sport", s))
    BY <2>1, <2>2 DEF EndRead
  <2> QED BY <1>3, <1>16, <2>3
<1>18. /\ "hash" \in DOMAIN g /\ g["hash"] = u /\ "cid" \in DOMAIN g /\ g["cid"] = c
       /\ "port" \in DOMAIN g /\ g["port"] = p /\ "name" \in DOMAIN g /\ g["name"] = m.name
       /\ m.version # <<>> => "version" \in DOMAIN g /\ g["version"] = m.version
  <2>1. GreetingKeeps(m, h, g)
    BY <1>15 DEF GreetingRead
  <2>2. "hash" \notin TagFields \cup {"name", "version"} /\ "cid" \notin TagFields \cup {"name", "version"}
        /\ "port" \notin TagFields \cup {"name", "version"}
    BY DEF TagFields
  <2>3. \A f \in {"hash", "cid", "port"} : f \in DOMAIN h \ (TagFields \cup {"name", "version"})
    BY <1>14, <2>2
  <2>4. \A f \in {"hash", "cid", "port"} : f \in DOMAIN g /\ g[f] = h[f]
    BY <2>1, <2>3 DEF GreetingKeeps
  <2> QED BY <1>14, <2>1, <2>4 DEF GreetingKeeps
<1>19. /\ "saddr" \in DOMAIN i /\ i["saddr"] = m.saddr /\ "sport" \in DOMAIN i /\ i["sport"] = s
       /\ \A f \in DOMAIN g \ {"saddr", "sport"} : f \in DOMAIN i /\ i[f] = g[f]
  BY Held, HeldBefore
<1> HIDE DEF i
<1>20. /\ "hash" \in DOMAIN i /\ i["hash"] = u /\ "cid" \in DOMAIN i /\ i["cid"] = c
       /\ "port" \in DOMAIN i /\ i["port"] = p /\ "name" \in DOMAIN i /\ i["name"] = m.name
       /\ m.version # <<>> => "version" \in DOMAIN i /\ i["version"] = m.version
  BY <1>18, <1>19
<1>21. Parsed(data, packed).ok /\ Parsed(data, packed).rest = <<>> /\ Parsed(data, packed).m = i
  BY <1>17, CursorIs
<1>22. Reads(Parsed(data, packed), m)
  <2>1. \A f \in {"hash", "cid", "port", "name", "saddr", "sport"} :
           f \in DOMAIN i /\ i[f] = m[f]
    BY <1>19, <1>20 DEF u, c, p, s
  <2>2. Find(Parsed(data, packed), m, {"hash", "cid", "port", "name", "saddr", "sport"})
    BY <1>21, <2>1 DEF Find
  <2>3. m.version # <<>> => Find(Parsed(data, packed), m, {"version"})
    BY <1>20, <1>21 DEF Find
  <2> QED BY <1>1, <2>2, <2>3 DEF Reads
<1> QED BY <1>1, <1>8, <1>21, <1>22 DEF Well, data

(* What a tag of a search result is. *)
Number(t) == t.type \in {3, 8, 9, 11}
TagIs(t) ==
    /\ t.form \in {"compact", "long", "text"}
    /\ t.key \in Bytes /\ Len(t.key) \in Nat /\ Len(t.key) < 256 * 256
    /\ t.type \in Nat /\ t.type < 128
    /\ t.form = "text" => Len(t.key) > 1
    /\ t.form # "text" => Len(t.key) = 1
    /\ t.form = "text" \/ t.key = <<1>> \/ t.key = <<4>> => ~Number(t)
    /\ t.key = <<2>> => Number(t)

LEMMA NumberTypes == DOMAIN NumberWidth = {3, 8, 9, 11}
BY DEF NumberWidth, TagType

LEMMA NumberWidths ==
    NumberWidth[3] = 4 /\ NumberWidth[8] = 2 /\ NumberWidth[9] = 1 /\ NumberWidth[11] = 8
BY DEF NumberWidth, TagType

LEMMA TagsAre ==
    ASSUME NEW t \in Tags
    PROVE  TagIs(t)
<1> DEFINE R == [form : {"compact", "long", "text"}, key : Below(256 * 256), type : 0 .. 127,
                 val : Below(Beyond)]
<1>1. /\ t \in R
      /\ IF t.form = "text" THEN Len(t.key) > 1 ELSE Len(t.key) = 1
      /\ t.form = "text" \/ t.key \in {<<Ft.FILENAME>>, <<Ft.FILEFORMAT>>}
             => t.type \notin DOMAIN NumberWidth
      /\ t.key = <<Ft.FILESIZE>> => t.type \in DOMAIN NumberWidth
  BY DEF Tags
<1>2. t.form \in {"compact", "long", "text"} /\ t.key \in Below(256 * 256) /\ t.type \in 0 .. 127
  BY <1>1
<1>3. t.key \in Bytes /\ Len(t.key) \in Nat /\ Len(t.key) < 256 * 256
  BY <1>2, Texts
<1>4. Ft.FILENAME = 1 /\ Ft.FILESIZE = 2 /\ Ft.FILEFORMAT = 4
  BY DEF Ft
<1>5. t.type \in Nat /\ t.type < 128
  BY <1>2
<1> HIDE DEF R
<1>6. t.form = "text" \/ t.key = <<1>> \/ t.key = <<4>> => ~Number(t)
  BY <1>1, <1>4, NumberTypes DEF Number
<1>7. t.key = <<2>> => Number(t)
  BY <1>1, <1>4, NumberTypes DEF Number
<1> QED BY <1>1, <1>2, <1>3, <1>5, <1>6, <1>7 DEF TagIs

(* The name of a tag: what it is read into.                                 *)
NameHeld(t) ==
    IF t.form = "compact" THEN Holding(Holding(<<>>, "type", <<t.type + 128>>), "uname", t.key)
    ELSE IF t.form = "long"
      THEN Holding(Holding(Holding(<<>>, "type", <<t.type>>), "nlen", Le(1, 2)), "uname", t.key)
    ELSE Holding(Holding(Holding(Holding(<<>>, "type", <<t.type>>), "nlen", Le(Len(t.key), 2)),
                         "uname", <<0>>), "sname", t.key)
NameParse(d) == Then(Get(d, U("type", 1)), TagName)

LEMMA NameKeeps ==
    ASSUME NEW t, TagIs(t)
    PROVE  LET g == NameHeld(t)
           IN  /\ "type" \in DOMAIN g /\ g["type"] = <<IF t.form = "compact" THEN t.type + 128 ELSE t.type>>
               /\ "uname" \in DOMAIN g /\ g["uname"] = IF t.form = "text" THEN <<0>> ELSE t.key
               /\ t.form = "text" => "sname" \in DOMAIN g /\ g["sname"] = t.key
               /\ t.form # "text" => "sname" \notin DOMAIN g
               /\ "num" \notin DOMAIN g /\ "sval" \notin DOMAIN g
<1>1. CASE t.form = "compact"
  BY <1>1 DEF NameHeld, Holding
<1>2. CASE t.form = "long"
  BY <1>2 DEF NameHeld, Holding
<1>3. CASE t.form = "text"
  BY <1>3 DEF NameHeld, Holding
<1> QED BY <1>1, <1>2, <1>3 DEF TagIs

(* A byte whose highest bit is set or not, and the rest of it.              *)
LEMMA HighBit ==
    ASSUME NEW n \in Nat, n < 128
    PROVE  /\ n + 128 >= 128 /\ (n + 128) % 128 = n /\ n + 128 \in Nat
           /\ ~(n >= 128) /\ n % 128 = n
OBVIOUS

GetRead(m, q, n, w, p) == Get(Cursor(p \o q, m), U(n, w)) = Cursor(q, Holding(m, n, p))

LEMMA OneDoes ==
    ASSUME NEW m, NEW q \in Bytes, NEW n, NEW w, NEW p \in Bytes, Len(p) = w
    PROVE  GetRead(m, q, n, w, p)
BY OneReads DEF GetRead

LEMMA CursorKeeps == \A q, m : Cursor(q, m).ok /\ Cursor(q, m).rest = q /\ Cursor(q, m).m = m
BY CursorIs

LEMMA WithIs == \A q, m, n, v : With(Cursor(q, m), n, v) = Cursor(q, Holding(m, n, v))
<1> SUFFICES ASSUME NEW q, NEW m, NEW n, NEW v
             PROVE  With(Cursor(q, m), n, v) = Cursor(q, Holding(m, n, v))
  OBVIOUS
<1>1. Cursor(q, m).rest = q /\ Cursor(q, m).m = m
  BY CursorKeeps
<1> QED BY <1>1 DEF With

LEMMA NameParseIs ==
    ASSUME NEW d, NEW q, NEW m, Get(d, U("type", 1)) = Cursor(q, m)
    PROVE  /\ Num(m["type"]) >= 128 => NameParse(d) = Get(Cursor(q, m), U("uname", 1))
           /\ ~(Num(m["type"]) >= 128) =>
                LET l == Get(Cursor(q, m), U("nlen", 2))
                IN  NameParse(d) = IF l.ok THEN (IF Num(l.m["nlen"]) = 1 THEN Get(l, U("uname", 1))
                                   ELSE GetString(With(l, "uname", <<0>>), "sname", Num(l.m["nlen"])))
                                   ELSE l
<1>1. Cursor(q, m).ok /\ Cursor(q, m).m = m
  BY CursorKeeps
<1>2. NameParse(d) = TagName(Cursor(q, m))
  <2> DEFINE b == Get(d, U("type", 1))
  <2>1. NameParse(d) = IF b.ok THEN TagName(b) ELSE b
    BY DEF NameParse, Then, TagName
  <2> QED BY <1>1, <2>1
<1> DEFINE c == Cursor(q, m)
           l == Get(c, U("nlen", 2))
<1>3. TagName(c) = IF Num(c.m["type"]) >= 128 THEN Get(c, U("uname", 1))
                   ELSE IF l.ok THEN (IF Num(l.m["nlen"]) = 1 THEN Get(l, U("uname", 1))
                                   ELSE GetString(With(l, "uname", <<0>>), "sname", Num(l.m["nlen"])))
                                   ELSE l
  BY DEF TagName, Then
<1> HIDE DEF c, l
<1>4. c.m = m
  BY <1>1 DEF c
<1>5. TagName(c) = NameParse(d)
  BY <1>2 DEF c
<1> QED BY <1>3, <1>4, <1>5 DEF c, l

NameRead(t, q) == NameParse(Cursor(PutName(t) \o q, <<>>)) = Cursor(q, NameHeld(t))

LEMMA CompactName ==
    ASSUME NEW t, TagIs(t), t.form = "compact", NEW q \in Bytes
    PROVE  PutName(t) \in Bytes /\ Len(PutName(t)) > 0 /\ NameRead(t, q)
<1> DEFINE a == <<t.type + 128>>
           b == t.key
           z == b \o q
           e == <<>>
           m1 == Holding(e, "type", a)
<1>1. a \in Bytes /\ Len(a) = 1 /\ Num(a) = t.type + 128 /\ Num(a) >= 128
  <2> DEFINE n == t.type
             k == n + 128
  <2>1. n \in Nat /\ n < 128
    BY DEF TagIs
  <2> HIDE DEF n
  <2>2. k \in Nat /\ k >= 128
    BY <2>1, HighBit
  <2> HIDE DEF k
  <2>3. Num(<<k>>) = k /\ <<k>> \in Bytes /\ Len(<<k>>) = 1
    BY <2>2, NumOne
  <2> QED BY <2>2, <2>3 DEF k, n
<1>2. b \in Bytes /\ Len(b) = 1
  BY DEF TagIs
<1>3. PutName(t) = a \o b
  BY DEF PutName
<1>4. NameHeld(t) = Holding(m1, "uname", b)
  BY DEF NameHeld
<1> HIDE DEF a, b, e
<1>5. Then2(a, b, q) /\ a \o b \in Bytes
  BY <1>1, <1>2, TwoThen, Closed
<1>6. Len(PutName(t)) > 0
  <2>1. Len(a \o b) = Len(a) + Len(b)
    BY <1>1, <1>2, CutOf
  <2> QED BY <1>1, <1>2, <1>3, <2>1
<1>7. z \in Bytes /\ PutName(t) \o q = a \o z
  BY <1>3, <1>5 DEF Then2
<1> HIDE DEF z
<1>8. GetRead(e, z, "type", 1, a)
  BY <1>1, <1>7, OneDoes
<1>9. GetRead(m1, q, "uname", 1, b)
  <2> HIDE DEF m1
  <2> QED BY <1>2, OneDoes
<1>10. m1["type"] = a
  BY Held
<1> HIDE DEF m1
<1>11. Get(Cursor(a \o z, e), U("type", 1)) = Cursor(z, m1)
  BY <1>8 DEF GetRead, m1
<1>12. NameParse(Cursor(a \o z, e)) = Get(Cursor(z, m1), U("uname", 1))
  BY <1>1, <1>10, <1>11, NameParseIs
<1>13. NameParse(Cursor(a \o z, e)) = Cursor(q, Holding(m1, "uname", b))
  BY <1>9, <1>12 DEF GetRead, z
<1> QED BY <1>3, <1>4, <1>5, <1>6, <1>7, <1>13 DEF NameRead, e

LEMMA LongName ==
    ASSUME NEW t, TagIs(t), t.form = "long", NEW q \in Bytes
    PROVE  PutName(t) \in Bytes /\ Len(PutName(t)) > 0 /\ NameRead(t, q)
<1> DEFINE a == <<t.type>>
           l == Le(1, 2)
           b == t.key
           x == b \o q
           z == l \o x
           e == <<>>
           m1 == Holding(e, "type", a)
           m2 == Holding(m1, "nlen", l)
<1>1. a \in Bytes /\ Len(a) = 1 /\ Num(a) = t.type /\ ~(Num(a) >= 128)
  <2> DEFINE n == t.type
  <2>1. n \in Nat /\ n < 128
    BY DEF TagIs
  <2> HIDE DEF n
  <2>2. Num(<<n>>) = n /\ <<n>> \in Bytes /\ Len(<<n>>) = 1
    BY <2>1, NumOne
  <2> QED BY <2>1, <2>2 DEF n
<1>2. b \in Bytes /\ Len(b) = 1 /\ l \in Bytes /\ Len(l) = 2 /\ Num(l) = 1
  BY OneLe DEF TagIs
<1>3. PutName(t) = a \o (l \o b)
  BY DEF PutName
<1>4. NameHeld(t) = Holding(m2, "uname", b)
  BY DEF NameHeld
<1> HIDE DEF a, b, l, e
<1>5. Then3(a, l, b, q) /\ Flat3(a, l, b)
  BY <1>1, <1>2, ThreeThen, ThreeFlat
<1>6. Len(PutName(t)) > 0
  <2> DEFINE y == l \o b
  <2>1. y \in Bytes
    BY <1>5 DEF Flat3
  <2> HIDE DEF y
  <2>2. Len(a \o y) = Len(a) + Len(y) /\ Len(y) \in Nat
    BY <1>1, <2>1, CutOf, LenProperties DEF Bytes
  <2> QED BY <1>1, <1>3, <2>2 DEF y
<1>7. z \in Bytes /\ PutName(t) \o q = a \o z /\ x \in Bytes /\ PutName(t) \in Bytes
  <2>1. x \in Bytes
    BY <1>2, Closed
  <2> QED BY <1>3, <1>5, <2>1 DEF Then3, Flat3
<1> HIDE DEF z, x
<1>8. GetRead(e, z, "type", 1, a)
  BY <1>1, <1>7, OneDoes
<1>9. GetRead(m1, x, "nlen", 2, l)
  <2> HIDE DEF m1
  <2> QED BY <1>2, <1>7, OneDoes
<1>10. GetRead(m2, q, "uname", 1, b)
  <2> HIDE DEF m2
  <2> QED BY <1>2, OneDoes
<1>11. m1["type"] = a /\ m2["nlen"] = l
  BY Held
<1> HIDE DEF m1, m2
<1>12. Get(Cursor(a \o z, e), U("type", 1)) = Cursor(z, m1)
  BY <1>8 DEF GetRead, m1
<1>13. Get(Cursor(z, m1), U("nlen", 2)) = Cursor(x, m2)
  BY <1>9 DEF GetRead, m2, z
<1>14. NameParse(Cursor(a \o z, e)) = Get(Cursor(x, m2), U("uname", 1))
  <2> DEFINE d == Cursor(a \o z, e)
             k == Cursor(x, m2)
  <2>1. k.ok /\ k.m = m2
    BY CursorKeeps
  <2> HIDE DEF d, k
  <2>2. Get(d, U("type", 1)) = Cursor(z, m1) /\ Get(Cursor(z, m1), U("nlen", 2)) = k /\ ~(Num(m1["type"]) >= 128)
    BY <1>1, <1>11, <1>12, <1>13 DEF d, k
  <2>3. NameParse(d) = IF k.ok THEN (IF Num(k.m["nlen"]) = 1 THEN Get(k, U("uname", 1))
                                   ELSE GetString(With(k, "uname", <<0>>), "sname", Num(k.m["nlen"])))
                                   ELSE k
    BY <2>2, NameParseIs
  <2> QED BY <1>2, <1>11, <2>1, <2>3 DEF d, k
<1>15. NameParse(Cursor(a \o z, e)) = Cursor(q, Holding(m2, "uname", b))
  BY <1>10, <1>14 DEF GetRead, x
<1> QED BY <1>3, <1>4, <1>6, <1>7, <1>15 DEF NameRead, e

LEMMA TextName ==
    ASSUME NEW t, TagIs(t), t.form = "text", NEW q \in Bytes
    PROVE  PutName(t) \in Bytes /\ Len(PutName(t)) > 0 /\ NameRead(t, q)
<1> DEFINE a == <<t.type>>
           n == Len(t.key)
           l == Le(n, 2)
           zero == <<0>>
           b == t.key
           x == b \o q
           z == l \o x
           e == <<>>
           m1 == Holding(e, "type", a)
           m2 == Holding(m1, "nlen", l)
           m3 == Holding(m2, "uname", zero)
<1>1. a \in Bytes /\ Len(a) = 1 /\ Num(a) = t.type /\ ~(Num(a) >= 128)
  <2> DEFINE c == t.type
  <2>1. c \in Nat /\ c < 128
    BY DEF TagIs
  <2> HIDE DEF c
  <2>2. Num(<<c>>) = c /\ <<c>> \in Bytes /\ Len(<<c>>) = 1
    BY <2>1, NumOne
  <2> QED BY <2>1, <2>2 DEF c
<1>2. b \in Bytes /\ Len(b) = n /\ l \in Bytes /\ Len(l) = 2 /\ Num(l) = n /\ n # 1 /\ n # 0
  <2> DEFINE w == 2
  <2>1. b \in Bytes /\ n \in Nat /\ n < 256 * 256 /\ n > 1 /\ w \in Nat
    BY DEF TagIs
  <2> HIDE DEF n
  <2>2. Num(Le(n, 2)) = n
    BY <2>1, NumLe2
  <2> HIDE DEF w
  <2>3. Le(n, w) \in Bytes /\ Len(Le(n, w)) = w
    BY <2>1, LeIs
  <2>4. n # 1 /\ n # 0
    BY <2>1
  <2> QED BY <2>1, <2>2, <2>3, <2>4 DEF w, n
<1>3. PutName(t) = a \o (l \o b)
  BY DEF PutName
<1>4. NameHeld(t) = Holding(m3, "sname", b)
  BY DEF NameHeld
<1> HIDE DEF a, b, l, e, n, zero
<1>5. Then3(a, l, b, q) /\ Flat3(a, l, b)
  BY <1>1, <1>2, ThreeThen, ThreeFlat
<1>6. Len(PutName(t)) > 0
  <2> DEFINE y == l \o b
  <2>1. y \in Bytes
    BY <1>5 DEF Flat3
  <2> HIDE DEF y
  <2>2. Len(a \o y) = Len(a) + Len(y) /\ Len(y) \in Nat
    BY <1>1, <2>1, CutOf, LenProperties DEF Bytes
  <2> QED BY <1>1, <1>3, <2>2 DEF y
<1>7. z \in Bytes /\ PutName(t) \o q = a \o z /\ x \in Bytes /\ PutName(t) \in Bytes
  <2>1. x \in Bytes
    BY <1>2, Closed
  <2> QED BY <1>3, <1>5, <2>1 DEF Then3, Flat3
<1> HIDE DEF z, x
<1>8. GetRead(e, z, "type", 1, a)
  BY <1>1, <1>7, OneDoes
<1>9. GetRead(m1, x, "nlen", 2, l)
  <2> HIDE DEF m1
  <2> QED BY <1>2, <1>7, OneDoes
<1>10. GetRead(m3, q, "sname", n, b)
  <2> HIDE DEF m3
  <2> QED BY <1>2, OneDoes
<1>11. m1["type"] = a /\ m2["nlen"] = l
  BY Held
<1> HIDE DEF m1, m2, m3
<1>12. Get(Cursor(a \o z, e), U("type", 1)) = Cursor(z, m1)
  BY <1>8 DEF GetRead, m1
<1>13. Get(Cursor(z, m1), U("nlen", 2)) = Cursor(x, m2)
  BY <1>9 DEF GetRead, m2, z
<1>14. NameParse(Cursor(a \o z, e)) = Get(Cursor(x, m3), U("sname", n))
  <2> DEFINE d == Cursor(a \o z, e)
             k == Cursor(x, m2)
  <2>1. k.ok /\ k.m = m2
    BY CursorKeeps
  <2> HIDE DEF d, k
  <2>2. Get(d, U("type", 1)) = Cursor(z, m1) /\ Get(Cursor(z, m1), U("nlen", 2)) = k /\ ~(Num(m1["type"]) >= 128)
    BY <1>1, <1>11, <1>12, <1>13 DEF d, k
  <2>3. NameParse(d) = IF k.ok THEN (IF Num(k.m["nlen"]) = 1 THEN Get(k, U("uname", 1))
                                   ELSE GetString(With(k, "uname", <<0>>), "sname", Num(k.m["nlen"])))
                                   ELSE k
    BY <2>2, NameParseIs
  <2>4. With(k, "uname", zero) = Cursor(x, m3)
    BY WithIs DEF k, m3
  <2>5. NameParse(d) = GetString(With(k, "uname", zero), "sname", n)
    BY <1>2, <1>11, <2>1, <2>3 DEF zero
  <2>6. GetString(Cursor(x, m3), "sname", n) = Get(Cursor(x, m3), U("sname", n))
    BY <1>2 DEF GetString
  <2> QED BY <2>4, <2>5, <2>6 DEF d
<1>15. NameParse(Cursor(a \o z, e)) = Cursor(q, Holding(m3, "sname", b))
  BY <1>10, <1>14 DEF GetRead, x
<1> QED BY <1>3, <1>4, <1>6, <1>7, <1>15 DEF NameRead, e

(* The value of a tag, by its type, and what it is read into.               *)
ValueIs(t) ==
    /\ t.val \in Bytes
    /\ \/ t.type = 2 /\ Len(t.val) \in Nat /\ Len(t.val) < 256 * 256
       \/ t.type = 7 /\ Len(t.val) \in Nat /\ Len(t.val) < Beyond
       \/ t.type = 1 /\ Len(t.val) = 16
       \/ t.type = 3 /\ Len(t.val) = 4
       \/ t.type = 8 /\ Len(t.val) = 2
       \/ t.type = 9 /\ Len(t.val) = 1
       \/ t.type = 11 /\ Len(t.val) = 8
       \/ t.type \in 17 .. 32 /\ Len(t.val) = t.type - 16
ValueHeld(t, g) ==
    IF t.type = 2 THEN Holding(Holding(g, "slen", Le(Len(t.val), 2)), "sval", t.val)
    ELSE IF t.type = 7 THEN Holding(Holding(g, "blen", Le(Len(t.val), 4)), "sval", t.val)
    ELSE IF Number(t) THEN Holding(g, "num", t.val)
    ELSE Holding(g, "sval", t.val)
ValueRead(t, g, q) == TagValue(Cursor(PutValue(t) \o q, g), t.type) = Cursor(q, ValueHeld(t, g))

LEMMA TypesAre ==
    /\ TagType.STRING = 2 /\ TagType.BLOB = 7 /\ TagType.HASH = 1
    /\ TagType.UINT32 = 3 /\ TagType.UINT16 = 8 /\ TagType.UINT8 = 9 /\ TagType.UINT64 = 11
    /\ TagType.STR1 = 17 /\ TagType.STR16 = 32
    /\ TagType.FLOAT32 = 4 /\ TagType.BOOL = 5 /\ TagType.BOOLARRAY = 6
BY DEF TagType

LEMMA ValuesAre ==
    ASSUME NEW t \in Tags
    PROVE  ValueIs(t)
<1>1. /\ t.type \in DOMAIN NumberWidth \cup {TagType.STRING, TagType.BLOB, TagType.HASH}
                        \cup TagType.STR1..TagType.STR16
      /\ t.val \in ValuesOf(t.type)
  BY DEF Tags
<1>2. \/ t.type \in {2, 7, 1, 3, 8, 9, 11} \/ t.type \in 17 .. 32
  BY <1>1, NumberTypes, TypesAre
<1>3. CASE t.type = 2
  <2>1. t.val \in Below(256 * 256)
    BY <1>1, <1>3, NumberTypes, TypesAre DEF ValuesOf
  <2> QED BY <1>3, <2>1, Texts DEF ValueIs
<1>4. CASE t.type = 7
  <2>1. t.val \in Below(Beyond)
    BY <1>1, <1>4, NumberTypes, TypesAre DEF ValuesOf
  <2>2. Beyond \in Nat
    BY DEF Beyond
  <2>3. t.val \in Bytes /\ Len(t.val) \in Nat /\ Len(t.val) < Beyond
    BY <2>1, <2>2, BelowIs
  <2> QED BY <1>4, <2>3 DEF ValueIs
<1>5. ASSUME NEW w \in Nat, t.val \in Width(w) PROVE t.val \in Bytes /\ Len(t.val) = w
  BY <1>5, WidthIs
<1>6. CASE t.type = 1
  <2>1. t.val \in Width(16)
    BY <1>1, <1>6, NumberTypes, TypesAre DEF ValuesOf
  <2> QED BY <1>5, <1>6, <2>1 DEF ValueIs
<1>7. CASE t.type \in {3, 8, 9, 11}
  <2>1. t.val \in Width(NumberWidth[t.type])
    BY <1>1, <1>7, NumberTypes DEF ValuesOf
  <2> QED BY <1>5, <1>7, <2>1, NumberWidths DEF ValueIs
<1>8. CASE t.type \in 17 .. 32
  <2>1. t.val \in Width(t.type - 17 + 1)
    BY <1>1, <1>8, NumberTypes, TypesAre DEF ValuesOf
  <2>2. t.type - 17 + 1 = t.type - 16 /\ t.type - 16 \in Nat
    BY <1>8
  <2> QED BY <1>5, <1>8, <2>1, <2>2 DEF ValueIs
<1> QED BY <1>2, <1>3, <1>4, <1>6, <1>7, <1>8

StringRead(m, q, p1, p2) ==
    Read(Cursor(p1 \o (p2 \o q), m), <<U("slen", 2), D("sval", "slen")>>)
      = Cursor(q, Holding(Holding(m, "slen", p1), "sval", p2))
BlobRead(m, q, p1, p2) ==
    Read(Cursor(p1 \o (p2 \o q), m), <<U("blen", 4), D("sval", "blen")>>)
      = Cursor(q, Holding(Holding(m, "blen", p1), "sval", p2))

LEMMA StringDoes ==
    ASSUME NEW m, NEW q \in Bytes, NEW p1 \in Bytes, NEW p2 \in Bytes, Len(p1) = 2, Num(p1) = Len(p2)
    PROVE  StringRead(m, q, p1, p2)
BY StringReads DEF StringRead

LEMMA BlobDoes ==
    ASSUME NEW m, NEW q \in Bytes, NEW p1 \in Bytes, NEW p2 \in Bytes, Len(p1) = 4, Num(p1) = Len(p2)
    PROVE  BlobRead(m, q, p1, p2)
BY BlobReads DEF BlobRead

LEMMA PutString ==
    ASSUME NEW t, t.type = 2
    PROVE  PutValue(t) = Le(Len(t.val), 2) \o t.val
<1>1. t.type = TagType.STRING /\ t.type # TagType.BLOB
  BY TypesAre
<1> QED BY <1>1 DEF PutValue

LEMMA PutBlob ==
    ASSUME NEW t, t.type = 7
    PROVE  PutValue(t) = Le(Len(t.val), 4) \o t.val
<1>1. t.type = TagType.BLOB /\ t.type # TagType.STRING
  BY TypesAre
<1> QED BY <1>1, Zenon DEF PutValue

(* A value is read, and the next tag begins behind it.                      *)
LEMMA ValueReads ==
    ASSUME NEW t, ValueIs(t), NEW g, NEW q \in Bytes
    PROVE  PutValue(t) \in Bytes /\ ValueRead(t, g, q)
<1> DEFINE v == t.val
           n == Len(t.val)
<1>1. v \in Bytes /\ n = Len(v)
  BY DEF ValueIs
<1>2. CASE t.type = 2
  <2> DEFINE l == Le(n, 2)
             w == 2
  <2>1. n \in Nat /\ n < 256 * 256 /\ w \in Nat
    BY <1>2 DEF ValueIs
  <2>2. PutValue(t) = l \o v /\ ValueHeld(t, g) = Holding(Holding(g, "slen", l), "sval", v)
    <3>1. PutValue(t) = l \o v
      <4> HIDE DEF n
      <4>1. PutValue(t) = Le(Len(t.val), 2) \o t.val
        BY <1>2, PutString
      <4> QED BY <4>1 DEF n
    <3>2. ValueHeld(t, g) = Holding(Holding(g, "slen", l), "sval", v)
      BY <1>2, Zenon DEF ValueHeld
    <3> QED BY <3>1, <3>2
  <2> HIDE DEF n, v
  <2>3. Num(Le(n, 2)) = n
    BY <2>1, NumLe2
  <2> HIDE DEF w
  <2>4. Le(n, w) \in Bytes /\ Len(Le(n, w)) = w
    BY <2>1, LeIs
  <2>5. l \in Bytes /\ Len(l) = 2 /\ Num(l) = Len(v)
    BY <1>1, <2>3, <2>4 DEF w
  <2> HIDE DEF l
  <2>6. Then2(l, v, q) /\ l \o v \in Bytes
    BY <1>1, <2>5, TwoThen, Closed
  <2>7. StringRead(g, q, l, v)
    BY <1>1, <2>5, StringDoes
  <2>8. TagValue(Cursor(PutValue(t) \o q, g), t.type)
          = Read(Cursor(PutValue(t) \o q, g), <<U("slen", 2), D("sval", "slen")>>)
    BY <1>2, TypesAre DEF TagValue, GetString
  <2> QED BY <2>2, <2>6, <2>7, <2>8 DEF StringRead, Then2, ValueRead
<1>3. CASE t.type = 7
  <2> DEFINE l == Le(n, 4)
             w == 4
  <2>1. n \in Nat /\ n < Beyond /\ w \in Nat
    BY <1>3 DEF ValueIs
  <2>2. PutValue(t) = l \o v /\ ValueHeld(t, g) = Holding(Holding(g, "blen", l), "sval", v)
    <3>1. PutValue(t) = l \o v
      <4> HIDE DEF n
      <4>1. PutValue(t) = Le(Len(t.val), 4) \o t.val
        BY <1>3, PutBlob
      <4> QED BY <4>1 DEF n
    <3>2. ValueHeld(t, g) = Holding(Holding(g, "blen", l), "sval", v)
      <4>1. t.type # 2
        BY <1>3
      <4> QED BY <1>3, <4>1, Zenon DEF ValueHeld
    <3> QED BY <3>1, <3>2
  <2> HIDE DEF n, v
  <2>3. Num(Le(n, 4)) = n
    BY <2>1, NumLe4
  <2> HIDE DEF w
  <2>4. Le(n, w) \in Bytes /\ Len(Le(n, w)) = w
    BY <2>1, LeIs
  <2>5. l \in Bytes /\ Len(l) = 4 /\ Num(l) = Len(v)
    BY <1>1, <2>3, <2>4 DEF w
  <2> HIDE DEF l
  <2>6. Then2(l, v, q) /\ l \o v \in Bytes
    BY <1>1, <2>5, TwoThen, Closed
  <2>7. BlobRead(g, q, l, v)
    BY <1>1, <2>5, BlobDoes
  <2>8. TagValue(Cursor(PutValue(t) \o q, g), t.type)
          = Read(Cursor(PutValue(t) \o q, g), <<U("blen", 4), D("sval", "blen")>>)
    BY <1>3, TypesAre DEF TagValue
  <2> QED BY <2>2, <2>6, <2>7, <2>8 DEF BlobRead, Then2, ValueRead
<1>4. ASSUME t.type # 2, t.type # 7 PROVE PutValue(t) = v
  BY <1>4, TypesAre DEF PutValue
<1>5. CASE Number(t)
  <2> DEFINE d == Cursor(v \o q, g)
  <2>1. PutValue(t) = v /\ ValueHeld(t, g) = Holding(g, "num", v)
    BY <1>4, <1>5 DEF Number, ValueHeld
  <2>2. TagValue(d, t.type) = Get(d, U("num", n))
    <3> HIDE DEF d
    <3>1. CASE t.type = 3
      <4>1. n = 4
        BY <3>1 DEF ValueIs
      <4> QED BY <3>1, <4>1, TypesAre DEF TagValue
    <3>2. CASE t.type = 8
      <4>1. n = 2
        BY <3>2 DEF ValueIs
      <4> QED BY <3>2, <4>1, TypesAre DEF TagValue
    <3>3. CASE t.type = 9
      <4>1. n = 1
        BY <3>3 DEF ValueIs
      <4> QED BY <3>3, <4>1, TypesAre DEF TagValue
    <3>4. CASE t.type = 11
      <4>1. n = 8
        BY <3>4 DEF ValueIs
      <4> QED BY <3>4, <4>1, TypesAre DEF TagValue
    <3> QED BY <1>5, <3>1, <3>2, <3>3, <3>4 DEF Number
  <2> HIDE DEF v, n
  <2>3. GetRead(g, q, "num", n, v)
    BY <1>1, OneDoes
  <2> QED BY <1>1, <2>1, <2>2, <2>3 DEF GetRead, ValueRead
<1>6. CASE t.type = 1 \/ t.type \in 17 .. 32
  <2> DEFINE d == Cursor(v \o q, g)
  <2>1. PutValue(t) = v /\ ValueHeld(t, g) = Holding(g, "sval", v)
    <3>1. t.type # 2 /\ t.type # 7 /\ ~Number(t)
      BY <1>6 DEF Number
    <3>2. ValueHeld(t, g) = Holding(g, "sval", v)
      BY <3>1, Zenon DEF ValueHeld
    <3> QED BY <1>4, <3>1, <3>2
  <2>2. TagValue(d, t.type) = Get(d, U("sval", n))
    <3> HIDE DEF d
    <3>1. CASE t.type = 1
      <4>1. n = 16
        BY <3>1 DEF ValueIs
      <4> QED BY <3>1, <4>1, TypesAre DEF TagValue
    <3>2. CASE t.type \in 17 .. 32
      <4>1. n = t.type - 16 /\ t.type - 17 + 1 = n /\ n # 0
        <5>1. t.type \in Nat /\ t.type >= 17
          BY <3>2
        <5>2. Len(t.val) = t.type - 16
          BY <5>1 DEF ValueIs
        <5> HIDE DEF n
        <5>3. n = t.type - 16
          BY <5>2 DEF n
        <5> QED BY <5>1, <5>3
      <4>2. TagValue(d, t.type) = GetString(d, "sval", t.type - 17 + 1)
        BY <3>2, TypesAre DEF TagValue
      <4>3. GetString(d, "sval", n) = Get(d, U("sval", n))
        BY <4>1 DEF GetString
      <4> QED BY <4>1, <4>2, <4>3
    <3> QED BY <1>6, <3>1, <3>2
  <2> HIDE DEF v, n
  <2>3. GetRead(g, q, "sval", n, v)
    BY <1>1, OneDoes
  <2> QED BY <1>1, <2>1, <2>2, <2>3 DEF GetRead, ValueRead
<1> QED BY <1>2, <1>3, <1>5, <1>6 DEF ValueIs, Number

(* What a tag is read into. *)
TagHeld(t) == ValueHeld(t, NameHeld(t))
TagKept(t, h) ==
    /\ "uname" \in DOMAIN h /\ h["uname"] = IF t.form = "text" THEN <<0>> ELSE t.key
    /\ t.form = "text" => "sname" \in DOMAIN h /\ h["sname"] = t.key
    /\ t.form # "text" => "sname" \notin DOMAIN h
    /\ Number(t) => "num" \in DOMAIN h /\ h["num"] = t.val /\ "sval" \notin DOMAIN h
    /\ ~Number(t) => "sval" \in DOMAIN h /\ h["sval"] = t.val

LEMMA HoldingDom ==
    ASSUME NEW m, NEW n, NEW v, NEW h, h = Holding(m, n, v)
    PROVE  /\ n \in DOMAIN h /\ h[n] = v
           /\ \A f : f # n => (f \in DOMAIN h <=> f \in DOMAIN m) /\ (f \in DOMAIN m => h[f] = m[f])
BY DEF Holding

LEMMA TagHeldIs ==
    ASSUME NEW t, TagIs(t), ValueIs(t)
    PROVE  TagKept(t, TagHeld(t))
<1> DEFINE g == NameHeld(t)
           h == TagHeld(t)
           v == t.val
<1>1. /\ "uname" \in DOMAIN g /\ g["uname"] = IF t.form = "text" THEN <<0>> ELSE t.key
      /\ t.form = "text" => "sname" \in DOMAIN g /\ g["sname"] = t.key
      /\ t.form # "text" => "sname" \notin DOMAIN g
      /\ "num" \notin DOMAIN g /\ "sval" \notin DOMAIN g
  BY NameKeeps
<1> HIDE DEF g, v
<1>2. CASE Number(t)
  <2>1. h = Holding(g, "num", v)
    BY <1>2 DEF TagHeld, ValueHeld, Number, g, v
  <2> HIDE DEF h
  <2>2. /\ "num" \in DOMAIN h /\ h["num"] = v
        /\ \A f : f # "num" => (f \in DOMAIN h <=> f \in DOMAIN g) /\ (f \in DOMAIN g => h[f] = g[f])
    BY <2>1, HoldingDom
  <2> QED BY <1>1, <1>2, <2>2 DEF TagKept, h, v
<1>3. CASE ~Number(t)
  <2>1. \E m, n, w : \/ n \in {"slen", "blen"} /\ m = Holding(g, n, w) /\ h = Holding(m, "sval", v)
                     \/ h = Holding(g, "sval", v)
    BY <1>3 DEF TagHeld, ValueHeld, g, v
  <2> HIDE DEF h
  <2>2. /\ "sval" \in DOMAIN h /\ h["sval"] = v
        /\ \A f \in {"uname", "sname"} :
             (f \in DOMAIN h <=> f \in DOMAIN g) /\ (f \in DOMAIN g => h[f] = g[f])
    <3>1. CASE h = Holding(g, "sval", v)
      <4>1. /\ "sval" \in DOMAIN h /\ h["sval"] = v
            /\ \A f : f # "sval" => (f \in DOMAIN h <=> f \in DOMAIN g) /\ (f \in DOMAIN g => h[f] = g[f])
        BY <3>1, HoldingDom
      <4> QED BY <4>1
    <3>2. CASE h # Holding(g, "sval", v)
      <4>1. PICK m, n, w : n \in {"slen", "blen"} /\ m = Holding(g, n, w) /\ h = Holding(m, "sval", v)
        BY <2>1, <3>2
      <4>2. \A f : f # n => (f \in DOMAIN m <=> f \in DOMAIN g) /\ (f \in DOMAIN g => m[f] = g[f])
        BY <4>1, HoldingDom
      <4>3. /\ "sval" \in DOMAIN h /\ h["sval"] = v
            /\ \A f : f # "sval" => (f \in DOMAIN h <=> f \in DOMAIN m) /\ (f \in DOMAIN m => h[f] = m[f])
        BY <4>1, HoldingDom
      <4>4. ASSUME NEW f \in {"uname", "sname"}
            PROVE  (f \in DOMAIN h <=> f \in DOMAIN g) /\ (f \in DOMAIN g => h[f] = g[f])
        <5>1. f # n /\ f # "sval"
          BY <4>1
        <5> QED BY <4>2, <4>3, <5>1
      <4> QED BY <4>3, <4>4
    <3> QED BY <3>1, <3>2
  <2> QED BY <1>1, <1>3, <2>2 DEF TagKept, h, v
<1> QED BY <1>2, <1>3

(* A tag is read, and the next begins behind it.                            *)
TagRead(t, q) == FTagParse(Cursor(Put(t) \o q, <<>>)) = Cursor(q, TagHeld(t))

LEMMA TagReads ==
    ASSUME NEW t, TagIs(t), ValueIs(t), NEW q \in Bytes
    PROVE  Put(t) \in Bytes /\ Len(Put(t)) > 0 /\ TagRead(t, q)
<1> DEFINE a == PutName(t)
           b == PutValue(t)
           e == <<>>
           g == NameHeld(t)
           z == b \o q
<1>1. b \in Bytes /\ ValueRead(t, g, q)
  <2> HIDE DEF g
  <2> QED BY ValueReads
<1>2. z \in Bytes
  <2> HIDE DEF b
  <2> QED BY <1>1, Closed
<1>3. a \in Bytes /\ Len(a) > 0 /\ NameRead(t, z)
  <2> HIDE DEF z
  <2> QED BY <1>2, CompactName, LongName, TextName DEF TagIs
<1>4. Num(g["type"]) % 128 = t.type
  <2> DEFINE n == t.type
             k == n + 128
  <2>1. n \in Nat /\ n < 128
    BY DEF TagIs
  <2>2. g["type"] = <<IF t.form = "compact" THEN k ELSE n>>
    BY NameKeeps
  <2> HIDE DEF n
  <2>3. k \in Nat /\ k % 128 = n /\ n % 128 = n
    BY <2>1, HighBit
  <2> HIDE DEF k, g
  <2>4. Num(<<k>>) = k /\ Num(<<n>>) = n
    BY <2>1, <2>3, NumOne
  <2>5. g["type"] = <<k>> \/ g["type"] = <<n>>
    BY <2>2
  <2> QED BY <2>3, <2>4, <2>5 DEF n
<1>5. Put(t) = a \o b
  BY DEF Put
<1> HIDE DEF a, b
<1>6. a \o b \in Bytes /\ Then2(a, b, q) /\ Len(a \o b) = Len(a) + Len(b) /\ Len(b) \in Nat /\ Len(a) \in Nat
  <2>1. a \o b \in Bytes /\ Then2(a, b, q)
    BY <1>1, <1>3, TwoThen, Closed
  <2>2. Len(a \o b) = Len(a) + Len(b) /\ Len(b) \in Nat /\ Len(a) \in Nat
    BY <1>1, <1>3, CutOf, LenProperties DEF Bytes
  <2> QED BY <2>1, <2>2
<1> DEFINE d == Cursor(a \o z, e)
           n == NameParse(d)
<1>7. FTagParse(d) = IF n.ok THEN TagValue(n, Num(n.m["type"]) % 128) ELSE n
  BY DEF FTagParse, NameParse, Then, TagName
<1>8. n = Cursor(z, g)
  BY <1>3 DEF NameRead, a
<1> HIDE DEF n, d
<1>9. FTagParse(d) = TagValue(Cursor(z, g), t.type)
  <2>1. n.ok /\ n.m = g
    BY <1>8, CursorKeeps
  <2> QED BY <1>4, <1>7, <1>8, <2>1
<1>10. TagValue(Cursor(z, g), t.type) = Cursor(q, TagHeld(t))
  BY <1>1 DEF ValueRead, TagHeld, b
<1>11. Put(t) \o q = a \o z
  BY <1>5, <1>6 DEF Then2
<1>12. TagRead(t, q)
  BY <1>9, <1>10, <1>11 DEF TagRead, d
<1>13. Len(a \o b) > 0
  BY <1>3, <1>6
<1> QED BY <1>5, <1>6, <1>12, <1>13

(* What a tag does to a file: it sets one field or none.                    *)
Does(h, n, v) == \A d : Tagged(d, h) = With(d, n, v)
Nothing(h) == \A d : Tagged(d, h) = d
Others == {"type", "sources", "completed", "gapstart", "album", "title", "length", "bitrate", "codec"}
DoesOther(h) == Nothing(h) \/ \E n, v : n \in Others /\ Does(h, n, v)
Told(t, h) ==
    /\ t.key = <<1>> => Does(h, "name", t.val)
    /\ t.key = <<2>> => Does(h, "size", Widened(t.val, 8))
    /\ t.key = <<4>> => Does(h, "format", t.val)
    /\ t.key = Text.Artist => Does(h, "artist", t.val)
    /\ t.key \notin {<<1>>, <<2>>, <<4>>, Text.Artist} => DoesOther(h)

LEMMA FtAre ==
    /\ Ft.FILENAME = 1 /\ Ft.FILESIZE = 2 /\ Ft.FILETYPE = 3 /\ Ft.FILEFORMAT = 4
    /\ Ft.GAPSTART = 9 /\ Ft.SOURCES = 21 /\ Ft.COMPLETE_SOURCES = 48
BY DEF Ft

LEMMA ArtistIs == Len(Text.Artist) = 2 /\ Text.Artist # <<1>> /\ Text.Artist # <<2>> /\ Text.Artist # <<4>>
BY DEF Text

LEMMA Numbers ==
    ASSUME NEW d, NEW h, NEW k \in Nat, Num(h["uname"]) = k
    PROVE  /\ k = 1 /\ "sval" \in DOMAIN h => Numbered(d, h) = With(d, "name", sval(h))
           /\ k = 2 => Numbered(d, h) = With(d, "size", u64v(h))
           /\ k = 3 => Numbered(d, h) = With(d, "type", sval(h))
           /\ k = 4 /\ "sval" \in DOMAIN h => Numbered(d, h) = With(d, "format", sval(h))
           /\ k = 21 => Numbered(d, h) = With(d, "sources", u8v(h))
           /\ k = 48 => Numbered(d, h) = With(d, "completed", u8v(h))
           /\ k = 9 => Numbered(d, h) = With(d, "gapstart", u32v(h))
           /\ k \notin {1, 2, 3, 4, 21, 48, 9} => Numbered(d, h) = d
<1> DEFINE text == "sval" \in DOMAIN h
           R == CASE k = 1 /\ text -> With(d, "name", sval(h))
                  [] k = 2         -> With(d, "size", u64v(h))
                  [] k = 3         -> With(d, "type", sval(h))
                  [] k = 4 /\ text -> With(d, "format", sval(h))
                  [] k = 21        -> With(d, "sources", u8v(h))
                  [] k = 48        -> With(d, "completed", u8v(h))
                  [] k = 9         -> With(d, "gapstart", u32v(h))
                  [] OTHER         -> d
<1>1. Numbered(d, h) = R
  BY FtAre DEF Numbered
<1> QED BY <1>1

(* Of a tag named by a number.                                              *)
LEMMA NumberedTold ==
    ASSUME NEW t, TagIs(t), ValueIs(t), NEW h, TagKept(t, h), t.form # "text"
    PROVE  Told(t, h)
<1> DEFINE k == t.key[1]
           S == "sval" \in DOMAIN h
<1>1. k \in Nat /\ t.key = <<k>>
  <2> DEFINE b == t.key
  <2>1. b \in Seq(Nat) /\ Len(b) = 1
    BY DEF TagIs, Bytes
  <2> HIDE DEF b
  <2>2. b[1] \in Nat
    BY <2>1, ElementOfSeq
  <2>3. b = <<b[1]>>
    BY <2>1
  <2> QED BY <2>2, <2>3 DEF b
<1>2. \A i : t.key = <<i>> => k = i
  BY <1>1
<1> HIDE DEF k
<1>3. h["uname"] = <<k>> /\ Num(h["uname"]) = k
  <2>1. h["uname"] = <<k>>
    BY <1>1 DEF TagKept
  <2> QED BY <1>1, <2>1, NumOne
<1>4. "sname" \notin DOMAIN h /\ t.key # Text.Artist
  <2>1. "sname" \notin DOMAIN h
    BY DEF TagKept
  <2>2. Len(t.key) = 1 /\ Len(Text.Artist) = 2 /\ 1 # 2
    BY ArtistIs DEF TagIs
  <2> QED BY <2>1, <2>2, Zenon
<1>5. \A d : Tagged(d, h) = IF k # 0 THEN Numbered(d, h) ELSE d
  BY <1>3, <1>4 DEF Tagged
<1>6. sval(h) = t.val \/ ~S
  <2>1. Number(t) \/ ~Number(t)
    OBVIOUS
  <2>2. Number(t) => ~S
    BY DEF TagKept
  <2>3. ~Number(t) => sval(h) = t.val
    BY DEF TagKept, sval
  <2> QED BY <2>1, <2>2, <2>3
<1>7. k = 1 => Does(h, "name", t.val)
  <2> SUFFICES ASSUME k = 1 PROVE Does(h, "name", t.val)
    OBVIOUS
  <2>1. S /\ sval(h) = t.val
    BY <1>1, <1>6 DEF TagIs, TagKept
  <2> QED BY <1>1, <1>3, <1>5, <2>1, Numbers DEF Does
<1>8. k = 4 => Does(h, "format", t.val)
  <2> SUFFICES ASSUME k = 4 PROVE Does(h, "format", t.val)
    OBVIOUS
  <2>1. S /\ sval(h) = t.val
    BY <1>1, <1>6 DEF TagIs, TagKept
  <2> QED BY <1>1, <1>3, <1>5, <2>1, Numbers DEF Does
<1>9. k = 2 => Does(h, "size", Widened(t.val, 8))
  <2> SUFFICES ASSUME k = 2 PROVE Does(h, "size", Widened(t.val, 8))
    OBVIOUS
  <2>1. u64v(h) = Widened(t.val, 8)
    BY <1>1 DEF TagIs, TagKept, u64v
  <2> QED BY <1>1, <1>3, <1>5, <2>1, Numbers DEF Does
<1>10. k \notin {1, 2, 4} => DoesOther(h)
  <2>1. CASE k = 3
    <3>1. Does(h, "type", sval(h))
      BY <1>1, <1>3, <1>5, <2>1, Numbers DEF Does
    <3> QED BY <3>1 DEF DoesOther, Others
  <2>2. CASE k = 21
    <3>1. Does(h, "sources", u8v(h))
      BY <1>1, <1>3, <1>5, <2>2, Numbers DEF Does
    <3> QED BY <3>1 DEF DoesOther, Others
  <2>3. CASE k = 48
    <3>1. Does(h, "completed", u8v(h))
      BY <1>1, <1>3, <1>5, <2>3, Numbers DEF Does
    <3> QED BY <3>1 DEF DoesOther, Others
  <2>4. CASE k = 9
    <3>1. Does(h, "gapstart", u32v(h))
      BY <1>1, <1>3, <1>5, <2>4, Numbers DEF Does
    <3> QED BY <3>1 DEF DoesOther, Others
  <2>5. CASE k = 0
    <3>1. Nothing(h)
      BY <1>5, <2>5 DEF Nothing
    <3> QED BY <3>1 DEF DoesOther
  <2>6. CASE k \notin {0, 1, 2, 3, 4, 21, 48, 9}
    <3>1. \A d : Numbered(d, h) = d
      BY <1>1, <1>3, <2>6, Numbers
    <3>2. Nothing(h)
      BY <1>5, <2>6, <3>1 DEF Nothing
    <3> QED BY <3>2 DEF DoesOther
  <2> QED BY <2>1, <2>2, <2>3, <2>4, <2>5, <2>6
<1>11. t.key \notin {<<1>>, <<2>>, <<4>>} => k \notin {1, 2, 4}
  BY <1>1
<1> QED BY <1>2, <1>4, <1>7, <1>8, <1>9, <1>10, <1>11 DEF Told

(* Of a tag named by a text.                                                *)
LEMMA NamedTold ==
    ASSUME NEW t, TagIs(t), ValueIs(t), NEW h, TagKept(t, h), t.form = "text"
    PROVE  Told(t, h)
<1> DEFINE counts == { f \in {"length", "bitrate", "codec"} : Text[f] = sval(h) }
           c == CHOOSE f \in counts : TRUE
<1>1. Num(h["uname"]) = 0 /\ "sname" \in DOMAIN h /\ h["sname"] = t.key
      /\ "sval" \in DOMAIN h /\ h["sval"] = t.val /\ sval(h) = t.val
  <2>1. h["uname"] = <<0>> /\ "sname" \in DOMAIN h /\ h["sname"] = t.key
        /\ "sval" \in DOMAIN h /\ h["sval"] = t.val
    BY DEF TagKept, TagIs
  <2>2. 0 \in Nat
    OBVIOUS
  <2>3. Num(<<0>>) = 0
    BY <2>2, NumOne
  <2> QED BY <2>1, <2>3 DEF sval
<1>2. \A d : Tagged(d, h) = Named(d, h)
  BY <1>1 DEF Tagged
<1>3. \A d : Named(d, h) = IF t.key = Text.Artist THEN With(d, "artist", t.val)
                           ELSE IF t.key = Text.Album THEN With(d, "album", t.val)
                           ELSE IF t.val = Text.Title THEN With(d, "title", t.val)
                           ELSE IF counts # {} THEN With(d, c, u32v(h)) ELSE d
  BY <1>1 DEF Named
<1>4. counts # {} => c \in Others
  <2>1. counts # {} => c \in counts
    OBVIOUS
  <2> QED BY <2>1 DEF Others
<1> HIDE DEF c, counts
<1>5. t.key # <<1>> /\ t.key # <<2>> /\ t.key # <<4>>
  <2>1. Len(t.key) > 1
    BY DEF TagIs
  <2>2. Len(<<1>>) = 1 /\ Len(<<2>>) = 1 /\ Len(<<4>>) = 1 /\ ~(1 > 1)
    OBVIOUS
  <2> QED BY <2>1, <2>2, Zenon
<1>6. t.key = Text.Artist => Does(h, "artist", t.val)
  BY <1>2, <1>3 DEF Does
<1>7. t.key # Text.Artist => DoesOther(h)
  <2> SUFFICES ASSUME t.key # Text.Artist PROVE DoesOther(h)
    OBVIOUS
  <2>1. CASE t.key = Text.Album
    <3>1. Does(h, "album", t.val)
      BY <1>2, <1>3, <2>1 DEF Does
    <3> QED BY <3>1 DEF DoesOther, Others
  <2>2. CASE t.key # Text.Album /\ t.val = Text.Title
    <3>1. Does(h, "title", t.val)
      BY <1>2, <1>3, <2>2 DEF Does
    <3> QED BY <3>1 DEF DoesOther, Others
  <2>3. CASE t.key # Text.Album /\ t.val # Text.Title /\ counts # {}
    <3>1. Does(h, c, u32v(h))
      BY <1>2, <1>3, <2>3 DEF Does
    <3> QED BY <1>4, <2>3, <3>1 DEF DoesOther
  <2>4. CASE t.key # Text.Album /\ t.val # Text.Title /\ counts = {}
    <3>1. Nothing(h)
      BY <1>2, <1>3, <2>4 DEF Nothing
    <3> QED BY <3>1 DEF DoesOther
  <2> QED BY <2>1, <2>2, <2>3, <2>4
<1> QED BY <1>5, <1>6, <1>7 DEF Told

(* The fields of a file once a tag was read.                                *)
Adds(m, t) == Tagged(Cursor(<<>>, m), TagHeld(t)).m

(* A tag sets its own field to what it says and leaves it to others else.   *)
Effects(m, g, t, key, field, v) ==
    IF t.key = key THEN field \in DOMAIN g /\ g[field] = v
    ELSE field \in DOMAIN m => field \in DOMAIN g /\ g[field] = m[field]
HeadKept(m, g) ==
    \A f \in {"hash", "cid", "port"} : f \in DOMAIN m => f \in DOMAIN g /\ g[f] = m[f]
AllEffects(m, g, t) ==
    /\ HeadKept(m, g)
    /\ Effects(m, g, t, <<1>>, "name", t.val)
    /\ Effects(m, g, t, <<2>>, "size", Widened(t.val, 8))
    /\ Effects(m, g, t, <<4>>, "format", t.val)
    /\ Effects(m, g, t, Text.Artist, "artist", t.val)

LEMMA DoesHolding ==
    ASSUME NEW t, NEW n, NEW v, Does(TagHeld(t), n, v)
    PROVE  \A q, m : /\ Tagged(Cursor(q, m), TagHeld(t)) = Cursor(q, Adds(m, t))
                     /\ Adds(m, t) = Holding(m, n, v)
<1> SUFFICES ASSUME NEW q, NEW m
             PROVE  /\ Tagged(Cursor(q, m), TagHeld(t)) = Cursor(q, Adds(m, t))
                    /\ Adds(m, t) = Holding(m, n, v)
  OBVIOUS
<1> DEFINE h == TagHeld(t)
           g == Holding(m, n, v)
           e == <<>>
<1> HIDE DEF h, e
<1>1. Tagged(Cursor(q, m), h) = Cursor(q, g) /\ Tagged(Cursor(e, m), h) = Cursor(e, g)
  BY WithIs DEF Does, h
<1> HIDE DEF g
<1>2. Cursor(e, g).m = g
  BY CursorKeeps
<1>3. Adds(m, t) = g
  BY <1>1, <1>2 DEF Adds, h, e
<1> QED BY <1>1, <1>3 DEF h, g

LEMMA NothingHolding ==
    ASSUME NEW t, Nothing(TagHeld(t))
    PROVE  \A q, m : Tagged(Cursor(q, m), TagHeld(t)) = Cursor(q, Adds(m, t)) /\ Adds(m, t) = m
<1> SUFFICES ASSUME NEW q, NEW m
             PROVE  Tagged(Cursor(q, m), TagHeld(t)) = Cursor(q, Adds(m, t)) /\ Adds(m, t) = m
  OBVIOUS
<1>1. Tagged(Cursor(q, m), TagHeld(t)) = Cursor(q, m)
      /\ Tagged(Cursor(<<>>, m), TagHeld(t)) = Cursor(<<>>, m)
  BY DEF Nothing
<1>2. Cursor(<<>>, m).m = m
  BY CursorKeeps
<1> QED BY <1>1, <1>2 DEF Adds

LEMMA FieldsDiffer ==
    /\ {"name", "size", "format", "artist", "hash", "cid", "port"} \cap Others = {}
    /\ <<1>> # <<2>> /\ <<1>> # <<4>> /\ <<2>> # <<4>>
BY DEF Others

(* One field set leaves the others.                                         *)
LEMMA SetsOne ==
    ASSUME NEW m, NEW g, NEW n, NEW w, g = Holding(m, n, w), NEW t, NEW key, NEW f, NEW v
    PROVE  /\ f = n /\ v = w /\ t.key = key => Effects(m, g, t, key, f, v)
           /\ f # n /\ t.key # key => Effects(m, g, t, key, f, v)
<1>1. /\ n \in DOMAIN g /\ g[n] = w
      /\ \A x : x # n => (x \in DOMAIN g <=> x \in DOMAIN m) /\ (x \in DOMAIN m => g[x] = m[x])
  BY HoldingDom
<1>2. CASE f = n
  BY <1>1, <1>2 DEF Effects, HeadKept
<1>3. CASE f # n
  BY <1>1, <1>3 DEF Effects, HeadKept
<1> QED BY <1>2, <1>3

LEMMA SetsHead ==
    ASSUME NEW m, NEW g, NEW n, NEW w, g = Holding(m, n, w), n \notin {"hash", "cid", "port"}
    PROVE  HeadKept(m, g)
BY HoldingDom DEF HeadKept

(* What one tag does to the fields of a file.                               *)
LEMMA TagEffects ==
    ASSUME NEW t, Told(t, TagHeld(t)), NEW m
    PROVE  /\ AllEffects(m, Adds(m, t), t)
           /\ \A q : Tagged(Cursor(q, m), TagHeld(t)) = Cursor(q, Adds(m, t))
<1> DEFINE g == Adds(m, t)
           h == TagHeld(t)
           A == Text.Artist
           w == Widened(t.val, 8)
<1>1. A # <<1>> /\ A # <<2>> /\ A # <<4>> /\ <<1>> # <<2>> /\ <<1>> # <<4>> /\ <<2>> # <<4>>
  BY ArtistIs, FieldsDiffer
<1>2. ASSUME NEW n, NEW v, Does(h, n, v)
      PROVE  g = Holding(m, n, v) /\ \A q : Tagged(Cursor(q, m), h) = Cursor(q, g)
  BY <1>2, DoesHolding
<1>3. ASSUME Nothing(h)
      PROVE  g = m /\ \A q : Tagged(Cursor(q, m), h) = Cursor(q, g)
  BY <1>3, NothingHolding
<1>4. /\ t.key = <<1>> => Does(h, "name", t.val)
      /\ t.key = <<2>> => Does(h, "size", w)
      /\ t.key = <<4>> => Does(h, "format", t.val)
      /\ t.key = A => Does(h, "artist", t.val)
      /\ t.key \notin {<<1>>, <<2>>, <<4>>, A} => DoesOther(h)
  BY DEF Told
<1> HIDE DEF g, h, A, w
<1>5. CASE t.key = <<1>>
  <2>1. g = Holding(m, "name", t.val) /\ \A q : Tagged(Cursor(q, m), h) = Cursor(q, g)
    BY <1>2, <1>4, <1>5
  <2>2. t.key # <<2>> /\ t.key # <<4>> /\ t.key # A
    BY <1>1, <1>5
  <2>3. HeadKept(m, g)
    BY <2>1, SetsHead
  <2>4. Effects(m, g, t, <<1>>, "name", t.val)
    BY <1>5, <2>1, SetsOne
  <2>5. Effects(m, g, t, <<2>>, "size", w)
    BY <2>1, <2>2, SetsOne
  <2>6. Effects(m, g, t, <<4>>, "format", t.val)
    BY <2>1, <2>2, SetsOne
  <2>7. Effects(m, g, t, A, "artist", t.val)
    BY <2>1, <2>2, SetsOne
  <2> QED BY <2>1, <2>3, <2>4, <2>5, <2>6, <2>7 DEF AllEffects, g, h, A, w
<1>6. CASE t.key = <<2>>
  <2>1. g = Holding(m, "size", w) /\ \A q : Tagged(Cursor(q, m), h) = Cursor(q, g)
    BY <1>2, <1>4, <1>6
  <2>2. t.key # <<1>> /\ t.key # <<4>> /\ t.key # A
    BY <1>1, <1>6
  <2>3. HeadKept(m, g)
    BY <2>1, SetsHead
  <2>4. Effects(m, g, t, <<1>>, "name", t.val)
    BY <2>1, <2>2, SetsOne
  <2>5. Effects(m, g, t, <<2>>, "size", w)
    BY <1>6, <2>1, SetsOne
  <2>6. Effects(m, g, t, <<4>>, "format", t.val)
    BY <2>1, <2>2, SetsOne
  <2>7. Effects(m, g, t, A, "artist", t.val)
    BY <2>1, <2>2, SetsOne
  <2> QED BY <2>1, <2>3, <2>4, <2>5, <2>6, <2>7 DEF AllEffects, g, h, A, w
<1>7. CASE t.key = <<4>>
  <2>1. g = Holding(m, "format", t.val) /\ \A q : Tagged(Cursor(q, m), h) = Cursor(q, g)
    BY <1>2, <1>4, <1>7
  <2>2. t.key # <<1>> /\ t.key # <<2>> /\ t.key # A
    BY <1>1, <1>7
  <2>3. HeadKept(m, g)
    BY <2>1, SetsHead
  <2>4. Effects(m, g, t, <<1>>, "name", t.val)
    BY <2>1, <2>2, SetsOne
  <2>5. Effects(m, g, t, <<2>>, "size", w)
    BY <2>1, <2>2, SetsOne
  <2>6. Effects(m, g, t, <<4>>, "format", t.val)
    BY <1>7, <2>1, SetsOne
  <2>7. Effects(m, g, t, A, "artist", t.val)
    BY <2>1, <2>2, SetsOne
  <2> QED BY <2>1, <2>3, <2>4, <2>5, <2>6, <2>7 DEF AllEffects, g, h, A, w
<1>8. CASE t.key = A
  <2>1. g = Holding(m, "artist", t.val) /\ \A q : Tagged(Cursor(q, m), h) = Cursor(q, g)
    BY <1>2, <1>4, <1>8
  <2>2. t.key # <<1>> /\ t.key # <<2>> /\ t.key # <<4>>
    BY <1>1, <1>8
  <2>3. HeadKept(m, g)
    BY <2>1, SetsHead
  <2>4. Effects(m, g, t, <<1>>, "name", t.val)
    BY <2>1, <2>2, SetsOne
  <2>5. Effects(m, g, t, <<2>>, "size", w)
    BY <2>1, <2>2, SetsOne
  <2>6. Effects(m, g, t, <<4>>, "format", t.val)
    BY <2>1, <2>2, SetsOne
  <2>7. Effects(m, g, t, A, "artist", t.val)
    BY <1>8, <2>1, SetsOne
  <2> QED BY <2>1, <2>3, <2>4, <2>5, <2>6, <2>7 DEF AllEffects, g, h, A, w
<1>9. CASE t.key \notin {<<1>>, <<2>>, <<4>>, A}
  <2>1. CASE Nothing(h)
    <3>1. g = m /\ \A q : Tagged(Cursor(q, m), h) = Cursor(q, g)
      BY <1>3, <2>1
    <3>2. HeadKept(m, g)
      BY <3>1 DEF HeadKept
    <3>3. \A f, v, key : t.key # key => Effects(m, g, t, key, f, v)
      BY <3>1 DEF Effects
    <3>4. /\ Effects(m, g, t, <<1>>, "name", t.val) /\ Effects(m, g, t, <<2>>, "size", w)
          /\ Effects(m, g, t, <<4>>, "format", t.val) /\ Effects(m, g, t, A, "artist", t.val)
      BY <1>9, <3>3
    <3> QED BY <3>1, <3>2, <3>4 DEF AllEffects, g, h, A, w
  <2>2. CASE ~Nothing(h)
    <3>1. PICK n, v : n \in Others /\ Does(h, n, v)
      BY <1>4, <1>9, <2>2 DEF DoesOther
    <3>2. g = Holding(m, n, v) /\ \A q : Tagged(Cursor(q, m), h) = Cursor(q, g)
      BY <1>2, <3>1
    <3>3. /\ n # "name" /\ n # "size" /\ n # "format" /\ n # "artist"
          /\ n \notin {"hash", "cid", "port"}
      BY <3>1, FieldsDiffer
    <3>4. HeadKept(m, g)
      BY <3>2, <3>3, SetsHead
    <3>5. Effects(m, g, t, <<1>>, "name", t.val)
      BY <1>9, <3>2, <3>3, SetsOne
    <3>6. Effects(m, g, t, <<2>>, "size", w)
      BY <1>9, <3>2, <3>3, SetsOne
    <3>7. Effects(m, g, t, <<4>>, "format", t.val)
      BY <1>9, <3>2, <3>3, SetsOne
    <3>8. Effects(m, g, t, A, "artist", t.val)
      BY <1>9, <3>2, <3>3, SetsOne
    <3> QED BY <3>2, <3>4, <3>5, <3>6, <3>7, <3>8 DEF AllEffects, g, h, A, w
  <2> QED BY <2>1, <2>2
<1> QED BY <1>5, <1>6, <1>7, <1>8, <1>9

(* A tag of a file is read, and does what it says.                          *)
LEMMA EntryTagDoes ==
    ASSUME NEW t \in Tags
    PROVE  /\ Put(t) \in Bytes /\ Len(Put(t)) > 0
           /\ \A m : /\ AllEffects(m, Adds(m, t), t)
                     /\ \A z \in Bytes : EntryTagPass(Cursor(Put(t) \o z, m)) = Cursor(z, Adds(m, t))
<1>1. TagIs(t) /\ ValueIs(t)
  BY TagsAre, ValuesAre
<1>2. TagKept(t, TagHeld(t))
  BY <1>1, TagHeldIs
<1>3. Told(t, TagHeld(t))
  BY <1>1, <1>2, NumberedTold, NamedTold
<1>4. \A z \in Bytes : Put(t) \in Bytes /\ Len(Put(t)) > 0 /\ TagRead(t, z)
  BY <1>1, TagReads
<1>5. <<>> \in Bytes
  BY NothingBehind DEF Bytes
<1>6. ASSUME NEW m PROVE AllEffects(m, Adds(m, t), t)
  BY <1>3, TagEffects
<1>7. ASSUME NEW m, NEW z \in Bytes
      PROVE  EntryTagPass(Cursor(Put(t) \o z, m)) = Cursor(z, Adds(m, t))
  <2> DEFINE p == Put(t) \o z
             d == Cursor(p, m)
             b == FTagParse(Fresh(d))
             h == TagHeld(t)
  <2>1. EntryTagPass(d) = IF b.ok THEN Tagged(Cursor(b.rest, d.m), b.m) ELSE b
    BY DEF EntryTagPass, Then
  <2>2. d.m = m /\ d.rest = p
    <3> HIDE DEF p
    <3> QED BY CursorKeeps
  <2>3. Fresh(d) = Cursor(p, <<>>)
    <3> HIDE DEF d, p
    <3> QED BY <2>2 DEF Fresh
  <2>4. FTagParse(Cursor(p, <<>>)) = Cursor(z, h)
    BY <1>4 DEF TagRead
  <2> HIDE DEF d, p, h
  <2>5. b = Cursor(z, h)
    BY <2>3, <2>4
  <2> HIDE DEF b
  <2>6. b.ok /\ b.rest = z /\ b.m = h
    BY <2>5, CursorKeeps
  <2>7. EntryTagPass(d) = Tagged(Cursor(z, m), h)
    BY <2>1, <2>2, <2>6
  <2> QED BY <1>3, <2>7, TagEffects DEF h, d, p
<1> QED BY <1>4, <1>5, <1>6, <1>7

(* The fields of a file after each of its tags.                             *)
AddsEach(m, h, n, tags) == m[0] = h /\ \A k \in 1 .. n : m[k] = Adds(m[k - 1], tags[k])

LEMMA AddsRun ==
    ASSUME NEW n \in Nat, NEW tags, NEW h
    PROVE  \E m : AddsEach(m, h, n, tags)
<1> DEFINE S == { k \in 0 .. n : \E m : AddsEach(m, h, k, tags) }
<1>1. AddsEach([k \in 0 .. 0 |-> h], h, 0, tags)
  BY DEF AddsEach
<1>2. ASSUME NEW k \in 1 .. n, NEW g, AddsEach(g, h, k - 1, tags) PROVE \E m : AddsEach(m, h, k, tags)
  <2> DEFINE m == [i \in 0 .. k |-> IF i = k THEN Adds(g[k - 1], tags[k]) ELSE g[i]]
  <2>1. m[0] = h /\ m[k] = Adds(g[k - 1], tags[k]) /\ \A i \in 0 .. k - 1 : m[i] = g[i]
    BY <1>2 DEF AddsEach
  <2>2. \A i \in 1 .. k : i - 1 \in 0 .. k - 1 /\ (i # k => i \in 1 .. k - 1 /\ i \in 0 .. k - 1)
    OBVIOUS
  <2> HIDE DEF m
  <2>3. AddsEach(m, h, k, tags)
    BY <1>2, <2>1, <2>2 DEF AddsEach
  <2> QED BY <2>3
<1>3. 0 \in S /\ \A k \in 1 .. n : k - 1 \in S => k \in S
  BY <1>1, <1>2
<1>4. n \in S
  <2> HIDE DEF S
  <2> QED BY <1>3, UpTo
<1> QED BY <1>4

(* The last tag with a name tells.                                          *)
EffectEach(m, n, tags, key, field, v) ==
    \A k \in 1 .. n : Effects(m[k - 1], m[k], tags[k], key, field, v[k])
LastTold(m, n, tags, key, field, v) ==
    \A i \in 1 .. n : IsLast(tags, i, key) => field \in DOMAIN m[n] /\ m[n][field] = v[i]

LEMMA LastTells ==
    ASSUME NEW n \in Nat, NEW tags, DOMAIN tags = 1 .. n, NEW m, NEW key, NEW field, NEW v,
           EffectEach(m, n, tags, key, field, v)
    PROVE  LastTold(m, n, tags, key, field, v)
<1> SUFFICES ASSUME NEW i \in 1 .. n, IsLast(tags, i, key)
             PROVE  field \in DOMAIN m[n] /\ m[n][field] = v[i]
  BY DEF LastTold
<1> DEFINE P(k) == field \in DOMAIN m[k] /\ m[k][field] = v[i]
           S == { k \in 0 .. n : k >= i => P(k) }
<1>1. tags[i].key = key /\ \A j \in 1 .. n : j > i => tags[j].key # key
  BY DEF IsLast
<1>2. 0 \in S
  OBVIOUS
<1>3. ASSUME NEW k \in 1 .. n, k - 1 \in S PROVE k \in S
  <2>1. CASE k < i
    BY <2>1
  <2>2. CASE k = i
    <3>1. Effects(m[k - 1], m[k], tags[k], key, field, v[k])
      BY DEF EffectEach
    <3>2. P(k)
      BY <1>1, <2>2, <3>1 DEF Effects
    <3> QED BY <3>2
  <2>3. CASE k > i
    <3>1. Effects(m[k - 1], m[k], tags[k], key, field, v[k]) /\ tags[k].key # key
      BY <1>1, <2>3 DEF EffectEach
    <3>2. k - 1 >= i
      BY <2>3
    <3>3. P(k - 1)
      BY <1>3, <3>2
    <3>4. P(k)
      BY <3>1, <3>3 DEF Effects
    <3> QED BY <3>4
  <2> QED BY <2>1, <2>2, <2>3
<1>4. n \in S
  <2> HIDE DEF S
  <2> QED BY <1>2, <1>3, UpTo
<1> QED BY <1>4

(* The head of a file is in no tag's reach.                                 *)
LEMMA HeadStays ==
    ASSUME NEW n \in Nat, NEW m, \A k \in 1 .. n : HeadKept(m[k - 1], m[k]),
           NEW f \in {"hash", "cid", "port"}, f \in DOMAIN m[0]
    PROVE  f \in DOMAIN m[n] /\ m[n][f] = m[0][f]
<1> DEFINE S == { k \in 0 .. n : f \in DOMAIN m[k] /\ m[k][f] = m[0][f] }
<1>1. 0 \in S
  OBVIOUS
<1>2. ASSUME NEW k \in 1 .. n, k - 1 \in S PROVE k \in S
  <2>1. HeadKept(m[k - 1], m[k])
    OBVIOUS
  <2> QED BY <1>2, <2>1 DEF HeadKept
<1>3. n \in S
  <2> HIDE DEF S
  <2> QED BY <1>1, <1>2, UpTo
<1> QED BY <1>3

(* A file of a search result is read to its end, and says what its tags do. *)
EntryTells(f, g) ==
    /\ g["hash"] = f.hash /\ g["cid"] = f.cid /\ g["port"] = f.port
    /\ SaysOf(g, f)
EntryRead(f, g, q) == FileEntryParse(Cursor(Entry(f) \o q, <<>>)) = Cursor(q, g)

LEMMA EntryReads ==
    ASSUME NEW f \in Entries
    PROVE  /\ Entry(f) \in Bytes /\ Len(Entry(f)) > 0
           /\ \E g : EntryTells(f, g) /\ \A q \in Bytes : EntryRead(f, g, q)
<1> DEFINE a == f.hash
           b == f.cid
           c == f.port
           n == Len(f.tags)
           d == Le(n, 4)
           w == [k \in DOMAIN f.tags |-> Put(f.tags[k])]
           x == FlattenSeq(w)
           e == <<>>
           h == Holding(Holding(Holding(Holding(e, "hash", a), "cid", b), "port", c), "tc", d)
           l == <<U("hash", 16), U("cid", 4), U("port", 2), U("tc", 4)>>
<1>1. a \in Width(16) /\ b \in Width(4) /\ c \in Width(2) /\ f.tags \in Short(Tags, Beyond)
  BY DEF Entries
<1>2. a \in Bytes /\ Len(a) = 16 /\ b \in Bytes /\ Len(b) = 4 /\ c \in Bytes /\ Len(c) = 2
  <2> HIDE DEF a, b, c
  <2> QED BY <1>1, Widths
<1>3. n \in Nat /\ n < Beyond /\ DOMAIN f.tags = 1 .. n /\ \A k \in 1 .. n : f.tags[k] \in Tags
  <2>1. Beyond \in Nat
    BY DEF Beyond
  <2> QED BY <1>1, <2>1, ShortIs
<1>4. d \in Bytes /\ Len(d) = 4 /\ Num(d) = n
  <2> DEFINE z == 4
  <2>1. z \in Nat
    OBVIOUS
  <2> HIDE DEF n
  <2>2. Num(Le(n, 4)) = n
    BY <1>3, NumLe4
  <2> HIDE DEF z
  <2>3. Le(n, z) \in Bytes /\ Len(Le(n, z)) = z
    BY <1>3, <2>1, LeIs
  <2> QED BY <2>2, <2>3 DEF z
<1>5. \A k \in 1 .. n : w[k] = Put(f.tags[k]) /\ w[k] \in Bytes /\ Len(w[k]) > 0
  <2> HIDE DEF n
  <2>1. \A k \in 1 .. n : w[k] = Put(f.tags[k])
    BY <1>3
  <2> QED BY <1>3, <2>1, EntryTagDoes
<1>6. ArePieces(w, n)
  <2>1. DOMAIN w = 1 .. n /\ w = [k \in 1 .. n |-> w[k]]
    BY <1>3
  <2> HIDE DEF w, n
  <2> QED BY <1>3, <1>5, <2>1, Gathered
<1>7. x \in Bytes
  <2> HIDE DEF w, n
  <2> QED BY <1>3, <1>6, NotShorter DEF ArePieces
<1>8. Entry(f) = a \o (b \o (c \o (d \o x))) /\ b \o (c \o (d \o x)) \in Bytes /\ Entry(f) \in Bytes
  <2>1. Entry(f) = a \o b \o c \o d \o x
    BY DEF Entry
  <2> HIDE DEF a, b, c, d, x
  <2>2. Flat5(a, b, c, d, x)
    BY <1>2, <1>4, <1>7, FiveFlat
  <2> QED BY <2>1, <2>2 DEF Flat5
<1>9. Len(Entry(f)) > 0
  <2> DEFINE r == b \o (c \o (d \o x))
  <2>1. r \in Bytes /\ Entry(f) = a \o r
    BY <1>8
  <2>2. a \in Seq(Nat) /\ Len(a) = 16
    BY <1>2 DEF Bytes
  <2> HIDE DEF r, a
  <2>3. r \in Seq(Nat)
    BY <2>1 DEF Bytes
  <2>4. Len(a \o r) = Len(a) + Len(r) /\ Len(r) \in Nat
    BY <2>2, <2>3, ConcatProperties, LenProperties
  <2> QED BY <2>1, <2>2, <2>4
<1>10. /\ "tc" \in DOMAIN h /\ h["tc"] = d /\ "hash" \in DOMAIN h /\ h["hash"] = a
       /\ "cid" \in DOMAIN h /\ h["cid"] = b /\ "port" \in DOMAIN h /\ h["port"] = c
  <2> HIDE DEF a, b, c, d, e
  <2> QED BY Held, HeldBefore
<1> HIDE DEF h
<1>11. PICK m : AddsEach(m, h, n, f.tags)
  <2> HIDE DEF n
  <2> QED BY <1>3, AddsRun
<1>12. \A k \in 1 .. n : AllEffects(m[k - 1], m[k], f.tags[k])
  <2> HIDE DEF n
  <2> QED BY <1>3, <1>11, EntryTagDoes DEF AddsEach
<1> HIDE DEF w
<1>13. EntryTagReads(n, w, m)
  <2> HIDE DEF n
  <2>1. ASSUME NEW k \in 1 .. n, NEW z \in Bytes
        PROVE  EntryTagPass(Cursor(w[k] \o z, m[k - 1])) = Cursor(z, m[k])
    <3>1. f.tags[k] \in Tags /\ w[k] = Put(f.tags[k]) /\ m[k] = Adds(m[k - 1], f.tags[k])
      BY <1>3, <1>5, <1>11 DEF AddsEach
    <3>2. EntryTagPass(Cursor(Put(f.tags[k]) \o z, m[k - 1])) = Cursor(z, Adds(m[k - 1], f.tags[k]))
      BY <3>1, EntryTagDoes
    <3> QED BY <3>1, <3>2
  <2> QED BY <2>1 DEF EntryTagReads
<1> DEFINE g == m[n]
<1>14. ASSUME NEW q \in Bytes PROVE EntryRead(f, g, q)
  <2> DEFINE z == x \o q
             p == Entry(f) \o q
             k == Read(Cursor(p, e), l)
  <2>1. z \in Bytes /\ p = a \o (b \o (c \o (d \o z)))
    <3> HIDE DEF a, b, c, d, x
    <3>1. Then5(a, b, c, d, x, q)
      BY <1>2, <1>4, <1>7, FiveThen
    <3>2. x \o q \in Bytes
      BY <1>7, Closed
    <3> QED BY <1>8, <3>1, <3>2 DEF Then5
  <2>2. FileEntryParse(Cursor(p, e)) = IF k.ok THEN EntryTagLoop(k, Num(k.m["tc"])) ELSE k
    BY DEF FileEntryParse, EntryTagLoop, Repeat, Times, Then
  <2> HIDE DEF a, b, c, d, z, p, e
  <2>3. HeadRead(e, z, a, b, c, d)
    BY <1>2, <1>4, <2>1, HeadDoes
  <2>4. k = Cursor(z, h)
    BY <2>1, <2>3 DEF HeadRead, h
  <2> HIDE DEF k, n, x
  <2>5. k.ok /\ k.m = h
    BY <2>4, CursorKeeps
  <2>6. FileEntryParse(Cursor(p, e)) = EntryTagLoop(Cursor(z, h), n)
    BY <1>4, <1>10, <2>2, <2>4, <2>5
  <2>7. EntryTagLoop(Cursor(FlattenSeq(w) \o q, m[0]), n) = Cursor(q, m[n])
    BY <1>3, <1>6, <1>13, EntryTagReadsAll
  <2>8. m[0] = h
    BY <1>11 DEF AddsEach
  <2> QED BY <2>6, <2>7, <2>8 DEF EntryRead, p, e, z, x
<1>15. EntryTells(f, g)
  <2> HIDE DEF n
  <2>1. \A k \in 1 .. n : HeadKept(m[k - 1], m[k])
    BY <1>12 DEF AllEffects
  <2>2. g["hash"] = a /\ g["cid"] = b /\ g["port"] = c
    <3>1. m[0] = h
      BY <1>11 DEF AddsEach
    <3> HIDE DEF a, b, c
    <3>2. \A i \in {"hash", "cid", "port"} : i \in DOMAIN m[0] => m[n][i] = m[0][i]
      BY <1>3, <2>1, HeadStays
    <3> QED BY <1>10, <3>1, <3>2
  <2> DEFINE tags == f.tags
             v == [i \in 1 .. n |-> tags[i].val]
             u == [i \in 1 .. n |-> Widened(tags[i].val, 8)]
  <2>3. DOMAIN tags = 1 .. n
    BY <1>3
  <2>4. /\ EffectEach(m, n, tags, <<1>>, "name", v)
        /\ EffectEach(m, n, tags, <<2>>, "size", u)
        /\ EffectEach(m, n, tags, <<4>>, "format", v)
        /\ EffectEach(m, n, tags, Text.Artist, "artist", v)
    BY <1>12 DEF AllEffects, EffectEach
  <2>5. \A i \in 1 .. n : v[i] = tags[i].val /\ u[i] = Widened(tags[i].val, 8)
    OBVIOUS
  <2> HIDE DEF v, u, tags
  <2>6. LastTold(m, n, tags, <<1>>, "name", v)
    BY <1>3, <2>3, <2>4, LastTells
  <2>7. LastTold(m, n, tags, <<2>>, "size", u)
    BY <1>3, <2>3, <2>4, LastTells
  <2>8. LastTold(m, n, tags, <<4>>, "format", v)
    BY <1>3, <2>3, <2>4, LastTells
  <2>9. LastTold(m, n, tags, Text.Artist, "artist", v)
    BY <1>3, <2>3, <2>4, LastTells
  <2>10. /\ \A i \in 1 .. n : IsLast(tags, i, <<1>>) => "name" \in DOMAIN g /\ g["name"] = v[i]
         /\ \A i \in 1 .. n : IsLast(tags, i, <<2>>) => "size" \in DOMAIN g /\ g["size"] = u[i]
         /\ \A i \in 1 .. n : IsLast(tags, i, <<4>>) => "format" \in DOMAIN g /\ g["format"] = v[i]
         /\ \A i \in 1 .. n :
              IsLast(tags, i, Text.Artist) => "artist" \in DOMAIN g /\ g["artist"] = v[i]
    BY <2>6, <2>7, <2>8, <2>9 DEF LastTold
  <2> HIDE DEF g
  <2>11. SaysOf(g, f)
    BY <2>3, <2>5, <2>10, FtAre DEF SaysOf, Tells, tags
  <2> QED BY <2>2, <2>11 DEF EntryTells, a, b, c
<1> QED BY <1>8, <1>9, <1>14, <1>15

(* What a file of a search result becomes. *)
EntryHeld(f) == CHOOSE g : EntryTells(f, g) /\ \A q \in Bytes : EntryRead(f, g, q)

LEMMA EntryHeldIs ==
    ASSUME NEW f \in Entries
    PROVE  EntryTells(f, EntryHeld(f)) /\ \A q \in Bytes : EntryRead(f, EntryHeld(f), q)
BY EntryReads, Zenon DEF EntryHeld

(* A file that is read becomes the last of the list. *)
LEMMA FileListed ==
    ASSUME NEW f \in Entries, NEW z \in Bytes, NEW h, NEW a
    PROVE  FilePass(Cursor(Entry(f) \o z, Holding(h, "fs", a)))
             = Cursor(z, Holding(h, "fs", Append(a, EntryHeld(f))))
<1> DEFINE e == Cursor(Entry(f) \o z, Holding(h, "fs", a))
           v == EntryHeld(f)
<1>1. e.rest = Entry(f) \o z /\ e.m = Holding(h, "fs", a)
  BY CursorIs
<1> HIDE DEF e, v
<1>2. FileEntryParse(Fresh(e)) = Cursor(z, v)
  <2>1. EntryRead(f, v, z)
    BY EntryHeldIs DEF v
  <2> QED BY <1>1, <2>1 DEF Fresh, EntryRead
<1>3. Listed(e, "fs", Cursor(z, v)) = Cursor(z, [e.m EXCEPT !["fs"] = Append(@, v)])
  BY CursorIs DEF Listed, Then
<1>4. [Holding(h, "fs", a) EXCEPT !["fs"] = Append(@, v)] = Holding(h, "fs", Append(a, v))
  BY Relisted
<1>5. FilePass(e) = Cursor(z, Holding(h, "fs", Append(a, v)))
  BY <1>1, <1>2, <1>3, <1>4, Zenon DEF FilePass
<1> QED BY <1>5 DEF e, v

(* The files of a search result, one behind the other. *)
AreFiles(n, fs, w) == \A k \in 1 .. n : fs[k] \in Entries /\ w[k] = Entry(fs[k])
FilesAreRead(n, fs, w, q, h) ==
    FileLoop(With(Cursor(FlattenSeq(w) \o q, h), "fs", <<>>), n)
      = Cursor(q, Holding(h, "fs", [j \in 1 .. n |-> EntryHeld(fs[j])]))

LEMMA FilesRead ==
    ASSUME NEW n \in Nat, NEW fs, NEW w, ArePieces(w, n), AreFiles(n, fs, w),
           NEW q \in Bytes, NEW h
    PROVE  FilesAreRead(n, fs, w, q, h)
<1> DEFINE v == [j \in 1 .. n |-> EntryHeld(fs[j])]
           m == [k \in 0 .. n |-> Holding(h, "fs", [j \in 1 .. k |-> v[j]])]
           y == FlattenSeq(w) \o q
<1>1. ASSUME NEW k \in 1 .. n, NEW z \in Bytes
      PROVE  FilePass(Cursor(w[k] \o z, m[k - 1])) = Cursor(z, m[k])
  <2> DEFINE a == [j \in 1 .. k - 1 |-> v[j]]
  <2>1. m[k - 1] = Holding(h, "fs", a) /\ m[k] = Holding(h, "fs", [j \in 1 .. k |-> v[j]])
    OBVIOUS
  <2>2. v[k] = EntryHeld(fs[k]) /\ w[k] = Entry(fs[k]) /\ fs[k] \in Entries
    BY DEF AreFiles
  <2> HIDE DEF m, v
  <2>3. Append(a, v[k]) = [j \in 1 .. k |-> v[j]]
    <3> DEFINE i == k - 1
    <3>1. i \in Nat /\ i + 1 = k
      OBVIOUS
    <3> HIDE DEF i
    <3>2. Append([j \in 1 .. i |-> v[j]], v[i + 1]) = [j \in 1 .. i + 1 |-> v[j]]
      BY <3>1, Appended
    <3> QED BY <3>1, <3>2 DEF i
  <2> HIDE DEF a
  <2>4. FilePass(Cursor(Entry(fs[k]) \o z, Holding(h, "fs", a)))
          = Cursor(z, Holding(h, "fs", Append(a, EntryHeld(fs[k]))))
    BY <2>2, FileListed
  <2> QED BY <2>1, <2>2, <2>3, <2>4, Zenon
<1>2. m[0] = Holding(h, "fs", <<>>) /\ m[n] = Holding(h, "fs", [j \in 1 .. n |-> v[j]])
  OBVIOUS
<1>3. v = [j \in 1 .. n |-> v[j]]
  OBVIOUS
<1> HIDE DEF m, v
<1>4. FileLoop(Cursor(y, m[0]), n) = Cursor(q, m[n])
  <2>1. FileReads(n, w, m)
    BY <1>1 DEF FileReads
  <2> QED BY <2>1, FileReadsAll
<1>5. With(Cursor(y, h), "fs", <<>>) = Cursor(y, m[0])
  <2> HIDE DEF y
  <2> QED BY <1>2, WithIs
<1>6. FileLoop(With(Cursor(y, h), "fs", <<>>), n) = Cursor(q, Holding(h, "fs", v))
  BY <1>2, <1>3, <1>4, <1>5, Zenon
<1> QED BY <1>6 DEF y, v, FilesAreRead

(* Every file of a search result is read where it begins, and says what its *)
(* tags do.                                                                 *)
ResultSays(m, packed) ==
    \A i \in DOMAIN m.fs : SaysOf(Parsed(Packet(m, packed), packed).m["fs"][i], m.fs[i])

LEMMA ResultWell ==
    ASSUME NEW m \in [kind : {"SEARCHRESULT"}, fs : Short(Entries, Beyond)], NEW packed
    PROVE  Well(m, packed) /\ ResultSays(m, packed)
<1> DEFINE op == Op.SEARCHRESULT
           data == Packet(m, packed)
           n == Len(m.fs)
           w == [i \in DOMAIN m.fs |-> Entry(m.fs[i])]
           c == Le(n, 4)
           x == FlattenSeq(w)
           y == c \o x
           h == Holding(Opened(op), "rc", c)
           list == [j \in 1 .. n |-> EntryHeld(m.fs[j])]
           g == Holding(h, "fs", list)
           ops == {op, Op.OFFERFILES}
<1>1. m.kind = "SEARCHRESULT" /\ m.fs \in Short(Entries, Beyond) /\ Beyond \in Nat
  BY DEF Beyond
<1>2. n \in Nat /\ n < Beyond /\ DOMAIN m.fs = 1 .. n /\ \A i \in 1 .. n : m.fs[i] \in Entries
  BY <1>1, ShortIs
<1>3. \A i \in 1 .. n : w[i] = Entry(m.fs[i]) /\ w[i] \in Bytes /\ Len(w[i]) > 0
  <2> HIDE DEF n
  <2>1. \A i \in 1 .. n : w[i] = Entry(m.fs[i])
    BY <1>2
  <2>2. ASSUME NEW i \in 1 .. n PROVE Entry(m.fs[i]) \in Bytes /\ Len(Entry(m.fs[i])) > 0
    BY <1>2, EntryReads
  <2> HIDE DEF w
  <2> QED BY <2>1, <2>2
<1>4. ArePieces(w, n)
  <2>1. DOMAIN w = 1 .. n /\ w = [i \in 1 .. n |-> w[i]]
    BY <1>2
  <2> HIDE DEF w, n
  <2> QED BY <1>2, <1>3, <2>1, Gathered
<1>5. c \in Bytes /\ Len(c) = 4 /\ Num(c) = n
  <2> DEFINE z == 4
  <2>1. z \in Nat
    OBVIOUS
  <2> HIDE DEF n
  <2>2. Num(Le(n, 4)) = n
    BY <1>2, NumLe4
  <2> HIDE DEF z
  <2>3. Le(n, z) \in Bytes /\ Len(Le(n, z)) = z
    BY <1>2, <2>1, LeIs
  <2> QED BY <2>2, <2>3 DEF z
<1>6. x \in Bytes
  <2> HIDE DEF w, n
  <2> QED BY <1>2, <1>4, NotShorter DEF ArePieces
<1>7. Fields(m) = y /\ y \in Bytes
  <2>1. Fields(m) = c \o x
    BY <1>1 DEF Fields, ResultBytes
  <2> HIDE DEF c, x
  <2>2. y \in Bytes
    BY <1>5, <1>6, CutOf
  <2> QED BY <2>1, <2>2, Zenon
<1>8. op \in Nat /\ op \in ops /\ Op[m.kind] = op
  BY <1>1 DEF Op
<1>9. data = Wrap(<<op>> \o y, packed)
  <2> HIDE DEF y, op
  <2> QED BY <1>7, <1>8, PacketIs
<1> HIDE DEF data, y, ops
<1>10. Digit(data, 1) = op /\ Body(data, ops, packed) = Cursor(y, Opened(op))
  <2> HIDE DEF op
  <2> QED BY <1>7, <1>8, <1>9, BodyReads
<1> DEFINE b == Get(Body(data, ops, packed), U("rc", 4))
<1>11. Parsed(data, packed) = IF b.ok THEN FileLoop(With(b, "fs", <<>>), Num(b.m["rc"])) ELSE b
  <2>1. Parsed(data, packed) = FileListParse(data, packed)
    BY <1>10 DEF Parsed, Op
  <2> QED BY <2>1 DEF FileListParse, FileLoop, Repeat, Times, Then, ops
<1> HIDE DEF op, c, x
<1>12. b = Cursor(x, h)
  <2>1. Get(Cursor(c \o x, Opened(op)), U("rc", Len(c))) = Cursor(x, Holding(Opened(op), "rc", c))
    BY <1>5, <1>6, OneReads
  <2> QED BY <1>5, <1>10, <2>1 DEF y
<1>13. "rc" \in DOMAIN h /\ h["rc"] = c
  BY Held
<1> HIDE DEF b, h
<1>14. Parsed(data, packed) = FileLoop(With(Cursor(x, h), "fs", <<>>), n)
  <2> HIDE DEF n
  <2>1. b.ok /\ b.m = h
    BY <1>12, CursorIs
  <2>2. Parsed(data, packed) = FileLoop(With(b, "fs", <<>>), Num(c))
    BY <1>11, <1>13, <2>1
  <2> QED BY <1>5, <1>12, <2>2, Zenon
<1>15. Parsed(data, packed) = Cursor(<<>>, g)
  <2> DEFINE e == <<>>
             fs == m.fs
  <2>1. e \in Bytes /\ x \o e = x
    BY <1>6, NothingBehind
  <2>2. AreFiles(n, fs, w)
    BY <1>2, <1>3 DEF AreFiles
  <2> DEFINE s == [j \in 1 .. n |-> EntryHeld(fs[j])]
  <2>4. g = Holding(h, "fs", s)
    BY DEF fs
  <2> HIDE DEF n, w, e, fs, g, list
  <2>3. FilesAreRead(n, fs, w, e, h)
    BY <1>2, <1>4, <2>1, <2>2, FilesRead
  <2>5. FileLoop(With(Cursor(x, h), "fs", <<>>), n) = Cursor(e, g)
    BY <2>1, <2>3, <2>4 DEF x, s, FilesAreRead
  <2> QED BY <1>14, <2>5 DEF e
<1>16. g["fs"] = list
  BY Held
<1>17. DOMAIN list = 1 .. n /\ \A i \in 1 .. n : list[i] = EntryHeld(m.fs[i])
  OBVIOUS
<1>18. Len(list) = n
  BY <1>2, <1>17, LenProperties, IsASeq
<1>19. \A i \in 1 .. n : EntryTells(m.fs[i], list[i])
  <2> HIDE DEF list, n
  <2> QED BY <1>2, <1>17, EntryHeldIs
<1>20. InStep(list, m.fs)
  <2>1. Len(list) = Len(m.fs)
    BY <1>18
  <2> HIDE DEF list, n
  <2> QED BY <1>2, <1>19, <2>1 DEF InStep, EntryTells
<1>21. \A i \in DOMAIN m.fs : SaysOf(list[i], m.fs[i])
  <2> HIDE DEF list, n
  <2> QED BY <1>2, <1>19 DEF EntryTells
<1> HIDE DEF g, list
<1>22. Parsed(data, packed).ok /\ Parsed(data, packed).rest = <<>> /\ Parsed(data, packed).m = g
  BY <1>15, CursorIs
<1>23. Reads(Parsed(data, packed), m)
  BY <1>1, <1>16, <1>20, <1>22 DEF Reads
<1>24. Well(m, packed)
  BY <1>7, <1>22, <1>23 DEF Well, data
<1>25. ResultSays(m, packed)
  BY <1>16, <1>21, <1>22 DEF ResultSays, data
<1> QED BY <1>24, <1>25

(* A hash that set(16) could not make throws, whatever the packet.          *)
LEMMA ThrownReads ==
    ASSUME NEW d
    PROVE  /\ \A f : ~Get(Throw(d), f).ok
           /\ ~Read(Throw(d), <<U("hash", 16), U("start", 4), U("end", 4)>>).ok
           /\ ~Read(Throw(d), <<U("hash", 16), U("cid", 4), U("port", 2), U("tc", 4)>>).ok
<1> DEFINE t == Throw(d)
<1>1. ~t.ok
  BY ThrowIs
<1> HIDE DEF t
<1>2. \A f : Get(t, f) = t
  BY <1>1 DEF Get, Then
<1>3. ASSUME NEW f, NEW g, NEW h PROVE ~Read(t, <<f, g, h>>).ok
  <2>1. Read(t, <<f, g, h>>) = Get(Get(Get(t, f), g), h)
    BY ReadThree
  <2>2. Get(Get(Get(t, f), g), h) = t
    BY <1>2
  <2> QED BY <1>1, <2>1, <2>2, Zenon
<1>4. ASSUME NEW f, NEW g, NEW h, NEW i PROVE ~Read(t, <<f, g, h, i>>).ok
  <2>1. Read(t, <<f, g, h, i>>) = Get(Get(Get(Get(t, f), g), h), i)
    BY ReadFour
  <2>2. Get(Get(Get(Get(t, f), g), h), i) = t
    BY <1>2
  <2> QED BY <1>1, <2>1, <2>2, Zenon
<1> QED BY <1>1, <1>2, <1>3, <1>4, Zenon DEF t

LEMMA UnsetThrows ==
    ASSUME ~LengthSets, NEW data, NEW packed,
           Digit(data, 1) \in {Op.HELLOANSWER, Op.SENDINGPART}
    PROVE  ~Parsed(data, packed).ok
<1>1. CASE Digit(data, 1) = Op.SENDINGPART
  <2> DEFINE b == Body(data, {Op.SENDINGPART}, packed)
             r == Read(Throw(b), <<U("hash", 16), U("start", 4), U("end", 4)>>)
  <2>1. Parsed(data, packed) = SendingPartParse(data, packed)
    BY <1>1 DEF Parsed, Op
  <2>2. Parsed(data, packed) = IF r.ok THEN Get(r, U("part", Span(r.m["start"], r.m["end"]))) ELSE r
    BY <2>1 DEF SendingPartParse, SetHash, Then
  <2>3. ~r.ok
    BY ThrownReads
  <2> HIDE DEF r
  <2> QED BY <2>2, <2>3
<1>2. CASE Digit(data, 1) = Op.HELLOANSWER
  <2> DEFINE b == Body(data, {Op.HELLOANSWER}, packed)
             r == Read(Throw(b), <<U("hash", 16), U("cid", 4), U("port", 2), U("tc", 4)>>)
             skip == TRUE
  <2>1. Parsed(data, packed) = HelloParse(data, packed)
    BY <1>2 DEF Parsed, Op
  <2>2. Parsed(data, packed)
          = IF r.ok THEN Read(ReadTags(r, Num(r.m["tc"]), HelloTexts, HelloWords, skip),
                              <<B("saddr", 4), U("sport", 2)>>) ELSE r
    BY <2>1 DEF HelloParse, SetHash, Then, ReadTags, Repeat, Times
  <2>3. ~r.ok
    BY ThrownReads
  <2> HIDE DEF r
  <2> QED BY <2>2, <2>3
<1> QED BY <1>1, <1>2

(* The operations of what comes in, none of them with a parse that asks how *)
(* much of the packet is left.                                              *)
Operation(m) ==
    /\ Op[m.kind] \in Nat /\ Op[m.kind] \notin {Op.FILESTATUS, Op.FILEREQANSNOFIL}
    /\ m.kind = "HELLOANSWER" => Op[m.kind] = Op.HELLOANSWER
    /\ m.kind = "SENDINGPART" => Op[m.kind] = Op.SENDINGPART

IncomingKinds ==
    {"SERVERMESSAGE", "IDCHANGE", "SERVERSTATUS", "CALLBACKREQUESTED", "SENDINGPART",
     "SERVERLIST", "FOUNDSOURCES_OBFU", "SEARCHRESULT", "HELLOANSWER"}

LEMMA OperationIs ==
    ASSUME NEW m, m.kind \in IncomingKinds
    PROVE  Operation(m)
BY DEF Operation, IncomingKinds, Op

LEMMA KindOf ==
    ASSUME NEW m \in Receivable
    PROVE  m.kind \in IncomingKinds
BY DEF Receivable, ServerKinds, SendingParts, IncomingKinds

(* Every message that comes in has bytes for its fields, and is read whole  *)
(* and as it was meant.                                                     *)
LEMMA IncomingWell ==
    ASSUME NEW m \in Receivable, NEW packed
    PROVE  /\ Fields(m) \in Bytes
           /\ LengthSets \/ m.kind \notin {"HELLOANSWER", "SENDINGPART"} => Well(m, packed)
           /\ m.kind = "SEARCHRESULT" => ResultSays(m, packed)
<1>1. CASE m \in [kind : {"SERVERMESSAGE"}, msg : Below(256 * 256)]
  <2>1. Well(m, packed) /\ m.kind # "SEARCHRESULT"
    BY <1>1, TextWell
  <2> QED BY <2>1 DEF Well
<1>2. CASE m \in [kind : {"IDCHANGE"}, id : Width(4), bitmap : Width(4)]
  <2>1. Well(m, packed) /\ m.kind # "SEARCHRESULT"
    BY <1>2, IdWell
  <2> QED BY <2>1 DEF Well
<1>3. CASE m \in [kind : {"SERVERSTATUS"}, userc : Width(4), filec : Width(4)]
  <2>1. Well(m, packed) /\ m.kind # "SEARCHRESULT"
    BY <1>3, StatusWell
  <2> QED BY <2>1 DEF Well
<1>4. CASE m \in [kind : {"CALLBACKREQUESTED"}, first : Width(4), second : Width(2)]
  <2>1. Well(m, packed) /\ m.kind # "SEARCHRESULT"
    BY <1>4, CalledWell
  <2> QED BY <2>1 DEF Well
<1>5. CASE m \in SendingParts
  <2>1. Fields(m) \in Bytes /\ m.kind = "SENDINGPART"
    BY <1>5, PartFields DEF SendingParts
  <2>2. LengthSets => Well(m, packed)
    BY <1>5, PartWell
  <2> QED BY <2>1, <2>2
<1>6. CASE m \in [kind : {"SERVERLIST"}, srvs : Servers(Width(1))]
  <2>1. Well(m, packed) /\ m.kind # "SEARCHRESULT"
    BY <1>6, ServersWell
  <2> QED BY <2>1 DEF Well
<1>7. CASE m \in [kind : {"FOUNDSOURCES_OBFU"}, hash : Width(16), srvs : Servers([1 .. 1 -> 0 .. 7])]
  <2>1. Well(m, packed) /\ m.kind # "SEARCHRESULT"
    BY <1>7, SourcesWell
  <2> QED BY <2>1 DEF Well
<1>8. CASE m \in [kind : {"SEARCHRESULT"}, fs : Short(Entries, Beyond)]
  <2>1. Well(m, packed) /\ ResultSays(m, packed)
    BY <1>8, ResultWell
  <2> QED BY <2>1 DEF Well
<1>9. CASE m \in Answers
  <2>1. Fields(m) \in Bytes /\ m.kind = "HELLOANSWER"
    BY <1>9, HelloFields DEF Answers
  <2>2. LengthSets => Well(m, packed)
    BY <1>9, HelloWell
  <2> QED BY <2>1, <2>2
<1> QED BY <1>1, <1>2, <1>3, <1>4, <1>5, <1>6, <1>7, <1>8, <1>9
        DEF Receivable, ServerKinds, Answers

(* A packet that was cut is refused: were it read, the whole packet would   *)
(* be read with what was cut off left over.                                 *)
LEMMA CutRefused ==
    ASSUME NEW m \in Receivable, m.kind # "IDCHANGE", NEW packed, ~packed,
           NEW n \in 1 .. Len(Packet(m, packed)) - 1
    PROVE  ~Parsed(SubSeq(Packet(m, packed), 1, n), packed).ok
<1> DEFINE op == Op[m.kind]
           p == Packet(m, packed)
           cut == SubSeq(p, 1, n)
<1>1. Fields(m) \in Bytes
  BY IncomingWell
<1>2. Operation(m)
  BY KindOf, OperationIs
<1>3. p = <<op>> \o Fields(m) /\ p \in Bytes /\ p[1] = op
  <2> DEFINE f == Fields(m)
  <2>1. p = <<op>> \o f
    BY DEF Packet, Documented
  <2>2. op \in Nat
    BY <1>2 DEF Operation
  <2> HIDE DEF op, f, p
  <2>3. <<op>> \in Bytes /\ Len(<<op>>) = 1 /\ <<op>>[1] = op
    BY <2>2 DEF Bytes
  <2> DEFINE a == <<op>>
  <2> HIDE DEF a
  <2>4. a \in Seq(Nat) /\ f \in Seq(Nat) /\ Len(a) = 1
    BY <1>1, <2>3 DEF Bytes, a, f
  <2>5. (a \o f)[1] = a[1] /\ a \o f \in Bytes
    <3>1. Len(f) \in Nat
      BY <2>4, LenProperties
    <3>2. 1 \in 1 .. Len(a) + Len(f) /\ 1 <= Len(a)
      BY <2>4, <3>1
    <3> QED BY <2>4, <3>2, ConcatProperties DEF Bytes
  <2> QED BY <2>1, <2>3, <2>5 DEF a, f
<1> HIDE DEF p
<1>4. n \in Nat /\ n > 0 /\ n < Len(p) /\ Len(p) \in Nat
  <2>1. Len(p) \in Nat
    BY <1>3, LenProperties DEF Bytes
  <2> QED BY <2>1 DEF p
<1>5. PICK a \in Bytes, x \in Bytes : p = a \o x /\ Len(a) = n
  <2>1. n \in Nat /\ n <= Len(p) /\ p \in Bytes
    BY <1>3, <1>4
  <2>2. \E a, x \in Bytes : p = a \o x /\ Len(a) = n
    BY <2>1, CutAt, Zenon
  <2> QED BY <2>2
<1>6. cut = a /\ Len(p) = Len(a) + Len(x) /\ Len(x) \in Nat
  <2>1. SubSeq(a \o x, 1, Len(a)) = a /\ Len(a \o x) = Len(a) + Len(x)
    BY CutOf
  <2>2. Len(x) \in Nat
    BY LenProperties DEF Bytes
  <2> QED BY <1>5, <2>1, <2>2
<1>7. Len(a) > 0 /\ Len(x) > 0
  BY <1>4, <1>5, <1>6
<1>8. a[1] = op /\ Digit(a, 1) = op
  <2>1. a \in Seq(Nat) /\ x \in Seq(Nat) /\ 1 \in 1 .. Len(a)
    BY <1>4, <1>5 DEF Bytes
  <2>2. 1 \in 1 .. Len(a) + Len(x) /\ 1 <= Len(a)
    BY <1>4, <1>5, <1>6
  <2>3. (a \o x)[1] = a[1]
    BY <2>1, <2>2, ConcatProperties
  <2>4. 1 \in DOMAIN a
    BY <2>1, LenProperties
  <2> HIDE DEF op
  <2> QED BY <1>3, <1>5, <2>3, <2>4 DEF Digit
<1> DEFINE d == Parsed(a, packed)
           e == Parsed(p, packed)
<1>9. CASE LengthSets \/ m.kind \notin {"HELLOANSWER", "SENDINGPART"}
  <2>1. e.rest = <<>>
    <3>1. Well(m, packed)
      BY <1>9, IncomingWell
    <3> QED BY <3>1 DEF Well, p
  <2>2. Carries(d, e, x)
    <3>1. a[1] \notin {Op.FILESTATUS, Op.FILEREQANSNOFIL}
      BY <1>2, <1>8 DEF Operation
    <3> QED BY <1>5, <1>7, <3>1, ParsedCarries
  <2> HIDE DEF d, e
  <2>3. ASSUME d.ok PROVE FALSE
    <3>1. e = Cursor(d.rest \o x, d.m) /\ d.rest \in Bytes
      BY <2>2, <2>3, LongerIs
    <3>2. e.rest = d.rest \o x
      BY <3>1, CursorIs
    <3> DEFINE r == d.rest
    <3> HIDE DEF r
    <3>3. Len(r \o x) = Len(r) + Len(x) /\ Len(r) \in Nat
      BY <3>1, CutOf, LenProperties DEF Bytes, r
    <3>4. Len(r \o x) > 0
      BY <1>6, <1>7, <3>3
    <3>5. Len(<<>>) = 0
      OBVIOUS
    <3> QED BY <2>1, <3>2, <3>4, <3>5 DEF r
  <2> QED BY <1>6, <2>3 DEF d, p
<1>10. CASE ~LengthSets /\ m.kind \in {"HELLOANSWER", "SENDINGPART"}
  <2>1. Digit(a, 1) \in {Op.HELLOANSWER, Op.SENDINGPART}
    BY <1>2, <1>8, <1>10 DEF Operation
  <2>2. ~d.ok
    BY <1>10, <2>1, UnsetThrows
  <2> QED BY <1>6, <2>2 DEF p
<1> QED BY <1>9, <1>10

-------------------------------------------------------------------------------
(* What is on the wire is a message of the instance, in the bytes its       *)
(* writer gives it, and got is what the reader makes of just these bytes.   *)
OnTheWire ==
    /\ link.way \in {"idle", "out", "in"}
    /\ link.way = "out" => /\ link.m \in Sent /\ link.data = WrittenBy(link.m)
                           /\ got = ReadThere(link.m, link.data)
    /\ link.way = "in" => /\ link.m \in Came /\ link.packed \in BOOLEAN
                          /\ got = Parsed(Packet(link.m, link.packed), link.packed)

(* This holds whatever was sent and whatever came.                          *)
THEOREM WireAlways == Spec => []OnTheWire
<1>1. Init => OnTheWire
  BY DEF Init, Idle, OnTheWire
<1>2. OnTheWire /\ [Next]_vars => OnTheWire'
  <2> SUFFICES ASSUME OnTheWire, [Next]_vars PROVE OnTheWire'
    OBVIOUS
  <2>1. CASE Send
    <3>1. PICK m \in Sent : /\ link' = [way |-> "out", m |-> m, data |-> WrittenBy(m)]
                            /\ got' = ReadThere(m, link'.data)
      BY <2>1 DEF Send
    <3>2. link'.way = "out" /\ link'.m = m /\ link'.data = WrittenBy(m)
      BY <3>1
    <3> QED BY <3>1, <3>2 DEF OnTheWire
  <2>2. CASE Come
    <3>1. PICK m \in Came, packed \in BOOLEAN :
             /\ link' = [way |-> "in", m |-> m, packed |-> packed]
             /\ got' = Parsed(Packet(m, packed), packed)
      BY <2>2 DEF Come
    <3>2. link'.way = "in" /\ link'.m = m /\ link'.packed = packed
      BY <3>1
    <3> QED BY <3>1, <3>2 DEF OnTheWire
  <2>3. CASE Over
    BY <2>3 DEF Over, OnTheWire
  <2>4. CASE UNCHANGED vars
    BY <2>4 DEF vars, OnTheWire
  <2> QED BY <2>1, <2>2, <2>3, <2>4 DEF Next
<1> QED BY <1>1, <1>2, PTL DEF Spec

(* A message that was cut short anywhere is refused, whatever it is and     *)
(* however long: no handler runs on half of its fields.                     *)
THEOREM CutAlwaysRefused == Spec => []CutIsRefused
<1>1. OnTheWire => CutIsRefused
  <2> SUFFICES ASSUME OnTheWire, link.way = "in", ~link.packed, link.m.kind # "IDCHANGE",
                      NEW n \in 1 .. Len(Packet(link.m, FALSE)) - 1
               PROVE  ~Parsed(SubSeq(Packet(link.m, FALSE), 1, n), FALSE).ok
    BY DEF CutIsRefused
  <2> DEFINE m == link.m
             packed == FALSE
  <2>1. m \in Receivable /\ m.kind # "IDCHANGE"
    BY LinkAssumption DEF OnTheWire
  <2>2. n \in 1 .. Len(Packet(m, packed)) - 1 /\ ~packed
    OBVIOUS
  <2> HIDE DEF m, packed
  <2>3. ~Parsed(SubSeq(Packet(m, packed), 1, n), packed).ok
    BY <2>1, <2>2, CutRefused
  <2> QED BY <2>3 DEF m, packed
<1> QED BY <1>1, WireAlways, PTL

(* The two parses that begin with set(16), on what opens with their         *)
(* operation: plain or packed, it throws if set(16) makes no hash.          *)
LEMMA UnsetRefused ==
    ASSUME ~LengthSets, NEW m \in Receivable, m.kind \in {"HELLOANSWER", "SENDINGPART"},
           NEW packed
    PROVE  ~Parsed(Packet(m, packed), packed).ok
<1> DEFINE op == Op[m.kind]
           y == Fields(m)
<1>1. y \in Bytes
  BY IncomingWell
<1>2. op \in Nat /\ op \in {Op.HELLOANSWER, Op.SENDINGPART}
  BY KindOf, OperationIs DEF Operation
<1> DEFINE ops == {op}
           data == Wrap(<<op>> \o y, packed)
<1>3. Packet(m, packed) = data
  BY PacketIs
<1>4. Digit(data, 1) = op
  <2> HIDE DEF y
  <2>1. op \in ops
    OBVIOUS
  <2> HIDE DEF op, ops
  <2> QED BY <1>1, <1>2, <2>1, BodyReads
<1> HIDE DEF op, data
<1> QED BY <1>2, <1>3, <1>4, UnsetThrows

(* A greeting or a block that came in and was refused, set(16) making no    *)
(* hash: what the program as it is compiled does with each of them.         *)
UnsetCame ==
    /\ ~LengthSets /\ link.way = "in" /\ ~got.ok
    /\ link.m.kind \in {"HELLOANSWER", "SENDINGPART"}

(* What a server or a peer writes as ed2k_opcodes.h says, plain or packed,  *)
(* with no text in a tag longer than the buffer for it, is read without an  *)
(* exception and without losing a field: as the program is compiled, where  *)
(* set(16) makes no hash, all but the greetings and the blocks, which all   *)
(* throw, and these too if it made one.                                     *)
THEOREM IncomingIsRead == Spec => [](UnsetCame \/ ReadAsDocumented)
<1>1. OnTheWire => UnsetCame \/ ReadAsDocumented
  <2> SUFFICES ASSUME OnTheWire, link.way = "in"
               PROVE  UnsetCame \/ (got.ok /\ Reads(got, link.m))
    BY DEF ReadAsDocumented
  <2> DEFINE m == link.m
             packed == link.packed
  <2>1. m \in Receivable /\ got = Parsed(Packet(m, packed), packed)
    BY LinkAssumption DEF OnTheWire
  <2>2. link.way = "in" /\ link.m = m
    OBVIOUS
  <2> HIDE DEF m, packed
  <2>3. CASE LengthSets \/ m.kind \notin {"HELLOANSWER", "SENDINGPART"}
    <3>1. Well(m, packed)
      BY <2>1, <2>3, IncomingWell
    <3> QED BY <2>1, <2>2, <3>1 DEF Well
  <2>4. CASE ~LengthSets /\ m.kind \in {"HELLOANSWER", "SENDINGPART"}
    <3>1. ~Parsed(Packet(m, packed), packed).ok
      BY <2>1, <2>4, UnsetRefused
    <3> QED BY <2>1, <2>2, <2>4, <3>1 DEF UnsetCame
  <2> QED BY <2>3, <2>4
<1> QED BY <1>1, WireAlways, PTL

(* What a tag says of a file of a search result is what the file gets,      *)
(* whatever the tags before it and behind it, and whatever the files.       *)
THEOREM ResultAlwaysMeans == Spec => []ResultMeansWhatItSays
<1>1. OnTheWire => ResultMeansWhatItSays
  <2> SUFFICES ASSUME OnTheWire, link.way = "in", link.m.kind = "SEARCHRESULT"
               PROVE  \A i \in DOMAIN link.m.fs : SaysOf(got.m["fs"][i], link.m.fs[i])
    BY DEF ResultMeansWhatItSays
  <2> DEFINE m == link.m
             packed == link.packed
  <2>1. m \in Receivable /\ got = Parsed(Packet(m, packed), packed) /\ m.kind = "SEARCHRESULT"
    BY LinkAssumption DEF OnTheWire
  <2> HIDE DEF m, packed
  <2>2. ResultSays(m, packed)
    BY <2>1, IncomingWell
  <2> QED BY <2>1, <2>2 DEF ResultSays, m
<1> QED BY <1>1, WireAlways, PTL

-------------------------------------------------------------------------------
(* Nothing, in any width. *)
LEMMA LeZero ==
    ASSUME NEW w \in Nat
    PROVE  Le(0, w) = [i \in 1 .. w |-> 0]
<1>1. 0 % 256 = 0 /\ 0 \div 256 = 0
  OBVIOUS
<1> QED BY <1>1 DEF Le

(* A size that is not larger than the largest of old clients has nothing in *)
(* its upper half.                                                          *)
LEMMA NotLarger ==
    ASSUME NEW s \in Width(8), ~Larger(s, OldMax)
    PROVE  s[5] = 0 /\ s[6] = 0 /\ s[7] = 0 /\ s[8] = 0
<1>1. DOMAIN s = 1 .. 8 /\ \A i \in 1 .. 8 : s[i] \in Nat
  BY DEF Width
<1>2. \A i \in 5 .. 8 : OldMax[i] = 0
  BY MessagesAssumption
<1>3. \A i \in 1 .. 8 : ~(s[i] > OldMax[i] /\ \A j \in 1 .. 8 : j > i => s[j] = OldMax[j])
  BY <1>1 DEF Larger
<1>4. s[8] = 0
  BY <1>1, <1>2, <1>3
<1>5. s[7] = 0
  BY <1>1, <1>2, <1>3, <1>4
<1>6. s[6] = 0
  BY <1>1, <1>2, <1>3, <1>4, <1>5
<1>7. s[5] = 0
  <2>1. \A j \in 1 .. 8 : j > 5 => s[j] = OldMax[j]
    BY <1>2, <1>4, <1>5, <1>6
  <2> QED BY <1>1, <1>2, <1>3, <2>1
<1> QED BY <1>4, <1>5, <1>6, <1>7

(* Such a size is its lower half and nothing behind it, and has something   *)
(* in its lower half if it has something at all.                            *)
LEMMA LowHalf ==
    ASSUME NEW s \in Width(8), s # Le(0, 8), ~Larger(s, OldMax)
    PROVE  /\ SubSeq(s, 1, 4) \in Bytes /\ Len(SubSeq(s, 1, 4)) = 4
           /\ SubSeq(s, 1, 4) # Le(0, 4) /\ Widened(SubSeq(s, 1, 4), 8) = s
<1> DEFINE low == SubSeq(s, 1, 4)
           o == Le(0, 4)
<1>1. s \in Seq(Nat) /\ Len(s) = 8 /\ s = [i \in 1 .. 8 |-> s[i]]
  BY Widths DEF Bytes, Width
<1>2. low \in Seq(Nat) /\ Len(low) = 4 /\ \A i \in 1 .. 4 : low[i] = s[i]
  <2> DEFINE u == 0
             k == 4
  <2>1. u \in Nat /\ k \in Nat /\ u + k <= Len(s) /\ u + 1 = 1 /\ u + k = 4
    BY <1>1
  <2> HIDE DEF u, k
  <2>2. /\ SubSeq(s, u + 1, u + k) \in Seq(Nat) /\ Len(SubSeq(s, u + 1, u + k)) = k
        /\ \A i \in 1 .. k : SubSeq(s, u + 1, u + k)[i] = s[u + i]
    BY <1>1, <2>1, Slice
  <2>3. low \in Seq(Nat) /\ Len(low) = k /\ \A i \in 1 .. k : low[i] = s[u + i]
    BY <2>1, <2>2
  <2> HIDE DEF low
  <2> QED BY <2>3 DEF u, k
<1> HIDE DEF low
<1>3. o \in Seq(Nat) /\ Len(o) = 4 /\ \A i \in 1 .. 4 : o[i] = 0
  <2>1. o = [i \in 1 .. 4 |-> 0]
    BY LeZero
  <2> HIDE DEF o
  <2>2. [i \in 1 .. 4 |-> 0] \in Seq(Nat)
    BY IsASeq
  <2> QED BY <2>1, <2>2, LenProperties
<1>4. s[5] = 0 /\ s[6] = 0 /\ s[7] = 0 /\ s[8] = 0
  BY NotLarger
<1> HIDE DEF o
<1>5. low \o o = s
  <2>1. low \o o \in Seq(Nat) /\ Len(low \o o) = Len(low) + Len(o)
    BY <1>2, <1>3, ConcatProperties, Zenon
  <2>2. \A i \in 1 .. Len(low) + Len(o) : (low \o o)[i] = IF i <= Len(low) THEN low[i] ELSE o[i - Len(low)]
    BY <1>2, <1>3, ConcatProperties, Zenon
  <2> DEFINE y == low \o o
  <2>9. y \in Seq(Nat) /\ Len(y) = Len(low) + Len(o)
    BY <2>1
  <2>10. \A i \in 1 .. Len(low) + Len(o) : y[i] = IF i <= Len(low) THEN low[i] ELSE o[i - Len(low)]
    BY <2>2
  <2> HIDE DEF y
  <2>11. Len(low) = 4 /\ Len(o) = 4 /\ 4 + 4 = 8
    BY <1>2, <1>3
  <2>3. \A i \in 1 .. 8 : y[i] = IF i <= 4 THEN low[i] ELSE o[i - 4]
    BY <2>10, <2>11
  <2>4. \A i \in 5 .. 8 : i - 4 \in 1 .. 4 /\ (i = 5 \/ i = 6 \/ i = 7 \/ i = 8)
    OBVIOUS
  <2>5. \A i \in 1 .. 8 : i <= 4 => i \in 1 .. 4
    OBVIOUS
  <2>6. \A i \in 1 .. 8 : ~(i <= 4) => i \in 5 .. 8
    OBVIOUS
  <2>7. \A i \in 1 .. 8 : y[i] = s[i]
    BY <1>2, <1>3, <1>4, <2>3, <2>4, <2>5, <2>6
  <2>8. y \in Seq(Nat) /\ Len(y) = 8
    BY <2>9, <2>11
  <2> QED BY <1>1, <2>7, <2>8, SeqEqual DEF y
<1>6. low # o
  <2> SUFFICES ASSUME low = o PROVE FALSE
    OBVIOUS
  <2>1. \A i \in 1 .. 8 : s[i] = 0
    <3>1. \A i \in 1 .. 8 : i \in 1 .. 4 \/ i = 5 \/ i = 6 \/ i = 7 \/ i = 8
      OBVIOUS
    <3> QED BY <1>2, <1>3, <1>4, <3>1
  <2>2. Le(0, 8) = [i \in 1 .. 8 |-> 0]
    BY LeZero
  <2> QED BY <1>1, <2>1, <2>2
<1>7. Widened(low, 8) = low \o o
  <2>1. 8 - Len(low) = 4
    BY <1>2
  <2> QED BY <2>1 DEF Widened, o
<1> QED BY <1>2, <1>3, <1>5, <1>6, <1>7 DEF Bytes, low, o

(* The question for the sources of a file. *)
Questions == [kind : {"GETSOURCES_OBFU"}, hash : Width(16), size : Width(8) \ {Le(0, 8)}]

(* What is read to the end, hash and size among it. *)
LEMMA DoneWhole ==
    ASSUME NEW d, NEW k, NEW m, d.ok, d.rest = <<>>, d.m = k,
           "size" \in DOMAIN k, "hash" \in DOMAIN k, k["size"] = m.size, k["hash"] = m.hash
    PROVE  ReadWhole(d, m, {"hash", "size"})
BY DEF ReadWhole, Find

(* The size is read as it was put, in four bytes or in eight.               *)
LEMMA SizeIsRead ==
    ASSUME NEW m \in Questions
    PROVE  ReadWhole(ParsedThere(GetSourceEncode(m), FALSE), m, {"hash", "size"})
<1> DEFINE op == Op.GETSOURCES_OBFU
           packed == FALSE
           data == GetSourceEncode(m)
           u == m.hash
           s == m.size
           o == Le(0, 4)
           low == SubSeq(s, 1, 4)
           ops == {op}
           b == Body(data, ops, packed)
           l == <<U("hash", 16), U("size", 4)>>
           r == Read(b, l)
           e == <<>>
           h(p) == Holding(Holding(Opened(op), "hash", u), "size", p)
           d == ParsedThere(data, packed)
<1>1. u \in Width(16) /\ s \in Width(8) /\ s # Le(0, 8)
  BY DEF Questions
<1>2. u \in Bytes /\ Len(u) = 16 /\ s \in Bytes /\ Len(s) = 8 /\ e \in Bytes
  <2>1. e \in Bytes
    BY <1>1, Widths, NothingBehind
  <2> HIDE DEF u, s, e
  <2> QED BY <1>1, <2>1, Widths
<1>3. op \in Nat /\ op \in ops
  BY DEF Op
<1>4. o \in Bytes /\ Len(o) = 4
  <2> DEFINE w == 4
             z == 0
  <2>1. w \in Nat /\ z \in Nat
    OBVIOUS
  <2> HIDE DEF w, z
  <2>2. Le(z, w) \in Bytes /\ Len(Le(z, w)) = w
    BY <2>1, LeIs
  <2> QED BY <2>2 DEF w, z
<1>5. data = (<<op>> \o u) \o (IF Larger(s, OldMax) THEN o \o s ELSE low)
  BY DEF GetSourceEncode
<1>6. Digit(data, 1) = op =>
        d = IF r.ok THEN (IF r.m["size"] = o THEN Get(r, U("size", 8))
                          ELSE With(r, "size", Widened(r.m["size"], 8))) ELSE r
  <2>1. ASSUME Digit(data, 1) = op PROVE d = GetSourceParse(data, packed)
    <3> HIDE DEF data, packed
    <3>1. Digit(data, 1) = 35
      BY <2>1 DEF Op
    <3> QED BY <3>1 DEF ParsedThere, Op
  <2>2. GetSourceParse(data, packed)
          = IF r.ok THEN (IF r.m["size"] = o THEN Get(r, U("size", 8))
                          ELSE With(r, "size", Widened(r.m["size"], 8))) ELSE r
    BY DEF GetSourceParse, Then
  <2> HIDE DEF d, r, data
  <2> QED BY <2>1, <2>2
<1>7. ASSUME NEW p \in Bytes, Len(p) = 4, NEW q \in Bytes, data = (<<op>> \o u) \o (p \o q)
      PROVE  Digit(data, 1) = op /\ r = Cursor(q, h(p))
  <2> DEFINE a == <<op>>
             y == u \o (p \o q)
  <2>1. data = Wrap(a \o y, packed) /\ y \in Bytes
    <3>1. a \in Bytes
      BY <1>3, NumOne
    <3> HIDE DEF u, data
    <3>0. data = (a \o u) \o (p \o q)
      BY <1>7
    <3> HIDE DEF a
    <3>2. p \o q \in Bytes
      BY <1>7, Closed
    <3>3. (a \o u) \o (p \o q) = a \o (u \o (p \o q)) /\ u \o (p \o q) \in Bytes
      BY <1>2, <3>1, <3>2, Joined
    <3> DEFINE w == a \o y
    <3>4. data = w /\ y \in Bytes
      BY <3>0, <3>3, Zenon
    <3>5. ~packed
      OBVIOUS
    <3> HIDE DEF w, packed, y
    <3>6. Wrap(w, packed) = w
      BY <3>5 DEF Wrap
    <3>7. data = Wrap(w, packed) /\ y \in Bytes
      BY <3>4, <3>6
    <3> QED BY <3>7 DEF w
  <2>2. Body(Wrap(a \o y, packed), ops, packed) = Cursor(y, Opened(op)) /\ Digit(Wrap(a \o y, packed), 1) = op
    <3> HIDE DEF op, ops, y, packed
    <3> QED BY <1>3, <2>1, BodyReads DEF a
  <2>3. b = Cursor(y, Opened(op)) /\ Digit(data, 1) = op
    <3> HIDE DEF data, y, a
    <3> QED BY <2>1, <2>2
  <2> DEFINE m0 == Opened(op)
  <2>4. Read(Cursor(u \o (p \o q), m0), l) = Cursor(q, Holding(Holding(m0, "hash", u), "size", p))
    <3> HIDE DEF u, op, m0
    <3>1. u \in Bytes /\ Len(u) = 16 /\ p \in Bytes /\ Len(p) = 4 /\ q \in Bytes
      BY <1>2, <1>7
    <3> HIDE DEF l
    <3>2. Read(Cursor(u \o (p \o q), m0), <<U("hash", 16), U("size", 4)>>)
            = Cursor(q, Holding(Holding(m0, "hash", u), "size", p))
      BY <3>1, AskedReads, Zenon
    <3> QED BY <3>2 DEF l
  <2> HIDE DEF b, data
  <2> QED BY <2>3, <2>4
<1> HIDE DEF data, r, d
<1>8. CASE Larger(s, OldMax)
  <2>1. data = (<<op>> \o u) \o (o \o s)
    BY <1>5, <1>8
  <2>2. Digit(data, 1) = op /\ r = Cursor(s, h(o))
    <3> HIDE DEF s, o
    <3> QED BY <1>2, <1>4, <1>7, <2>1
  <2> DEFINE g == h(o)
             k == Holding(g, "size", s)
  <2>3. g["size"] = o /\ "hash" \in DOMAIN g /\ g["hash"] = u
    <3> HIDE DEF o, u
    <3> QED BY Held, HeldBefore
  <2>4. r.ok /\ r.m = g
    BY <2>2, CursorIs
  <2> HIDE DEF g
  <2>5. d = Get(r, U("size", 8))
    BY <1>6, <2>2, <2>3, <2>4
  <2>6. d = Cursor(e, k)
    <3> HIDE DEF s, e
    <3>1. s \o e = s
      BY <1>2, NothingBehind DEF e
    <3>2. Get(Cursor(s \o e, g), U("size", Len(s))) = Cursor(e, Holding(g, "size", s))
      BY <1>2, OneReads
    <3> QED BY <1>2, <2>2, <2>5, <3>1, <3>2 DEF g
  <2>7. k["size"] = s /\ "size" \in DOMAIN k /\ "hash" \in DOMAIN k /\ k["hash"] = u
    BY <2>3, Held, HeldBefore
  <2> HIDE DEF k
  <2>8. d.ok /\ d.rest = e /\ d.m = k
    BY <2>6, CursorIs
  <2> HIDE DEF u, s
  <2> QED BY <2>7, <2>8, DoneWhole DEF u, s, d, data, packed, e
<1>9. CASE ~Larger(s, OldMax)
  <2>1. low \in Bytes /\ Len(low) = 4 /\ low # o /\ Widened(low, 8) = s
    <3> HIDE DEF s
    <3> QED BY <1>1, <1>9, LowHalf
  <2>2. data = (<<op>> \o u) \o (low \o e)
    <3>1. low \o e = low
      <4> HIDE DEF low
      <4> QED BY <2>1, NothingBehind
    <3> HIDE DEF low, e, u, s
    <3> QED BY <1>5, <1>9, <3>1
  <2> HIDE DEF low
  <2>3. Digit(data, 1) = op /\ r = Cursor(e, h(low))
    <3> HIDE DEF e
    <3> QED BY <1>2, <1>7, <2>1, <2>2
  <2> DEFINE g == h(low)
             k == Holding(g, "size", s)
  <2>4. g["size"] = low /\ "hash" \in DOMAIN g /\ g["hash"] = u
    <3> HIDE DEF u
    <3> QED BY Held, HeldBefore
  <2>5. r.ok /\ r.m = g
    BY <2>3, CursorIs
  <2>6. r = Cursor(e, g)
    BY <2>3
  <2> HIDE DEF g
  <2>7. d = With(r, "size", s)
    <3> HIDE DEF s, o
    <3> QED BY <1>6, <2>1, <2>3, <2>4, <2>5
  <2>8. d = Cursor(e, k)
    BY <2>6, <2>7, WithIs
  <2>9. k["size"] = s /\ "size" \in DOMAIN k /\ "hash" \in DOMAIN k /\ k["hash"] = u
    BY <2>4, Held, HeldBefore
  <2> HIDE DEF k
  <2>10. d.ok /\ d.rest = e /\ d.m = k
    BY <2>8, CursorIs
  <2> HIDE DEF u, s
  <2> QED BY <2>9, <2>10, DoneWhole DEF u, s, d, data, packed, e
<1> QED BY <1>8, <1>9

-------------------------------------------------------------------------------
(* What goes out and is not for a node or a file is of the kinds a client,  *)
(* a server or a peer sends, and is in the bytes of its class.              *)
LEMMA OutIs ==
    ASSUME NEW m \in Sent, m.kind \notin OfNodes, m.kind # "XCM"
    PROVE  (m \in ClientKinds \/ m \in OwnKinds) /\ WrittenBy(m) = Written(m)
<1>1. m.kind \notin {"SEARCH", "SEARCH_BACK", "SEARCH_BC", "SSRC", "FSRC", "CALLBACK", "HOLE",
                     "HOLE_CALLBACK", "HOLING", "FILE_STATUS", "FILE_STATUS_BACK", "FILE_PART",
                     "LOGIN", "FILE_PROC"}
  BY DEF OfNodes, Agreed, Uneven
<1>2. m \notin NodeKinds
  BY <1>1 DEF NodeKinds
<1>3. m \notin TypedKinds
  BY <1>1 DEF TypedKinds
<1>4. ~IsAnswer(m)
  BY <1>1 DEF IsAnswer
<1>5. ~IsXcm(m)
  BY DEF IsXcm
<1>6. WrittenBy(m) = Written(m)
  BY <1>1 DEF WrittenBy
<1> QED BY <1>2, <1>3, <1>4, <1>5, <1>6, LinkAssumption

(* A client that asks for the sources of a file asks with the size of that  *)
(* file, in the four bytes an old server reads or in eight.                 *)
THEOREM SizeAlwaysUnderstood == Spec => []SizeUnderstood
<1>1. OnTheWire => SizeUnderstood
  <2> SUFFICES ASSUME OnTheWire, link.way = "out", link.m.kind = "GETSOURCES_OBFU"
               PROVE  ReadWhole(got, link.m, {"hash", "size"})
    BY DEF SizeUnderstood
  <2> DEFINE m == link.m
  <2>1. m \in Sent /\ got = ReadThere(m, WrittenBy(m)) /\ m.kind = "GETSOURCES_OBFU"
    BY DEF OnTheWire
  <2> HIDE DEF m
  <2>2. m.kind \notin OfNodes /\ m.kind # "XCM"
    BY <2>1 DEF OfNodes, Agreed, Uneven
  <2>3. (m \in ClientKinds \/ m \in OwnKinds) /\ WrittenBy(m) = Written(m)
    BY <2>1, <2>2, OutIs
  <2>4. m \notin OwnKinds
    BY <2>1 DEF OwnKinds, ServerKinds, SendingParts
  <2>5. m \in Questions
    BY <2>1, <2>3, <2>4 DEF ClientKinds, Questions
  <2>6. Written(m) = GetSourceEncode(m)
    BY <2>1 DEF Written
  <2>7. ReadThere(m, WrittenBy(m)) = ParsedThere(WrittenBy(m), FALSE)
    <3>1. m.kind # "HELLO" /\ m.kind \in AtServer /\ m.kind \notin OwnParse
      BY <2>1 DEF AtServer, OwnParse
    <3> QED BY <2>2, <3>1, Zenon DEF ReadThere
  <2>8. got = ParsedThere(GetSourceEncode(m), FALSE)
    BY <2>1, <2>3, <2>6, <2>7
  <2>9. ReadWhole(ParsedThere(GetSourceEncode(m), FALSE), m, {"hash", "size"})
    BY <2>5, SizeIsRead
  <2> QED BY <2>8, <2>9 DEF m
<1> QED BY <1>1, WireAlways, PTL

-------------------------------------------------------------------------------
(* The head of a greeting, with the length of its hash. *)
LEMMA HailReads ==
    ASSUME NEW m, NEW q \in Bytes, NEW p1 \in Bytes, NEW p2 \in Bytes, NEW p3 \in Bytes, NEW p4 \in Bytes, NEW p5 \in Bytes, NEW p6 \in Bytes,
           Len(p1) = 1, Len(p2) = 1, Len(p3) = 16, Len(p4) = 4, Len(p5) = 2, Len(p6) = 4
    PROVE  Read(Cursor(p1 \o (p2 \o (p3 \o (p4 \o (p5 \o (p6 \o q))))), m), <<U("op", 1), U("len", 1), U("hash", 16), U("cid", 4), U("port", 2), U("tc", 4)>>)
             = Cursor(q, Holding(Holding(Holding(Holding(Holding(Holding(m, "op", p1), "len", p2), "hash", p3), "cid", p4), "port", p5), "tc", p6))
<1> DEFINE f1 == U("op", 1)
           f2 == U("len", 1)
           f3 == U("hash", 16)
           f4 == U("cid", 4)
           f5 == U("port", 2)
           f6 == U("tc", 4)
           m0 == m
           m1 == Holding(m0, "op", p1)
           m2 == Holding(m1, "len", p2)
           m3 == Holding(m2, "hash", p3)
           m4 == Holding(m3, "cid", p4)
           m5 == Holding(m4, "port", p5)
           m6 == Holding(m5, "tc", p6)
<1>1. Wide(f1, m0) = Len(p1)
  BY WideIs
<1>2. Keep(m0, f1, p1) = m1
  BY KeepIs
<1>3. Wide(f2, m1) = Len(p2)
  BY WideIs
<1>4. Keep(m1, f2, p2) = m2
  BY KeepIs
<1>5. Wide(f3, m2) = Len(p3)
  BY WideIs
<1>6. Keep(m2, f3, p3) = m3
  BY KeepIs
<1>7. Wide(f4, m3) = Len(p4)
  BY WideIs
<1>8. Keep(m3, f4, p4) = m4
  BY KeepIs
<1>9. Wide(f5, m4) = Len(p5)
  BY WideIs
<1>10. Keep(m4, f5, p5) = m5
  BY KeepIs
<1>11. Wide(f6, m5) = Len(p6)
  BY WideIs
<1>12. Keep(m5, f6, p6) = m6
  BY KeepIs
<1> DEFINE t0 == p1 \o (p2 \o (p3 \o (p4 \o (p5 \o (p6 \o q)))))
           t1 == p2 \o (p3 \o (p4 \o (p5 \o (p6 \o q))))
           t2 == p3 \o (p4 \o (p5 \o (p6 \o q)))
           t3 == p4 \o (p5 \o (p6 \o q))
           t4 == p5 \o (p6 \o q)
           t5 == p6 \o q
           t6 == q
<1>13. t0 \in Bytes /\ t1 \in Bytes /\ t2 \in Bytes /\ t3 \in Bytes /\ t4 \in Bytes /\ t5 \in Bytes /\ t6 \in Bytes
  BY Joined
<1> HIDE DEF f1, f2, f3, f4, f5, f6, m1, m2, m3, m4, m5, m6
<1>14. Get(Cursor(t0, m0), f1) = Cursor(t1, m1)
  <2>1. Get(Cursor(t0, m0), f1) = Cursor(t1, Keep(m0, f1, p1))
    BY <1>1, <1>13, GetReads
  <2> QED BY <2>1, <1>2, Zenon
<1>15. Get(Cursor(t1, m1), f2) = Cursor(t2, m2)
  <2>1. Get(Cursor(t1, m1), f2) = Cursor(t2, Keep(m1, f2, p2))
    BY <1>3, <1>13, GetReads
  <2> QED BY <2>1, <1>4, Zenon
<1>16. Get(Cursor(t2, m2), f3) = Cursor(t3, m3)
  <2>1. Get(Cursor(t2, m2), f3) = Cursor(t3, Keep(m2, f3, p3))
    BY <1>5, <1>13, GetReads
  <2> QED BY <2>1, <1>6, Zenon
<1>17. Get(Cursor(t3, m3), f4) = Cursor(t4, m4)
  <2>1. Get(Cursor(t3, m3), f4) = Cursor(t4, Keep(m3, f4, p4))
    BY <1>7, <1>13, GetReads
  <2> QED BY <2>1, <1>8, Zenon
<1>18. Get(Cursor(t4, m4), f5) = Cursor(t5, m5)
  <2>1. Get(Cursor(t4, m4), f5) = Cursor(t5, Keep(m4, f5, p5))
    BY <1>9, <1>13, GetReads
  <2> QED BY <2>1, <1>10, Zenon
<1>19. Get(Cursor(t5, m5), f6) = Cursor(t6, m6)
  <2>1. Get(Cursor(t5, m5), f6) = Cursor(t6, Keep(m5, f6, p6))
    BY <1>11, <1>13, GetReads
  <2> QED BY <2>1, <1>12, Zenon
<1> HIDE DEF t0, t1, t2, t3, t4, t5, t6, m0
<1>20. Read(Cursor(t0, m0), <<f1, f2, f3, f4, f5, f6>>)
        = Get(Get(Get(Get(Get(Get(Cursor(t0, m0), f1), f2), f3), f4), f5), f6)
  BY ReadSix
<1>21. Read(Cursor(t0, m0), <<f1, f2, f3, f4, f5, f6>>) = Cursor(t6, m6)
  BY <1>20, <1>14, <1>15, <1>16, <1>17, <1>18, <1>19, Zenon
<1> QED BY <1>21, Zenon DEF f1, f2, f3, f4, f5, f6, m0, m1, m2, m3, m4, m5, m6, t0, t1, t2, t3, t4, t5, t6

(* A greeting, as a client sends it: with its name, and with a second port  *)
(* if the memory of it held one.                                            *)
Greetings ==
    [kind : {"HELLO"}, hash : Width(16), cid : Width(4), port : Width(2),
     name : TagText \ {<<>>}, version : {<<>>}, port2 : Width(2),
     saddr : Width(4), sport : Width(2)]
Hailed(m) ==
    IF Num(m.port2) # 0 THEN <<StrTag(1, m.name), IntTag(15, m.port2 \o Le(0, 2))>>
    ELSE <<StrTag(1, m.name)>>
HailedCount(m) == IF Num(m.port2) # 0 THEN 2 ELSE 1

(* The bytes of a greeting, each in front of what is behind it.             *)
HailBytes(m) ==
    <<1>> \o (<<16>> \o (m.hash \o (m.cid \o (m.port \o (Le(HailedCount(m), 4)
      \o (FlattenSeq(Hailed(m)) \o (Be(m.saddr) \o m.sport)))))))

(* What the other end knows of the tags of a greeting: the first one.       *)
FirstText == [name \in {1} |-> "name"]

(* What reading the tags of a greeting keeps, and what it leaves.           *)
HailRead(m, q, g, h, words, skip) ==
    /\ ReadTags(Cursor(FlattenSeq(Hailed(m)) \o q, g), HailedCount(m), FirstText, words, skip)
         = Cursor(q, h)
    /\ "name" \in DOMAIN h /\ h["name"] = m.name
    /\ \A f \in DOMAIN g \ (TagFields \cup {"name"}) : f \in DOMAIN h /\ h[f] = g[f]

LEMMA FirstName == 1 \in DOMAIN FirstText /\ FirstText[1] = "name"
BY DEF FirstText

(* The tags of a greeting are read, the second port among them.             *)
LEMMA HailsRead ==
    ASSUME NEW m, m.name \in TagText, m.port2 \in Bytes, Len(m.port2) = 2,
           NEW q \in Bytes, NEW g, NEW words, 15 \notin DOMAIN words, NEW skip, skip
    PROVE  /\ FlattenSeq(Hailed(m)) \in Bytes
           /\ \E h : HailRead(m, q, g, h, words, skip)
<1> DEFINE a == 1
           j == 15
           t == m.name
           u == m.port2 \o Le(0, 2)
           x == FirstText
           h1 == Kept(g, a, t, x)
<1>1. a \in Nat /\ j \in Nat /\ a \in DOMAIN x /\ j \notin DOMAIN words /\ x[a] = "name"
  BY FirstName
<1>2. u \in Bytes /\ Len(u) = 4
  <2> DEFINE w == 2
             z == 0
             o == Le(z, w)
             p == m.port2
  <2>1. w \in Nat /\ z \in Nat /\ p \in Bytes /\ Len(p) = w
    OBVIOUS
  <2> HIDE DEF w, z
  <2>2. o \in Bytes /\ Len(o) = w
    BY <2>1, LeIs
  <2> HIDE DEF o, p
  <2>3. p \o o \in Bytes /\ Len(p \o o) = Len(p) + Len(o)
    BY <2>1, <2>2, ConcatProperties DEF Bytes
  <2>4. Len(p \o o) = w + w
    BY <2>1, <2>2, <2>3
  <2> QED BY <2>3, <2>4 DEF o, p, w, z
<1>3. /\ "name" \in DOMAIN h1 /\ h1["name"] = t
      /\ \A f \in DOMAIN g \ (TagFields \cup {"name"}) : f \in DOMAIN h1 /\ h1[f] = g[f]
  <2> HIDE DEF a, t, x
  <2> QED BY <1>1, KeptKeeps
<1> HIDE DEF u
<1>4. CASE Num(m.port2) = 0
  <2> DEFINE T == <<StrTag(a, t)>>
  <2>1. Hailed(m) = T /\ HailedCount(m) = 1
    BY <1>4 DEF Hailed, HailedCount
  <2>2. FlattenSeq(T) \in Bytes /\ ReadTags(Cursor(FlattenSeq(T) \o q, g), 1, x, words, skip) = Cursor(q, h1)
    <3> HIDE DEF a, j, t, x
    <3>1. t \in TagText
      BY DEF t
    <3>2. OneRead(g, q, x, words, skip, a, t)
      BY <1>1, <3>1, OneText
    <3> QED BY <3>2 DEF OneRead
  <2> HIDE DEF h1, T
  <2>3. HailRead(m, q, g, h1, words, skip)
    BY <1>3, <2>1, <2>2 DEF HailRead
  <2> QED BY <2>1, <2>2, <2>3
<1>5. CASE Num(m.port2) # 0
  <2> DEFINE h == WordHeld(h1, j, u)
             T == <<StrTag(a, t), IntTag(j, u)>>
  <2>1. Hailed(m) = T /\ HailedCount(m) = 2
    BY <1>5 DEF Hailed, HailedCount, u
  <2>2. FlattenSeq(T) \in Bytes /\ ReadTags(Cursor(FlattenSeq(T) \o q, g), 2, x, words, skip) = Cursor(q, h)
    <3> HIDE DEF a, j, t, x
    <3>1. t \in TagText
      BY DEF t
    <3>2. TwoRead(g, q, x, words, skip, a, t, j, u)
      BY <1>1, <1>2, <3>1, TextThenWord
    <3> QED BY <3>2 DEF TwoRead
  <2>3. /\ "name" \in DOMAIN h /\ h["name"] = t
        /\ \A f \in DOMAIN g \ (TagFields \cup {"name"}) : f \in DOMAIN h /\ h[f] = g[f]
    <3>1. \A f \in DOMAIN h1 \ TagFields : f \in DOMAIN h /\ h[f] = h1[f]
      <4> HIDE DEF h1, j
      <4> QED BY TagKeeps
    <3> HIDE DEF h1, h, x
    <3>2. "name" \notin TagFields
      BY DEF TagFields
    <3> QED BY <1>3, <3>1, <3>2
  <2> HIDE DEF h, T
  <2>4. HailRead(m, q, g, h, words, skip)
    BY <2>1, <2>2, <2>3 DEF HailRead
  <2> QED BY <2>1, <2>2, <2>4
<1> QED BY <1>4, <1>5

(* One and another in one sequence.                                         *)
LEMMA Pair == \A a, c : <<a>> \o <<c>> = <<a, c>>
<1> SUFFICES ASSUME NEW a, NEW c PROVE <<a>> \o <<c>> = <<a, c>>
  OBVIOUS
<1>1. <<a>> \o <<>> \o <<c>> = <<a, c>>
  BY Two
<1>2. <<a>> \o <<>> = <<a>>
  <2>1. <<a>> \in Seq({a})
    OBVIOUS
  <2> QED BY <2>1, ConcatEmptySeq
<1> QED BY <1>1, <1>2

(* The tags of a greeting that has no version.                              *)
LEMMA HailedIs ==
    ASSUME NEW m \in Greetings,
           NEW tags, tags = (IF m.name # <<>> THEN <<StrTag(1, m.name)>> ELSE <<>>)
                              \o (IF m.version # <<>> THEN <<StrTag(17, m.version)>> ELSE <<>>)
                              \o (IF Num(m.port2) # 0 THEN <<IntTag(15, m.port2 \o Le(0, 2))>> ELSE <<>>)
    PROVE  tags = Hailed(m) /\ Len(tags) = HailedCount(m) /\ tags # <<>>
<1> DEFINE a == StrTag(1, m.name)
           c == IntTag(15, m.port2 \o Le(0, 2))
<1>1. m.name # <<>> /\ m.version = <<>>
  BY DEF Greetings
<1>2. tags = <<a>> \o <<>> \o (IF Num(m.port2) # 0 THEN <<c>> ELSE <<>>)
  BY <1>1
<1>3. Hailed(m) = IF Num(m.port2) # 0 THEN <<a, c>> ELSE <<a>>
  BY DEF Hailed
<1> HIDE DEF a, c
<1>6. Len(<<>>) = 0
  BY EmptySeq
<1>4. CASE Num(m.port2) # 0
  <2>1. tags = <<a, c>> /\ Len(<<a, c>>) = 2
    BY <1>2, <1>4, Two
  <2>2. tags = Hailed(m)
    BY <1>3, <1>4, <2>1
  <2>3. Len(tags) = HailedCount(m) /\ Len(tags) = 2
    BY <1>4, <2>1 DEF HailedCount
  <2> QED BY <1>6, <2>2, <2>3
<1>5. CASE Num(m.port2) = 0
  <2> DEFINE p == <<a>>
             S == {a}
             e == <<>>
  <2>1. p \in Seq(S) /\ Len(p) = 1
    OBVIOUS
  <2>2. tags = p \o e \o e
    BY <1>2, <1>5
  <2> HIDE DEF p, S
  <2>3. p \o e = p
    BY <2>1, ConcatEmptySeq
  <2>4. tags = p
    BY <2>2, <2>3
  <2>5. tags = Hailed(m)
    BY <1>3, <1>5, <2>4 DEF p
  <2>6. Len(tags) = HailedCount(m) /\ Len(tags) = 1
    BY <1>5, <2>1, <2>4 DEF HailedCount
  <2> QED BY <1>6, <2>5, <2>6
<1> QED BY <1>4, <1>5

(* The bytes of a greeting are these.                                       *)
LEMMA HailBytesAre ==
    ASSUME NEW m \in Greetings
    PROVE  HelloEncode(m) = HailBytes(m)
<1> DEFINE u == m.hash
           c == m.cid
           p == m.port
           n == HailedCount(m)
           tc == Le(n, 4)
           t == FlattenSeq(Hailed(m))
           e == Be(m.saddr)
           s == m.sport
           o1 == <<1>>
           o2 == <<16>>
           o == <<1, 16>>
           r == c \o (p \o (tc \o (t \o (e \o s))))
<1>1. /\ u \in Width(16) /\ c \in Width(4) /\ p \in Width(2) /\ m.name \in TagText
      /\ m.saddr \in Width(4) /\ s \in Width(2) /\ m.port2 \in Width(2)
  BY DEF Greetings
<1>2. /\ u \in Bytes /\ Len(u) = 16 /\ c \in Bytes /\ p \in Bytes
      /\ m.saddr \in Bytes /\ Len(m.saddr) = 4 /\ s \in Bytes
      /\ m.port2 \in Bytes /\ Len(m.port2) = 2
  <2> HIDE DEF u, c, p, s
  <2> QED BY <1>1, Widths
<1>3. e \in Bytes
  BY <1>2, BeBe
<1>4. tc \in Bytes
  <2> DEFINE w == 4
  <2>1. w \in Nat /\ n \in Nat
    BY DEF HailedCount
  <2> HIDE DEF n, w
  <2>2. Le(n, w) \in Bytes
    BY <2>1, LeIs
  <2> QED BY <2>2 DEF w
<1>5. t \in Bytes
  <2> DEFINE words == <<>>
             skip == TRUE
  <2>1. 15 \notin DOMAIN words /\ skip /\ u \in Bytes
    BY <1>2
  <2> HIDE DEF words, skip, u
  <2> QED BY <1>1, <1>2, <2>1, HailsRead
<1>6. o1 \in Bytes /\ o2 \in Bytes /\ o1 \o o2 = o
  BY NumOne, Pair
<1> DEFINE tags == (IF m.name # <<>> THEN <<StrTag(1, m.name)>> ELSE <<>>)
                     \o (IF m.version # <<>> THEN <<StrTag(17, m.version)>> ELSE <<>>)
                     \o (IF Num(m.port2) # 0 THEN <<IntTag(15, m.port2 \o Le(0, 2))>> ELSE <<>>)
<1>7. tags = Hailed(m) /\ Len(tags) = HailedCount(m) /\ tags # <<>>
  BY HailedIs
<1>8. HelloEncode(m) = <<1, Len(u)>> \o u \o c \o p
                         \o (IF tags = <<>> THEN <<>> ELSE Le(Len(tags), 4) \o FlattenSeq(tags))
                         \o e \o s
  BY DEF HelloEncode, Op
<1> HIDE DEF tags
<1>9. HelloEncode(m) = o \o u \o c \o p \o (tc \o t) \o e \o s
  BY <1>2, <1>7, <1>8
<1> HIDE DEF u, c, p, tc, t, e, s, o1, o2, o
<1> DEFINE ou == o \o u
<1>11. ou \in Bytes /\ o \in Bytes
  BY <1>2, <1>6, Closed
<1>12. ou \o c \o p \o (tc \o t) \o e \o s = ou \o r /\ r \in Bytes
  <2> HIDE DEF ou
  <2>1. Flat7(ou, c, p, tc, t, e, s)
    BY <1>2, <1>3, <1>4, <1>5, <1>11, SevenFlat
  <2> QED BY <2>1 DEF Flat7
<1> HIDE DEF r
<1>13. ou \o r = o1 \o (o2 \o (u \o r))
  <2>1. Then2(o, u, r)
    BY <1>2, <1>11, <1>12, TwoThen
  <2> DEFINE v == u \o r
  <2>2. (o \o u) \o r = o \o v /\ v \in Bytes
    BY <1>2, <1>12, <2>1, Closed DEF Then2
  <2> HIDE DEF v
  <2>3. Then2(o1, o2, v)
    BY <1>6, <2>2, TwoThen
  <2> QED BY <1>6, <2>2, <2>3 DEF Then2, v
<1>14. HelloEncode(m) = o1 \o (o2 \o (u \o r))
  BY <1>9, <1>12, <1>13
<1> QED BY <1>14 DEF HailBytes, r, o1, o2, u, c, p, tc, t, e, s, n

-------------------------------------------------------------------------------
(* What reading the head of a greeting holds.                               *)
HailHeld(m, p1, p2, p3, p4, p5, p6) ==
    Holding(Holding(Holding(Holding(Holding(Holding(m, "op", p1), "len", p2), "hash", p3),
      "cid", p4), "port", p5), "tc", p6)
HailHead(m, q, p1, p2, p3, p4, p5, p6) ==
    Read(Cursor(p1 \o (p2 \o (p3 \o (p4 \o (p5 \o (p6 \o q))))), m),
         <<U("op", 1), U("len", 1), U("hash", 16), U("cid", 4), U("port", 2), U("tc", 4)>>)
      = Cursor(q, HailHeld(m, p1, p2, p3, p4, p5, p6))

LEMMA HailHeadReads ==
    ASSUME NEW m, NEW q \in Bytes, NEW p1 \in Bytes, NEW p2 \in Bytes, NEW p3 \in Bytes,
           NEW p4 \in Bytes, NEW p5 \in Bytes, NEW p6 \in Bytes,
           Len(p1) = 1, Len(p2) = 1, Len(p3) = 16, Len(p4) = 4, Len(p5) = 2, Len(p6) = 4
    PROVE  HailHead(m, q, p1, p2, p3, p4, p5, p6)
BY HailReads DEF HailHead, HailHeld

LEMMA HailHeldIs ==
    ASSUME NEW m, NEW p1, NEW p2, NEW p3, NEW p4, NEW p5, NEW p6,
           NEW h, h = HailHeld(m, p1, p2, p3, p4, p5, p6)
    PROVE  /\ "hash" \in DOMAIN h /\ h["hash"] = p3 /\ "cid" \in DOMAIN h /\ h["cid"] = p4
           /\ "port" \in DOMAIN h /\ h["port"] = p5 /\ "tc" \in DOMAIN h /\ h["tc"] = p6
<1> DEFINE a == Holding(Holding(m, "op", p1), "len", p2)
           b == Holding(a, "hash", p3)
           c == Holding(b, "cid", p4)
           d == Holding(c, "port", p5)
           e == Holding(d, "tc", p6)
<1>1. "hash" \in DOMAIN b /\ b["hash"] = p3
  BY Held
<1> HIDE DEF b
<1>2. "hash" \in DOMAIN c /\ c["hash"] = p3 /\ "cid" \in DOMAIN c /\ c["cid"] = p4
  BY <1>1, Held, HeldBefore
<1> HIDE DEF c
<1>3. /\ "hash" \in DOMAIN d /\ d["hash"] = p3 /\ "cid" \in DOMAIN d /\ d["cid"] = p4
      /\ "port" \in DOMAIN d /\ d["port"] = p5
  BY <1>2, Held, HeldBefore
<1> HIDE DEF d
<1>4. /\ "hash" \in DOMAIN e /\ e["hash"] = p3 /\ "cid" \in DOMAIN e /\ e["cid"] = p4
      /\ "port" \in DOMAIN e /\ e["port"] = p5 /\ "tc" \in DOMAIN e /\ e["tc"] = p6
  BY <1>3, Held, HeldBefore
<1>5. h = e
  BY DEF HailHeld, d, c, b
<1> HIDE DEF e
<1> QED BY <1>4, <1>5

(* A greeting is read by its count to its last byte, whether the memory of  *)
(* its second port held one or not.                                         *)
LEMMA HelloIsRead ==
    ASSUME NEW m \in Greetings
    PROVE  ReadWhole(HelloThere(HelloEncode(m)), m, {"hash", "cid", "port", "name", "saddr", "sport"})
<1> DEFINE data == HelloEncode(m)
           u == m.hash
           c == m.cid
           p == m.port
           n == HailedCount(m)
           tc == Le(n, 4)
           t == FlattenSeq(Hailed(m))
           e == Be(m.saddr)
           s == m.sport
           z == e \o s
           tz == t \o z
           o1 == <<1>>
           o2 == <<16>>
           v == <<>>
           h == HailHeld(v, o1, o2, u, c, p, tc)
           l == <<U("op", 1), U("len", 1), U("hash", 16), U("cid", 4), U("port", 2), U("tc", 4)>>
           k == <<B("saddr", 4), U("sport", 2)>>
           skip == TRUE
<1>1. /\ u \in Width(16) /\ c \in Width(4) /\ p \in Width(2) /\ m.name \in TagText
      /\ m.saddr \in Width(4) /\ s \in Width(2) /\ m.port2 \in Width(2)
  BY DEF Greetings
<1>2. /\ u \in Bytes /\ Len(u) = 16 /\ c \in Bytes /\ Len(c) = 4 /\ p \in Bytes /\ Len(p) = 2
      /\ m.saddr \in Bytes /\ Len(m.saddr) = 4 /\ s \in Bytes /\ Len(s) = 2
      /\ m.port2 \in Bytes /\ Len(m.port2) = 2
  <2> HIDE DEF u, c, p, s
  <2> QED BY <1>1, Widths
<1>3. e \in Bytes /\ Len(e) = 4 /\ Be(e) = m.saddr
  BY <1>2, BeBe
<1>4. n \in Nat /\ n < Beyond
  BY DEF HailedCount, Beyond
<1>5. tc \in Bytes /\ Len(tc) = 4 /\ Num(tc) = n
  <2> DEFINE w == 4
  <2>1. w \in Nat
    OBVIOUS
  <2> HIDE DEF n
  <2>2. Num(Le(n, 4)) = n
    BY <1>4, NumLe4
  <2> HIDE DEF w
  <2>3. Le(n, w) \in Bytes /\ Len(Le(n, w)) = w
    BY <1>4, <2>1, LeIs
  <2> QED BY <2>2, <2>3 DEF w
<1>6. v \in Bytes /\ s \o v = s
  <2> HIDE DEF s
  <2> QED BY <1>2, NothingBehind
<1>7. skip /\ 15 \notin DOMAIN v
  OBVIOUS
<1>8. HelloThere(data)
        = LET b == Read(Cursor(data, v), l)
          IN  IF b.ok THEN Read(ReadTags(b, Num(b.m["tc"]), FirstText, v, skip), k) ELSE b
  BY DEF HelloThere, Then, ReadTags, Repeat, Times, Decoding, FirstText
<1> HIDE DEF skip, v
<1>9. t \in Bytes
  <2> DEFINE g == 0
  <2> HIDE DEF g, u
  <2> QED BY <1>1, <1>2, <1>6, <1>7, HailsRead
<1> HIDE DEF t, e, s, u, c, p, tc
<1>10. z \in Bytes /\ tz \in Bytes
  <2>1. z \in Bytes
    BY <1>2, <1>3, Closed
  <2> HIDE DEF z
  <2> QED BY <1>9, <2>1, Closed
<1>11. o1 \in Bytes /\ Len(o1) = 1 /\ o2 \in Bytes /\ Len(o2) = 1
  BY NumOne
<1>12. data = o1 \o (o2 \o (u \o (c \o (p \o (tc \o tz)))))
  BY HailBytesAre DEF HailBytes, u, c, p, tc, t, e, s
<1> HIDE DEF o1, o2, tz, data
<1> DEFINE b == Read(Cursor(data, v), l)
<1>13. b = Cursor(tz, h)
  <2>1. HailHead(v, tz, o1, o2, u, c, p, tc)
    BY <1>2, <1>5, <1>10, <1>11, HailHeadReads
  <2> QED BY <1>12, <2>1 DEF HailHead
<1>14. /\ "hash" \in DOMAIN h /\ h["hash"] = u /\ "cid" \in DOMAIN h /\ h["cid"] = c
       /\ "port" \in DOMAIN h /\ h["port"] = p /\ "tc" \in DOMAIN h /\ h["tc"] = tc
  BY HailHeldIs
<1> HIDE DEF h
<1>15. PICK g : HailRead(m, z, h, g, v, skip)
  <2> HIDE DEF z
  <2> QED BY <1>1, <1>2, <1>7, <1>10, HailsRead
<1>16. HelloThere(data) = Read(Cursor(z, g), k)
  <2>1. HelloThere(data) = IF b.ok THEN Read(ReadTags(b, Num(b.m["tc"]), FirstText, v, skip), k) ELSE b
    BY <1>8
  <2> HIDE DEF k, z, n, b
  <2>2. b.ok /\ b.m = h
    BY <1>13, CursorIs
  <2>3. HelloThere(data) = Read(ReadTags(b, n, FirstText, v, skip), k)
    BY <1>5, <1>14, <2>1, <2>2
  <2>4. ReadTags(b, n, FirstText, v, skip) = Cursor(z, g)
    BY <1>13, <1>15 DEF HailRead, t, tz, n
  <2> QED BY <2>3, <2>4, Zenon
<1> DEFINE i == Holding(Holding(g, "saddr", m.saddr), "sport", s)
<1>17. HelloThere(data) = Cursor(v, i)
  <2>1. EndRead(g, v, e, s)
    BY <1>2, <1>3, <1>6, EndDoes
  <2>2. Read(Cursor(z, g), k) = Cursor(v, Holding(Holding(g, "saddr", Be(e)), "sport", s))
    BY <1>6, <2>1 DEF EndRead
  <2> QED BY <1>3, <1>16, <2>2
<1>18. /\ "hash" \in DOMAIN g /\ g["hash"] = u /\ "cid" \in DOMAIN g /\ g["cid"] = c
       /\ "port" \in DOMAIN g /\ g["port"] = p /\ "name" \in DOMAIN g /\ g["name"] = m.name
  <2>1. /\ "name" \in DOMAIN g /\ g["name"] = m.name
        /\ \A f \in DOMAIN h \ (TagFields \cup {"name"}) : f \in DOMAIN g /\ g[f] = h[f]
    BY <1>15 DEF HailRead
  <2>2. \A f \in {"hash", "cid", "port"} : f \notin TagFields \cup {"name"}
    BY DEF TagFields
  <2> QED BY <1>14, <2>1, <2>2
<1>19. /\ "saddr" \in DOMAIN i /\ i["saddr"] = m.saddr /\ "sport" \in DOMAIN i /\ i["sport"] = s
       /\ \A f \in DOMAIN g \ {"saddr", "sport"} : f \in DOMAIN i /\ i[f] = g[f]
  BY Held, HeldBefore
<1> HIDE DEF i
<1>20. \A f \in {"hash", "cid", "port", "name", "saddr", "sport"} : f \in DOMAIN i /\ i[f] = m[f]
  BY <1>18, <1>19 DEF u, c, p, s
<1>21. HelloThere(data).ok /\ HelloThere(data).rest = v /\ HelloThere(data).m = i
  BY <1>17, CursorIs
<1> DEFINE y == HelloThere(data)
<1>22. ReadWhole(y, m, {"hash", "cid", "port", "name", "saddr", "sport"})
  <2>1. y.ok /\ y.rest = v /\ y.m = i
    BY <1>21
  <2> HIDE DEF y
  <2> QED BY <1>20, <2>1 DEF ReadWhole, Find, v
<1> QED BY <1>22 DEF data

(* The other end of a greeting reads the name of the client as the first of *)
(* its tags, and the address of its server behind the last of them.         *)
THEOREM HelloAlwaysUnderstood == Spec => []HelloUnderstood
<1>1. OnTheWire => HelloUnderstood
  <2> SUFFICES ASSUME OnTheWire, link.way = "out", link.m.kind = "HELLO"
               PROVE  ReadWhole(got, link.m, {"hash", "cid", "port", "name", "saddr", "sport"})
    BY DEF HelloUnderstood
  <2> DEFINE m == link.m
  <2>1. m \in Sent /\ got = ReadThere(m, WrittenBy(m)) /\ m.kind = "HELLO"
    BY DEF OnTheWire
  <2> HIDE DEF m
  <2>2. m.kind \notin OfNodes /\ m.kind # "XCM"
    BY <2>1 DEF OfNodes, Agreed, Uneven
  <2>3. (m \in ClientKinds \/ m \in OwnKinds) /\ WrittenBy(m) = Written(m)
    BY <2>1, <2>2, OutIs
  <2>4. m \notin OwnKinds
    BY <2>1 DEF OwnKinds, ServerKinds, SendingParts
  <2>5. m \in Greetings
    BY <2>1, <2>3, <2>4 DEF ClientKinds, Greetings
  <2>6. Written(m) = HelloEncode(m)
    BY <2>1 DEF Written
  <2>7. ReadThere(m, WrittenBy(m)) = HelloThere(WrittenBy(m))
    <3>1. m.kind \notin AtServer /\ m.kind \notin OwnParse
      BY <2>1 DEF AtServer, OwnParse
    <3> QED BY <2>1, <2>2, <3>1, Zenon DEF ReadThere
  <2>8. got = HelloThere(HelloEncode(m))
    BY <2>1, <2>3, <2>6, <2>7
  <2>9. ReadWhole(HelloThere(HelloEncode(m)), m, {"hash", "cid", "port", "name", "saddr", "sport"})
    BY <2>5, HelloIsRead
  <2> QED BY <2>8, <2>9 DEF m
<1> QED BY <1>1, WireAlways, PTL

-------------------------------------------------------------------------------
(* Pieces one after the other with another in front of them, and what they  *)
(* are without it: what is put behind the one is put behind the other.      *)
Fronted(p, s, x) == p \in Bytes /\ s = p \o x /\ x \in Bytes

LEMMA FirstOne ==
    ASSUME NEW p \in Bytes, NEW a \in Bytes
    PROVE  Fronted(p, p \o a, a)
BY DEF Fronted

LEMMA OneMore ==
    ASSUME NEW p, NEW s, NEW x, Fronted(p, s, x), NEW b \in Bytes
    PROVE  Fronted(p, s \o b, x \o b)
<1>1. p \in Bytes /\ s = p \o x /\ x \in Bytes
  BY DEF Fronted
<1>2. Then2(p, x, b)
  BY <1>1, TwoThen
<1>3. x \o b \in Bytes
  BY <1>1, Closed, Zenon
<1> QED BY <1>1, <1>2, <1>3 DEF Then2, Fronted

(* The bytes of a word tag.                                                 *)
LEMMA WordBytes ==
    ASSUME NEW k \in Nat, NEW word \in Bytes, Len(word) = 4
    PROVE  IntTag(k, word) \in Bytes
<1> DEFINE words == <<>>
           skip == TRUE
           e == <<>>
           j == k + 1
<1>1. skip /\ k \notin DOMAIN [i \in {j} |-> e]
  OBVIOUS
<1> DEFINE y == [i \in {j} |-> e]
<1> HIDE DEF y, skip, words
<1>2. PassesTo(IntTag(k, word), words, WordHeld(words, k, word), words, y, skip)
  BY <1>1, WordPasses DEF y
<1> QED BY <1>2 DEF PassesTo

(* A login is documented as it is written.                                  *)
LEMMA LoginDocumented ==
    ASSUME NEW m \in [kind : {"LOGINREQUEST"}, hash : Width(16), cid : Width(4), port : Width(2),
                      name : TagText, version : Width(4), flags : Width(4), mver : Width(4)]
    PROVE  LoginEncode(m) = Documented(m)
<1> DEFINE o == <<1>>
           a == m.hash
           b == m.cid
           c == m.port
           d == Le(4, 4)
           e == StrTag(1, m.name)
           f == IntTag(17, m.version)
           g == IntTag(32, m.flags)
           h == IntTag(251, m.mver)
           k1 == 1
           k17 == 17
           k32 == 32
           k251 == 251
<1>1. a \in Width(16) /\ b \in Width(4) /\ c \in Width(2) /\ m.name \in TagText
      /\ m.version \in Width(4) /\ m.flags \in Width(4) /\ m.mver \in Width(4)
  OBVIOUS
<1>2. LoginEncode(m) = o \o a \o b \o c \o d \o e \o f \o g \o h
  BY DEF LoginEncode, Op
<1>3. Documented(m) = o \o (a \o b \o c \o d \o e \o f \o g \o h)
  <2>1. Fields(m) = a \o b \o c \o d \o e \o f \o g \o h
    <3>1. m.kind = "LOGINREQUEST"
      OBVIOUS
    <3> QED BY <3>1 DEF Fields
  <2>2. <<Op[m.kind]>> = o
    BY DEF Op
  <2> QED BY <2>1, <2>2 DEF Documented
<1>4. o \in Bytes /\ k1 \in Nat /\ k17 \in Nat /\ k32 \in Nat /\ k251 \in Nat
  BY NumOne
<1>5. d \in Bytes
  <2> DEFINE w == 4
  <2>1. w \in Nat
    OBVIOUS
  <2> HIDE DEF w
  <2>2. Le(w, w) \in Bytes
    BY <2>1, LeIs
  <2> QED BY <2>2 DEF w
<1>6. /\ a \in Bytes /\ b \in Bytes /\ c \in Bytes /\ m.version \in Bytes /\ Len(m.version) = 4
      /\ m.flags \in Bytes /\ Len(m.flags) = 4 /\ m.mver \in Bytes /\ Len(m.mver) = 4
  <2> HIDE DEF a, b, c
  <2> QED BY <1>1, Widths
<1>7. e \in Bytes
  <2> DEFINE t == m.name
             v == <<>>
  <2>1. t \in TagText
    OBVIOUS
  <2> HIDE DEF k1, t, v
  <2>2. StrTag(k1, t) \in Bytes
    BY <1>4, <2>1, TextPass
  <2> QED BY <2>2 DEF k1, t
<1>8. f \in Bytes /\ g \in Bytes /\ h \in Bytes
  <2> HIDE DEF k17, k32, k251
  <2>1. IntTag(k17, m.version) \in Bytes /\ IntTag(k32, m.flags) \in Bytes /\ IntTag(k251, m.mver) \in Bytes
    BY <1>4, <1>6, WordBytes
  <2> QED BY <2>1 DEF k17, k32, k251
<1> HIDE DEF o, a, b, c, d, e, f, g, h
<1>9. Fronted(o, o \o a, a)
  BY <1>4, <1>6, FirstOne
<1>10. Fronted(o, o \o a \o b, a \o b)
  BY <1>6, <1>9, OneMore
<1>11. Fronted(o, o \o a \o b \o c, a \o b \o c)
  BY <1>6, <1>10, OneMore
<1>12. Fronted(o, o \o a \o b \o c \o d, a \o b \o c \o d)
  BY <1>5, <1>11, OneMore
<1>13. Fronted(o, o \o a \o b \o c \o d \o e, a \o b \o c \o d \o e)
  BY <1>7, <1>12, OneMore
<1>14. Fronted(o, o \o a \o b \o c \o d \o e \o f, a \o b \o c \o d \o e \o f)
  BY <1>8, <1>13, OneMore
<1>15. Fronted(o, o \o a \o b \o c \o d \o e \o f \o g, a \o b \o c \o d \o e \o f \o g)
  BY <1>8, <1>14, OneMore
<1>16. Fronted(o, o \o a \o b \o c \o d \o e \o f \o g \o h, a \o b \o c \o d \o e \o f \o g \o h)
  BY <1>8, <1>15, OneMore
<1> QED BY <1>2, <1>3, <1>16 DEF Fronted

-------------------------------------------------------------------------------
(* The first bytes of what is documented.                                   *)
LEMMA DocumentedIs ==
    ASSUME NEW m, NEW n \in Nat, Op[m.kind] = n, NEW x, Fields(m) = x, NEW s, Fronted(<<n>>, s, x)
    PROVE  s = Documented(m)
BY DEF Documented, Fronted

(* One, two, three or four fields behind an operation.                      *)
LEMMA OneField ==
    ASSUME NEW o \in Bytes, NEW a \in Bytes
    PROVE  Fronted(o, o \o a, a)
BY FirstOne

LEMMA TwoFields ==
    ASSUME NEW o \in Bytes, NEW a \in Bytes, NEW b \in Bytes
    PROVE  Fronted(o, o \o a \o b, a \o b)
<1>1. Fronted(o, o \o a, a)
  BY FirstOne
<1> QED BY <1>1, OneMore

LEMMA ThreeFields ==
    ASSUME NEW o \in Bytes, NEW a \in Bytes, NEW b \in Bytes, NEW c \in Bytes
    PROVE  Fronted(o, o \o a \o b \o c, a \o b \o c)
<1>1. Fronted(o, o \o a \o b, a \o b)
  BY TwoFields
<1> QED BY <1>1, OneMore

LEMMA FourFields ==
    ASSUME NEW o \in Bytes, NEW a \in Bytes, NEW b \in Bytes, NEW c \in Bytes, NEW d \in Bytes
    PROVE  Fronted(o, o \o a \o b \o c \o d, a \o b \o c \o d)
<1>1. Fronted(o, o \o a \o b \o c, a \o b \o c)
  BY ThreeFields
<1> QED BY <1>1, OneMore

(* A call back, and the three questions that are a hash.                    *)
LEMMA HashDocumented ==
    ASSUME NEW m \in [kind : {"STARTUPLOADREQ", "SETREQFILEID", "HASHSETREQUEST"}, hash : Width(16)]
    PROVE  MagicHashEncode(Op[m.kind], m) = Documented(m)
BY DEF MagicHashEncode, Documented, Fields

LEMMA CallbackDocumented ==
    ASSUME NEW m \in [kind : {"CALLBACKREQUEST"}, cid : Width(4)]
    PROVE  CallbackRequestEncode(m) = Documented(m)
BY DEF CallbackRequestEncode, Documented, Fields, Op

(* The starts of three blocks, and then their ends.                         *)
Asked == [kind : {"REQUESTPARTS"}, hash : Width(16),
          parts : [1 .. 3 -> [first : Width(4), second : Width(4)]]]

LEMMA ThreeWords ==
    ASSUME NEW w, w = [i \in 1 .. 3 |-> w[i]], \A i \in 1 .. 3 : w[i] \in Width(4)
    PROVE  FlattenSeq(w) \in Bytes
<1> DEFINE n == 3
<1>1. n \in Nat /\ DOMAIN w = 1 .. n /\ w = [i \in 1 .. n |-> w[i]]
  OBVIOUS
<1>2. \A i \in 1 .. n : w[i] \in Bytes /\ Len(w[i]) > 0
  BY Widths
<1> HIDE DEF n
<1>3. ArePieces(w, n)
  BY <1>1, <1>2, Gathered
<1> QED BY <1>1, <1>3, NotShorter DEF ArePieces

LEMMA PartsDocumented ==
    ASSUME NEW m \in Asked
    PROVE  RequestPartsEncode(m) = Documented(m)
<1> DEFINE n == 71
           o == <<n>>
           a == m.hash
           v == [i \in 1 .. 3 |-> m.parts[i].first]
           w == [i \in 1 .. 3 |-> m.parts[i].second]
           b == FlattenSeq(v)
           c == FlattenSeq(w)
<1>1. a \in Width(16) /\ DOMAIN m.parts = 1 .. 3 /\ m.kind = "REQUESTPARTS"
      /\ \A i \in 1 .. 3 : m.parts[i].first \in Width(4) /\ m.parts[i].second \in Width(4)
  BY DEF Asked
<1>2. RequestPartsEncode(m) = o \o a \o b \o c
  BY <1>1 DEF RequestPartsEncode, Op
<1>3. Fields(m) = a \o b \o c
  BY <1>1 DEF Fields
<1>4. n \in Nat /\ Op[m.kind] = n /\ o \in Bytes
  <2>1. n \in Nat /\ Op[m.kind] = n
    BY <1>1 DEF Op
  <2> QED BY <2>1, NumOne
<1>5. a \in Bytes /\ b \in Bytes /\ c \in Bytes
  <2>1. a \in Bytes
    <3> HIDE DEF a
    <3> QED BY <1>1, Widths
  <2>2. v = [i \in 1 .. 3 |-> v[i]] /\ \A i \in 1 .. 3 : v[i] \in Width(4)
    BY <1>1
  <2>3. w = [i \in 1 .. 3 |-> w[i]] /\ \A i \in 1 .. 3 : w[i] \in Width(4)
    BY <1>1
  <2> HIDE DEF v, w
  <2> QED BY <2>1, <2>2, <2>3, ThreeWords
<1> HIDE DEF a, b, c
<1>6. Fronted(o, o \o a \o b \o c, a \o b \o c)
  <2> HIDE DEF o
  <2> QED BY <1>4, <1>5, ThreeFields
<1> HIDE DEF n
<1> QED BY <1>2, <1>3, <1>4, <1>6, DocumentedIs

(* What a server or a peer sends, as the program itself would write it.     *)
LEMMA TextDocumented ==
    ASSUME NEW m \in [kind : {"SERVERMESSAGE"}, msg : Below(256 * 256)]
    PROVE  SrvMessageEncode(m) = Documented(m)
<1> DEFINE n == 56
           o == <<n>>
           b == m.msg
           l == Len(b)
           a == Le(l, 2)
<1>1. SrvMessageEncode(m) = o \o a \o b
  BY DEF SrvMessageEncode, Op
<1>2. Fields(m) = a \o b
  <2>1. m.kind = "SERVERMESSAGE"
    OBVIOUS
  <2> QED BY <2>1 DEF Fields
<1>3. n \in Nat /\ Op[m.kind] = n /\ o \in Bytes
  <2>1. n \in Nat /\ Op[m.kind] = n
    BY DEF Op
  <2> QED BY <2>1, NumOne
<1>4. b \in Bytes /\ l \in Nat
  <2>1. b \in Below(256 * 256)
    OBVIOUS
  <2> HIDE DEF b
  <2> QED BY <2>1, Texts
<1>5. a \in Bytes
  <2> DEFINE w == 2
  <2>1. w \in Nat
    OBVIOUS
  <2> HIDE DEF w, l
  <2>2. Le(l, w) \in Bytes
    BY <1>4, <2>1, LeIs
  <2> QED BY <2>2 DEF w
<1> HIDE DEF a, b
<1>6. Fronted(o, o \o a \o b, a \o b)
  <2> HIDE DEF o
  <2> QED BY <1>3, <1>4, <1>5, TwoFields
<1> HIDE DEF n
<1> QED BY <1>1, <1>2, <1>3, <1>6, DocumentedIs

LEMMA StatusDocumented ==
    ASSUME NEW m \in [kind : {"SERVERSTATUS"}, userc : Width(4), filec : Width(4)]
    PROVE  SrvStatusEncode(m) = Documented(m)
<1> DEFINE n == 52
           o == <<n>>
           a == m.userc
           b == m.filec
<1>1. SrvStatusEncode(m) = o \o a \o b
  BY DEF SrvStatusEncode, Op
<1>2. Fields(m) = a \o b
  <2>1. m.kind = "SERVERSTATUS"
    OBVIOUS
  <2> QED BY <2>1 DEF Fields
<1>3. n \in Nat /\ Op[m.kind] = n /\ o \in Bytes
  <2>1. n \in Nat /\ Op[m.kind] = n
    BY DEF Op
  <2> QED BY <2>1, NumOne
<1>4. a \in Bytes /\ b \in Bytes
  <2>1. a \in Width(4) /\ b \in Width(4)
    OBVIOUS
  <2> HIDE DEF a, b
  <2> QED BY <2>1, Widths
<1> HIDE DEF a, b
<1>5. Fronted(o, o \o a \o b, a \o b)
  <2> HIDE DEF o
  <2> QED BY <1>3, <1>4, TwoFields
<1> HIDE DEF n
<1> QED BY <1>1, <1>2, <1>3, <1>5, DocumentedIs

LEMMA RequestedDocumented ==
    ASSUME NEW m \in [kind : {"CALLBACKREQUESTED"}, first : Width(4), second : Width(2)]
    PROVE  CallbackRequestedEncode(m) = Documented(m)
<1> DEFINE n == 53
           o == <<n>>
           a == m.first
           b == m.second
<1>1. CallbackRequestedEncode(m) = o \o a \o b
  BY DEF CallbackRequestedEncode, Op
<1>2. Fields(m) = a \o b
  <2>1. m.kind = "CALLBACKREQUESTED"
    OBVIOUS
  <2> QED BY <2>1 DEF Fields
<1>3. n \in Nat /\ Op[m.kind] = n /\ o \in Bytes
  <2>1. n \in Nat /\ Op[m.kind] = n
    BY DEF Op
  <2> QED BY <2>1, NumOne
<1>4. a \in Bytes /\ b \in Bytes
  <2>1. a \in Width(4) /\ b \in Width(2)
    OBVIOUS
  <2> HIDE DEF a, b
  <2> QED BY <2>1, Widths
<1> HIDE DEF a, b
<1>5. Fronted(o, o \o a \o b, a \o b)
  <2> HIDE DEF o
  <2> QED BY <1>3, <1>4, TwoFields
<1> HIDE DEF n
<1> QED BY <1>1, <1>2, <1>3, <1>5, DocumentedIs

LEMMA PartDocumented ==
    ASSUME NEW m \in SendingParts
    PROVE  SendingPartEncode(m) = Documented(m)
<1> DEFINE n == 70
           o == <<n>>
           a == m.hash
           b == m.start
           c == m.end
           d == m.part
<1>1. /\ m.kind = "SENDINGPART" /\ a \in Width(16) /\ b \in Width(4) /\ c \in Width(4)
      /\ d \in Below(Beyond)
  BY DEF SendingParts
<1>2. SendingPartEncode(m) = o \o a \o b \o c \o d
  BY DEF SendingPartEncode, Op
<1>3. Fields(m) = a \o b \o c \o d
  BY <1>1 DEF Fields
<1>4. n \in Nat /\ Op[m.kind] = n /\ o \in Bytes
  <2>1. n \in Nat /\ Op[m.kind] = n
    BY <1>1 DEF Op
  <2> QED BY <2>1, NumOne
<1>5. a \in Bytes /\ b \in Bytes /\ c \in Bytes
  <2> HIDE DEF a, b, c
  <2> QED BY <1>1, Widths
<1>6. d \in Bytes
  <2>1. Beyond \in Nat
    BY DEF Beyond
  <2> HIDE DEF d
  <2>2. d \in Bytes
    BY <1>1, <2>1, BelowIs
  <2> QED BY <2>2
<1> HIDE DEF a, b, c, d
<1>7. Fronted(o, o \o a \o b \o c \o d, a \o b \o c \o d)
  <2> HIDE DEF o
  <2> QED BY <1>4, <1>5, <1>6, FourFields
<1> HIDE DEF n
<1> QED BY <1>2, <1>3, <1>4, <1>7, DocumentedIs

(* The sources of a file, with their addresses in the order of the network. *)
OwnSources == [kind : {"FOUNDSOURCES_OBFU"}, hash : Width(16), srvs : Servers({<<1>>})]

LEMMA SourcesDocumented ==
    ASSUME NEW m \in OwnSources
    PROVE  FoundSourceEncode(m) = Documented(m)
<1> DEFINE n == 68
           o == <<n>>
           S == [addr : Width(4), port : Width(2), obf : {<<1>>}]
           T == [addr : Width(4), port : Width(2), obf : [1 .. 1 -> 0 .. 7]]
           k == Len(m.srvs)
           a == m.hash
           b == Le(k, 1)
           w == [i \in DOMAIN m.srvs |-> SourceBytes(m.srvs[i])]
           c == FlattenSeq(w)
<1>1. m.kind = "FOUNDSOURCES_OBFU" /\ a \in Width(16) /\ m.srvs \in Short(S, 256)
  BY DEF OwnSources, Servers
<1>2. k \in Nat /\ DOMAIN m.srvs = 1 .. k /\ \A i \in 1 .. k : m.srvs[i] \in S
  <2> HIDE DEF S
  <2> QED BY <1>1, ShortIs
<1>3. S \subseteq T
  <2>1. <<1>> \in [1 .. 1 -> 0 .. 7]
    OBVIOUS
  <2> QED BY <2>1
<1>4. \A i \in 1 .. k : w[i] \in Bytes /\ Len(w[i]) > 0
  <2> SUFFICES ASSUME NEW i \in 1 .. k PROVE w[i] \in Bytes /\ Len(w[i]) > 0
    OBVIOUS
  <2>1. m.srvs[i] \in T /\ i \in DOMAIN m.srvs
    <3> HIDE DEF S, T, k
    <3> QED BY <1>2, <1>3
  <2>2. w[i] = SourceBytes(m.srvs[i])
    BY <2>1
  <2>3. SourceBytes(m.srvs[i]) \in Bytes /\ Len(SourceBytes(m.srvs[i])) > 0
    BY <2>1, SourceWell
  <2> QED BY <2>2, <2>3
<1>5. c \in Bytes
  <2>1. DOMAIN w = 1 .. k /\ w = [i \in 1 .. k |-> w[i]]
    BY <1>2
  <2> HIDE DEF w, k
  <2>2. ArePieces(w, k)
    BY <1>2, <1>4, <2>1, Gathered
  <2> QED BY <1>2, <2>2, NotShorter DEF ArePieces
<1>6. w = [i \in DOMAIN m.srvs |-> Be(m.srvs[i].addr) \o m.srvs[i].port \o <<1>>]
  <2>1. \A i \in DOMAIN m.srvs : SourceBytes(m.srvs[i]) = Be(m.srvs[i].addr) \o m.srvs[i].port \o <<1>>
    <3>1. \A i \in DOMAIN m.srvs : m.srvs[i].obf = <<1>>
      BY <1>2
    <3> QED BY <3>1 DEF SourceBytes
  <2> QED BY <2>1
<1>7. FoundSourceEncode(m) = o \o a \o b \o c
  <2> HIDE DEF w
  <2>1. FoundSourceEncode(m) = o \o a \o b \o FlattenSeq([i \in DOMAIN m.srvs |-> Be(m.srvs[i].addr) \o m.srvs[i].port \o <<1>>])
    BY DEF FoundSourceEncode, Op
  <2> QED BY <1>6, <2>1
<1>8. Fields(m) = a \o b \o c
  BY <1>1 DEF Fields
<1>9. n \in Nat /\ Op[m.kind] = n /\ o \in Bytes
  <2>1. n \in Nat /\ Op[m.kind] = n
    BY <1>1 DEF Op
  <2> QED BY <2>1, NumOne
<1>10. a \in Bytes /\ b \in Bytes
  <2>1. a \in Bytes
    <3> HIDE DEF a
    <3> QED BY <1>1, Widths
  <2> DEFINE v == 1
  <2>2. v \in Nat
    OBVIOUS
  <2> HIDE DEF v, k
  <2>3. Le(k, v) \in Bytes
    BY <1>2, <2>2, LeIs
  <2> QED BY <2>1, <2>3 DEF v
<1> HIDE DEF a, b, c
<1>11. Fronted(o, o \o a \o b \o c, a \o b \o c)
  <2> HIDE DEF o
  <2> QED BY <1>5, <1>9, <1>10, ThreeFields
<1> HIDE DEF n
<1> QED BY <1>7, <1>8, <1>9, <1>11, DocumentedIs

(* What the classes of the program put on the wire, for a server, a peer or *)
(* in their place, is byte for byte what ed2k_opcodes.h says.               *)
THEOREM SentAlwaysDocumented == Spec => []SentAsDocumented
<1>1. OnTheWire => SentAsDocumented
  <2> SUFFICES ASSUME OnTheWire, link.way = "out",
                      link.m.kind \notin OfNodes \cup {"HELLO", "GETSOURCES_OBFU", "SEARCHREQUEST",
                                                       "IDCHANGE", "XCM"}
               PROVE  link.data = Documented(link.m)
    BY DEF SentAsDocumented
  <2> DEFINE m == link.m
  <2>1. m \in Sent /\ link.data = WrittenBy(m) /\ m.kind \notin OfNodes
        /\ m.kind \notin {"HELLO", "GETSOURCES_OBFU", "SEARCHREQUEST", "IDCHANGE", "XCM"}
    BY DEF OnTheWire
  <2> HIDE DEF m
  <2>2. (m \in ClientKinds \/ m \in OwnKinds) /\ WrittenBy(m) = Written(m)
    BY <2>1, OutIs
  <2>3. Written(m) = Documented(m)
    <3>1. CASE m \in [kind : {"LOGINREQUEST"}, hash : Width(16), cid : Width(4), port : Width(2),
                      name : TagText, version : Width(4), flags : Width(4), mver : Width(4)]
      <4>1. Written(m) = LoginEncode(m)
        BY <3>1 DEF Written
      <4> QED BY <3>1, <4>1, LoginDocumented
    <3>2. CASE m \in [kind : {"CALLBACKREQUEST"}, cid : Width(4)]
      <4>1. Written(m) = CallbackRequestEncode(m)
        BY <3>2 DEF Written
      <4> QED BY <3>2, <4>1, CallbackDocumented
    <3>3. CASE m \in [kind : {"STARTUPLOADREQ", "SETREQFILEID", "HASHSETREQUEST"}, hash : Width(16)]
      <4>1. Written(m) = MagicHashEncode(Op[m.kind], m)
        BY <3>3 DEF Written
      <4> QED BY <3>3, <4>1, HashDocumented
    <3>4. CASE m \in Asked
      <4>1. Written(m) = RequestPartsEncode(m)
        BY <3>4 DEF Written, Asked
      <4> QED BY <3>4, <4>1, PartsDocumented
    <3>5. CASE m \in [kind : {"SERVERMESSAGE"}, msg : Below(256 * 256)]
      <4>1. Written(m) = SrvMessageEncode(m)
        BY <3>5 DEF Written
      <4> QED BY <3>5, <4>1, TextDocumented
    <3>6. CASE m \in [kind : {"SERVERSTATUS"}, userc : Width(4), filec : Width(4)]
      <4>1. Written(m) = SrvStatusEncode(m)
        BY <3>6 DEF Written
      <4> QED BY <3>6, <4>1, StatusDocumented
    <3>7. CASE m \in [kind : {"CALLBACKREQUESTED"}, first : Width(4), second : Width(2)]
      <4>1. Written(m) = CallbackRequestedEncode(m)
        BY <3>7 DEF Written
      <4> QED BY <3>7, <4>1, RequestedDocumented
    <3>8. CASE m \in SendingParts
      <4>1. Written(m) = SendingPartEncode(m)
        BY <3>8 DEF Written, SendingParts
      <4> QED BY <3>8, <4>1, PartDocumented
    <3>9. CASE m \in OwnSources
      <4>1. Written(m) = FoundSourceEncode(m)
        BY <3>9 DEF Written, OwnSources
      <4> QED BY <3>9, <4>1, SourcesDocumented
    <3>10. m \in ClientKinds => \/ m \in [kind : {"LOGINREQUEST"}, hash : Width(16), cid : Width(4),
                                          port : Width(2), name : TagText,
                                          version : Width(4), flags : Width(4), mver : Width(4)]
                                \/ m \in [kind : {"CALLBACKREQUEST"}, cid : Width(4)]
                                \/ m \in [kind : {"STARTUPLOADREQ", "SETREQFILEID", "HASHSETREQUEST"},
                                          hash : Width(16)]
                                \/ m \in Asked
      BY <2>1 DEF ClientKinds, Asked
    <3>11. m \in OwnKinds => \/ m \in [kind : {"SERVERMESSAGE"}, msg : Below(256 * 256)]
                             \/ m \in [kind : {"SERVERSTATUS"}, userc : Width(4), filec : Width(4)]
                             \/ m \in [kind : {"CALLBACKREQUESTED"}, first : Width(4), second : Width(2)]
                             \/ m \in SendingParts
                             \/ m \in OwnSources
      BY <2>1 DEF OwnKinds, ServerKinds, OwnSources
    <3> QED BY <2>2, <3>1, <3>2, <3>3, <3>4, <3>5, <3>6, <3>7, <3>8, <3>9, <3>10, <3>11
  <2> QED BY <2>1, <2>2, <2>3 DEF m
<1> QED BY <1>1, WireAlways, PTL
=============================================================================
