----------------------------- MODULE NodeProofs -----------------------------
(***************************************************************************)
(* What a node of the program writes another node understands: every kind  *)
(* of message, the answers to a search with their files among them, packed *)
(* or plain, is read to its last field, and refused when it was cut.  And  *)
(* what the classes of the program write their own parses read back, a     *)
(* login with its tags and a saved .xcm among them; of a saved .xcm that   *)
(* was cut nothing is read wrong.                                          *)
(***************************************************************************)
EXTENDS LinkProofs

(* A question that is asked: the first byte of a packet between nodes.      *)
LEMMA IsCarries ==
    ASSUME NEW data \in Bytes, NEW x \in Bytes, NEW ops
    PROVE  Carries(Is(data, ops), Is(data \o x, ops), x)
<1> DEFINE packed == FALSE
<1>1. ~packed
  OBVIOUS
<1>2. Is(data, ops) = Body(data, ops, packed) /\ Is(data \o x, ops) = Body(data \o x, ops, packed)
  BY DEF Is
<1> HIDE DEF packed
<1> QED BY <1>1, <1>2, BodyCarries

(* Two fields of a layout, both there once they were read. *)
LEMMA TwoCarry ==
    ASSUME NEW d, NEW e, NEW x \in Bytes, Carries(d, e, x),
           NEW n1, NEW n2, NEW w1 \in Nat, NEW w2 \in Nat
    PROVE  LET l == <<U(n1, w1), U(n2, w2)>>
           IN  /\ Carries(Read(d, l), Read(e, l), x)
               /\ Read(d, l).ok => n2 \in DOMAIN Read(d, l).m
<1> DEFINE l == <<U(n1, w1), U(n2, w2)>>
<1>1. IsLayout(l) /\ \E k \in 1 .. Len(l) : l[k].name = n2
  <2>1. IsLayout(l) /\ Len(l) = 2 /\ l[2].name = n2
    BY Fixed2
  <2> HIDE DEF l
  <2>2. 2 \in 1 .. Len(l)
    BY <2>1
  <2> QED BY <2>1, <2>2
<1> HIDE DEF l
<1>2. Carries(Read(d, l), Read(e, l), x) /\ (Read(d, l).ok => n2 \in DOMAIN Read(d, l).m)
  BY <1>1, ReadTo
<1> QED BY <1>2 DEF l

LEMMA TaskCarries ==
    ASSUME NEW d, NEW e, NEW x \in Bytes, Carries(d, e, x)
    PROVE  Carries(Task(d), Task(e), x)
<1>1. Carries(SetHash(d), SetHash(e), x)
  BY SetHashCarries
<1>2. Task(d) = Read(SetHash(d), <<U("uid", 20), U("tid", 2)>>)
      /\ Task(e) = Read(SetHash(e), <<U("uid", 20), U("tid", 2)>>)
  BY DEF Task
<1> QED BY <1>1, <1>2, TwoCarry

LEMMA HashLengths ==
    /\ DOMAIN HashLength = {1, 2, 4} /\ \A t \in DOMAIN HashLength : HashLength[t] \in Nat
    /\ HashLength[1] = 16 /\ HashLength[2] = 16 /\ HashLength[4] = 20
BY DEF HashLength

LEMMA TypedHashCarries ==
    ASSUME NEW d, NEW e, NEW x \in Bytes, Carries(d, e, x)
    PROVE  Carries(TypedHash(d), TypedHash(e), x)
<1> DEFINE b == Get(d, U("type", 1))
           c == Get(e, U("type", 1))
           a == SetHash(b)
           g == SetHash(c)
           p == IF Num(a.m["type"]) \in DOMAIN HashLength
                  THEN Get(a, U("hash", HashLength[Num(a.m["type"])])) ELSE Throw(a)
           q == IF Num(g.m["type"]) \in DOMAIN HashLength
                  THEN Get(g, U("hash", HashLength[Num(g.m["type"])])) ELSE Throw(g)
<1>1. Carries(b, c, x) /\ (b.ok => "type" \in DOMAIN b.m)
  BY OneIs
<1>2. TypedHash(d) = IF a.ok THEN p ELSE a
  BY DEF TypedHash, Then
<1>3. TypedHash(e) = IF g.ok THEN q ELSE g
  BY DEF TypedHash, Then
<1> HIDE DEF b, c
<1>4. Carries(a, g, x)
  BY <1>1, SetHashCarries
<1>5. a.ok => "type" \in DOMAIN a.m
  BY <1>1, ThrowIs DEF SetHash
<1> HIDE DEF a, g
<1>6. a.ok => Carries(p, q, x)
  <2> SUFFICES ASSUME a.ok PROVE Carries(p, q, x)
    OBVIOUS
  <2> DEFINE k == Num(a.m["type"])
  <2>1. g.m = a.m
    BY <1>4, <1>5, NumOfField DEF ListFields
  <2>2. p = IF k \in DOMAIN HashLength THEN Get(a, U("hash", HashLength[k])) ELSE Throw(a)
    OBVIOUS
  <2>3. q = IF k \in DOMAIN HashLength THEN Get(g, U("hash", HashLength[k])) ELSE Throw(g)
    BY <2>1
  <2> HIDE DEF k, p, q
  <2>4. CASE k \in DOMAIN HashLength
    <3>1. HashLength[k] \in Nat
      BY <2>4, HashLengths
    <3>2. Carries(Get(a, U("hash", HashLength[k])), Get(g, U("hash", HashLength[k])), x)
      BY <1>4, <3>1, OneIs
    <3> QED BY <2>2, <2>3, <2>4, <3>2
  <2>5. CASE k \notin DOMAIN HashLength
    <3>1. Carries(Throw(a), Throw(g), x)
      BY <1>4, ThrowCarries DEF Carries
    <3> QED BY <2>2, <2>3, <2>5, <3>1
  <2> QED BY <2>4, <2>5
<1> HIDE DEF p, q
<1> QED BY <1>2, <1>3, <1>4, <1>6, ThenCarries

(* A length, the text and a number. *)
LEMMA TextThenNumber ==
    ASSUME NEW n1, n1 \notin ListFields, n1 # "none", NEW n2, NEW n3, NEW w1 \in Nat, NEW w3 \in Nat
    PROVE  IsLayout(<<U(n1, w1), D(n2, n1), U(n3, w3)>>)
<1> DEFINE l == <<U(n1, w1), D(n2, n1), U(n3, w3)>>
<1>1. Len(l) = 3 /\ l[1] = U(n1, w1) /\ l[2] = D(n2, n1) /\ l[3] = U(n3, w3)
  OBVIOUS
<1> HIDE DEF l
<1>2. /\ l[1].of = "none" /\ l[1].width = w1 /\ l[1].name = n1
      /\ l[2].of = n1
      /\ l[3].of = "none" /\ l[3].width = w3
  BY <1>1, UIs, DIs
<1>3. IsLayout(l)
  BY <1>1, <1>2 DEF IsLayout
<1> QED BY <1>3 DEF l

-------------------------------------------------------------------------------
(* The parses of what nodes send, on a packet and on a longer one.          *)
LEMMA SearchCarries ==
    ASSUME NEW data \in Bytes, NEW x \in Bytes
    PROVE  Carries(SearchParse(data), SearchParse(data \o x), x)
<1> DEFINE l == <<U("klen", 2), D("key", "klen"), U("flags", 4)>>
<1>1. IsLayout(l)
  BY TextThenNumber DEF ListFields
<1>2. \A s : SearchParse(s) = Read(Task(Is(s, {Opx.SEARCH})), l)
  BY DEF SearchParse
<1> HIDE DEF l
<1> QED BY <1>1, <1>2, IsCarries, TaskCarries, ReadCarries

LEMMA SearchSourceCarries ==
    ASSUME NEW data \in Bytes, NEW x \in Bytes
    PROVE  Carries(SearchSourceParse(data), SearchSourceParse(data \o x), x)
<1>1. \A s : SearchSourceParse(s) = Get(TypedHash(Task(Is(s, {Opx.SSRC}))), U("size", 8))
  BY DEF SearchSourceParse
<1>2. Carries(TypedHash(Task(Is(data, {Opx.SSRC}))), TypedHash(Task(Is(data \o x, {Opx.SSRC}))), x)
  BY IsCarries, TaskCarries, TypedHashCarries
<1> QED BY <1>1, <1>2, OneIs

LEMMA KadxFoundSourceCarries ==
    ASSUME NEW data \in Bytes, NEW x \in Bytes
    PROVE  Carries(KadxFoundSourceParse(data), KadxFoundSourceParse(data \o x), x)
<1> DEFINE l == <<U("addr", 4), U("port", 2), U("cid", 8)>>
           c == TypedHash(Task(Is(data, {Opx.FSRC})))
           g == TypedHash(Task(Is(data \o x, {Opx.FSRC})))
           a == Get(c, U("count", 1))
           b == Get(g, U("count", 1))
<1>1. IsLayout(l) /\ "count" \notin ListFields /\ "srvs" \in ListFields
  BY Fixed3 DEF ListFields
<1>2. Carries(c, g, x)
  BY IsCarries, TaskCarries, TypedHashCarries
<1>3. KadxFoundSourceParse(data) = IF a.ok THEN ReadList(a, "srvs", Num(a.m["count"]), l) ELSE a
  BY DEF KadxFoundSourceParse, Then
<1>4. KadxFoundSourceParse(data \o x) = IF b.ok THEN ReadList(b, "srvs", Num(b.m["count"]), l) ELSE b
  BY DEF KadxFoundSourceParse, Then
<1> HIDE DEF c, g
<1>5. Carries(a, b, x) /\ (a.ok => "count" \in DOMAIN a.m)
  BY <1>2, OneIs
<1> HIDE DEF l, a, b
<1> QED BY <1>1, <1>3, <1>4, <1>5, CountedCarries

LEMMA NodeCallbackCarries ==
    ASSUME NEW data \in Bytes, NEW x \in Bytes
    PROVE  Carries(CallbackParse(data), CallbackParse(data \o x), x)
<1> DEFINE l == <<U("cid", 8), U("addr", 4), U("port", 2)>>
<1>1. IsLayout(l)
  BY Fixed3
<1>2. \A s : CallbackParse(s) = Read(Is(s, {Opx.CALLBACK}), l)
  BY DEF CallbackParse
<1> HIDE DEF l
<1> QED BY <1>1, <1>2, IsCarries, ReadCarries

LEMMA HoleCarries ==
    ASSUME NEW data \in Bytes, NEW x \in Bytes
    PROVE  Carries(HoleParse(data), HoleParse(data \o x), x)
<1>1. \A s : HoleParse(s) = Read(Is(s, {Opx.HOLE}), <<U("cid", 8), U("flags", 4)>>)
  BY DEF HoleParse
<1> QED BY <1>1, IsCarries, TwoCarry

LEMMA HoleCallbackCarries ==
    ASSUME NEW data \in Bytes, NEW x \in Bytes
    PROVE  Carries(HoleCallbackParse(data), HoleCallbackParse(data \o x), x)
<1>1. \A s : HoleCallbackParse(s) = Read(Is(s, {Opx.HOLE_CALLBACK}), <<U("addr", 4), U("port", 2)>>)
  BY DEF HoleCallbackParse
<1> QED BY <1>1, IsCarries, TwoCarry

LEMMA HolingCarries ==
    ASSUME NEW data \in Bytes, NEW x \in Bytes
    PROVE  Carries(HolingParse(data), HolingParse(data \o x), x)
<1> DEFINE l == <<U("addr", 4), U("port", 2), U("way", 1)>>
<1>1. IsLayout(l)
  BY Fixed3
<1>2. \A s : HolingParse(s) = Read(Is(s, {Opx.HOLING}), l)
  BY DEF HolingParse
<1> HIDE DEF l
<1> QED BY <1>1, <1>2, IsCarries, ReadCarries

LEMMA KadxFileStatusCarries ==
    ASSUME NEW data \in Bytes, NEW x \in Bytes
    PROVE  Carries(KadxFileStatusParse(data), KadxFileStatusParse(data \o x), x)
BY IsCarries, TypedHashCarries DEF KadxFileStatusParse

LEMMA FilePartCarries ==
    ASSUME NEW data \in Bytes, NEW x \in Bytes
    PROVE  Carries(FilePartParse(data), FilePartParse(data \o x), x)
<1> DEFINE ops == {Opx.FILE_STATUS_BACK, Opx.FILE_PART}
           l == <<U("at", 8)>>
           h == <<U("total", 8), U("sc", 1)>>
           c == TypedHash(Is(data, ops))
           g == TypedHash(Is(data \o x, ops))
           a == Read(c, h)
           b == Read(g, h)
<1>1. IsLayout(l) /\ "sc" \notin ListFields /\ "parts" \in ListFields
  BY Fixed1 DEF ListFields
<1>2. Carries(c, g, x)
  BY IsCarries, TypedHashCarries
<1>3. FilePartParse(data) = IF a.ok THEN ReadList(a, "parts", Num(a.m["sc"]), l) ELSE a
  BY DEF FilePartParse, Then
<1>4. FilePartParse(data \o x) = IF b.ok THEN ReadList(b, "parts", Num(b.m["sc"]), l) ELSE b
  BY DEF FilePartParse, Then
<1> HIDE DEF c, g
<1>5. Carries(a, b, x) /\ (a.ok => "sc" \in DOMAIN a.m)
  BY <1>2, TwoCarry
<1> HIDE DEF l, a, b
<1> QED BY <1>1, <1>3, <1>4, <1>5, CountedCarries

(* One field of a file, and the passes of the loop that reads them.         *)
FDataPass(e) == IF "end" \in DOMAIN e.m THEN e ELSE Then(Get(e, U("mark", 1)), FDataField)
FDataTimes(d, n) ==
    Times(d, n, LAMBDA e : IF "end" \in DOMAIN e.m THEN e ELSE Then(Get(e, U("mark", 1)), FDataField))

LEMMA FieldTables ==
    /\ DOMAIN Texts4 = {4, 6, 11, 13} /\ DOMAIN Hashes3 = 1 .. 3
    /\ Texts4[4] = "filename" /\ Texts4[6] = "format"
    /\ Texts4[11] = "description" /\ Texts4[13] = "source"
    /\ Hashes3[1] = "sha1" /\ Hashes3[2] = "md5" /\ Hashes3[3] = "emd4"
<1>1. DOMAIN Texts4 = {4, 6, 11, 13} /\ DOMAIN Hashes3 = 1 .. 3
  BY DEF Texts4, Hashes3
<1>2. 4 \in DOMAIN Texts4 /\ 6 \in DOMAIN Texts4 /\ 11 \in DOMAIN Texts4 /\ 13 \in DOMAIN Texts4
  BY <1>1
<1>3. Texts4[4] = "filename" /\ Texts4[6] = "format"
  BY <1>2 DEF Texts4
<1>4. Texts4[11] = "description" /\ Texts4[13] = "source"
  BY <1>2 DEF Texts4
<1> QED BY <1>1, <1>3, <1>4 DEF Hashes3

(* The fields by their numbers.                                             *)
LEMMA FieldIs ==
    ASSUME NEW d, NEW k, k = Num(d.m["mark"])
    PROVE  /\ k = 1 => FDataField(d) = Get(SetHash(d), U("sha1", 20))
           /\ k \in {2, 3} => FDataField(d) = Get(SetHash(d), U(Hashes3[k], 16))
           /\ k \in DOMAIN Texts4 => FDataField(d) = Read(d, <<U("len", 2), D(Texts4[k], "len")>>)
           /\ k = 5 => FDataField(d) = Get(d, U("size", 8))
           /\ k = END => FDataField(d) = With(d, "end", <<>>)
           /\ k \notin {1, 2, 3, 5, END} \cup DOMAIN Texts4 => FDataField(d) = Throw(d)
<1> DEFINE A == Get(SetHash(d), U("sha1", 20))
           B1 == Get(SetHash(d), U(Hashes3[k], 16))
           C == Read(d, <<U("len", 2), D(Texts4[k], "len")>>)
           E == Get(d, U("size", 8))
           F == With(d, "end", <<>>)
<1>1. FDataField(d) = CASE k = 1 -> A [] k \in {2, 3} -> B1 [] k \in DOMAIN Texts4 -> C
                        [] k = 5 -> E [] k = END -> F [] OTHER -> Throw(d)
  BY DEF FDataField
<1> HIDE DEF A, B1, C, E, F
<1>2. /\ k = 1 => FDataField(d) = A
      /\ k \in {2, 3} => FDataField(d) = B1
      /\ k \in DOMAIN Texts4 => FDataField(d) = C
      /\ k = 5 => FDataField(d) = E
      /\ k = END => FDataField(d) = F
      /\ k \notin {1, 2, 3, 5, END} \cup DOMAIN Texts4 => FDataField(d) = Throw(d)
  BY <1>1, FieldTables DEF END
<1> QED BY <1>2, Zenon DEF A, B1, C, E, F

LEMMA FDataFieldCarries ==
    ASSUME NEW d, NEW e, NEW x \in Bytes, Carries(d, e, x), d.ok, "mark" \in DOMAIN d.m
    PROVE  Carries(FDataField(d), FDataField(e), x)
<1> DEFINE k == Num(d.m["mark"])
<1>1. e.m = d.m
  BY NumOfField DEF ListFields
<1>2. k = Num(d.m["mark"]) /\ k = Num(e.m["mark"])
  BY <1>1
<1> HIDE DEF k
<1>3. CASE k = 1
  <2>1. Carries(Get(SetHash(d), U("sha1", 20)), Get(SetHash(e), U("sha1", 20)), x)
    BY SetHashCarries, OneIs
  <2> QED BY <1>2, <1>3, <2>1, FieldIs
<1>4. CASE k \in {2, 3}
  <2>1. Carries(Get(SetHash(d), U(Hashes3[k], 16)), Get(SetHash(e), U(Hashes3[k], 16)), x)
    BY SetHashCarries, OneIs
  <2> QED BY <1>2, <1>4, <2>1, FieldIs
<1>5. CASE k \in DOMAIN Texts4
  <2> DEFINE l == <<U("len", 2), D(Texts4[k], "len")>>
  <2>1. IsLayout(l)
    BY Text1 DEF ListFields
  <2>2. FDataField(d) = Read(d, l) /\ FDataField(e) = Read(e, l)
    BY <1>2, <1>5, FieldIs
  <2> HIDE DEF l
  <2> QED BY <2>1, <2>2, ReadCarries
<1>6. CASE k = 5
  <2>1. Carries(Get(d, U("size", 8)), Get(e, U("size", 8)), x)
    BY OneIs
  <2> QED BY <1>2, <1>6, <2>1, FieldIs
<1>7. CASE k = END
  <2>1. <<>> \in Bytes
    BY NothingBehind, EmptySeq DEF Bytes
  <2>2. Carries(With(d, "end", <<>>), With(e, "end", <<>>), x)
    BY <2>1, WithCarries
  <2> QED BY <1>2, <1>7, <2>2, FieldIs
<1>8. CASE k \notin {1, 2, 3, 5, END} \cup DOMAIN Texts4
  <2>1. Carries(Throw(d), Throw(e), x)
    BY ThrowCarries DEF Carries
  <2> QED BY <1>2, <1>8, <2>1, FieldIs
<1> QED BY <1>3, <1>4, <1>5, <1>6, <1>7, <1>8

LEMMA FDataPassCarries ==
    ASSUME NEW d, NEW e, NEW x \in Bytes, Carries(d, e, x), d.ok
    PROVE  Carries(FDataPass(d), FDataPass(e), x)
<1> DEFINE a == Get(d, U("mark", 1))
           b == Get(e, U("mark", 1))
           p == FDataField(a)
           q == FDataField(b)
<1>1. e.m = d.m
  BY LongerOk
<1>2. FDataPass(d) = IF "end" \in DOMAIN d.m THEN d ELSE IF a.ok THEN p ELSE a
  BY DEF FDataPass, Then
<1>3. FDataPass(e) = IF "end" \in DOMAIN d.m THEN e ELSE IF b.ok THEN q ELSE b
  BY <1>1 DEF FDataPass, Then
<1>4. Carries(a, b, x) /\ (a.ok => "mark" \in DOMAIN a.m)
  BY OneIs
<1> HIDE DEF a, b
<1>5. a.ok => Carries(p, q, x)
  BY <1>4, FDataFieldCarries
<1> HIDE DEF p, q
<1>6. Carries(IF a.ok THEN p ELSE a, IF b.ok THEN q ELSE b, x)
  BY <1>4, <1>5, ThenCarries
<1> QED BY <1>2, <1>3, <1>6

LEMMA NoBytes == <<>> \in Bytes /\ Len(<<>>) = 0
BY EmptySeq DEF Bytes

LEMMA GetCursor ==
    ASSUME NEW d, IsCursor(d), NEW f, CanGet(d, f)
    PROVE  IsCursor(Get(d, f))
<1> DEFINE x == <<>>
           e == Longer(d, x)
<1>1. x \in Bytes /\ Carries(d, e, x)
  BY NoBytes DEF Carries
<1> HIDE DEF x, e
<1>2. Carries(Get(d, f), Get(e, f), x)
  BY <1>1, GetCarries
<1> QED BY <1>2 DEF Carries

(* A read leaves no more than there was.                                    *)
LEMMA LastShorter ==
    ASSUME NEW d, IsCursor(d), NEW f, CanGet(d, f), Get(d, f).ok
    PROVE  d.ok /\ Len(Get(d, f).rest) <= Len(d.rest) /\ Len(d.rest) \in Nat
<1> DEFINE w == IF f.of = "none" THEN f.width ELSE Num(d.m[f.of])
           g == Get(d, f)
<1>1. d.ok
  BY DEF Get, Then
<1>2. g = Take(d, f, w)
  BY <1>1 DEF Get, Then
<1>3. d.rest \in Bytes /\ d = Cursor(d.rest, d.m) /\ Len(d.rest) \in Nat
  BY <1>1, LenProperties DEF IsCursor, Bytes
<1>4. w \in Nat
  <2>1. CASE f.of = "none"
    BY <2>1 DEF CanGet
  <2>2. CASE f.of # "none"
    <3>1. d.m[f.of] \in Bytes
      BY <1>1, <2>2 DEF CanGet, IsCursor, IsFields
    <3> QED BY <2>2, <3>1, NumTyped
  <2> QED BY <2>1, <2>2
<1>5. g.ok
  OBVIOUS
<1> HIDE DEF w, g
<1>6. w <= Len(d.rest)
  <2>1. w > Len(d.rest) => ~Take(d, f, w).ok
    BY ThrowIs DEF Take
  <2> QED BY <1>2, <1>3, <1>4, <1>5, <2>1
<1>7. PICK p \in Bytes, q \in Bytes : d.rest = p \o q /\ Len(p) = w
  BY <1>3, <1>4, <1>6, CutAt
<1>8. Take(Cursor(p \o q, d.m), f, Len(p)) = Cursor(q, Holding(d.m, f.name, Turned(p, f.big)))
  BY TakeReads
<1>9. g = Cursor(q, Holding(d.m, f.name, Turned(p, f.big)))
  BY <1>2, <1>3, <1>7, <1>8, Zenon
<1>10. g.rest = q
  BY <1>9, CursorIs
<1>11. Len(d.rest) = Len(p) + Len(q) /\ Len(q) \in Nat
  BY <1>7, CutOf, LenProperties DEF Bytes
<1> QED BY <1>1, <1>3, <1>4, <1>7, <1>10, <1>11 DEF g

(* w bytes that were read are gone.                                         *)
LEMMA OneTakes ==
    ASSUME NEW d, IsCursor(d), NEW name, NEW w \in Nat, Get(d, U(name, w)).ok
    PROVE  LET g == Get(d, U(name, w))
           IN  /\ d.ok /\ IsCursor(g)
               /\ Len(g.rest) + w = Len(d.rest) /\ Len(g.rest) \in Nat
               /\ DOMAIN g.m = DOMAIN d.m \cup {name}
<1> DEFINE g == Get(d, U(name, w))
<1>1. PICK p \in Bytes, q \in Bytes : d.rest = p \o q /\ Len(p) = w /\ g = Cursor(q, Holding(d.m, name, p))
  BY OneGives
<1>2. d.ok
  BY OneGives
<1> HIDE DEF g
<1>3. g.rest = q /\ g.m = Holding(d.m, name, p)
  BY <1>1, CursorIs
<1>4. Len(p \o q) = Len(p) + Len(q) /\ Len(q) \in Nat
  BY CutOf, LenProperties DEF Bytes
<1>5. DOMAIN g.m = DOMAIN d.m \cup {name}
  <2>1. DOMAIN Holding(d.m, name, p) = DOMAIN d.m \cup {name}
    BY DEF Holding
  <2> QED BY <1>3, <2>1
<1>6. IsCursor(g)
  <2>1. IsFields(d.m)
    BY DEF IsCursor
  <2>2. IsFields(Holding(d.m, name, p))
    BY <2>1, HoldingTyped
  <2> QED BY <1>1, <2>2, CursorTyped
<1> QED BY <1>1, <1>2, <1>3, <1>4, <1>5, <1>6 DEF g

LEMMA SetHashIs ==
    ASSUME NEW d, IsCursor(d)
    PROVE  IsCursor(SetHash(d)) /\ SetHash(d).rest = d.rest /\ (SetHash(d).ok => SetHash(d) = d)
BY ThrowIs, ThrownTyped DEF SetHash

(* The field behind a mark takes two bytes, or is the end.                  *)
LEMMA FieldTakes ==
    ASSUME NEW d, IsCursor(d), d.ok, "mark" \in DOMAIN d.m, FDataField(d).ok
    PROVE  "end" \in DOMAIN FDataField(d).m \/ Len(FDataField(d).rest) + 2 <= Len(d.rest)
<1> DEFINE k == Num(d.m["mark"])
           r == FDataField(d)
<1>1. k = Num(d.m["mark"]) /\ r.ok /\ r = FDataField(d)
  OBVIOUS
<1>2. IsCursor(SetHash(d)) /\ SetHash(d).rest = d.rest
  BY SetHashIs
<1> HIDE DEF k, r
<1>3. CASE k = 1
  <2>1. r = Get(SetHash(d), U("sha1", 20))
    BY <1>1, <1>3, FieldIs
  <2>2. Len(r.rest) + 20 = Len(d.rest) /\ Len(r.rest) \in Nat
    BY <1>1, <1>2, <2>1, OneTakes
  <2> QED BY <1>1, <2>2
<1>4. CASE k \in {2, 3}
  <2>1. r = Get(SetHash(d), U(Hashes3[k], 16))
    BY <1>1, <1>4, FieldIs
  <2>2. Len(r.rest) + 16 = Len(d.rest) /\ Len(r.rest) \in Nat
    BY <1>1, <1>2, <2>1, OneTakes
  <2> QED BY <1>1, <2>2
<1>5. CASE k \in DOMAIN Texts4
  <2> DEFINE f == D(Texts4[k], "len")
             a == Get(d, U("len", 2))
  <2>1. r = Get(a, f)
    <3>1. r = Read(d, <<U("len", 2), f>>)
      BY <1>1, <1>5, FieldIs
    <3> HIDE DEF f
    <3> QED BY <3>1, ReadTwo
  <2>2. f.of = "len" /\ "len" \notin ListFields
    BY DIs DEF ListFields
  <2> HIDE DEF f
  <2>3. a.ok
    BY <1>1, <2>1 DEF Get, Then
  <2>4. IsCursor(a) /\ Len(a.rest) + 2 = Len(d.rest) /\ Len(a.rest) \in Nat /\ "len" \in DOMAIN a.m
    BY <2>2, <2>3, OneTakes
  <2> HIDE DEF a
  <2>5. Len(r.rest) <= Len(a.rest)
    BY <1>1, <2>1, <2>2, <2>4, LastShorter DEF CanGet
  <2>6. Len(r.rest) \in Nat
    <3>1. IsCursor(r)
      BY <2>1, <2>2, <2>4, GetCursor DEF CanGet
    <3> QED BY <3>1, LenProperties DEF IsCursor, Bytes
  <2> QED BY <1>1, <2>4, <2>5, <2>6
<1>6. CASE k = 5
  <2>1. r = Get(d, U("size", 8))
    BY <1>1, <1>6, FieldIs
  <2>2. Len(r.rest) + 8 = Len(d.rest) /\ Len(r.rest) \in Nat
    BY <1>1, <2>1, OneTakes
  <2> QED BY <1>1, <2>2
<1>7. CASE k = END
  <2>1. r = With(d, "end", <<>>)
    BY <1>1, <1>7, FieldIs
  <2>2. r.m = Holding(d.m, "end", <<>>)
    BY <2>1, CursorIs DEF With
  <2>3. "end" \in DOMAIN r.m
    BY <2>2, Held
  <2> QED BY <1>1, <2>3
<1>8. CASE k \notin {1, 2, 3, 5, END} \cup DOMAIN Texts4
  <2>1. r = Throw(d)
    BY <1>1, <1>8, FieldIs
  <2> QED BY <1>1, <2>1, ThrowIs
<1> QED BY <1>3, <1>4, <1>5, <1>6, <1>7, <1>8

LEMMA PassTakes ==
    ASSUME NEW d, IsCursor(d), d.ok, "end" \notin DOMAIN d.m, FDataPass(d).ok
    PROVE  "end" \in DOMAIN FDataPass(d).m \/ Len(FDataPass(d).rest) + 3 <= Len(d.rest)
<1> DEFINE a == Get(d, U("mark", 1))
<1>1. FDataPass(d) = IF a.ok THEN FDataField(a) ELSE a
  BY DEF FDataPass, Then
<1>2. a.ok /\ FDataPass(d) = FDataField(a)
  BY <1>1
<1>3. "mark" \notin ListFields
  BY DEF ListFields
<1>4. IsCursor(a) /\ Len(a.rest) + 1 = Len(d.rest) /\ Len(a.rest) \in Nat /\ "mark" \in DOMAIN a.m
  BY <1>2, OneTakes
<1> HIDE DEF a
<1>5. "end" \in DOMAIN FDataField(a).m \/ Len(FDataField(a).rest) + 2 <= Len(a.rest)
  BY <1>2, <1>4, FieldTakes
<1>6. IsCursor(FDataField(a))
  <2> DEFINE x == <<>>
             e == Longer(a, x)
  <2>1. x \in Bytes /\ Carries(a, e, x)
    BY <1>4, NoBytes DEF Carries
  <2> HIDE DEF x, e
  <2>2. Carries(FDataField(a), FDataField(e), x)
    BY <1>2, <1>4, <2>1, FDataFieldCarries
  <2> QED BY <2>2 DEF Carries
<1>7. Len(FDataField(a).rest) \in Nat
  BY <1>6, LenProperties DEF IsCursor, Bytes
<1> DEFINE u == Len(FDataField(a).rest)
           v == Len(a.rest)
           z == Len(d.rest)
<1>8. u \in Nat /\ v \in Nat /\ v + 1 = z
  BY <1>4, <1>7
<1>9. u + 2 <= v => u + 3 <= z
  <2> HIDE DEF u, v, z
  <2> QED BY <1>8
<1> QED BY <1>2, <1>5, <1>9

(* The passes of FDataParse.                                                *)
LEMMA FDataRuns ==
    ASSUME NEW a, NEW n \in Nat
    PROVE  \E r : /\ r[0] = a /\ \A k \in 1 .. n : r[k] = (IF r[k - 1].ok THEN FDataPass(r[k - 1]) ELSE r[k - 1])
                  /\ FDataTimes(a, n) = r[n]
<1> DEFINE Runs(r, m) == r[0] = a /\ \A k \in 1 .. m : r[k] = (IF r[k - 1].ok THEN FDataPass(r[k - 1]) ELSE r[k - 1])
           Built(r) == [k \in 0 .. n |-> IF k = 0 THEN a ELSE (IF r[k - 1].ok THEN FDataPass(r[k - 1]) ELSE r[k - 1])]
           run == CHOOSE r : r = Built(r)
           S == { m \in 0 .. n : \E r : Runs(r, m) }
<1>1. Runs([k \in 0 .. 0 |-> a], 0)
  OBVIOUS
<1>2. ASSUME NEW m \in 1 .. n, NEW h, Runs(h, m - 1) PROVE \E r : Runs(r, m)
  <2> DEFINE r == [k \in 0 .. m |-> IF k = m THEN (IF h[m - 1].ok THEN FDataPass(h[m - 1]) ELSE h[m - 1]) ELSE h[k]]
  <2>1. r[0] = a /\ r[m] = (IF h[m - 1].ok THEN FDataPass(h[m - 1]) ELSE h[m - 1]) /\ \A k \in 0 .. m - 1 : r[k] = h[k]
    BY <1>2
  <2>2. \A k \in 1 .. m : k - 1 \in 0 .. m - 1 /\ (k # m => k \in 1 .. m - 1)
    OBVIOUS
  <2> HIDE DEF r
  <2>3. Runs(r, m)
    BY <1>2, <2>1, <2>2
  <2> QED BY <2>3
<1>3. PICK r : Runs(r, n)
  <2>1. 0 \in S /\ \A m \in 1 .. n : m - 1 \in S => m \in S
    <3> HIDE DEF Runs
    <3> QED BY <1>1, <1>2
  <2>2. n \in S
    <3> HIDE DEF S
    <3> QED BY <2>1, UpTo
  <2> QED BY <2>2
<1> DEFINE g == [k \in 0 .. n |-> r[k]]
<1>4. g = Built(g)
  <2>1. \A k \in 0 .. n : g[k] = IF k = 0 THEN a ELSE (IF g[k - 1].ok THEN FDataPass(g[k - 1]) ELSE g[k - 1])
    BY <1>3
  <2>2. g = [k \in 0 .. n |-> g[k]]
    OBVIOUS
  <2> HIDE DEF g
  <2> QED BY <2>1, <2>2
<1>5. run = Built(run)
  <2> HIDE DEF Built, g
  <2> QED BY <1>4
<1>6. Runs(run, n)
  <2> HIDE DEF run
  <2> QED BY <1>5
<1> QED BY <1>6 DEF FDataTimes, Times, Then, FDataPass

(* A file as it is parsed, on bytes and on more of them: the end stops it,   *)
(* or it throws.                                                            *)
LEMMA FDataIs ==
    ASSUME NEW d, NEW h, h = Get(d, U("head", 1))
    PROVE  FDataParse(d) = IF h.ok
                             THEN IF Num(h.m["head"]) # END THEN Throw(h)
                                  ELSE FDataTimes(h, Len(h.rest) \div 3 + 1)
                             ELSE h
BY DEF FDataParse, FDataTimes, Times, Then

LEMMA Thirds ==
    ASSUME NEW a \in Nat, NEW b \in Nat, a <= b
    PROVE  /\ a \div 3 + 1 \in Nat /\ 3 * (a \div 3 + 1) > a
           /\ a \div 3 + 1 <= b \div 3 + 1
OBVIOUS

LEMMA FDataCarries ==
    ASSUME NEW d, NEW e, NEW x \in Bytes, Carries(d, e, x), d.ok => "end" \notin DOMAIN d.m
    PROVE  Carries(FDataParse(d), FDataParse(e), x)
<1> DEFINE h == Get(d, U("head", 1))
           g == Get(e, U("head", 1))
           n == Len(h.rest) \div 3 + 1
           o == Len(g.rest) \div 3 + 1
           p == IF Num(h.m["head"]) # END THEN Throw(h) ELSE FDataTimes(h, n)
           q == IF Num(g.m["head"]) # END THEN Throw(g) ELSE FDataTimes(g, o)
<1>1. FDataParse(d) = IF h.ok THEN p ELSE h
  BY FDataIs
<1>2. FDataParse(e) = IF g.ok THEN q ELSE g
  BY FDataIs
<1>3. Carries(h, g, x) /\ (h.ok => d.ok /\ DOMAIN h.m = DOMAIN d.m \cup {"head"})
  BY OneIs
<1> HIDE DEF h, g
<1>4. h.ok => "end" \notin DOMAIN h.m /\ "head" \in DOMAIN h.m
  BY <1>3
<1>5. h.ok => Carries(p, q, x)
  <2> SUFFICES ASSUME h.ok PROVE Carries(p, q, x)
    OBVIOUS
  <2>1. g.m = h.m /\ g.ok /\ g.rest = h.rest \o x /\ h.rest \in Bytes /\ IsCursor(h)
    BY <1>3, LongerOk
  <2>2. CASE Num(h.m["head"]) # END
    <3>1. Carries(Throw(h), Throw(g), x)
      BY <1>3, ThrowCarries DEF Carries
    <3> QED BY <2>1, <2>2, <3>1
  <2>3. CASE Num(h.m["head"]) = END
    <3>1. p = FDataTimes(h, n) /\ q = FDataTimes(g, o)
      BY <2>1, <2>3
    <3>2. Len(h.rest) \in Nat /\ Len(g.rest) \in Nat /\ Len(h.rest) <= Len(g.rest)
      <4>1. Len(h.rest \o x) = Len(h.rest) + Len(x) /\ Len(h.rest) \in Nat /\ Len(x) \in Nat
        BY <2>1, CutOf, LenProperties DEF Bytes
      <4> QED BY <2>1, <4>1
    <3>3. n \in Nat /\ o \in Nat /\ n <= o /\ 3 * n > Len(h.rest)
      <4>1. Len(h.rest) <= Len(h.rest) /\ Len(g.rest) <= Len(g.rest)
        BY <3>2
      <4> QED BY <3>2, <4>1, Thirds
    <3> HIDE DEF n, o, p, q
    <3>4. PICK r : /\ r[0] = h
                   /\ \A k \in 1 .. n : r[k] = (IF r[k - 1].ok THEN FDataPass(r[k - 1]) ELSE r[k - 1])
                   /\ p = r[n]
      BY <3>1, <3>3, FDataRuns
    <3>5. PICK t : /\ t[0] = g
                   /\ \A k \in 1 .. o : t[k] = (IF t[k - 1].ok THEN FDataPass(t[k - 1]) ELSE t[k - 1])
                   /\ q = t[o]
      BY <3>1, <3>3, FDataRuns
    <3> DEFINE Same(k) == Carries(r[k], t[k], x)
               Taken(k) == r[k].ok => "end" \in DOMAIN r[k].m \/ Len(r[k].rest) + 3 * k <= Len(h.rest)
               S == { k \in 0 .. n : Same(k) /\ Taken(k) }
    <3>6. 0 \in S
      <4>1. Same(0) /\ 0 \in 0 .. n
        BY <1>3, <3>3, <3>4, <3>5
      <4>2. Taken(0)
        BY <3>2, <3>4
      <4> QED BY <4>1, <4>2
    <3>7. ASSUME NEW k \in 1 .. n, k - 1 \in S PROVE k \in S
      <4> DEFINE a == r[k - 1]
                 b == t[k - 1]
      <4>1. Carries(a, b, x) /\ Taken(k - 1) /\ k \in 0 .. n /\ k \in 1 .. o /\ k \in Nat
        <5>1. Same(k - 1) /\ Taken(k - 1)
          BY <3>7
        <5>2. k \in 0 .. n /\ k \in 1 .. o /\ k \in Nat
          BY <3>3
        <5> HIDE DEF Taken
        <5> QED BY <5>1, <5>2
      <4>2. /\ r[k] = (IF a.ok THEN FDataPass(a) ELSE a)
            /\ t[k] = (IF b.ok THEN FDataPass(b) ELSE b)
        BY <3>4, <3>5, <4>1
      <4>3. a.ok => "end" \in DOMAIN a.m \/ Len(a.rest) + 3 * (k - 1) <= Len(h.rest)
        BY <4>1
      <4> HIDE DEF a, b, S, Same, Taken
      <4>4. Same(k)
        <5>1. a.ok => Carries(FDataPass(a), FDataPass(b), x)
          BY <4>1, FDataPassCarries
        <5>2. Carries(r[k], t[k], x)
          BY <4>1, <4>2, <5>1, ThenCarries
        <5> QED BY <5>2 DEF Same
      <4>5. Taken(k)
        <5> SUFFICES ASSUME r[k].ok
                     PROVE  "end" \in DOMAIN r[k].m \/ Len(r[k].rest) + 3 * k <= Len(h.rest)
          BY DEF Taken
        <5>1. a.ok /\ r[k] = FDataPass(a)
          BY <4>2
        <5>2. IsCursor(a)
          BY <4>1 DEF Carries
        <5>3. CASE "end" \in DOMAIN a.m
          BY <5>1, <5>3 DEF FDataPass
        <5>4. CASE "end" \notin DOMAIN a.m
          <6>1. "end" \in DOMAIN r[k].m \/ Len(r[k].rest) + 3 <= Len(a.rest)
            BY <5>1, <5>2, <5>4, PassTakes
          <6>2. Len(r[k].rest) \in Nat /\ Len(a.rest) \in Nat
            <7>1. IsCursor(r[k])
              BY <4>4 DEF Same, Carries
            <7> QED BY <5>2, <7>1, LenProperties DEF IsCursor, Bytes
          <6> DEFINE u == Len(r[k].rest)
                     v == Len(a.rest)
                     z == Len(h.rest)
          <6>3. u \in Nat /\ v \in Nat /\ z \in Nat /\ v + 3 * (k - 1) <= z
            BY <3>2, <4>3, <5>1, <5>4, <6>2
          <6>4. u + 3 <= v => u + 3 * k <= z
            <7> HIDE DEF u, v, z
            <7> QED BY <4>1, <6>3
          <6> QED BY <6>1, <6>4
        <5> QED BY <5>3, <5>4
      <4> QED BY <4>1, <4>4, <4>5 DEF S
    <3>8. n \in S
      <4>1. \A k \in 1 .. n : k - 1 \in S => k \in S
        BY <3>7
      <4> HIDE DEF S
      <4>2. \A k \in 0 .. n : k \in S
        BY <3>3, <3>6, <4>1, UpTo
      <4> QED BY <3>3, <4>2
    <3>9. Same(n) /\ Taken(n)
      BY <3>8
    <3>10. CASE ~r[n].ok
      BY <3>4, <3>9, <3>10, ThrownCarries DEF Carries
    <3>11. CASE r[n].ok
      <4>1. "end" \in DOMAIN r[n].m
        <5>1. Len(r[n].rest) \in Nat
          BY <3>9, LenProperties DEF Carries, IsCursor, Bytes
        <5>2. "end" \in DOMAIN r[n].m \/ Len(r[n].rest) + 3 * n <= Len(h.rest)
          BY <3>9, <3>11
        <5> DEFINE u == Len(r[n].rest)
                   z == Len(h.rest)
        <5>3. u \in Nat /\ z \in Nat /\ 3 * n > z
          BY <3>2, <3>3, <5>1
        <5>4. ~(u + 3 * n <= z)
          <6> HIDE DEF u, z
          <6> QED BY <3>3, <5>3
        <5> QED BY <5>2, <5>4
      <4>2. t[n].ok /\ "end" \in DOMAIN t[n].m
        BY <3>9, <3>11, <4>1, LongerOk
      <4> DEFINE T == { k \in 0 .. o : k >= n => t[k] = t[n] }
      <4>3. 0 \in T
        BY <3>3
      <4>4. ASSUME NEW k \in 1 .. o, k - 1 \in T PROVE k \in T
        <5>1. CASE k <= n
          BY <3>3, <5>1
        <5>2. CASE k > n
          <6>1. t[k - 1] = t[n]
            BY <3>3, <4>4, <5>2
          <6>2. t[k] = FDataPass(t[n])
            BY <3>5, <4>2, <6>1
          <6>3. t[k] = t[n]
            BY <4>2, <6>2 DEF FDataPass
          <6> QED BY <6>3
        <5> QED BY <3>3, <5>1, <5>2
      <4>5. o \in T
        <5>1. \A k \in 1 .. o : k - 1 \in T => k \in T
          BY <4>4
        <5> HIDE DEF T
        <5>2. \A k \in 0 .. o : k \in T
          BY <3>3, <4>3, <5>1, UpTo
        <5> QED BY <3>3, <5>2
      <4>6. t[o] = t[n]
        BY <3>3, <4>5
      <4> QED BY <3>4, <3>5, <3>9, <4>6
    <3> QED BY <3>10, <3>11
  <2> QED BY <2>2, <2>3
<1> HIDE DEF p, q
<1> QED BY <1>1, <1>2, <1>3, <1>5, ThenCarries

-------------------------------------------------------------------------------
(* The files of an answer.                                                  *)
AnswerPass(e) == Listed(e, "fs", FDataParse(Fresh(e)))
AnswerTimes(d, n) == Times(d, n, LAMBDA e : Listed(e, "fs", FDataParse(Fresh(e))))
AnswerLoop(d, n) == Repeat(d, n, LAMBDA e : Listed(e, "fs", FDataParse(Fresh(e))))

LEMMA AnswerPassCarries ==
    ASSUME NEW d, NEW e, NEW x \in Bytes, Carries(d, e, x), d.ok
    PROVE  Carries(AnswerPass(d), AnswerPass(e), x)
<1> DEFINE r == FDataParse(Fresh(d))
           t == FDataParse(Fresh(e))
<1>1. Carries(r, t, x)
  <2>1. Carries(Fresh(d), Fresh(e), x)
    BY FreshCarries
  <2>2. Fresh(d).m = <<>>
    BY CursorIs DEF Fresh
  <2>3. "end" \notin DOMAIN Fresh(d).m
    BY <2>2
  <2> QED BY <2>1, <2>3, FDataCarries
<1>2. AnswerPass(d) = Listed(d, "fs", r) /\ AnswerPass(e) = Listed(e, "fs", t)
  BY DEF AnswerPass
<1>3. "fs" \in ListFields
  BY DEF ListFields
<1> HIDE DEF r, t
<1> QED BY <1>1, <1>2, <1>3, ListedCarries

LEMMA AnswerRuns ==
    ASSUME NEW a, NEW n \in Nat
    PROVE  \E r : /\ r[0] = a /\ \A k \in 1 .. n : r[k] = (IF r[k - 1].ok THEN AnswerPass(r[k - 1]) ELSE r[k - 1])
                  /\ AnswerTimes(a, n) = r[n]
<1> DEFINE Runs(r, m) == r[0] = a /\ \A k \in 1 .. m : r[k] = (IF r[k - 1].ok THEN AnswerPass(r[k - 1]) ELSE r[k - 1])
           Built(r) == [k \in 0 .. n |-> IF k = 0 THEN a ELSE (IF r[k - 1].ok THEN AnswerPass(r[k - 1]) ELSE r[k - 1])]
           run == CHOOSE r : r = Built(r)
           S == { m \in 0 .. n : \E r : Runs(r, m) }
<1>1. Runs([k \in 0 .. 0 |-> a], 0)
  OBVIOUS
<1>2. ASSUME NEW m \in 1 .. n, NEW h, Runs(h, m - 1) PROVE \E r : Runs(r, m)
  <2> DEFINE r == [k \in 0 .. m |-> IF k = m THEN (IF h[m - 1].ok THEN AnswerPass(h[m - 1]) ELSE h[m - 1]) ELSE h[k]]
  <2>1. r[0] = a /\ r[m] = (IF h[m - 1].ok THEN AnswerPass(h[m - 1]) ELSE h[m - 1]) /\ \A k \in 0 .. m - 1 : r[k] = h[k]
    BY <1>2
  <2>2. \A k \in 1 .. m : k - 1 \in 0 .. m - 1 /\ (k # m => k \in 1 .. m - 1)
    OBVIOUS
  <2> HIDE DEF r
  <2>3. Runs(r, m)
    BY <1>2, <2>1, <2>2
  <2> QED BY <2>3
<1>3. PICK r : Runs(r, n)
  <2>1. 0 \in S /\ \A m \in 1 .. n : m - 1 \in S => m \in S
    <3> HIDE DEF Runs
    <3> QED BY <1>1, <1>2
  <2>2. n \in S
    <3> HIDE DEF S
    <3> QED BY <2>1, UpTo
  <2> QED BY <2>2
<1> DEFINE g == [k \in 0 .. n |-> r[k]]
<1>4. g = Built(g)
  <2>1. \A k \in 0 .. n : g[k] = IF k = 0 THEN a ELSE (IF g[k - 1].ok THEN AnswerPass(g[k - 1]) ELSE g[k - 1])
    BY <1>3
  <2>2. g = [k \in 0 .. n |-> g[k]]
    OBVIOUS
  <2> HIDE DEF g
  <2> QED BY <2>1, <2>2
<1>5. run = Built(run)
  <2> HIDE DEF Built, g
  <2> QED BY <1>4
<1>6. Runs(run, n)
  <2> HIDE DEF run
  <2> QED BY <1>5
<1> QED BY <1>6 DEF AnswerTimes, Times, Then, AnswerPass

LEMMA AnswerLoopCarries ==
    ASSUME NEW d, NEW e, NEW x \in Bytes, Carries(d, e, x), NEW n \in Nat
    PROVE  Carries(AnswerLoop(d, n), AnswerLoop(e, n), x)
<1> DEFINE whole == AnswerLoop(d, n)
           E == AnswerLoop(e, n)
<1>1. CASE ~d.ok
  <2>1. whole = d
    BY <1>1 DEF AnswerLoop, AnswerTimes, Repeat, Times, Then
  <2>2. Carries(d, E, x)
    BY <1>1, ThrownCarries DEF Carries
  <2> QED BY <2>1, <2>2, Zenon
<1>2. CASE d.ok
  <2>1. /\ e.ok /\ d.rest \in Bytes /\ e.rest = d.rest \o x /\ IsCursor(d)
    <3> HIDE DEF whole, E
    <3> QED BY <1>2, LongerOk
  <2>2. CASE n > Len(d.rest)
    <3>1. whole = Throw(d)
      BY <1>2, <2>2 DEF AnswerLoop, AnswerTimes, Repeat, Times, Then
    <3>2. Carries(Throw(d), E, x)
      BY <2>1, ThrownTyped, ThrownCarries
    <3> QED BY <3>1, <3>2, Zenon
  <2>3. CASE ~(n > Len(d.rest))
    <3>1. ~(n > Len(e.rest))
      <4>1. Len(d.rest \o x) = Len(d.rest) + Len(x) /\ Len(d.rest) \in Nat /\ Len(x) \in Nat
        BY <2>1, CutOf, LenProperties DEF Bytes
      <4> QED BY <2>1, <2>3, <4>1
    <3>2. PICK r : /\ r[0] = d /\ \A k \in 1 .. n : r[k] = (IF r[k - 1].ok THEN AnswerPass(r[k - 1]) ELSE r[k - 1])
                   /\ whole = r[n]
      <4>1. \E r : /\ r[0] = d /\ \A k \in 1 .. n : r[k] = (IF r[k - 1].ok THEN AnswerPass(r[k - 1]) ELSE r[k - 1])
                   /\ AnswerTimes(d, n) = r[n]
        BY AnswerRuns
      <4>2. whole = AnswerTimes(d, n)
        BY <1>2, <2>3 DEF AnswerLoop, AnswerTimes, Repeat, Times, Then
      <4> HIDE DEF whole
      <4> QED BY <4>1, <4>2
    <3>3. PICK t : /\ t[0] = e /\ \A k \in 1 .. n : t[k] = (IF t[k - 1].ok THEN AnswerPass(t[k - 1]) ELSE t[k - 1])
                   /\ E = t[n]
      <4>1. \E t : /\ t[0] = e /\ \A k \in 1 .. n : t[k] = (IF t[k - 1].ok THEN AnswerPass(t[k - 1]) ELSE t[k - 1])
                   /\ AnswerTimes(e, n) = t[n]
        BY AnswerRuns
      <4>2. E = AnswerTimes(e, n)
        BY <2>1, <3>1 DEF AnswerLoop, AnswerTimes, Repeat, Times, Then
      <4> HIDE DEF E
      <4> QED BY <4>1, <4>2
    <3> DEFINE S == { k \in 0 .. n : Carries(r[k], t[k], x) }
    <3>4. \A k \in 1 .. n : Carries(r[k - 1], t[k - 1], x) => Carries(r[k], t[k], x)
      <4> SUFFICES ASSUME NEW k \in 1 .. n, Carries(r[k - 1], t[k - 1], x)
                   PROVE  Carries(r[k], t[k], x)
        OBVIOUS
      <4> DEFINE a == r[k - 1]
                 b == t[k - 1]
      <4>1. r[k] = (IF a.ok THEN AnswerPass(a) ELSE a) /\ t[k] = (IF b.ok THEN AnswerPass(b) ELSE b)
        BY <3>2, <3>3
      <4> HIDE DEF a, b
      <4>2. Carries(a, b, x)
        BY DEF a, b
      <4>3. CASE ~a.ok
        <5>1. r[k] = a
          BY <4>1, <4>3
        <5> QED BY <4>2, <4>3, <5>1, ThrownCarries DEF Carries
      <4>4. CASE a.ok
        <5>1. b.ok
          BY <4>2, <4>4, LongerIs, CursorIs
        <5> QED BY <4>1, <4>2, <4>4, <5>1, AnswerPassCarries
      <4> QED BY <4>3, <4>4
    <3>5. 0 \in S /\ \A k \in 1 .. n : k - 1 \in S => k \in S
      <4>1. \A k \in 1 .. n : k \in 0 .. n
        OBVIOUS
      <4>2. Carries(r[0], t[0], x) /\ 0 \in 0 .. n
        BY <3>2, <3>3
      <4> QED BY <3>4, <4>1, <4>2
    <3>6. n \in S
      <4> HIDE DEF S
      <4>1. n \in 0 .. n
        OBVIOUS
      <4> QED BY <3>5, <4>1, UpTo
    <3>7. Carries(r[n], t[n], x)
      BY <3>6
    <3> QED BY <3>2, <3>3, <3>7, Zenon
  <2> QED BY <2>2, <2>3
<1> QED BY <1>1, <1>2

(* The files are read one behind the other.                                 *)
AnswerReads(n, w, m) ==
    \A k \in 1 .. n : \A z \in Bytes : AnswerPass(Cursor(w[k] \o z, m[k - 1])) = Cursor(z, m[k])

LEMMA AnswerReadsAll ==
    ASSUME NEW n \in Nat, NEW w, ArePieces(w, n), NEW q \in Bytes, NEW m,
           AnswerReads(n, w, m)
    PROVE  AnswerLoop(Cursor(FlattenSeq(w) \o q, m[0]), n) = Cursor(q, m[n])
<1> DEFINE d == Cursor(FlattenSeq(w) \o q, m[0])
           whole == AnswerLoop(d, n)
<1>1. PICK s : /\ s[0] = FlattenSeq(w) /\ s[n] = <<>>
               /\ \A k \in 0 .. n : s[k] \in Bytes
               /\ \A k \in 1 .. n : w[k] \in Bytes /\ s[k - 1] = w[k] \o s[k]
  BY Pieces DEF ArePieces
<1>2. d.ok /\ d.rest = FlattenSeq(w) \o q
  BY CursorIs
<1>3. ~(n > Len(d.rest))
  <2>1. FlattenSeq(w) \in Bytes /\ Len(FlattenSeq(w)) >= n
    BY NotShorter DEF ArePieces
  <2>2. Len(FlattenSeq(w) \o q) = Len(FlattenSeq(w)) + Len(q)
    BY <2>1, CutOf
  <2>3. Len(FlattenSeq(w)) \in Nat /\ Len(q) \in Nat
    BY <2>1, LenProperties DEF Bytes
  <2> DEFINE a == FlattenSeq(w)
  <2> HIDE DEF a, d
  <2>4. Len(d.rest) = Len(a) + Len(q) /\ Len(a) >= n /\ Len(a) \in Nat
    BY <1>2, <2>1, <2>2, <2>3 DEF a
  <2> QED BY <2>3, <2>4
<1>4. PICK r : /\ r[0] = d /\ \A k \in 1 .. n : r[k] = (IF r[k - 1].ok THEN AnswerPass(r[k - 1]) ELSE r[k - 1])
               /\ whole = r[n]
  <2> HIDE DEF d
  <2>1. \E r : /\ r[0] = d /\ \A k \in 1 .. n : r[k] = (IF r[k - 1].ok THEN AnswerPass(r[k - 1]) ELSE r[k - 1])
               /\ AnswerTimes(d, n) = r[n]
    BY AnswerRuns
  <2>2. whole = AnswerTimes(d, n)
    BY <1>2, <1>3 DEF AnswerLoop, AnswerTimes, Repeat, Times, Then
  <2> HIDE DEF whole
  <2> QED BY <2>1, <2>2
<1> DEFINE S == { k \in 0 .. n : r[k] = Cursor(s[k] \o q, m[k]) }
<1>5. 0 \in S
  BY <1>1, <1>4
<1>6. ASSUME NEW k \in 1 .. n, k - 1 \in S PROVE k \in S
  <2> DEFINE a == r[k - 1]
             z == s[k] \o q
  <2>1. k \in 0 .. n /\ k - 1 \in 0 .. n
    OBVIOUS
  <2>2. a = Cursor(s[k - 1] \o q, m[k - 1])
    BY <1>6
  <2>3. s[k - 1] \o q = w[k] \o z /\ z \in Bytes
    <3>1. w[k] \in Bytes /\ s[k] \in Bytes /\ s[k - 1] = w[k] \o s[k]
      BY <1>1, <2>1
    <3>2. (w[k] \o s[k]) \o q = w[k] \o (s[k] \o q) /\ s[k] \o q \in Bytes
      BY <3>1, Joined
    <3> QED BY <3>1, <3>2, Zenon
  <2>4. r[k] = (IF a.ok THEN AnswerPass(a) ELSE a)
    BY <1>4
  <2> HIDE DEF a, z
  <2>5. a = Cursor(w[k] \o z, m[k - 1]) /\ a.ok
    BY <2>2, <2>3, CursorIs
  <2>6. AnswerPass(Cursor(w[k] \o z, m[k - 1])) = Cursor(z, m[k])
    BY <2>3 DEF AnswerReads
  <2>7. r[k] = AnswerPass(a)
    BY <2>4, <2>5
  <2>8. r[k] = Cursor(z, m[k])
    BY <2>5, <2>6, <2>7, Zenon
  <2> QED BY <2>1, <2>8 DEF z
<1>7. n \in S
  <2>1. \A k \in 1 .. n : k - 1 \in S => k \in S
    BY <1>6
  <2> HIDE DEF S
  <2>2. \A k \in 0 .. n : k \in S
    BY <1>5, <2>1, UpTo
  <2> QED BY <2>2
<1>8. r[n] = Cursor(s[n] \o q, m[n])
  BY <1>7
<1>9. s[n] \o q = q
  BY <1>1, NothingBehind
<1> QED BY <1>4, <1>8, <1>9, Zenon

-------------------------------------------------------------------------------
(* What the operations of the ten kinds that are read in one go are.        *)
NodeOps == {20, 24, 25, 27, 32, 33, 35, 48, 49, 50}

LEMMA FirstOf ==
    ASSUME NEW op \in Nat, NEW y \in Bytes
    PROVE  /\ <<op>> \o y \in Bytes /\ Digit(<<op>> \o y, 1) = op
           /\ Len(<<op>> \o y) = Len(y) + 1 /\ Len(y) \in Nat
<1> DEFINE p == <<op>>
<1>1. p \in Bytes /\ Len(p) = 1 /\ p[1] = op
  BY NumOne
<1> HIDE DEF p
<1>2. p \o y \in Bytes /\ Len(p \o y) = Len(p) + Len(y) /\ Len(y) \in Nat
  BY <1>1, CutOf, LenProperties DEF Bytes
<1>3. (p \o y)[1] = op /\ 1 \in DOMAIN (p \o y)
  <2>1. p \in Seq(Nat) /\ y \in Seq(Nat) /\ p \o y \in Seq(Nat)
    BY <1>1, <1>2 DEF Bytes
  <2>2. 1 \in 1 .. Len(p) + Len(y) /\ 1 <= Len(p) /\ 1 \in 1 .. Len(p \o y)
    BY <1>1, <1>2
  <2> QED BY <1>1, <2>1, <2>2, ConcatProperties, LenProperties
<1> QED BY <1>1, <1>2, <1>3 DEF Digit, p

(* The class of each of these operations.                                  *)
NodeParse(op, s) ==
    /\ op = 20 => KadxParsed(s) = SearchParse(s)
    /\ op = 24 => KadxParsed(s) = SearchSourceParse(s)
    /\ op = 25 => KadxParsed(s) = KadxFoundSourceParse(s)
    /\ op = 27 => KadxParsed(s) = CallbackParse(s)
    /\ op = 32 => KadxParsed(s) = HoleParse(s)
    /\ op = 33 => KadxParsed(s) = HoleCallbackParse(s)
    /\ op = 35 => KadxParsed(s) = HolingParse(s)
    /\ op = 48 => KadxParsed(s) = KadxFileStatusParse(s)
    /\ op \in {49, 50} => KadxParsed(s) = FilePartParse(s)

LEMMA NodeParses ==
    ASSUME NEW op \in NodeOps, NEW s, Digit(s, 1) = op
    PROVE  NodeParse(op, s)
BY DEF NodeParse, KadxParsed, Opx

LEMMA NodeCarries ==
    ASSUME NEW op \in NodeOps, NEW data \in Bytes, Digit(data, 1) = op,
           NEW x \in Bytes, Digit(data \o x, 1) = op
    PROVE  Carries(KadxParsed(data), KadxParsed(data \o x), x)
<1> DEFINE y == data \o x
<1>1. NodeParse(op, data) /\ NodeParse(op, y)
  BY NodeParses
<1>2. /\ Carries(SearchParse(data), SearchParse(y), x)
      /\ Carries(SearchSourceParse(data), SearchSourceParse(y), x)
      /\ Carries(KadxFoundSourceParse(data), KadxFoundSourceParse(y), x)
      /\ Carries(CallbackParse(data), CallbackParse(y), x)
      /\ Carries(HoleParse(data), HoleParse(y), x)
  BY SearchCarries, SearchSourceCarries, KadxFoundSourceCarries, NodeCallbackCarries, HoleCarries
<1>3. /\ Carries(HoleCallbackParse(data), HoleCallbackParse(y), x)
      /\ Carries(HolingParse(data), HolingParse(y), x)
      /\ Carries(KadxFileStatusParse(data), KadxFileStatusParse(y), x)
      /\ Carries(FilePartParse(data), FilePartParse(y), x)
  BY HoleCallbackCarries, HolingCarries, KadxFileStatusCarries, FilePartCarries
<1> HIDE DEF y
<1>4. Carries(KadxParsed(data), KadxParsed(y), x)
  BY <1>1, <1>2, <1>3 DEF NodeOps, NodeParse
<1> QED BY <1>4 DEF y

(* Were a packet read that was cut, what was cut off would be left over.    *)
LEMMA CutOff ==
    ASSUME NEW d, NEW e, NEW x \in Bytes, Carries(d, e, x), Len(x) > 0, e.rest = <<>>
    PROVE  ~d.ok
<1> SUFFICES ASSUME d.ok PROVE FALSE
  OBVIOUS
<1>1. e.rest = d.rest \o x /\ d.rest \in Bytes
  BY LongerOk
<1> DEFINE r == d.rest
<1> HIDE DEF r
<1>2. Len(r \o x) = Len(r) + Len(x) /\ Len(r) \in Nat /\ Len(x) \in Nat
  BY <1>1, CutOf, LenProperties DEF Bytes, r
<1>3. Len(r \o x) > 0
  BY <1>2
<1>4. Len(<<>>) = 0
  OBVIOUS
<1> QED BY <1>1, <1>3, <1>4 DEF r

(* A packet, cut before its end.                                            *)
LEMMA CutInTwo ==
    ASSUME NEW s \in Bytes, NEW n \in 0 .. Len(s) - 1
    PROVE  \E a, x \in Bytes : /\ s = a \o x /\ Len(a) = n /\ SubSeq(s, 1, n) = a /\ Len(x) > 0
                               /\ n > 0 => Digit(a, 1) = Digit(s, 1)
                               /\ n = 0 => Digit(a, 1) = 0
<1>1. Len(s) \in Nat /\ n \in Nat /\ n < Len(s) /\ n <= Len(s)
  BY LenProperties DEF Bytes
<1>2. PICK a \in Bytes, x \in Bytes : s = a \o x /\ Len(a) = n
  BY <1>1, CutAt
<1>3. SubSeq(s, 1, n) = a /\ Len(s) = Len(a) + Len(x) /\ Len(x) \in Nat
  BY <1>2, CutOf, LenProperties DEF Bytes
<1>4. Len(x) > 0
  BY <1>1, <1>2, <1>3
<1>5. n > 0 => Digit(a, 1) = Digit(s, 1)
  <2> SUFFICES ASSUME n > 0 PROVE Digit(a, 1) = Digit(s, 1)
    OBVIOUS
  <2>1. a \in Seq(Nat) /\ x \in Seq(Nat) /\ s \in Seq(Nat)
    BY DEF Bytes
  <2>2. 1 \in 1 .. Len(a) + Len(x) /\ 1 <= Len(a) /\ 1 \in 1 .. Len(a) /\ 1 \in 1 .. Len(s)
    BY <1>1, <1>2, <1>3
  <2>3. (a \o x)[1] = a[1]
    BY <2>1, <2>2, ConcatProperties
  <2>4. 1 \in DOMAIN a /\ 1 \in DOMAIN s
    BY <2>1, <2>2, LenProperties
  <2> QED BY <1>2, <2>3, <2>4 DEF Digit
<1>6. n = 0 => Digit(a, 1) = 0
  <2> SUFFICES ASSUME n = 0 PROVE Digit(a, 1) = 0
    OBVIOUS
  <2>1. 1 \notin 1 .. Len(a)
    BY <1>2
  <2>2. 1 \notin DOMAIN a
    BY <2>1, LenProperties DEF Bytes
  <2> QED BY <2>2 DEF Digit
<1> QED BY <1>2, <1>3, <1>4, <1>5, <1>6

LEMMA NothingIsNoPacket ==
    ASSUME NEW s, Digit(s, 1) = 0
    PROVE  ~KadxParsed(s).ok
<1>1. KadxParsed(s) = Throw(Decoding(s))
  BY DEF KadxParsed, Opx
<1> QED BY <1>1, ThrowIs

LEMMA NodeCut ==
    ASSUME NEW op \in NodeOps, NEW s \in Bytes, Digit(s, 1) = op, KadxParsed(s).rest = <<>>,
           NEW n \in 0 .. Len(s) - 1
    PROVE  ~KadxParsed(SubSeq(s, 1, n)).ok
<1>1. PICK a \in Bytes, x \in Bytes :
         /\ s = a \o x /\ Len(a) = n /\ SubSeq(s, 1, n) = a /\ Len(x) > 0
         /\ n > 0 => Digit(a, 1) = Digit(s, 1)
         /\ n = 0 => Digit(a, 1) = 0
  BY CutInTwo
<1>2. CASE n = 0
  BY <1>1, <1>2, NothingIsNoPacket
<1>3. CASE n > 0
  <2>1. Carries(KadxParsed(a), KadxParsed(a \o x), x)
    BY <1>1, <1>3, NodeCarries
  <2> QED BY <1>1, <2>1, CutOff
<1> QED BY <1>2, <1>3
-------------------------------------------------------------------------------
(* Fields that were written one behind the other are read.                  *)
TwoRead2(m, q, n1, w1, p1, n2, w2, p2) ==
    Read(Cursor(p1 \o (p2 \o q), m), <<U(n1, w1), U(n2, w2)>>)
      = Cursor(q, Holding(Holding(m, n1, p1), n2, p2))
ThreeRead3(m, q, n1, w1, p1, n2, w2, p2, n3, w3, p3) ==
    Read(Cursor(p1 \o (p2 \o (p3 \o q)), m), <<U(n1, w1), U(n2, w2), U(n3, w3)>>)
      = Cursor(q, Holding(Holding(Holding(m, n1, p1), n2, p2), n3, p3))
TextRead2(m, q, n1, w1, p1, n2, p2) ==
    Read(Cursor(p1 \o (p2 \o q), m), <<U(n1, w1), D(n2, n1)>>)
      = Cursor(q, Holding(Holding(m, n1, p1), n2, p2))
TextRead3(m, q, n1, w1, p1, n2, p2, n3, w3, p3) ==
    Read(Cursor(p1 \o (p2 \o (p3 \o q)), m), <<U(n1, w1), D(n2, n1), U(n3, w3)>>)
      = Cursor(q, Holding(Holding(Holding(m, n1, p1), n2, p2), n3, p3))

LEMMA TwoDoes ==
    ASSUME NEW m, NEW q \in Bytes, NEW n1, NEW n2, NEW p1 \in Bytes, NEW p2 \in Bytes,
           NEW w1, NEW w2, Len(p1) = w1, Len(p2) = w2
    PROVE  TwoRead2(m, q, n1, w1, p1, n2, w2, p2)
<1> DEFINE f1 == U(n1, w1)
           f2 == U(n2, w2)
           m1 == Holding(m, n1, p1)
           m2 == Holding(m1, n2, p2)
           t1 == p2 \o q
           t0 == p1 \o t1
<1>1. t1 \in Bytes
  BY Closed
<1> HIDE DEF t1
<1>2. Get(Cursor(t0, m), f1) = Cursor(t1, m1)
  BY <1>1, OneDoes DEF GetRead
<1> HIDE DEF m1, f1, t0
<1>3. Get(Cursor(t1, m1), f2) = Cursor(q, m2)
  BY OneDoes DEF GetRead, t1
<1> HIDE DEF m2, f2
<1>4. Read(Cursor(t0, m), <<f1, f2>>) = Get(Get(Cursor(t0, m), f1), f2)
  BY ReadTwo
<1>5. Read(Cursor(t0, m), <<f1, f2>>) = Cursor(q, m2)
  BY <1>2, <1>3, <1>4, Zenon
<1> QED BY <1>5, Zenon DEF TwoRead2, f1, f2, m1, m2, t0, t1

LEMMA ThreeDoes ==
    ASSUME NEW m, NEW q \in Bytes, NEW n1, NEW n2, NEW n3,
           NEW p1 \in Bytes, NEW p2 \in Bytes, NEW p3 \in Bytes,
           NEW w1, NEW w2, NEW w3, Len(p1) = w1, Len(p2) = w2, Len(p3) = w3
    PROVE  ThreeRead3(m, q, n1, w1, p1, n2, w2, p2, n3, w3, p3)
<1> DEFINE f1 == U(n1, w1)
           f2 == U(n2, w2)
           f3 == U(n3, w3)
           m1 == Holding(m, n1, p1)
           m2 == Holding(m1, n2, p2)
           m3 == Holding(m2, n3, p3)
           t2 == p3 \o q
           t1 == p2 \o t2
           t0 == p1 \o t1
<1>1. t2 \in Bytes
  BY Closed
<1> HIDE DEF t2
<1>2. t1 \in Bytes
  BY <1>1, Closed
<1> HIDE DEF t1
<1>3. Get(Cursor(t0, m), f1) = Cursor(t1, m1)
  BY <1>2, OneDoes DEF GetRead
<1> HIDE DEF m1, f1, t0
<1>4. Get(Cursor(t1, m1), f2) = Cursor(t2, m2)
  BY <1>1, OneDoes DEF GetRead, t1
<1> HIDE DEF m2, f2
<1>5. Get(Cursor(t2, m2), f3) = Cursor(q, m3)
  BY OneDoes DEF GetRead, t2
<1> HIDE DEF m3, f3
<1>6. Read(Cursor(t0, m), <<f1, f2, f3>>) = Get(Get(Get(Cursor(t0, m), f1), f2), f3)
  BY ReadThree
<1>7. Read(Cursor(t0, m), <<f1, f2, f3>>) = Cursor(q, m3)
  BY <1>3, <1>4, <1>5, <1>6, Zenon
<1> QED BY <1>7, Zenon DEF ThreeRead3, f1, f2, f3, m1, m2, m3, t0, t1, t2

(* As many bytes as a field before says.                                    *)
LEMMA SizedDoes ==
    ASSUME NEW m, NEW q \in Bytes, NEW n, NEW o, o # "none", NEW p \in Bytes, Num(m[o]) = Len(p)
    PROVE  Get(Cursor(p \o q, m), D(n, o)) = Cursor(q, Holding(m, n, p))
<1> DEFINE f == D(n, o)
<1>1. Wide(f, m) = Len(p)
  BY WideOf
<1>2. Keep(m, f, p) = Holding(m, n, p)
  BY KeepIs
<1> HIDE DEF f
<1>3. Get(Cursor(p \o q, m), f) = Cursor(q, Keep(m, f, p))
  BY <1>1, GetReads
<1> QED BY <1>2, <1>3, Zenon DEF f

LEMMA TextDoes ==
    ASSUME NEW m, NEW q \in Bytes, NEW n1, n1 # "none", NEW n2,
           NEW p1 \in Bytes, NEW p2 \in Bytes, NEW w1, Len(p1) = w1, Num(p1) = Len(p2)
    PROVE  TextRead2(m, q, n1, w1, p1, n2, p2)
<1> DEFINE f1 == U(n1, w1)
           f2 == D(n2, n1)
           m1 == Holding(m, n1, p1)
           m2 == Holding(m1, n2, p2)
           t1 == p2 \o q
           t0 == p1 \o t1
<1>1. t1 \in Bytes
  BY Closed
<1>2. Num(m1[n1]) = Len(p2)
  BY Held
<1> HIDE DEF t1
<1>3. Get(Cursor(t0, m), f1) = Cursor(t1, m1)
  BY <1>1, OneDoes DEF GetRead
<1> HIDE DEF m1, f1, t0
<1>4. Get(Cursor(t1, m1), f2) = Cursor(q, m2)
  BY <1>2, SizedDoes DEF t1
<1> HIDE DEF m2, f2
<1>5. Read(Cursor(t0, m), <<f1, f2>>) = Get(Get(Cursor(t0, m), f1), f2)
  BY ReadTwo
<1>6. Read(Cursor(t0, m), <<f1, f2>>) = Cursor(q, m2)
  BY <1>3, <1>4, <1>5, Zenon
<1> QED BY <1>6, Zenon DEF TextRead2, f1, f2, m1, m2, t0, t1

LEMMA TextNumberDoes ==
    ASSUME NEW m, NEW q \in Bytes, NEW n1, n1 # "none", NEW n2, NEW n3,
           NEW p1 \in Bytes, NEW p2 \in Bytes, NEW p3 \in Bytes,
           NEW w1, NEW w3, Len(p1) = w1, Num(p1) = Len(p2), Len(p3) = w3
    PROVE  TextRead3(m, q, n1, w1, p1, n2, p2, n3, w3, p3)
<1> DEFINE f1 == U(n1, w1)
           f2 == D(n2, n1)
           f3 == U(n3, w3)
           m1 == Holding(m, n1, p1)
           m2 == Holding(m1, n2, p2)
           m3 == Holding(m2, n3, p3)
           t2 == p3 \o q
           t1 == p2 \o t2
           t0 == p1 \o t1
<1>1. t2 \in Bytes
  BY Closed
<1> HIDE DEF t2
<1>2. t1 \in Bytes
  BY <1>1, Closed
<1>3. Num(m1[n1]) = Len(p2)
  BY Held
<1> HIDE DEF t1
<1>4. Get(Cursor(t0, m), f1) = Cursor(t1, m1)
  BY <1>2, OneDoes DEF GetRead
<1> HIDE DEF m1, f1, t0
<1>5. Get(Cursor(t1, m1), f2) = Cursor(t2, m2)
  BY <1>1, <1>3, SizedDoes DEF t1
<1> HIDE DEF m2, f2
<1>6. Get(Cursor(t2, m2), f3) = Cursor(q, m3)
  BY OneDoes DEF GetRead, t2
<1> HIDE DEF m3, f3
<1>7. Read(Cursor(t0, m), <<f1, f2, f3>>) = Get(Get(Get(Cursor(t0, m), f1), f2), f3)
  BY ReadThree
<1>8. Read(Cursor(t0, m), <<f1, f2, f3>>) = Cursor(q, m3)
  BY <1>4, <1>5, <1>6, <1>7, Zenon
<1> QED BY <1>8, Zenon DEF TextRead3, f1, f2, f3, m1, m2, m3, t0, t1, t2

LEMMA IsReads ==
    ASSUME NEW op \in Nat, NEW y \in Bytes, NEW ops, op \in ops
    PROVE  Is(<<op>> \o y, ops) = Cursor(y, Opened(op))
<1> DEFINE packed == FALSE
           s == <<op>> \o y
<1>1. Is(s, ops) = Body(s, ops, packed) /\ Wrap(s, packed) = s
  BY DEF Is, Wrap
<1>2. Body(Wrap(s, packed), ops, packed) = Cursor(y, Opened(op))
  <2> HIDE DEF packed
  <2> QED BY BodyReads
<1> HIDE DEF s
<1>3. Is(s, ops) = Cursor(y, Opened(op))
  BY <1>1, <1>2
<1> QED BY <1>3 DEF s

(* Who asks, and a hash behind its type.                                    *)
Asking(g, u, t) == Holding(Holding(g, "uid", u), "tid", t)
TaskRead(g, q, u, t) == Task(Cursor(u \o (t \o q), g)) = Cursor(q, Asking(g, u, t))

LEMMA TaskReads ==
    ASSUME LengthSets, NEW g, NEW q \in Bytes, NEW u \in Bytes, NEW t \in Bytes,
           Len(u) = 20, Len(t) = 2
    PROVE  TaskRead(g, q, u, t)
<1> DEFINE s == u \o (t \o q)
<1>1. SetHash(Cursor(s, g)) = Cursor(s, g)
  BY DEF SetHash
<1>2. Task(Cursor(s, g)) = Read(Cursor(s, g), <<U("uid", 20), U("tid", 2)>>)
  BY <1>1 DEF Task
<1>3. TwoRead2(g, q, "uid", 20, u, "tid", 2, t)
  BY TwoDoes
<1> HIDE DEF s
<1> QED BY <1>2, <1>3 DEF TwoRead2, TaskRead, Asking, s

Typed(g, t, h) == Holding(Holding(g, "type", t), "hash", h)
TypedRead(g, q, t, h) == TypedHash(Cursor(t \o (h \o q), g)) = Cursor(q, Typed(g, t, h))

LEMMA TypedReads ==
    ASSUME LengthSets, NEW g, NEW q \in Bytes, NEW t \in Bytes, NEW h \in Bytes,
           Len(t) = 1, Num(t) \in DOMAIN HashLength, Len(h) = HashLength[Num(t)]
    PROVE  TypedRead(g, q, t, h)
<1> DEFINE r == h \o q
           b == Get(Cursor(t \o r, g), U("type", 1))
           g1 == Holding(g, "type", t)
           a == SetHash(b)
<1>1. r \in Bytes
  BY Closed
<1> HIDE DEF r
<1>2. b = Cursor(r, g1)
  <2>1. GetRead(g, r, "type", 1, t)
    BY <1>1, OneDoes
  <2> QED BY <2>1 DEF GetRead
<1>3. a = b
  BY DEF SetHash
<1>4. TypedHash(Cursor(t \o r, g)) = IF a.ok THEN (IF Num(a.m["type"]) \in DOMAIN HashLength
                                                    THEN Get(a, U("hash", HashLength[Num(a.m["type"])]))
                                                    ELSE Throw(a)) ELSE a
  BY DEF TypedHash, Then
<1> HIDE DEF a, b
<1>5. a = Cursor(r, g1) /\ a.ok /\ a.m["type"] = t
  BY <1>2, <1>3, CursorIs, Held
<1>6. TypedHash(Cursor(t \o r, g)) = Get(Cursor(r, g1), U("hash", Len(h)))
  BY <1>4, <1>5
<1>7. Get(Cursor(r, g1), U("hash", Len(h))) = Cursor(q, Holding(g1, "hash", h))
  BY OneDoes DEF GetRead, r
<1>8. TypedHash(Cursor(t \o r, g)) = Cursor(q, Holding(g1, "hash", h))
  BY <1>6, <1>7
<1> QED BY <1>8 DEF TypedRead, Typed, r
-------------------------------------------------------------------------------
(* What a node writes of the kinds that are read in one go, another reads.  *)
Flat6(a, b, c, d, e, f) ==
    /\ a \o b \o c \o d \o e \o f = a \o (b \o (c \o (d \o (e \o f))))
    /\ b \o (c \o (d \o (e \o f))) \in Bytes
Row7(a, b, c, d, e, f, g) ==
    /\ a \o b \o c \o d \o e \o f \o g = a \o (b \o (c \o (d \o (e \o (f \o g)))))
    /\ b \o (c \o (d \o (e \o (f \o g)))) \in Bytes

LEMMA SixFlat ==
    ASSUME NEW a \in Bytes, NEW b \in Bytes, NEW c \in Bytes, NEW d \in Bytes, NEW e \in Bytes,
           NEW f \in Bytes
    PROVE  Flat6(a, b, c, d, e, f)
<1> DEFINE s == a \o b \o c \o d \o e
           t == a \o (b \o (c \o (d \o e)))
<1>1. Flat5(a, b, c, d, e)
  BY FiveFlat
<1>2. Then5(a, b, c, d, e, f)
  BY FiveThen
<1>3. s = t
  BY <1>1, Zenon DEF Flat5
<1>4. t \o f = a \o (b \o (c \o (d \o (e \o f)))) /\ b \o (c \o (d \o (e \o f))) \in Bytes
  BY <1>2, Zenon DEF Then5
<1> HIDE DEF t
<1>5. s \o f = t \o f
  BY <1>3
<1> QED BY <1>4, <1>5, Zenon DEF Flat6

LEMMA SevenRow ==
    ASSUME NEW a \in Bytes, NEW b \in Bytes, NEW c \in Bytes, NEW d \in Bytes, NEW e \in Bytes,
           NEW f \in Bytes, NEW g \in Bytes
    PROVE  Row7(a, b, c, d, e, f, g)
<1> DEFINE s == a \o b \o c \o d \o e \o f
           t == b \o (c \o (d \o (e \o f)))
           u == b \o (c \o (d \o (e \o (f \o g))))
<1>1. Flat6(a, b, c, d, e, f)
  BY SixFlat
<1>2. Then5(b, c, d, e, f, g)
  BY FiveThen
<1>3. s = a \o t
  BY <1>1, Zenon DEF Flat6
<1>4. t \in Bytes
  BY <1>1, Zenon DEF Flat6
<1>5. t \o g = u
  BY <1>2, Zenon DEF Then5
<1>6. u \in Bytes
  BY <1>2, Closed DEF Then5
<1>7. \A v \in Bytes : (a \o v) \o g = a \o (v \o g)
  <2> SUFFICES ASSUME NEW v \in Bytes PROVE (a \o v) \o g = a \o (v \o g)
    OBVIOUS
  <2>1. Then2(a, v, g)
    BY TwoThen
  <2> QED BY <2>1, Zenon DEF Then2
<1> HIDE DEF t
<1>8. s \o g = (a \o t) \o g
  BY <1>3
<1> HIDE DEF s, u
<1>9. (a \o t) \o g = a \o (t \o g)
  BY <1>4, <1>7, Zenon
<1> QED BY <1>5, <1>6, <1>8, <1>9, Zenon DEF Row7, s, u

Understood(m) ==
    LET d == KadxParsed(KadxWritten(m))
    IN  /\ KadxWritten(m) \in Bytes /\ Digit(KadxWritten(m), 1) \in NodeOps
        /\ d.ok /\ d.rest = <<>> /\ Reads(d, m)

OneGo == {"SEARCH", "SSRC", "FSRC", "CALLBACK", "HOLE", "HOLE_CALLBACK", "HOLING",
          "FILE_STATUS", "FILE_STATUS_BACK", "FILE_PART"}

LEMMA UnderstoodWhole ==
    ASSUME NEW m, m.kind \in OneGo, NEW op \in NodeOps, NEW y \in Bytes,
           KadxWritten(m) = <<op>> \o y, NEW g, KadxParsed(<<op>> \o y) = Cursor(<<>>, g),
           \A f \in DOMAIN m \ {"kind"} : f \in DOMAIN g /\ g[f] = m[f]
    PROVE  Understood(m)
<1> DEFINE s == <<op>> \o y
           d == KadxParsed(s)
<1>1. op \in Nat
  BY DEF NodeOps
<1>2. s \in Bytes /\ Digit(s, 1) = op
  BY <1>1, FirstOf
<1>3. KadxWritten(m) = s /\ d = Cursor(<<>>, g)
  OBVIOUS
<1> HIDE DEF s, d
<1>4. d.ok /\ d.rest = <<>> /\ d.m = g
  BY <1>3, CursorIs
<1>5. Reads(d, m)
  <2>1. Find(d, m, DOMAIN m \ {"kind"})
    BY <1>4 DEF Find
  <2>2. Reads(d, m) <=> Find(d, m, DOMAIN m \ {"kind"})
    BY DEF Reads, OneGo
  <2> QED BY <2>1, <2>2
<1>6. KadxParsed(KadxWritten(m)) = d
  BY <1>3 DEF d
<1> QED BY <1>2, <1>3, <1>4, <1>5, <1>6 DEF Understood

Holes == [kind : {"HOLE"}, cid : Width(8), flags : Width(4)]
Callbacks == [kind : {"CALLBACK"}, cid : Width(8), addr : Width(4), port : Width(2)]
HoleCallbacks == [kind : {"HOLE_CALLBACK"}, addr : Width(4), port : Width(2)]
Holings == [kind : {"HOLING"}, addr : Width(4), port : Width(2), way : Width(1)]
Searches == [kind : {"SEARCH"}, uid : Width(20), tid : Width(2), key : Below(256 * 256), flags : Width(4)]

LEMMA OpenedIs ==
    ASSUME NEW op \in NodeOps, NEW y \in Bytes
    PROVE  NodeParse(op, <<op>> \o y) /\ \A ops : op \in ops => Is(<<op>> \o y, ops) = Cursor(y, Opened(op))
<1>1. op \in Nat
  BY DEF NodeOps
<1> DEFINE s == <<op>> \o y
<1>2. Digit(s, 1) = op
  BY <1>1, FirstOf
<1>3. \A ops : op \in ops => Is(s, ops) = Cursor(y, Opened(op))
  BY <1>1, IsReads
<1> HIDE DEF s
<1>4. NodeParse(op, s)
  BY <1>2, NodeParses
<1> QED BY <1>3, <1>4 DEF s

(* The four of fixed width.                                                 *)
LEMMA HoleUnderstood ==
    ASSUME NEW m \in Holes
    PROVE  Understood(m)
<1> DEFINE a == m.cid
           b == m.flags
           op == 32
           p == <<op>>
           e == <<>>
           y == a \o b
           l == <<U("cid", 8), U("flags", 4)>>
           g == Holding(Holding(Opened(op), "cid", a), "flags", b)
<1>1. /\ m.kind = "HOLE" /\ DOMAIN m = {"kind", "cid", "flags"}
      /\ a \in Width(8) /\ b \in Width(4)
  BY DEF Holes
<1>2. KadxWritten(m) = p \o a \o b
  BY <1>1 DEF KadxWritten, HoleEncode, Opx
<1>3. op \in NodeOps /\ op \in Nat /\ p \in Bytes /\ m.kind \in OneGo
  BY <1>1, NumOne DEF NodeOps, OneGo
<1>4. \A s : NodeParse(op, s) => KadxParsed(s) = Read(Is(s, {op}), l)
  BY DEF NodeParse, HoleParse, Opx
<1> HIDE DEF a, b, op, l, p, e
<1>5. a \in Bytes /\ Len(a) = 8 /\ b \in Bytes /\ Len(b) = 4 /\ e \in Bytes
  BY <1>1, Widths, NoBytes DEF e
<1>6. p \o a \o b = p \o y /\ y \in Bytes
  <2>1. Flat3(p, a, b)
    BY <1>3, <1>5, ThreeFlat
  <2> QED BY <2>1, <1>5, Closed DEF Flat3
<1>7. y = a \o (b \o e)
  BY <1>5, NothingBehind DEF e
<1> HIDE DEF y
<1>8. NodeParse(op, p \o y) /\ Is(p \o y, {op}) = Cursor(y, Opened(op))
  BY <1>3, <1>6, OpenedIs DEF p
<1>9. TwoRead2(Opened(op), e, "cid", 8, a, "flags", 4, b)
  BY <1>5, TwoDoes
<1>10. Read(Cursor(a \o (b \o e), Opened(op)), l) = Cursor(e, g)
  BY <1>9, Zenon DEF TwoRead2, l
<1>11. KadxParsed(p \o y) = Cursor(e, g)
  BY <1>4, <1>7, <1>8, <1>10, Zenon
<1>12. "cid" \in DOMAIN g /\ g["cid"] = a /\ "flags" \in DOMAIN g /\ g["flags"] = b
  BY Held, HeldBefore
<1> HIDE DEF g
<1>13. \A f \in DOMAIN m \ {"kind"} : f \in DOMAIN g /\ g[f] = m[f]
  BY <1>1, <1>12 DEF a, b
<1>14. KadxWritten(m) = <<op>> \o y /\ KadxParsed(<<op>> \o y) = Cursor(<<>>, g)
  BY <1>2, <1>6, <1>11 DEF p, e
<1> QED BY <1>3, <1>6, <1>13, <1>14, UnderstoodWhole

LEMMA NodeCallbackUnderstood ==
    ASSUME NEW m \in Callbacks
    PROVE  Understood(m)
<1> DEFINE a == m.cid
           b == m.addr
           c == m.port
           op == 27
           p == <<op>>
           e == <<>>
           y == a \o (b \o c)
           l == <<U("cid", 8), U("addr", 4), U("port", 2)>>
           g == Holding(Holding(Holding(Opened(op), "cid", a), "addr", b), "port", c)
<1>1. /\ m.kind = "CALLBACK" /\ DOMAIN m = {"kind", "cid", "addr", "port"}
      /\ a \in Width(8) /\ b \in Width(4) /\ c \in Width(2)
  BY DEF Callbacks
<1>2. KadxWritten(m) = p \o a \o b \o c
  BY <1>1 DEF KadxWritten, CallbackEncode, Opx
<1>3. op \in NodeOps /\ op \in Nat /\ p \in Bytes /\ m.kind \in OneGo
  BY <1>1, NumOne DEF NodeOps, OneGo
<1>4. \A s : NodeParse(op, s) => KadxParsed(s) = Read(Is(s, {op}), l)
  BY DEF NodeParse, CallbackParse, Opx
<1> HIDE DEF a, b, c, op, l, p, e
<1>5. a \in Bytes /\ Len(a) = 8 /\ b \in Bytes /\ Len(b) = 4 /\ c \in Bytes /\ Len(c) = 2 /\ e \in Bytes
  BY <1>1, Widths, NoBytes DEF e
<1>6. p \o a \o b \o c = p \o y /\ y \in Bytes
  <2>1. Flat4(p, a, b, c)
    BY <1>3, <1>5, FourFlat
  <2> QED BY <2>1, <1>5, Closed DEF Flat4
<1>7. y = a \o (b \o (c \o e))
  BY <1>5, NothingBehind DEF e
<1> HIDE DEF y
<1>8. NodeParse(op, p \o y) /\ Is(p \o y, {op}) = Cursor(y, Opened(op))
  BY <1>3, <1>6, OpenedIs DEF p
<1>9. ThreeRead3(Opened(op), e, "cid", 8, a, "addr", 4, b, "port", 2, c)
  BY <1>5, ThreeDoes
<1>10. Read(Cursor(a \o (b \o (c \o e)), Opened(op)), l) = Cursor(e, g)
  BY <1>9, Zenon DEF ThreeRead3, l
<1>11. KadxParsed(p \o y) = Cursor(e, g)
  BY <1>4, <1>7, <1>8, <1>10, Zenon
<1>12. "cid" \in DOMAIN g /\ g["cid"] = a /\ "addr" \in DOMAIN g /\ g["addr"] = b /\ "port" \in DOMAIN g /\ g["port"] = c
  BY Held, HeldBefore
<1> HIDE DEF g
<1>13. \A f \in DOMAIN m \ {"kind"} : f \in DOMAIN g /\ g[f] = m[f]
  BY <1>1, <1>12 DEF a, b, c
<1>14. KadxWritten(m) = <<op>> \o y /\ KadxParsed(<<op>> \o y) = Cursor(<<>>, g)
  BY <1>2, <1>6, <1>11 DEF p, e
<1> QED BY <1>3, <1>6, <1>13, <1>14, UnderstoodWhole

LEMMA HoleCallbackUnderstood ==
    ASSUME NEW m \in HoleCallbacks
    PROVE  Understood(m)
<1> DEFINE a == m.addr
           b == m.port
           op == 33
           p == <<op>>
           e == <<>>
           y == a \o b
           l == <<U("addr", 4), U("port", 2)>>
           g == Holding(Holding(Opened(op), "addr", a), "port", b)
<1>1. /\ m.kind = "HOLE_CALLBACK" /\ DOMAIN m = {"kind", "addr", "port"}
      /\ a \in Width(4) /\ b \in Width(2)
  BY DEF HoleCallbacks
<1>2. KadxWritten(m) = p \o a \o b
  BY <1>1 DEF KadxWritten, HoleCallbackEncode, Opx
<1>3. op \in NodeOps /\ op \in Nat /\ p \in Bytes /\ m.kind \in OneGo
  BY <1>1, NumOne DEF NodeOps, OneGo
<1>4. \A s : NodeParse(op, s) => KadxParsed(s) = Read(Is(s, {op}), l)
  BY DEF NodeParse, HoleCallbackParse, Opx
<1> HIDE DEF a, b, op, l, p, e
<1>5. a \in Bytes /\ Len(a) = 4 /\ b \in Bytes /\ Len(b) = 2 /\ e \in Bytes
  BY <1>1, Widths, NoBytes DEF e
<1>6. p \o a \o b = p \o y /\ y \in Bytes
  <2>1. Flat3(p, a, b)
    BY <1>3, <1>5, ThreeFlat
  <2> QED BY <2>1, <1>5, Closed DEF Flat3
<1>7. y = a \o (b \o e)
  BY <1>5, NothingBehind DEF e
<1> HIDE DEF y
<1>8. NodeParse(op, p \o y) /\ Is(p \o y, {op}) = Cursor(y, Opened(op))
  BY <1>3, <1>6, OpenedIs DEF p
<1>9. TwoRead2(Opened(op), e, "addr", 4, a, "port", 2, b)
  BY <1>5, TwoDoes
<1>10. Read(Cursor(a \o (b \o e), Opened(op)), l) = Cursor(e, g)
  BY <1>9, Zenon DEF TwoRead2, l
<1>11. KadxParsed(p \o y) = Cursor(e, g)
  BY <1>4, <1>7, <1>8, <1>10, Zenon
<1>12. "addr" \in DOMAIN g /\ g["addr"] = a /\ "port" \in DOMAIN g /\ g["port"] = b
  BY Held, HeldBefore
<1> HIDE DEF g
<1>13. \A f \in DOMAIN m \ {"kind"} : f \in DOMAIN g /\ g[f] = m[f]
  BY <1>1, <1>12 DEF a, b
<1>14. KadxWritten(m) = <<op>> \o y /\ KadxParsed(<<op>> \o y) = Cursor(<<>>, g)
  BY <1>2, <1>6, <1>11 DEF p, e
<1> QED BY <1>3, <1>6, <1>13, <1>14, UnderstoodWhole

LEMMA HolingUnderstood ==
    ASSUME NEW m \in Holings
    PROVE  Understood(m)
<1> DEFINE a == m.addr
           b == m.port
           c == m.way
           op == 35
           p == <<op>>
           e == <<>>
           y == a \o (b \o c)
           l == <<U("addr", 4), U("port", 2), U("way", 1)>>
           g == Holding(Holding(Holding(Opened(op), "addr", a), "port", b), "way", c)
<1>1. /\ m.kind = "HOLING" /\ DOMAIN m = {"kind", "addr", "port", "way"}
      /\ a \in Width(4) /\ b \in Width(2) /\ c \in Width(1)
  BY DEF Holings
<1>2. KadxWritten(m) = p \o a \o b \o c
  BY <1>1 DEF KadxWritten, HolingEncode, Opx
<1>3. op \in NodeOps /\ op \in Nat /\ p \in Bytes /\ m.kind \in OneGo
  BY <1>1, NumOne DEF NodeOps, OneGo
<1>4. \A s : NodeParse(op, s) => KadxParsed(s) = Read(Is(s, {op}), l)
  BY DEF NodeParse, HolingParse, Opx
<1> HIDE DEF a, b, c, op, l, p, e
<1>5. a \in Bytes /\ Len(a) = 4 /\ b \in Bytes /\ Len(b) = 2 /\ c \in Bytes /\ Len(c) = 1 /\ e \in Bytes
  BY <1>1, Widths, NoBytes DEF e
<1>6. p \o a \o b \o c = p \o y /\ y \in Bytes
  <2>1. Flat4(p, a, b, c)
    BY <1>3, <1>5, FourFlat
  <2> QED BY <2>1, <1>5, Closed DEF Flat4
<1>7. y = a \o (b \o (c \o e))
  BY <1>5, NothingBehind DEF e
<1> HIDE DEF y
<1>8. NodeParse(op, p \o y) /\ Is(p \o y, {op}) = Cursor(y, Opened(op))
  BY <1>3, <1>6, OpenedIs DEF p
<1>9. ThreeRead3(Opened(op), e, "addr", 4, a, "port", 2, b, "way", 1, c)
  BY <1>5, ThreeDoes
<1>10. Read(Cursor(a \o (b \o (c \o e)), Opened(op)), l) = Cursor(e, g)
  BY <1>9, Zenon DEF ThreeRead3, l
<1>11. KadxParsed(p \o y) = Cursor(e, g)
  BY <1>4, <1>7, <1>8, <1>10, Zenon
<1>12. "addr" \in DOMAIN g /\ g["addr"] = a /\ "port" \in DOMAIN g /\ g["port"] = b /\ "way" \in DOMAIN g /\ g["way"] = c
  BY Held, HeldBefore
<1> HIDE DEF g
<1>13. \A f \in DOMAIN m \ {"kind"} : f \in DOMAIN g /\ g[f] = m[f]
  BY <1>1, <1>12 DEF a, b, c
<1>14. KadxWritten(m) = <<op>> \o y /\ KadxParsed(<<op>> \o y) = Cursor(<<>>, g)
  BY <1>2, <1>6, <1>11 DEF p, e
<1> QED BY <1>3, <1>6, <1>13, <1>14, UnderstoodWhole

(* A text behind its length, with who asks in front.                        *)
LEMMA CountTwo ==
    ASSUME NEW s \in Below(256 * 256)
    PROVE  LET c == Le(Len(s), 2) IN c \in Bytes /\ Len(c) = 2 /\ Num(c) = Len(s)
<1>1. Len(s) \in Nat /\ Len(s) < 256 * 256
  BY Texts
<1> DEFINE n == Len(s)
<1> HIDE DEF n
<1>2. n \in Nat /\ n < 256 * 256 /\ 2 \in Nat
  BY <1>1 DEF n
<1>3. Le(n, 2) \in Bytes /\ Len(Le(n, 2)) = 2 /\ Num(Le(n, 2)) = n
  BY <1>2, LeIs, NumLe2
<1> QED BY <1>3 DEF n

LEMMA CountOne ==
    ASSUME NEW n \in Nat, n < 256
    PROVE  LET c == Le(n, 1) IN c \in Bytes /\ Len(c) = 1 /\ Num(c) = n
<1>1. n \in 0 .. 255 /\ 1 \in Nat
  OBVIOUS
<1> QED BY <1>1, LeIs, NumLe1

LEMMA SearchUnderstood ==
    ASSUME LengthSets, NEW m \in Searches
    PROVE  Understood(m)
<1> DEFINE a == m.uid
           b == m.tid
           t == m.key
           c == Le(Len(t), 2)
           f == m.flags
           op == 20
           p == <<op>>
           e == <<>>
           r == c \o (t \o f)
           y == a \o (b \o r)
           l == <<U("klen", 2), D("key", "klen"), U("flags", 4)>>
           k == Asking(Opened(op), a, b)
           g == Holding(Holding(Holding(k, "klen", c), "key", t), "flags", f)
<1>1. /\ m.kind = "SEARCH" /\ DOMAIN m = {"kind", "uid", "tid", "key", "flags"}
      /\ a \in Width(20) /\ b \in Width(2) /\ t \in Below(256 * 256) /\ f \in Width(4)
  BY DEF Searches
<1>2. KadxWritten(m) = p \o a \o b \o c \o t \o f
  BY <1>1 DEF KadxWritten, SearchEncode, Opx
<1>3. op \in NodeOps /\ op \in Nat /\ p \in Bytes /\ m.kind \in OneGo
  BY <1>1, NumOne DEF NodeOps, OneGo
<1>4. \A s : NodeParse(op, s) => KadxParsed(s) = Read(Task(Is(s, {op})), l)
  BY DEF NodeParse, SearchParse, Opx
<1> HIDE DEF a, b, t, f, op, l, p, e
<1>5. /\ a \in Bytes /\ Len(a) = 20 /\ b \in Bytes /\ Len(b) = 2 /\ f \in Bytes /\ Len(f) = 4
      /\ t \in Bytes /\ e \in Bytes
  BY <1>1, Widths, Texts, NoBytes DEF e
<1>6. c \in Bytes /\ Len(c) = 2 /\ Num(c) = Len(t)
  BY <1>1, CountTwo
<1> HIDE DEF c
<1>7. p \o a \o b \o c \o t \o f = p \o y /\ y \in Bytes /\ r \in Bytes
  <2>1. Flat6(p, a, b, c, t, f)
    BY <1>3, <1>5, <1>6, SixFlat
  <2>2. r \in Bytes
    BY <1>5, <1>6, Closed
  <2> QED BY <2>1, <2>2, <1>5, Closed DEF Flat6
<1>8. r = c \o (t \o (f \o e))
  BY <1>5, NothingBehind DEF e
<1> HIDE DEF y, r
<1>9. NodeParse(op, p \o y) /\ Is(p \o y, {op}) = Cursor(y, Opened(op))
  BY <1>3, <1>7, OpenedIs DEF p
<1>10. Task(Cursor(y, Opened(op))) = Cursor(r, k)
  <2>1. TaskRead(Opened(op), r, a, b)
    BY <1>5, <1>7, TaskReads
  <2> QED BY <2>1, Zenon DEF TaskRead, y
<1> HIDE DEF k
<1>11. Read(Cursor(r, k), l) = Cursor(e, g)
  <2>1. TextRead3(k, e, "klen", 2, c, "key", t, "flags", 4, f)
    BY <1>5, <1>6, TextNumberDoes
  <2> QED BY <1>8, <2>1, Zenon DEF TextRead3, l
<1>12. KadxParsed(p \o y) = Cursor(e, g)
  BY <1>4, <1>9, <1>10, <1>11, Zenon
<1>13. "uid" \in DOMAIN k /\ k["uid"] = a /\ "tid" \in DOMAIN k /\ k["tid"] = b
  BY Held, HeldBefore DEF k, Asking
<1>14. /\ "uid" \in DOMAIN g /\ g["uid"] = a /\ "tid" \in DOMAIN g /\ g["tid"] = b
       /\ "key" \in DOMAIN g /\ g["key"] = t /\ "flags" \in DOMAIN g /\ g["flags"] = f
  BY <1>13, Held, HeldBefore
<1> HIDE DEF g
<1>15. \A n \in DOMAIN m \ {"kind"} : n \in DOMAIN g /\ g[n] = m[n]
  BY <1>1, <1>14 DEF a, b, t, f
<1>16. KadxWritten(m) = <<op>> \o y /\ KadxParsed(<<op>> \o y) = Cursor(<<>>, g)
  BY <1>2, <1>7, <1>12 DEF p, e
<1> QED BY <1>3, <1>7, <1>15, <1>16, UnderstoodWhole

(* A hash is as long as its type says.                                      *)
LEMMA TypeIs ==
    ASSUME NEW t \in Width(1), NEW h \in Below(21), t[1] \in DOMAIN HashLength,
           Len(h) = HashLength[t[1]]
    PROVE  /\ t \in Bytes /\ Len(t) = 1 /\ h \in Bytes
           /\ Num(t) \in DOMAIN HashLength /\ Len(h) = HashLength[Num(t)]
<1>1. t \in Bytes /\ Len(t) = 1 /\ t[1] \in Nat
  <2>1. t \in Bytes /\ Len(t) = 1
    BY Widths
  <2>2. 1 \in Nat /\ 1 \in 1 .. 1
    OBVIOUS
  <2>3. t[1] \in 0 .. 255
    BY <2>2, WidthIs
  <2>4. \A i \in 0 .. 255 : i \in Nat
    OBVIOUS
  <2> QED BY <2>1, <2>3, <2>4, Zenon
<1>2. Num(t) = t[1]
  <2>1. t = <<t[1]>>
    <3>1. t \in Seq(Nat) /\ Len(t) = 1
      BY <1>1 DEF Bytes
    <3> QED BY <3>1
  <2>2. Num(<<t[1]>>) = t[1]
    BY <1>1, NumOne
  <2> QED BY <2>1, <2>2, Zenon
<1>3. h \in Bytes
  BY BelowIs
<1> QED BY <1>1, <1>2, <1>3

HashStatuses == [kind : {"FILE_STATUS"}, type : Width(1), hash : Below(21)]
SourceQuestions == [kind : {"SSRC"}, uid : Width(20), tid : Width(2), type : Width(1),
                    hash : Below(21), size : Width(8)]

LEMMA StatusUnderstood ==
    ASSUME LengthSets, NEW m \in HashStatuses, TypeFits(m)
    PROVE  Understood(m)
<1> DEFINE t == m.type
           h == m.hash
           op == 48
           p == <<op>>
           e == <<>>
           y == t \o h
           g == Typed(Opened(op), t, h)
<1>1. /\ m.kind = "FILE_STATUS" /\ DOMAIN m = {"kind", "type", "hash"}
      /\ t \in Width(1) /\ h \in Below(21) /\ t[1] \in DOMAIN HashLength /\ Len(h) = HashLength[t[1]]
  BY DEF HashStatuses, TypeFits
<1>2. KadxWritten(m) = p \o t \o h
  BY <1>1 DEF KadxWritten, KadxFileStatusEncode, Opx
<1>3. op \in NodeOps /\ op \in Nat /\ p \in Bytes /\ m.kind \in OneGo
  BY <1>1, NumOne DEF NodeOps, OneGo
<1>4. \A s : NodeParse(op, s) => KadxParsed(s) = TypedHash(Is(s, {op}))
  BY DEF NodeParse, KadxFileStatusParse, Opx
<1> HIDE DEF t, h, op, p, e
<1>5. /\ t \in Bytes /\ Len(t) = 1 /\ h \in Bytes /\ e \in Bytes
      /\ Num(t) \in DOMAIN HashLength /\ Len(h) = HashLength[Num(t)]
  BY <1>1, TypeIs, NoBytes DEF e
<1>6. p \o t \o h = p \o y /\ y \in Bytes
  <2>1. Flat3(p, t, h)
    BY <1>3, <1>5, ThreeFlat
  <2> QED BY <2>1 DEF Flat3
<1>7. y = t \o (h \o e)
  BY <1>5, NothingBehind DEF e
<1> HIDE DEF y
<1>8. NodeParse(op, p \o y) /\ Is(p \o y, {op}) = Cursor(y, Opened(op))
  BY <1>3, <1>6, OpenedIs DEF p
<1>9. TypedHash(Cursor(y, Opened(op))) = Cursor(e, g)
  <2>1. TypedRead(Opened(op), e, t, h)
    BY <1>5, TypedReads
  <2> QED BY <1>7, <2>1, Zenon DEF TypedRead
<1>10. KadxParsed(p \o y) = Cursor(e, g)
  BY <1>4, <1>8, <1>9, Zenon
<1>11. "type" \in DOMAIN g /\ g["type"] = t /\ "hash" \in DOMAIN g /\ g["hash"] = h
  BY Held, HeldBefore DEF Typed
<1> HIDE DEF g
<1>12. \A n \in DOMAIN m \ {"kind"} : n \in DOMAIN g /\ g[n] = m[n]
  BY <1>1, <1>11 DEF t, h
<1>13. KadxWritten(m) = <<op>> \o y /\ KadxParsed(<<op>> \o y) = Cursor(<<>>, g)
  BY <1>2, <1>6, <1>10 DEF p, e
<1> QED BY <1>3, <1>6, <1>12, <1>13, UnderstoodWhole

LEMMA SearchSourceUnderstood ==
    ASSUME LengthSets, NEW m \in SourceQuestions, TypeFits(m)
    PROVE  Understood(m)
<1> DEFINE a == m.uid
           b == m.tid
           t == m.type
           h == m.hash
           z == m.size
           op == 24
           p == <<op>>
           e == <<>>
           r == t \o (h \o z)
           y == a \o (b \o r)
           k == Typed(Asking(Opened(op), a, b), t, h)
           g == Holding(k, "size", z)
<1>1. /\ m.kind = "SSRC" /\ DOMAIN m = {"kind", "uid", "tid", "type", "hash", "size"}
      /\ a \in Width(20) /\ b \in Width(2) /\ z \in Width(8)
      /\ t \in Width(1) /\ h \in Below(21) /\ t[1] \in DOMAIN HashLength /\ Len(h) = HashLength[t[1]]
  BY DEF SourceQuestions, TypeFits
<1>2. KadxWritten(m) = p \o a \o b \o t \o h \o z
  BY <1>1 DEF KadxWritten, SearchSourceEncode, Opx
<1>3. op \in NodeOps /\ op \in Nat /\ p \in Bytes /\ m.kind \in OneGo
  BY <1>1, NumOne DEF NodeOps, OneGo
<1>4. \A s : NodeParse(op, s) => KadxParsed(s) = Get(TypedHash(Task(Is(s, {op}))), U("size", 8))
  BY DEF NodeParse, SearchSourceParse, Opx
<1> HIDE DEF a, b, t, h, z, op, p, e
<1>5. /\ a \in Bytes /\ Len(a) = 20 /\ b \in Bytes /\ Len(b) = 2 /\ z \in Bytes /\ Len(z) = 8
      /\ t \in Bytes /\ Len(t) = 1 /\ h \in Bytes /\ e \in Bytes
      /\ Num(t) \in DOMAIN HashLength /\ Len(h) = HashLength[Num(t)]
  BY <1>1, Widths, TypeIs, NoBytes DEF e
<1>6. p \o a \o b \o t \o h \o z = p \o y /\ y \in Bytes /\ r \in Bytes
  <2>1. Flat6(p, a, b, t, h, z)
    BY <1>3, <1>5, SixFlat
  <2>2. r \in Bytes
    BY <1>5, Closed
  <2> QED BY <2>1, <2>2, <1>5, Closed DEF Flat6
<1>7. z = z \o e
  BY <1>5, NothingBehind DEF e
<1> HIDE DEF y, r
<1>8. NodeParse(op, p \o y) /\ Is(p \o y, {op}) = Cursor(y, Opened(op))
  BY <1>3, <1>6, OpenedIs DEF p
<1>9. Task(Cursor(y, Opened(op))) = Cursor(r, Asking(Opened(op), a, b))
  <2>1. TaskRead(Opened(op), r, a, b)
    BY <1>5, <1>6, TaskReads
  <2> QED BY <2>1, Zenon DEF TaskRead, y
<1>10. TypedHash(Cursor(r, Asking(Opened(op), a, b))) = Cursor(z, k)
  <2>1. TypedRead(Asking(Opened(op), a, b), z, t, h)
    BY <1>5, TypedReads
  <2> QED BY <2>1, Zenon DEF TypedRead, r
<1>11. Get(Cursor(z, k), U("size", 8)) = Cursor(e, g)
  <2>1. GetRead(k, e, "size", 8, z)
    BY <1>5, OneDoes
  <2> QED BY <1>7, <2>1, Zenon DEF GetRead
<1>12. KadxParsed(p \o y) = Cursor(e, g)
  BY <1>4, <1>8, <1>9, <1>10, <1>11, Zenon
<1>13. /\ "uid" \in DOMAIN k /\ k["uid"] = a /\ "tid" \in DOMAIN k /\ k["tid"] = b
       /\ "type" \in DOMAIN k /\ k["type"] = t /\ "hash" \in DOMAIN k /\ k["hash"] = h
  BY Held, HeldBefore DEF Typed, Asking
<1> HIDE DEF k
<1>14. /\ "uid" \in DOMAIN g /\ g["uid"] = a /\ "tid" \in DOMAIN g /\ g["tid"] = b
       /\ "type" \in DOMAIN g /\ g["type"] = t /\ "hash" \in DOMAIN g /\ g["hash"] = h
       /\ "size" \in DOMAIN g /\ g["size"] = z
  BY <1>13, Held, HeldBefore
<1> HIDE DEF g
<1>15. \A n \in DOMAIN m \ {"kind"} : n \in DOMAIN g /\ g[n] = m[n]
  BY <1>1, <1>14 DEF a, b, t, h, z
<1>16. KadxWritten(m) = <<op>> \o y /\ KadxParsed(<<op>> \o y) = Cursor(<<>>, g)
  BY <1>2, <1>6, <1>12 DEF p, e
<1> QED BY <1>3, <1>6, <1>15, <1>16, UnderstoodWhole

(* The records of a list are read.                                          *)
LEMMA ShortWhole ==
    ASSUME NEW S, NEW n \in Nat, NEW s \in Short(S, n)
    PROVE  s = [j \in 1 .. Len(s) |-> s[j]]
<1>1. s \in Seq(S)
  BY DEF Short
<1> QED BY <1>1

Listing(w, q, g, name, n, l, fs) ==
    ReadList(Cursor(FlattenSeq(w) \o q, g), name, n, l) = Cursor(q, Holding(g, name, fs))

LEMMA Listings ==
    ASSUME NEW n \in Nat, NEW fs, fs = [j \in 1 .. n |-> fs[j]], NEW w, ArePieces(w, n),
           NEW l, ReadsEach(n, w, l, fs), NEW g, NEW q \in Bytes, NEW name
    PROVE  FlattenSeq(w) \in Bytes /\ Listing(w, q, g, name, n, l, fs)
<1>1. FlattenSeq(w) \in Bytes
  BY NotShorter DEF ArePieces
<1> DEFINE list == [j \in 1 .. n |-> fs[j]]
<1>2. ReadList(Cursor(FlattenSeq(w) \o q, g), name, n, l) = Cursor(q, Holding(g, name, list))
  BY ListReads
<1>3. list = fs
  OBVIOUS
<1> HIDE DEF list
<1>4. ReadList(Cursor(FlattenSeq(w) \o q, g), name, n, l) = Cursor(q, Holding(g, name, fs))
  BY <1>2, <1>3
<1> QED BY <1>1, <1>4 DEF Listing

Finders == [addr : Width(4), port : Width(2), cid : Width(8)]
FinderBytes(s) == s.addr \o s.port \o s.cid
FinderRead(s, z) ==
    Read(Cursor(FinderBytes(s) \o z, <<>>), <<U("addr", 4), U("port", 2), U("cid", 8)>>) = Cursor(z, s)

LEMMA FinderReads ==
    ASSUME NEW s \in Finders
    PROVE  /\ FinderBytes(s) \in Bytes /\ Len(FinderBytes(s)) > 0
           /\ \A z \in Bytes : FinderRead(s, z)
<1> DEFINE a == s.addr
           b == s.port
           c == s.cid
           o == <<>>
           g == Holding(Holding(Holding(o, "addr", a), "port", b), "cid", c)
<1>1. a \in Width(4) /\ b \in Width(2) /\ c \in Width(8)
  BY DEF Finders
<1>2. g = s
  <2>1. DOMAIN s = {"addr", "port", "cid"} /\ s = [f \in DOMAIN s |-> s[f]]
    BY DEF Finders
  <2>2. g["addr"] = a /\ g["port"] = b /\ g["cid"] = c
    BY Held, HeldBefore
  <2>3. DOMAIN g = {"addr", "port", "cid"} /\ g = [f \in DOMAIN g |-> g[f]]
    <3>1. DOMAIN o = {}
      OBVIOUS
    <3> HIDE DEF o
    <3> QED BY <3>1 DEF Holding
  <2> HIDE DEF g
  <2>4. \A f \in DOMAIN s : g[f] = s[f]
    BY <2>1, <2>2
  <2> QED BY <2>1, <2>3, <2>4
<1>3. FinderBytes(s) = a \o b \o c
  BY DEF FinderBytes
<1> HIDE DEF a, b, c, g
<1>4. a \in Bytes /\ Len(a) = 4 /\ b \in Bytes /\ Len(b) = 2 /\ c \in Bytes /\ Len(c) = 8
  BY <1>1, Widths
<1>5. Flat3(a, b, c)
  BY <1>4, ThreeFlat
<1>6. FinderBytes(s) \in Bytes /\ Len(FinderBytes(s)) > 0
  <2> DEFINE ab == a \o b
  <2>1. ab \in Bytes
    BY <1>4, CutOf
  <2> HIDE DEF ab
  <2>2. ab \o c \in Bytes /\ Len(ab \o c) = Len(ab) + 8 /\ Len(ab) \in Nat
    BY <1>4, <2>1, CutOf, LenProperties DEF Bytes
  <2>3. ab \o c \in Bytes /\ Len(ab \o c) > 0
    BY <2>2
  <2> QED BY <1>3, <2>3 DEF ab
<1>7. ASSUME NEW z \in Bytes PROVE FinderRead(s, z)
  <2>1. Then3(a, b, c, z)
    BY <1>4, ThreeThen
  <2>2. FinderBytes(s) \o z = a \o (b \o (c \o z))
    BY <1>3, <1>5, <2>1, Zenon DEF Flat3, Then3
  <2>3. ThreeRead3(o, z, "addr", 4, a, "port", 2, b, "cid", 8, c)
    BY <1>4, ThreeDoes
  <2> QED BY <1>2, <2>2, <2>3, Zenon DEF ThreeRead3, FinderRead, g, o
<1> QED BY <1>6, <1>7

Blocks == [at : Width(8)]
AtRead(s, z) == Read(Cursor(s.at \o z, <<>>), <<U("at", 8)>>) = Cursor(z, s)

LEMMA AtReads ==
    ASSUME NEW s \in Blocks
    PROVE  s.at \in Bytes /\ Len(s.at) > 0 /\ \A z \in Bytes : AtRead(s, z)
<1> DEFINE a == s.at
           o == <<>>
           f1 == U("at", 8)
           g == Holding(o, "at", a)
<1>1. a \in Width(8)
  BY DEF Blocks
<1>2. g = s
  <2>1. DOMAIN s = {"at"} /\ s = [f \in DOMAIN s |-> s[f]]
    BY DEF Blocks
  <2>2. g["at"] = a
    BY Held
  <2>3. DOMAIN g = {"at"} /\ g = [f \in DOMAIN g |-> g[f]]
    <3>1. DOMAIN o = {}
      OBVIOUS
    <3> HIDE DEF o
    <3> QED BY <3>1 DEF Holding
  <2> HIDE DEF g
  <2> QED BY <2>1, <2>2, <2>3
<1> HIDE DEF a, g
<1>3. a \in Bytes /\ Len(a) = 8 /\ Len(a) > 0
  <2>1. a \in Bytes /\ Len(a) = 8
    BY <1>1, Widths
  <2> QED BY <2>1
<1>4. ASSUME NEW z \in Bytes PROVE AtRead(s, z)
  <2>1. GetRead(o, z, "at", 8, a)
    BY <1>3, OneDoes
  <2>2. Get(Cursor(a \o z, o), f1) = Cursor(z, s)
    BY <1>2, <2>1, Zenon DEF GetRead, g, f1
  <2> DEFINE d == Cursor(a \o z, o)
  <2> HIDE DEF f1, d
  <2>3. Read(d, <<f1>>) = Get(d, f1)
    BY ReadOne
  <2>4. Read(d, <<f1>>) = Cursor(z, s)
    BY <2>2, <2>3, Zenon DEF d
  <2> QED BY <2>4, Zenon DEF AtRead, d, f1, a, o
<1> QED BY <1>3, <1>4 DEF a

FoundSources ==
    [kind : {"FSRC"}, uid : Width(20), tid : Width(2), type : Width(1), hash : Below(21),
     srvs : Short(Finders, 256)]
FilePartLists ==
    [kind : {"FILE_STATUS_BACK", "FILE_PART"}, type : Width(1), hash : Below(21),
     total : Width(8), parts : Short(Blocks, 256)]

LEMMA FoundUnderstood ==
    ASSUME LengthSets, NEW m \in FoundSources, TypeFits(m)
    PROVE  Understood(m)
<1> DEFINE a == m.uid
           b == m.tid
           t == m.type
           h == m.hash
           fs == m.srvs
           n == Len(fs)
           w == [i \in DOMAIN fs |-> fs[i].addr \o fs[i].port \o fs[i].cid]
           x == FlattenSeq(w)
           c == Le(n, 1)
           op == 25
           p == <<op>>
           e == <<>>
           v == c \o x
           r == t \o (h \o v)
           y == a \o (b \o r)
           l == <<U("addr", 4), U("port", 2), U("cid", 8)>>
           k == Typed(Asking(Opened(op), a, b), t, h)
           j == Holding(k, "count", c)
           g == Holding(j, "srvs", fs)
<1>1. /\ m.kind = "FSRC" /\ DOMAIN m = {"kind", "uid", "tid", "type", "hash", "srvs"}
      /\ a \in Width(20) /\ b \in Width(2) /\ fs \in Short(Finders, 256)
      /\ t \in Width(1) /\ h \in Below(21) /\ t[1] \in DOMAIN HashLength /\ Len(h) = HashLength[t[1]]
  BY DEF FoundSources, TypeFits
<1>2. KadxWritten(m) = p \o a \o b \o t \o h \o c \o x
  BY <1>1 DEF KadxWritten, KadxFoundSourceEncode, Opx
<1>3. op \in NodeOps /\ op \in Nat /\ p \in Bytes /\ m.kind \in OneGo
  BY <1>1, NumOne DEF NodeOps, OneGo
<1>4. \A s : NodeParse(op, s) =>
        KadxParsed(s) = Then(Get(TypedHash(Task(Is(s, {op}))), U("count", 1)),
                             LAMBDA d : ReadList(d, "srvs", Num(d.m["count"]), l))
  BY DEF NodeParse, KadxFoundSourceParse, Opx
<1> HIDE DEF a, b, t, h, fs, op, p, e
<1>5. /\ a \in Bytes /\ Len(a) = 20 /\ b \in Bytes /\ Len(b) = 2
      /\ t \in Bytes /\ Len(t) = 1 /\ h \in Bytes /\ e \in Bytes
      /\ Num(t) \in DOMAIN HashLength /\ Len(h) = HashLength[Num(t)]
  BY <1>1, Widths, TypeIs, NoBytes DEF e
<1>6. n \in Nat /\ n < 256 /\ DOMAIN fs = 1 .. n /\ fs = [i \in 1 .. n |-> fs[i]]
      /\ \A i \in 1 .. n : fs[i] \in Finders
  BY <1>1, ShortIs, ShortWhole
<1> HIDE DEF n
<1>7. \A i \in 1 .. n : w[i] = FinderBytes(fs[i])
  BY <1>6 DEF FinderBytes
<1>8. ArePieces(w, n)
  <2>1. DOMAIN w = 1 .. n /\ w = [i \in 1 .. n |-> w[i]]
    BY <1>6
  <2> HIDE DEF w
  <2>2. \A i \in 1 .. n : w[i] \in Bytes /\ Len(w[i]) > 0
    BY <1>6, <1>7, FinderReads
  <2> QED BY <1>6, <2>1, <2>2, Gathered
<1> HIDE DEF w
<1>9. ReadsEach(n, w, l, fs)
  <2>1. ASSUME NEW i \in 1 .. n, NEW z \in Bytes PROVE Read(Cursor(w[i] \o z, <<>>), l) = Cursor(z, fs[i])
    <3>1. FinderRead(fs[i], z)
      BY <1>6, FinderReads
    <3>2. w[i] = FinderBytes(fs[i])
      BY <1>7
    <3> QED BY <3>1, <3>2, Zenon DEF FinderRead
  <2> HIDE DEF l
  <2> QED BY <2>1 DEF ReadsEach
<1> HIDE DEF l
<1>10. x \in Bytes /\ Listing(w, e, j, "srvs", n, l, fs)
  <2> HIDE DEF j
  <2> QED BY <1>5, <1>6, <1>8, <1>9, Listings
<1>11. c \in Bytes /\ Len(c) = 1 /\ Num(c) = n
  BY <1>6, CountOne
<1> HIDE DEF c
<1>12. x = x \o e
  BY <1>10, NothingBehind DEF e
<1>13. ReadList(Cursor(x, j), "srvs", n, l) = Cursor(e, g)
  BY <1>10, <1>12, Zenon DEF Listing
<1> HIDE DEF x
<1>14. p \o a \o b \o t \o h \o c \o x = p \o y /\ y \in Bytes /\ r \in Bytes /\ v \in Bytes
  <2>1. Row7(p, a, b, t, h, c, x)
    BY <1>3, <1>5, <1>10, <1>11, SevenRow
  <2>2. v \in Bytes
    BY <1>10, <1>11, Closed
  <2>3. r \in Bytes
    <3> HIDE DEF v
    <3> QED BY <1>5, <2>2, Closed
  <2> QED BY <2>1, <2>2, <2>3 DEF Row7
<1> HIDE DEF y, r, v
<1>15. NodeParse(op, p \o y) /\ Is(p \o y, {op}) = Cursor(y, Opened(op))
  BY <1>3, <1>14, OpenedIs DEF p
<1>16. Task(Cursor(y, Opened(op))) = Cursor(r, Asking(Opened(op), a, b))
  <2>1. TaskRead(Opened(op), r, a, b)
    BY <1>5, <1>14, TaskReads
  <2> QED BY <2>1, Zenon DEF TaskRead, y
<1>17. TypedHash(Cursor(r, Asking(Opened(op), a, b))) = Cursor(v, k)
  <2>1. TypedRead(Asking(Opened(op), a, b), v, t, h)
    BY <1>5, <1>14, TypedReads
  <2> QED BY <2>1, Zenon DEF TypedRead, r
<1>18. Get(Cursor(v, k), U("count", 1)) = Cursor(x, j)
  <2>1. GetRead(k, x, "count", 1, c)
    BY <1>10, <1>11, OneDoes
  <2> QED BY <2>1, Zenon DEF GetRead, v
<1>19. KadxParsed(p \o y) = Cursor(e, g)
  <2>1. Get(TypedHash(Task(Is(p \o y, {op}))), U("count", 1)) = Cursor(x, j)
    BY <1>15, <1>16, <1>17, <1>18, Zenon
  <2> DEFINE d == Cursor(x, j)
  <2>2. d.ok /\ d.m["count"] = c
    BY CursorIs, Held
  <2> HIDE DEF d
  <2>3. KadxParsed(p \o y) = ReadList(d, "srvs", Num(c), l)
    BY <1>4, <1>15, <2>1, <2>2 DEF Then, d
  <2> QED BY <1>11, <1>13, <2>3, Zenon DEF d
<1>20. /\ "uid" \in DOMAIN k /\ k["uid"] = a /\ "tid" \in DOMAIN k /\ k["tid"] = b
       /\ "type" \in DOMAIN k /\ k["type"] = t /\ "hash" \in DOMAIN k /\ k["hash"] = h
  BY Held, HeldBefore DEF Typed, Asking
<1> HIDE DEF k
<1>21. /\ "uid" \in DOMAIN g /\ g["uid"] = a /\ "tid" \in DOMAIN g /\ g["tid"] = b
       /\ "type" \in DOMAIN g /\ g["type"] = t /\ "hash" \in DOMAIN g /\ g["hash"] = h
       /\ "srvs" \in DOMAIN g /\ g["srvs"] = fs
  BY <1>20, Held, HeldBefore
<1> HIDE DEF g
<1>22. \A f \in DOMAIN m \ {"kind"} : f \in DOMAIN g /\ g[f] = m[f]
  BY <1>1, <1>21 DEF a, b, t, h, fs
<1>23. KadxWritten(m) = <<op>> \o y /\ KadxParsed(<<op>> \o y) = Cursor(<<>>, g)
  BY <1>2, <1>14, <1>19 DEF p, e
<1> QED BY <1>3, <1>14, <1>22, <1>23, UnderstoodWhole

LEMMA PartsUnderstood ==
    ASSUME LengthSets, NEW m \in FilePartLists, TypeFits(m)
    PROVE  Understood(m)
<1> DEFINE t == m.type
           h == m.hash
           z == m.total
           fs == m.parts
           n == Len(fs)
           w == [i \in DOMAIN fs |-> fs[i].at]
           x == FlattenSeq(w)
           c == Le(n, 1)
           op == Opx[m.kind]
           ops == {Opx.FILE_STATUS_BACK, Opx.FILE_PART}
           p == <<op>>
           e == <<>>
           v == z \o (c \o x)
           y == t \o (h \o v)
           l == <<U("at", 8)>>
           two == <<U("total", 8), U("sc", 1)>>
           k == Typed(Opened(op), t, h)
           j == Holding(Holding(k, "total", z), "sc", c)
           g == Holding(j, "parts", fs)
<1>1. /\ m.kind \in {"FILE_STATUS_BACK", "FILE_PART"}
      /\ DOMAIN m = {"kind", "type", "hash", "total", "parts"}
      /\ z \in Width(8) /\ fs \in Short(Blocks, 256)
      /\ t \in Width(1) /\ h \in Below(21) /\ t[1] \in DOMAIN HashLength /\ Len(h) = HashLength[t[1]]
  BY DEF FilePartLists, TypeFits
<1>2. KadxWritten(m) = p \o t \o h \o z \o c \o x
  BY <1>1 DEF KadxWritten, FilePartEncode
<1>3. op \in NodeOps /\ op \in Nat /\ op \in {49, 50} /\ op \in ops /\ m.kind \in OneGo
  BY <1>1 DEF NodeOps, OneGo, Opx
<1>4. \A s : NodeParse(op, s) =>
        KadxParsed(s) = Then(Read(TypedHash(Is(s, ops)), two),
                             LAMBDA d : ReadList(d, "parts", Num(d.m["sc"]), l))
  <2>1. \A s : FilePartParse(s) = Then(Read(TypedHash(Is(s, ops)), two),
                                       LAMBDA d : ReadList(d, "parts", Num(d.m["sc"]), l))
    BY DEF FilePartParse
  <2> HIDE DEF op, ops, two, l
  <2> QED BY <1>3, <2>1 DEF NodeParse
<1> HIDE DEF t, h, z, fs, op, ops, p, e, two
<1>5. /\ t \in Bytes /\ Len(t) = 1 /\ h \in Bytes /\ e \in Bytes /\ z \in Bytes /\ Len(z) = 8
      /\ Num(t) \in DOMAIN HashLength /\ Len(h) = HashLength[Num(t)]
  BY <1>1, Widths, TypeIs, NoBytes DEF e
<1>6. n \in Nat /\ n < 256 /\ DOMAIN fs = 1 .. n /\ fs = [i \in 1 .. n |-> fs[i]]
      /\ \A i \in 1 .. n : fs[i] \in Blocks
  BY <1>1, ShortIs, ShortWhole
<1>7. p \in Bytes
  BY <1>3, NumOne DEF p
<1> HIDE DEF n
<1>8. \A i \in 1 .. n : w[i] = fs[i].at
  BY <1>6
<1>9. ArePieces(w, n)
  <2>1. DOMAIN w = 1 .. n /\ w = [i \in 1 .. n |-> w[i]]
    BY <1>6
  <2> HIDE DEF w
  <2>2. \A i \in 1 .. n : w[i] \in Bytes /\ Len(w[i]) > 0
    BY <1>6, <1>8, AtReads
  <2> QED BY <1>6, <2>1, <2>2, Gathered
<1> HIDE DEF w
<1>10. ReadsEach(n, w, l, fs)
  <2>1. ASSUME NEW i \in 1 .. n, NEW q \in Bytes PROVE Read(Cursor(w[i] \o q, <<>>), l) = Cursor(q, fs[i])
    <3>1. AtRead(fs[i], q)
      BY <1>6, AtReads
    <3>2. w[i] = fs[i].at
      BY <1>8
    <3> QED BY <3>1, <3>2, Zenon DEF AtRead
  <2> HIDE DEF l
  <2> QED BY <2>1 DEF ReadsEach
<1> HIDE DEF l
<1>11. x \in Bytes /\ Listing(w, e, j, "parts", n, l, fs)
  <2> HIDE DEF j
  <2> QED BY <1>5, <1>6, <1>9, <1>10, Listings
<1>12. c \in Bytes /\ Len(c) = 1 /\ Num(c) = n
  BY <1>6, CountOne
<1> HIDE DEF c
<1>13. x = x \o e
  BY <1>11, NothingBehind DEF e
<1>14. ReadList(Cursor(x, j), "parts", n, l) = Cursor(e, g)
  BY <1>11, <1>13, Zenon DEF Listing
<1> HIDE DEF x
<1>15. p \o t \o h \o z \o c \o x = p \o y /\ y \in Bytes /\ v \in Bytes
  <2>1. Flat6(p, t, h, z, c, x)
    BY <1>5, <1>7, <1>11, <1>12, SixFlat
  <2>2. v \in Bytes
    BY <1>5, <1>11, <1>12, Closed
  <2> QED BY <2>1, <2>2 DEF Flat6
<1> HIDE DEF y, v
<1>16. NodeParse(op, p \o y) /\ Is(p \o y, ops) = Cursor(y, Opened(op))
  BY <1>3, <1>15, OpenedIs DEF p
<1>17. TypedHash(Cursor(y, Opened(op))) = Cursor(v, k)
  <2>1. TypedRead(Opened(op), v, t, h)
    BY <1>5, <1>15, TypedReads
  <2> QED BY <2>1, Zenon DEF TypedRead, y
<1>18. Read(Cursor(v, k), two) = Cursor(x, j)
  <2>1. TwoRead2(k, x, "total", 8, z, "sc", 1, c)
    BY <1>5, <1>11, <1>12, TwoDoes
  <2> QED BY <2>1, Zenon DEF TwoRead2, v, two
<1>19. KadxParsed(p \o y) = Cursor(e, g)
  <2>1. Read(TypedHash(Is(p \o y, ops)), two) = Cursor(x, j)
    BY <1>16, <1>17, <1>18, Zenon
  <2> DEFINE d == Cursor(x, j)
  <2>2. d.ok /\ d.m["sc"] = c
    BY CursorIs, Held
  <2> HIDE DEF d
  <2>3. KadxParsed(p \o y) = ReadList(d, "parts", Num(c), l)
    BY <1>4, <1>16, <2>1, <2>2 DEF Then, d
  <2> QED BY <1>12, <1>14, <2>3, Zenon DEF d
<1>20. "type" \in DOMAIN k /\ k["type"] = t /\ "hash" \in DOMAIN k /\ k["hash"] = h
  BY Held, HeldBefore DEF Typed
<1> HIDE DEF k
<1>21. /\ "type" \in DOMAIN g /\ g["type"] = t /\ "hash" \in DOMAIN g /\ g["hash"] = h
       /\ "total" \in DOMAIN g /\ g["total"] = z /\ "parts" \in DOMAIN g /\ g["parts"] = fs
  BY <1>20, Held, HeldBefore
<1> HIDE DEF g
<1>22. \A f \in DOMAIN m \ {"kind"} : f \in DOMAIN g /\ g[f] = m[f]
  BY <1>1, <1>21 DEF t, h, z, fs
<1>23. KadxWritten(m) = <<op>> \o y /\ KadxParsed(<<op>> \o y) = Cursor(<<>>, g)
  BY <1>2, <1>15, <1>19 DEF p, e
<1> QED BY <1>3, <1>15, <1>22, <1>23, UnderstoodWhole
-------------------------------------------------------------------------------
(* A file of an answer: each field it has behind its number, and the end.   *)
Marks == {1, 2, 3, 4, 5, 6, 11, 13}
FieldName(k) == IF k \in 1 .. 3 THEN Hashes3[k] ELSE IF k = 5 THEN "size" ELSE Texts4[k]
There(f, k) == k \in Marks /\ FieldName(k) \in DOMAIN f
FixedBytes(k, v) == <<k>> \o v
CountedBytes(k, v) == <<k>> \o Le(Len(v), 2) \o v
FieldBytes(f, k) ==
    IF There(f, k) THEN (IF k \in {1, 2, 3, 5} THEN FixedBytes(k, f[FieldName(k)])
                                               ELSE CountedBytes(k, f[FieldName(k)]))
    ELSE <<>>
FixedHeld(g, k, v) == Holding(Holding(g, "mark", <<k>>), FieldName(k), v)
CountedHeld(g, k, v) ==
    Holding(Holding(Holding(g, "mark", <<k>>), "len", Le(Len(v), 2)), FieldName(k), v)
FieldHeld(g, f, k) ==
    IF There(f, k) THEN (IF k \in {1, 2, 3, 5} THEN FixedHeld(g, k, f[FieldName(k)])
                                               ELSE CountedHeld(g, k, f[FieldName(k)]))
    ELSE g

LEMMA FieldNamesAre ==
    /\ FieldName(1) = "sha1" /\ FieldName(2) = "md5" /\ FieldName(3) = "emd4"
    /\ FieldName(4) = "filename" /\ FieldName(5) = "size" /\ FieldName(6) = "format"
    /\ FieldName(11) = "description" /\ FieldName(13) = "source"
BY FieldTables DEF FieldName

LEMMA NamesDiffer ==
    /\ \A j, k \in Marks : j # k => FieldName(j) # FieldName(k)
    /\ \A k \in Marks : FieldName(k) \notin {"mark", "len", "end", "head"}
BY FieldNamesAre DEF Marks

LEMMA MarkOf ==
    ASSUME NEW n \in {"sha1", "md5", "emd4", "filename", "size", "format", "description", "source"}
    PROVE  \E k \in Marks : FieldName(k) = n
BY FieldNamesAre DEF Marks

LEMMA FieldWidths ==
    ASSUME NEW f, IsFData(f), NEW k, There(f, k)
    PROVE  LET v == f[FieldName(k)]
           IN  /\ k = 1 => v \in Width(20)
               /\ k \in {2, 3} => v \in Width(16)
               /\ k = 5 => v \in Width(8)
               /\ k \notin {1, 2, 3, 5} => v \in Below(256 * 256)
<1>1. FieldName(k) \in DOMAIN f /\ k \in Marks
  BY DEF There
<1>2. f[FieldName(k)] \in FDataFields[FieldName(k)]
  BY <1>1 DEF IsFData
<1>3. /\ FDataFields["sha1"] = Width(20) /\ FDataFields["md5"] = Width(16)
      /\ FDataFields["emd4"] = Width(16)
  BY DEF FDataFields
<1>4. FDataFields["size"] \subseteq Width(8)
  BY DEF FDataFields
<1>5. /\ FDataFields["filename"] = Below(256 * 256) /\ FDataFields["format"] = Below(256 * 256)
      /\ FDataFields["description"] = Below(256 * 256) /\ FDataFields["source"] = Below(256 * 256)
  BY DEF FDataFields
<1> DEFINE v == f[FieldName(k)]
<1> HIDE DEF v
<1>6. v \in FDataFields[FieldName(k)]
  BY <1>2 DEF v
<1>7. k = 1 => v \in Width(20)
  BY <1>3, <1>6, FieldNamesAre
<1>8. k \in {2, 3} => v \in Width(16)
  BY <1>3, <1>6, FieldNamesAre
<1>9. k = 5 => v \in Width(8)
  BY <1>4, <1>6, FieldNamesAre
<1>10. k \notin {1, 2, 3, 5} => v \in Below(256 * 256)
  <2> SUFFICES ASSUME k \in {4, 6, 11, 13} PROVE v \in Below(256 * 256)
    BY <1>1 DEF Marks
  <2>1. FDataFields[FieldName(k)] = Below(256 * 256)
    BY <1>5, FieldNamesAre
  <2> QED BY <1>6, <2>1, Zenon
<1> QED BY <1>7, <1>8, <1>9, <1>10 DEF v

(* One byte for the number of a field.                                      *)
LEMMA MarkReads ==
    ASSUME NEW k \in Nat, NEW g, "end" \notin DOMAIN g, NEW t \in Bytes
    PROVE  /\ FDataPass(Cursor(<<k>> \o t, g)) = FDataField(Cursor(t, Holding(g, "mark", <<k>>)))
           /\ Num(Cursor(t, Holding(g, "mark", <<k>>)).m["mark"]) = k
<1> DEFINE p == <<k>>
           d == Cursor(p \o t, g)
           h == Holding(g, "mark", p)
<1>1. p \in Bytes /\ Len(p) = 1 /\ Num(p) = k
  BY NumOne
<1> HIDE DEF p
<1>2. Get(d, U("mark", 1)) = Cursor(t, h)
  <2>1. GetRead(g, t, "mark", 1, p)
    BY <1>1, OneDoes
  <2> QED BY <2>1, Zenon DEF GetRead
<1>3. "end" \notin DOMAIN d.m
  BY CursorIs
<1> DEFINE a == Get(d, U("mark", 1))
<1>4. FDataPass(d) = IF a.ok THEN FDataField(a) ELSE a
  <2> HIDE DEF d
  <2> QED BY <1>3 DEF FDataPass, Then
<1>5. a.ok
  <2> HIDE DEF a
  <2> QED BY <1>2, CursorIs DEF a
<1>6. FDataPass(d) = FDataField(Cursor(t, h))
  <2> HIDE DEF d, h
  <2>1. FDataPass(d) = FDataField(a)
    BY <1>4, <1>5
  <2> QED BY <1>2, <2>1, Zenon
<1>7. Num(Cursor(t, h).m["mark"]) = k
  <2>1. Cursor(t, h).m = h /\ h["mark"] = p
    BY CursorIs, Held
  <2> QED BY <1>1, <2>1
<1> QED BY <1>6, <1>7 DEF p

FieldRead(f, k, z, g) == FDataPass(Cursor(FieldBytes(f, k) \o z, g)) = Cursor(z, FieldHeld(g, f, k))

LEMMA FixedReads ==
    ASSUME LengthSets, NEW f, IsFData(f), NEW k \in {1, 2, 3, 5}, There(f, k)
    PROVE  /\ FieldBytes(f, k) \in Bytes /\ Len(FieldBytes(f, k)) >= 3
           /\ \A z \in Bytes : \A g : "end" \notin DOMAIN g => FieldRead(f, k, z, g)
<1> DEFINE v == f[FieldName(k)]
           p == <<k>>
           w == IF k = 1 THEN 20 ELSE IF k = 5 THEN 8 ELSE 16
<1>1. v \in Bytes /\ Len(v) = w /\ w \in Nat /\ w >= 8
  <2>1. /\ k = 1 => v \in Width(20)
        /\ k \in {2, 3} => v \in Width(16)
        /\ k = 5 => v \in Width(8)
    BY FieldWidths
  <2> HIDE DEF v
  <2>2. v \in Width(w)
    BY <2>1
  <2>3. w \in Nat /\ w >= 8
    OBVIOUS
  <2> HIDE DEF w
  <2> QED BY <2>2, <2>3, WidthIs
<1>2. FieldBytes(f, k) = p \o v /\ k \in Nat
  BY DEF FieldBytes, FixedBytes
<1>3. p \in Bytes /\ Len(p) = 1
  BY <1>2, NumOne
<1>4. \A g : FieldHeld(g, f, k) = Holding(Holding(g, "mark", p), FieldName(k), v)
  BY DEF FieldHeld, FixedHeld
<1>5. \A d : Num(d.m["mark"]) = k => FDataField(d) = Get(SetHash(d), U(FieldName(k), w))
             \/ (k = 5 /\ FDataField(d) = Get(d, U(FieldName(k), w)))
  <2> SUFFICES ASSUME NEW d, Num(d.m["mark"]) = k
               PROVE  FDataField(d) = Get(SetHash(d), U(FieldName(k), w))
                        \/ (k = 5 /\ FDataField(d) = Get(d, U(FieldName(k), w)))
    OBVIOUS
  <2>1. /\ k = 1 => FDataField(d) = Get(SetHash(d), U("sha1", 20))
        /\ k \in {2, 3} => FDataField(d) = Get(SetHash(d), U(Hashes3[k], 16))
        /\ k = 5 => FDataField(d) = Get(d, U("size", 8))
    BY FieldIs
  <2>2. CASE k = 1
    <3>1. FieldName(k) = "sha1" /\ w = 20
      BY <2>2, FieldNamesAre
    <3> QED BY <2>1, <2>2, <3>1
  <2>3. CASE k \in {2, 3}
    <3>1. FieldName(k) = Hashes3[k] /\ w = 16
      BY <2>3 DEF FieldName
    <3> QED BY <2>1, <2>3, <3>1
  <2>4. CASE k = 5
    <3>1. FieldName(k) = "size" /\ w = 8
      BY <2>4, FieldNamesAre
    <3> QED BY <2>1, <2>4, <3>1
  <2> QED BY <2>2, <2>3, <2>4
<1> HIDE DEF v, p, w
<1>6. p \o v \in Bytes /\ Len(p \o v) >= 3
  <2>1. p \o v \in Bytes /\ Len(p \o v) = Len(p) + Len(v)
    BY <1>1, <1>3, CutOf
  <2> QED BY <1>1, <1>3, <2>1
<1>7. ASSUME NEW z \in Bytes, NEW g, "end" \notin DOMAIN g PROVE FieldRead(f, k, z, g)
  <2> DEFINE t == v \o z
             h == Holding(g, "mark", p)
             d == Cursor(t, h)
  <2>1. (p \o v) \o z = p \o t /\ t \in Bytes
    BY <1>1, <1>3, Joined
  <2>2. FDataPass(Cursor(p \o t, g)) = FDataField(d) /\ Num(d.m["mark"]) = k
    <3> HIDE DEF t
    <3> QED BY <1>2, <1>7, <2>1, MarkReads DEF p
  <2>3. SetHash(d) = d
    <3> HIDE DEF d
    <3> QED BY DEF SetHash
  <2>4. FDataField(d) = Get(d, U(FieldName(k), w))
    <3> HIDE DEF d
    <3> QED BY <1>5, <2>2, <2>3
  <2>5. Get(d, U(FieldName(k), w)) = Cursor(z, Holding(h, FieldName(k), v))
    <3> HIDE DEF h
    <3> QED BY <1>1, OneDoes DEF GetRead
  <2> HIDE DEF t, d, h
  <2>6. FDataPass(Cursor((p \o v) \o z, g)) = Cursor(z, Holding(h, FieldName(k), v))
    BY <2>1, <2>2, <2>4, <2>5, Zenon
  <2> QED BY <1>2, <1>4, <2>6, Zenon DEF FieldRead, h
<1> QED BY <1>2, <1>6, <1>7

LEMMA CountedReads ==
    ASSUME NEW f, IsFData(f), NEW k \in {4, 6, 11, 13}, There(f, k)
    PROVE  /\ FieldBytes(f, k) \in Bytes /\ Len(FieldBytes(f, k)) >= 3
           /\ \A z \in Bytes : \A g : "end" \notin DOMAIN g => FieldRead(f, k, z, g)
<1> DEFINE v == f[FieldName(k)]
           p == <<k>>
           c == Le(Len(v), 2)
           n == FieldName(k)
<1>1. v \in Below(256 * 256)
  BY FieldWidths
<1>2. FieldBytes(f, k) = p \o c \o v /\ k \in Nat
  <2>1. FieldBytes(f, k) = CountedBytes(k, v) /\ k \in Nat
    BY DEF FieldBytes
  <2> HIDE DEF v
  <2>2. CountedBytes(k, v) = <<k>> \o Le(Len(v), 2) \o v
    BY DEF CountedBytes
  <2> QED BY <2>1, <2>2, Zenon
<1>3. p \in Bytes /\ Len(p) = 1
  BY <1>2, NumOne
<1>4. \A g : FieldHeld(g, f, k) = Holding(Holding(Holding(g, "mark", p), "len", c), n, v)
  BY DEF FieldHeld, CountedHeld
<1>5. \A d : Num(d.m["mark"]) = k => FDataField(d) = Read(d, <<U("len", 2), D(n, "len")>>)
  <2> SUFFICES ASSUME NEW d, Num(d.m["mark"]) = k
               PROVE  FDataField(d) = Read(d, <<U("len", 2), D(n, "len")>>)
    OBVIOUS
  <2>1. k \in DOMAIN Texts4 /\ n = Texts4[k]
    BY FieldTables DEF FieldName
  <2> HIDE DEF n
  <2>2. k \in DOMAIN Texts4 => FDataField(d) = Read(d, <<U("len", 2), D(Texts4[k], "len")>>)
    BY FieldIs
  <2> QED BY <2>1, <2>2
<1> HIDE DEF v, p, n
<1>6. v \in Bytes
  BY <1>1, Texts
<1>7. c \in Bytes /\ Len(c) = 2 /\ Num(c) = Len(v)
  BY <1>1, CountTwo
<1> HIDE DEF c
<1>8. p \o c \o v \in Bytes /\ Len(p \o c \o v) >= 3
  <2> DEFINE pc == p \o c
  <2>1. pc \in Bytes /\ Len(pc) = Len(p) + Len(c)
    BY <1>3, <1>7, CutOf
  <2> HIDE DEF pc
  <2>2. pc \o v \in Bytes /\ Len(pc \o v) = Len(pc) + Len(v) /\ Len(v) \in Nat
    BY <1>6, <2>1, CutOf, LenProperties DEF Bytes
  <2>3. Len(pc) = 3
    BY <1>3, <1>7, <2>1
  <2> DEFINE i == Len(pc \o v)
             j == Len(v)
  <2>4. i = 3 + j /\ j \in Nat
    BY <2>2, <2>3
  <2>5. i >= 3
    <3> HIDE DEF i, j
    <3> QED BY <2>4
  <2> QED BY <2>2, <2>5 DEF pc
<1>9. ASSUME NEW z \in Bytes, NEW g, "end" \notin DOMAIN g PROVE FieldRead(f, k, z, g)
  <2> DEFINE t == c \o (v \o z)
             h == Holding(g, "mark", p)
             d == Cursor(t, h)
  <2>1. (p \o c \o v) \o z = p \o t /\ t \in Bytes
    <3>1. Flat3(p, c, v)
      BY <1>3, <1>6, <1>7, ThreeFlat
    <3>2. Then3(p, c, v, z)
      BY <1>3, <1>6, <1>7, ThreeThen
    <3> QED BY <3>1, <3>2, Zenon DEF Flat3, Then3
  <2>2. FDataPass(Cursor(p \o t, g)) = FDataField(d) /\ Num(d.m["mark"]) = k
    <3> HIDE DEF t
    <3> QED BY <1>2, <1>9, <2>1, MarkReads DEF p
  <2>3. FDataField(d) = Read(d, <<U("len", 2), D(n, "len")>>)
    <3> HIDE DEF d
    <3> QED BY <1>5, <2>2
  <2>4. Read(d, <<U("len", 2), D(n, "len")>>) = Cursor(z, Holding(Holding(h, "len", c), n, v))
    <3>1. TextRead2(h, z, "len", 2, c, n, v)
      BY <1>6, <1>7, TextDoes
    <3> QED BY <3>1, Zenon DEF TextRead2, d, t
  <2> HIDE DEF t, d, h
  <2>5. FDataPass(Cursor((p \o c \o v) \o z, g)) = Cursor(z, Holding(Holding(h, "len", c), n, v))
    BY <2>1, <2>2, <2>3, <2>4, Zenon
  <2> QED BY <1>2, <1>4, <2>5, Zenon DEF FieldRead, h
<1> QED BY <1>2, <1>8, <1>9

LEMMA FieldReads ==
    ASSUME LengthSets, NEW f, IsFData(f), NEW k, There(f, k)
    PROVE  /\ FieldBytes(f, k) \in Bytes /\ Len(FieldBytes(f, k)) >= 3
           /\ \A z \in Bytes : \A g : "end" \notin DOMAIN g => FieldRead(f, k, z, g)
<1>1. k \in {1, 2, 3, 5} \/ k \in {4, 6, 11, 13}
  BY DEF There, Marks
<1>2. CASE k \in {1, 2, 3, 5}
  BY <1>2, FixedReads
<1>3. CASE k \in {4, 6, 11, 13}
  BY <1>3, CountedReads
<1> QED BY <1>1, <1>2, <1>3

(* What the passes over the fields of a file hold, one field after another. *)
FieldsKept(f, g, k) ==
    /\ "end" \notin DOMAIN g
    /\ \A j \in Marks : j <= k /\ There(f, j) => FieldName(j) \in DOMAIN g /\ g[FieldName(j)] = f[FieldName(j)]
FieldsRun(f, h, m) == m[0] = h /\ \A k \in 1 .. 13 : m[k] = FieldHeld(m[k - 1], f, k)

LEMMA FieldsRuns ==
    ASSUME NEW f, NEW h
    PROVE  \E m : FieldsRun(f, h, m)
<1> DEFINE Runs(r, n) == r[0] = h /\ \A k \in 1 .. n : r[k] = FieldHeld(r[k - 1], f, k)
           S == { n \in 0 .. 13 : \E r : Runs(r, n) }
<1>1. Runs([k \in 0 .. 0 |-> h], 0)
  OBVIOUS
<1>2. ASSUME NEW n \in 1 .. 13, NEW a, Runs(a, n - 1) PROVE \E r : Runs(r, n)
  <2> DEFINE r == [k \in 0 .. n |-> IF k = n THEN FieldHeld(a[n - 1], f, n) ELSE a[k]]
  <2>1. r[0] = h /\ r[n] = FieldHeld(a[n - 1], f, n) /\ \A k \in 0 .. n - 1 : r[k] = a[k]
    BY <1>2
  <2>2. \A k \in 1 .. n : k - 1 \in 0 .. n - 1 /\ (k # n => k \in 1 .. n - 1)
    OBVIOUS
  <2> HIDE DEF r
  <2>3. Runs(r, n)
    BY <1>2, <2>1, <2>2
  <2> QED BY <2>3
<1>3. 13 \in S
  <2>1. 0 \in S /\ \A n \in 1 .. 13 : n - 1 \in S => n \in S
    <3> HIDE DEF Runs
    <3> QED BY <1>1, <1>2
  <2> HIDE DEF S
  <2>2. \A n \in 0 .. 13 : n \in S
    BY <2>1, UpTo
  <2> QED BY <2>2
<1>4. PICK r : Runs(r, 13)
  BY <1>3
<1> QED BY <1>4 DEF FieldsRun

LEMMA FieldKeeps ==
    ASSUME NEW f, NEW g, NEW k \in 1 .. 13, FieldsKept(f, g, k - 1)
    PROVE  FieldsKept(f, FieldHeld(g, f, k), k)
<1> DEFINE n == FieldName(k)
           v == f[n]
           h == Holding(g, "mark", <<k>>)
           i == Holding(h, "len", Le(Len(v), 2))
           e == FieldHeld(g, f, k)
<1>1. \A j \in Marks : j <= k => j <= k - 1 \/ j = k
  BY DEF Marks
<1>2. CASE ~There(f, k)
  <2>1. e = g
    BY <1>2 DEF FieldHeld
  <2> HIDE DEF e
  <2> QED BY <1>1, <1>2, <2>1 DEF FieldsKept, e
<1>3. CASE There(f, k)
  <2>1. k \in Marks
    BY <1>3 DEF There
  <2>2. n \notin {"mark", "len", "end", "head"} /\ \A j \in Marks : j # k => FieldName(j) # n
    BY <2>1, NamesDiffer
  <2>3. \A j \in Marks : FieldName(j) \notin {"mark", "len", "end", "head"}
    BY NamesDiffer
  <2>4. e = Holding(h, n, v) \/ e = Holding(i, n, v)
    BY <1>3 DEF FieldHeld, FixedHeld, CountedHeld
  <2>5. DOMAIN h = DOMAIN g \cup {"mark"} /\ DOMAIN i = DOMAIN g \cup {"mark", "len"}
    BY DEF Holding
  <2>6. \A j \in Marks : FieldName(j) \in DOMAIN g =>
          /\ FieldName(j) \in DOMAIN h /\ h[FieldName(j)] = g[FieldName(j)]
          /\ FieldName(j) \in DOMAIN i /\ i[FieldName(j)] = g[FieldName(j)]
    BY <2>3, HeldBefore
  <2>7. \A j \in Marks : j # k /\ FieldName(j) \in DOMAIN g =>
          FieldName(j) \in DOMAIN e /\ e[FieldName(j)] = g[FieldName(j)]
    <3> HIDE DEF n, v, h, i, e
    <3> QED BY <2>2, <2>4, <2>6, HeldBefore
  <2>8. n \in DOMAIN e /\ e[n] = v
    <3> HIDE DEF n, v, h, i, e
    <3> QED BY <2>4, Held
  <2>9. "end" \notin DOMAIN e
    <3>1. DOMAIN e \subseteq DOMAIN g \cup {"mark", "len", n}
      <4>1. DOMAIN Holding(h, n, v) = DOMAIN h \cup {n} /\ DOMAIN Holding(i, n, v) = DOMAIN i \cup {n}
        BY DEF Holding
      <4> HIDE DEF n, v, h, i, e
      <4> QED BY <2>4, <2>5, <4>1
    <3> HIDE DEF e, n
    <3> QED BY <2>2, <3>1 DEF FieldsKept
  <2> HIDE DEF e
  <2>10. ASSUME NEW j \in Marks, j <= k, There(f, j)
         PROVE  FieldName(j) \in DOMAIN e /\ e[FieldName(j)] = f[FieldName(j)]
    <3>1. CASE j = k
      BY <2>8, <3>1
    <3>2. CASE j # k
      <4>1. j <= k - 1
        BY <1>1, <2>10, <3>2
      <4>2. FieldName(j) \in DOMAIN g /\ g[FieldName(j)] = f[FieldName(j)]
        BY <2>10, <4>1 DEF FieldsKept
      <4> QED BY <2>7, <3>2, <4>2
    <3> QED BY <3>1, <3>2
  <2> QED BY <2>9, <2>10 DEF FieldsKept, e
<1> QED BY <1>2, <1>3

LEMMA FieldsAllKept ==
    ASSUME NEW f, NEW h, NEW m, FieldsRun(f, h, m), "end" \notin DOMAIN h
    PROVE  \A k \in 0 .. 13 : FieldsKept(f, m[k], k)
<1> DEFINE S == { k \in 0 .. 13 : FieldsKept(f, m[k], k) }
<1>1. 0 \in S
  <2>1. \A j \in Marks : ~(j <= 0)
    BY DEF Marks
  <2>2. m[0] = h
    BY DEF FieldsRun
  <2> QED BY <2>1, <2>2 DEF FieldsKept
<1>2. ASSUME NEW k \in 1 .. 13, k - 1 \in S PROVE k \in S
  <2>1. m[k] = FieldHeld(m[k - 1], f, k) /\ FieldsKept(f, m[k - 1], k - 1)
    BY <1>2 DEF FieldsRun
  <2>2. FieldsKept(f, FieldHeld(m[k - 1], f, k), k)
    BY <2>1, FieldKeeps
  <2> QED BY <2>1, <2>2
<1>3. \A k \in 1 .. 13 : k - 1 \in S => k \in S
  BY <1>2
<1>4. \A k \in 0 .. 13 : k \in S
  <2> HIDE DEF S
  <2> QED BY <1>1, <1>3, UpTo
<1> QED BY <1>4

(* The fields of a file, one behind the other, are what is written.         *)
Fields13(f) == [k \in 1 .. 13 |-> FieldBytes(f, k)]

LEMMA FDataEncodeIs ==
    ASSUME NEW f, IsFData(f)
    PROVE  FDataEncode(f) = FlattenSeq(Fields13(f)) \o <<END>>
<1> DEFINE field(n) ==
             IF n \in DOMAIN Hashes3 /\ Hashes3[n] \in DOMAIN f THEN <<n>> \o f[Hashes3[n]]
             ELSE IF n \in DOMAIN Texts4 /\ Texts4[n] \in DOMAIN f
               THEN <<n>> \o Le(Len(f[Texts4[n]]), 2) \o f[Texts4[n]]
             ELSE IF n = 5 /\ f.size # Le(0, 8) THEN <<n>> \o f.size
             ELSE <<>>
<1>1. "size" \in DOMAIN f /\ f.size # Le(0, 8)
  BY DEF IsFData, FDataFields
<1>2. ASSUME NEW k \in 1 .. 13 PROVE field(k) = FieldBytes(f, k)
  <2>1. CASE k \in 1 .. 3
    <3>1. k \in Marks /\ k \in {1, 2, 3, 5} /\ FieldName(k) = Hashes3[k]
      BY <2>1 DEF Marks, FieldName
    <3>2. k \in DOMAIN Hashes3 /\ k \notin DOMAIN Texts4 /\ k # 5
      BY <2>1, FieldTables
    <3> QED BY <3>1, <3>2 DEF FieldBytes, FixedBytes, There
  <2>2. CASE k \in {4, 6, 11, 13}
    <3>1. k \in Marks /\ k \notin {1, 2, 3, 5} /\ FieldName(k) = Texts4[k]
      BY <2>2 DEF Marks, FieldName
    <3>2. k \notin DOMAIN Hashes3 /\ k \in DOMAIN Texts4 /\ k # 5
      BY <2>2, FieldTables
    <3> QED BY <3>1, <3>2 DEF FieldBytes, CountedBytes, There
  <2>3. CASE k = 5
    <3>1. k \in Marks /\ k \in {1, 2, 3, 5} /\ FieldName(k) = "size"
      BY <2>3, FieldNamesAre DEF Marks
    <3>2. k \notin DOMAIN Hashes3 /\ k \notin DOMAIN Texts4
      BY <2>3, FieldTables
    <3> QED BY <1>1, <2>3, <3>1, <3>2 DEF FieldBytes, FixedBytes, There
  <2>4. CASE k \notin Marks
    <3>1. k \notin DOMAIN Hashes3 /\ k \notin DOMAIN Texts4 /\ k # 5
      BY <2>4, FieldTables DEF Marks
    <3> QED BY <2>4, <3>1 DEF FieldBytes, There
  <2>5. k \in 1 .. 3 \/ k \in {4, 6, 11, 13} \/ k = 5 \/ k \notin Marks
    BY DEF Marks
  <2> HIDE DEF field
  <2> QED BY <2>1, <2>2, <2>3, <2>4, <2>5
<1>3. FDataEncode(f) = FlattenSeq([n \in 1 .. 13 |-> field(n)]) \o <<END>>
  BY DEF FDataEncode
<1> HIDE DEF field
<1>4. [n \in 1 .. 13 |-> field(n)] = Fields13(f)
  BY <1>2 DEF Fields13
<1> QED BY <1>3, <1>4

LEMMA FieldBytesTyped ==
    ASSUME LengthSets, NEW f, IsFData(f), NEW k
    PROVE  FieldBytes(f, k) \in Bytes
<1>1. CASE There(f, k)
  BY <1>1, FieldReads
<1>2. CASE ~There(f, k)
  BY <1>2, NoBytes DEF FieldBytes
<1> QED BY <1>1, <1>2

(* A file is read, whatever stands behind it, and each field it has is what  *)
(* it was.                                                                  *)
FileBytes(f) == <<END>> \o FDataEncode(f)
FileTold(f, g) == \A n \in DOMAIN f : n \in DOMAIN g /\ g[n] = f[n]
FileRead(f, g, q) == FDataParse(Cursor(FileBytes(f) \o q, <<>>)) = Cursor(q, g)

LEMMA EndPasses ==
    ASSUME NEW g, "end" \notin DOMAIN g, NEW q \in Bytes
    PROVE  FDataPass(Cursor(<<END>> \o q, g))
             = Cursor(q, Holding(Holding(g, "mark", <<END>>), "end", <<>>))
<1> DEFINE k == END
           h == Holding(g, "mark", <<k>>)
           d == Cursor(q, h)
<1>1. k \in Nat
  BY DEF END
<1>2. FDataPass(Cursor(<<k>> \o q, g)) = FDataField(d) /\ Num(d.m["mark"]) = k
  <2> HIDE DEF k
  <2> QED BY <1>1, MarkReads
<1>3. FDataField(d) = With(d, "end", <<>>)
  <2> HIDE DEF d
  <2> QED BY <1>2, FieldIs
<1>4. With(d, "end", <<>>) = Cursor(q, Holding(h, "end", <<>>))
  BY WithIs
<1> HIDE DEF d
<1> QED BY <1>2, <1>3, <1>4, Zenon DEF h, k

(* The passes before the end leave enough of them for the end.              *)
LEMMA EnoughPasses ==
    ASSUME NEW c \in Nat, NEW u \in Nat, NEW v \in Nat, 3 * c <= u
    PROVE  c + 1 \in 1 .. ((u + 1) + v) \div 3 + 1
OBVIOUS

LEMMA StillEnough ==
    ASSUME NEW a \in Nat, NEW b \in Nat, NEW t \in Nat, NEW u \in Nat, NEW c \in Nat,
           b >= 3, a = b + t, a + 3 * c <= u
    PROVE  t + 3 * (c + 1) <= u /\ c + 1 \in Nat
OBVIOUS

LEMMA FDataReads ==
    ASSUME LengthSets, NEW f, IsFData(f)
    PROVE  /\ FileBytes(f) \in Bytes /\ Len(FileBytes(f)) > 0
           /\ \E g : FileTold(f, g) /\ \A q \in Bytes : FileRead(f, g, q)
<1> DEFINE p == <<END>>
           o == <<>>
           h0 == Holding(o, "head", p)
           w == Fields13(f)
           x == FlattenSeq(w)
<1>1. END \in Nat /\ p \in Bytes /\ Len(p) = 1 /\ Num(p) = END
  <2>1. END \in Nat
    BY DEF END
  <2> QED BY <2>1, NumOne
<1>2. PICK m : FieldsRun(f, h0, m)
  BY FieldsRuns
<1>3. DOMAIN h0 = {"head"}
  <2>1. DOMAIN o = {}
    OBVIOUS
  <2> HIDE DEF o
  <2> QED BY <2>1 DEF Holding
<1>4. \A k \in 0 .. 13 : FieldsKept(f, m[k], k)
  <2> HIDE DEF h0
  <2> QED BY <1>2, <1>3, FieldsAllKept
<1> DEFINE g == Holding(Holding(m[13], "mark", p), "end", <<>>)
<1>5. FileTold(f, g)
  <2> SUFFICES ASSUME NEW n \in DOMAIN f PROVE n \in DOMAIN g /\ g[n] = f[n]
    BY DEF FileTold
  <2>1. n \in {"sha1", "md5", "emd4", "filename", "size", "format", "description", "source"}
    BY DEF IsFData, FDataFields
  <2>2. PICK j \in Marks : FieldName(j) = n
    BY <2>1, MarkOf
  <2>3. There(f, j) /\ j <= 13
    BY <2>2 DEF There, Marks
  <2>4. n \in DOMAIN m[13] /\ m[13][n] = f[n]
    <3>1. FieldsKept(f, m[13], 13)
      BY <1>4
    <3> QED BY <2>2, <2>3, <3>1 DEF FieldsKept
  <2>5. n # "mark" /\ n # "end"
    BY <2>2, NamesDiffer
  <2> QED BY <2>4, <2>5, HeldBefore
<1>6. w \in Seq(Bytes) /\ Len(w) = 13 /\ \A k \in 1 .. 13 : w[k] = FieldBytes(f, k) /\ w[k] \in Bytes
  <2>1. \A k \in 1 .. 13 : w[k] = FieldBytes(f, k)
    BY DEF Fields13
  <2>2. \A k \in 1 .. 13 : FieldBytes(f, k) \in Bytes
    BY FieldBytesTyped
  <2>3. w = [k \in 1 .. 13 |-> w[k]]
    BY DEF Fields13
  <2> HIDE DEF w
  <2>4. w \in Seq(Bytes) /\ Len(w) = 13
    BY <2>1, <2>2, <2>3
  <2> QED BY <2>1, <2>2, <2>4
<1>7. PICK s : /\ s[0] = x /\ s[13] = <<>>
               /\ \A k \in 0 .. 13 : s[k] \in Bytes
               /\ \A k \in 1 .. 13 : w[k] \in Bytes /\ s[k - 1] = w[k] \o s[k]
  <2> HIDE DEF w
  <2>1. 13 \in Nat
    OBVIOUS
  <2> DEFINE n == 13
  <2> HIDE DEF n
  <2>2. \E s : /\ s[0] = FlattenSeq(w) /\ s[n] = <<>>
               /\ \A k \in 0 .. n : s[k] \in Bytes
               /\ \A k \in 1 .. n : w[k] \in Bytes /\ s[k - 1] = w[k] \o s[k]
    BY <1>6, <2>1, Pieces DEF n
  <2> QED BY <2>2 DEF n
<1>8. x \in Bytes
  BY <1>7
<1> HIDE DEF w
<1>9. FDataEncode(f) = x \o p
  BY FDataEncodeIs DEF w
<1> HIDE DEF x, p, o
<1>10. FileBytes(f) = p \o (x \o p) /\ x \o p \in Bytes /\ FileBytes(f) \in Bytes /\ Len(FileBytes(f)) > 0
  <2> DEFINE xp == x \o p
  <2>1. xp \in Bytes
    BY <1>1, <1>8, Closed
  <2>2. FileBytes(f) = p \o xp
    BY <1>9 DEF FileBytes, p
  <2> HIDE DEF xp
  <2>3. p \o xp \in Bytes /\ Len(p \o xp) = Len(p) + Len(xp) /\ Len(xp) \in Nat
    BY <1>1, <2>1, CutOf, LenProperties DEF Bytes
  <2>4. Len(p \o xp) > 0
    BY <1>1, <2>3
  <2> QED BY <2>1, <2>2, <2>3, <2>4 DEF xp
<1> HIDE DEF h0, g
<1>11. ASSUME NEW q \in Bytes PROVE FileRead(f, g, q)
  <2> DEFINE e == p \o q
             h == Cursor(x \o e, h0)
             d == Cursor(p \o (x \o e), o)
             u == Len(x)
             v == Len(q)
             n == ((u + 1) + v) \div 3 + 1
  <2>1. e \in Bytes /\ x \o e \in Bytes /\ Len(x \o e) = (u + 1) + v /\ u \in Nat /\ v \in Nat
    <3>1. e \in Bytes /\ Len(e) = 1 + v /\ v \in Nat
      BY <1>1, CutOf, LenProperties DEF Bytes
    <3> HIDE DEF e
    <3>2. x \o e \in Bytes /\ Len(x \o e) = u + Len(e) /\ u \in Nat
      BY <1>8, <3>1, CutOf, LenProperties DEF Bytes
    <3> HIDE DEF u, v
    <3>3. u + (1 + v) = (u + 1) + v
      BY <3>1, <3>2
    <3> QED BY <3>1, <3>2, <3>3
  <2>2. FileBytes(f) \o q = p \o (x \o e)
    <3>1. Then3(p, x, p, q)
      BY <1>1, <1>8, ThreeThen
    <3> QED BY <1>10, <3>1, Zenon DEF Then3, e
  <2> HIDE DEF e
  <2>3. Get(d, U("head", 1)) = h
    <3>1. GetRead(o, x \o e, "head", 1, p)
      BY <1>1, <2>1, OneDoes
    <3> QED BY <3>1, Zenon DEF GetRead, h0, h, d
  <2>4. h.ok /\ h.rest = x \o e /\ h.m["head"] = p
    <3>1. h0["head"] = p
      BY Held DEF h0
    <3> QED BY <3>1, CursorIs
  <2> HIDE DEF d, h
  <2>5. FDataParse(d) = FDataTimes(h, n)
    <3>1. FDataParse(d) = IF h.ok THEN IF Num(h.m["head"]) # END THEN Throw(h)
                                       ELSE FDataTimes(h, Len(h.rest) \div 3 + 1)
                          ELSE h
      BY <2>3, FDataIs
    <3>2. Len(h.rest) \div 3 + 1 = n
      BY <2>1, <2>4
    <3> HIDE DEF n
    <3> QED BY <1>1, <2>4, <3>1, <3>2
  <2>6. n \in Nat
    <3>1. (u + 1) + v \in Nat /\ (u + 1) + v <= (u + 1) + v
      BY <2>1
    <3> QED BY <3>1, Thirds
  <2> HIDE DEF n
  <2>7. PICK r : /\ r[0] = h
                 /\ \A k \in 1 .. n : r[k] = (IF r[k - 1].ok THEN FDataPass(r[k - 1]) ELSE r[k - 1])
                 /\ FDataTimes(h, n) = r[n]
    BY <2>6, FDataRuns
  <2> DEFINE At(k, c) == r[c] = Cursor(s[k] \o e, m[k]) /\ Len(s[k]) + 3 * c <= u
             S == { k \in 0 .. 13 : \E c \in Nat : At(k, c) }
  <2>8. 0 \in S
    <3>1. s[0] = x /\ m[0] = h0 /\ Len(s[0]) = u
      BY <1>2, <1>7 DEF FieldsRun
    <3>2. r[0] = Cursor(s[0] \o e, m[0])
      BY <2>7, <3>1 DEF h
    <3>3. u + 3 * 0 <= u
      <4> HIDE DEF u
      <4> QED BY <2>1
    <3>4. At(0, 0)
      BY <3>1, <3>2, <3>3
    <3> HIDE DEF At
    <3> QED BY <3>4
  <2>9. ASSUME NEW k \in 1 .. 13, k - 1 \in S PROVE k \in S
    <3>1. PICK c \in Nat : At(k - 1, c)
      BY <2>9
    <3> DEFINE a == Len(s[k - 1])
               b == Len(w[k])
               t == Len(s[k])
               z == s[k] \o e
    <3>2. r[c] = Cursor(s[k - 1] \o e, m[k - 1]) /\ a + 3 * c <= u
      BY <3>1
    <3>3. s[k - 1] = w[k] \o s[k] /\ w[k] \in Bytes /\ s[k] \in Bytes /\ k \in 0 .. 13 /\ k - 1 \in 0 .. 13
      <4>1. k \in 0 .. 13 /\ k - 1 \in 0 .. 13
        OBVIOUS
      <4>2. s[k - 1] = w[k] \o s[k] /\ w[k] \in Bytes
        BY <1>7
      <4>3. s[k] \in Bytes
        BY <1>7, <4>1
      <4> QED BY <4>1, <4>2, <4>3
    <3>4. w[k] = FieldBytes(f, k) /\ m[k] = FieldHeld(m[k - 1], f, k)
      BY <1>2, <1>6 DEF FieldsRun
    <3>5. CASE ~There(f, k)
      <4>1. w[k] = <<>> /\ m[k] = m[k - 1]
        BY <3>4, <3>5 DEF FieldBytes, FieldHeld
      <4>2. s[k - 1] = s[k]
        <5>1. <<>> \o s[k] = s[k]
          BY <3>3, NothingBehind
        <5> QED BY <3>3, <4>1, <5>1
      <4>3. At(k, c)
        BY <3>2, <4>1, <4>2
      <4> HIDE DEF At
      <4> QED BY <3>3, <4>3
    <3>6. CASE There(f, k)
      <4>1. b >= 3 /\ b \in Nat /\ t \in Nat /\ a = b + t /\ a \in Nat /\ z \in Bytes
        <5>1. b >= 3
          BY <3>4, <3>6, FieldReads
        <5>2. Len(w[k] \o s[k]) = b + t /\ w[k] \o s[k] \in Bytes
          BY <3>3, CutOf
        <5>3. b \in Nat /\ t \in Nat
          BY <3>3, LenProperties DEF Bytes
        <5>4. z \in Bytes
          BY <2>1, <3>3, Closed
        <5> HIDE DEF b, t
        <5> QED BY <3>3, <5>1, <5>2, <5>3, <5>4
      <4>2. t + 3 * (c + 1) <= u /\ c + 1 \in Nat
        <5> HIDE DEF a, b, t, u
        <5> QED BY <2>1, <3>2, <4>1, StillEnough DEF u
      <4>3. c + 1 \in 1 .. n
        <5>1. 3 * c <= u
          <6> HIDE DEF a, b, t, u
          <6> QED BY <2>1, <3>2, <4>1 DEF u
        <5> HIDE DEF u, v
        <5>2. c + 1 \in 1 .. ((u + 1) + v) \div 3 + 1
          BY <2>1, <5>1, EnoughPasses DEF u, v
        <5> QED BY <5>2 DEF n
      <4>4. r[c + 1] = FDataPass(r[c])
        <5> DEFINE i == c + 1
        <5>1. i \in 1 .. n /\ i - 1 = c
          BY <4>3
        <5> HIDE DEF i
        <5>2. r[i] = (IF r[c].ok THEN FDataPass(r[c]) ELSE r[c])
          BY <2>7, <5>1
        <5>3. r[c].ok
          BY <3>2, CursorIs
        <5> QED BY <5>2, <5>3 DEF i
      <4>5. s[k - 1] \o e = w[k] \o z
        <5>1. (w[k] \o s[k]) \o e = w[k] \o (s[k] \o e)
          BY <2>1, <3>3, Assoc
        <5> QED BY <3>3, <5>1, Zenon
      <4>6. FDataPass(Cursor(w[k] \o z, m[k - 1])) = Cursor(z, m[k])
        <5>1. "end" \notin DOMAIN m[k - 1]
          BY <1>4, <3>3 DEF FieldsKept
        <5> HIDE DEF z
        <5>2. FieldRead(f, k, z, m[k - 1])
          BY <3>6, <4>1, <5>1, FieldReads
        <5> QED BY <3>4, <5>2 DEF FieldRead
      <4> HIDE DEF z
      <4>7. r[c + 1] = Cursor(z, m[k])
        BY <3>2, <4>4, <4>5, <4>6, Zenon
      <4>8. At(k, c + 1)
        BY <4>2, <4>7 DEF z
      <4> HIDE DEF At
      <4> QED BY <3>3, <4>2, <4>8
    <3> QED BY <3>5, <3>6
  <2>10. 13 \in S
    <3>1. \A k \in 1 .. 13 : k - 1 \in S => k \in S
      BY <2>9
    <3> HIDE DEF S
    <3>2. \A k \in 0 .. 13 : k \in S
      BY <2>8, <3>1, UpTo
    <3> QED BY <3>2
  <2>11. PICK c \in Nat : At(13, c)
    BY <2>10
  <2>12. r[c] = Cursor(e, m[13]) /\ 3 * c <= u
    <3>1. s[13] \o e = e /\ Len(s[13]) = 0
      BY <1>7, <2>1, NothingBehind
    <3>2. r[c] = Cursor(s[13] \o e, m[13]) /\ Len(s[13]) + 3 * c <= u
      BY <2>11
    <3>3. 0 + 3 * c <= u
      BY <3>1, <3>2
    <3> HIDE DEF u
    <3> QED BY <3>1, <3>2, <3>3
  <2>13. c + 1 \in 1 .. n
    <3> HIDE DEF u, v
    <3>1. c + 1 \in 1 .. ((u + 1) + v) \div 3 + 1
      BY <2>1, <2>12, EnoughPasses DEF u, v
    <3> QED BY <3>1 DEF n
  <2>14. r[c + 1] = Cursor(q, g)
    <3> DEFINE i == c + 1
    <3>1. i \in 1 .. n /\ i - 1 = c
      BY <2>13
    <3> HIDE DEF i
    <3>2. r[i] = (IF r[c].ok THEN FDataPass(r[c]) ELSE r[c])
      BY <2>7, <3>1
    <3>3. r[c].ok
      BY <2>12, CursorIs
    <3>4. FDataPass(Cursor(e, m[13])) = Cursor(q, g)
      <4>1. "end" \notin DOMAIN m[13]
        BY <1>4 DEF FieldsKept
      <4>2. FDataPass(Cursor(<<END>> \o q, m[13])) = Cursor(q, Holding(Holding(m[13], "mark", <<END>>), "end", <<>>))
        BY <4>1, EndPasses
      <4> QED BY <4>2, Zenon DEF e, g, p
    <3> QED BY <2>12, <3>2, <3>3, <3>4 DEF i
  <2> DEFINE k == c + 1
             T == { i \in 0 .. n : i >= k => r[i] = r[k] }
  <2>15. k \in 1 .. n /\ r[k].ok /\ "end" \in DOMAIN r[k].m
    <3>1. r[k].ok /\ r[k].m = g
      BY <2>14, CursorIs
    <3>2. "end" \in DOMAIN g
      BY Held DEF g
    <3> QED BY <2>13, <3>1, <3>2
  <2> HIDE DEF k
  <2>16. 0 \in T
    BY <2>6, <2>15
  <2>17. ASSUME NEW i \in 1 .. n, i - 1 \in T PROVE i \in T
    <3>1. CASE i <= k
      BY <2>15, <3>1
    <3>2. CASE i > k
      <4>1. r[i - 1] = r[k]
        BY <2>15, <2>17, <3>2
      <4>2. r[i] = FDataPass(r[k])
        BY <2>7, <2>15, <4>1
      <4>3. r[i] = r[k]
        BY <2>15, <4>2 DEF FDataPass
      <4> QED BY <4>3
    <3> QED BY <2>15, <3>1, <3>2
  <2>18. n \in T
    <3>1. \A i \in 1 .. n : i - 1 \in T => i \in T
      BY <2>17
    <3> HIDE DEF T
    <3>2. \A i \in 0 .. n : i \in T
      BY <2>6, <2>16, <3>1, UpTo
    <3> QED BY <2>6, <3>2
  <2>19. r[n] = Cursor(q, g)
    <3>1. n >= k
      BY <2>6, <2>15
    <3>2. r[n] = r[k]
      BY <2>18, <3>1
    <3> QED BY <2>14, <3>2 DEF k
  <2>20. FDataParse(d) = Cursor(q, g)
    BY <2>5, <2>7, <2>19, Zenon
  <2> QED BY <2>2, <2>20, Zenon DEF FileRead, d, o
<1> QED BY <1>5, <1>10, <1>11

-------------------------------------------------------------------------------
(* What a file of an answer becomes, and the files one behind the other.    *)
FDataHeld(f) == CHOOSE g : FileTold(f, g) /\ \A q \in Bytes : FileRead(f, g, q)

LEMMA FDataHeldIs ==
    ASSUME LengthSets, NEW f, IsFData(f)
    PROVE  FileTold(f, FDataHeld(f)) /\ \A q \in Bytes : FileRead(f, FDataHeld(f), q)
BY FDataReads, Zenon DEF FDataHeld

LEMMA AnswerListed ==
    ASSUME LengthSets, NEW f, IsFData(f), NEW z \in Bytes, NEW h, NEW a
    PROVE  AnswerPass(Cursor(FileBytes(f) \o z, Holding(h, "fs", a)))
             = Cursor(z, Holding(h, "fs", Append(a, FDataHeld(f))))
<1> DEFINE e == Cursor(FileBytes(f) \o z, Holding(h, "fs", a))
           v == FDataHeld(f)
<1>1. e.rest = FileBytes(f) \o z /\ e.m = Holding(h, "fs", a)
  BY CursorIs
<1> HIDE DEF e, v
<1>2. FDataParse(Fresh(e)) = Cursor(z, v)
  <2>1. FileRead(f, v, z)
    BY FDataHeldIs DEF v
  <2> QED BY <1>1, <2>1 DEF Fresh, FileRead
<1>3. Listed(e, "fs", Cursor(z, v)) = Cursor(z, [e.m EXCEPT !["fs"] = Append(@, v)])
  BY CursorIs DEF Listed, Then
<1>4. [Holding(h, "fs", a) EXCEPT !["fs"] = Append(@, v)] = Holding(h, "fs", Append(a, v))
  BY Relisted
<1>5. AnswerPass(e) = Cursor(z, Holding(h, "fs", Append(a, v)))
  BY <1>1, <1>2, <1>3, <1>4, Zenon DEF AnswerPass
<1> QED BY <1>5 DEF e, v

AreAnswers(n, fs, w) == \A k \in 1 .. n : IsFData(fs[k]) /\ w[k] = FileBytes(fs[k])
AnswersAreRead(n, fs, w, q, h) ==
    AnswerLoop(With(Cursor(FlattenSeq(w) \o q, h), "fs", <<>>), n)
      = Cursor(q, Holding(h, "fs", [j \in 1 .. n |-> FDataHeld(fs[j])]))

LEMMA AnswersRead ==
    ASSUME LengthSets, NEW n \in Nat, NEW fs, NEW w, ArePieces(w, n), AreAnswers(n, fs, w),
           NEW q \in Bytes, NEW h
    PROVE  AnswersAreRead(n, fs, w, q, h)
<1> DEFINE v == [j \in 1 .. n |-> FDataHeld(fs[j])]
           m == [k \in 0 .. n |-> Holding(h, "fs", [j \in 1 .. k |-> v[j]])]
           y == FlattenSeq(w) \o q
<1>1. ASSUME NEW k \in 1 .. n, NEW z \in Bytes
      PROVE  AnswerPass(Cursor(w[k] \o z, m[k - 1])) = Cursor(z, m[k])
  <2> DEFINE a == [j \in 1 .. k - 1 |-> v[j]]
  <2>1. m[k - 1] = Holding(h, "fs", a) /\ m[k] = Holding(h, "fs", [j \in 1 .. k |-> v[j]])
    OBVIOUS
  <2>2. v[k] = FDataHeld(fs[k]) /\ w[k] = FileBytes(fs[k]) /\ IsFData(fs[k])
    BY DEF AreAnswers
  <2> HIDE DEF m, v
  <2>3. Append(a, v[k]) = [j \in 1 .. k |-> v[j]]
    <3> DEFINE i == k - 1
    <3>1. i \in Nat /\ i + 1 = k
      OBVIOUS
    <3> HIDE DEF i
    <3>2. Append([j \in 1 .. i |-> v[j]], v[i + 1]) = [j \in 1 .. i + 1 |-> v[j]]
      BY <3>1, Appended
    <3> QED BY <3>1, <3>2 DEF i
  <2> HIDE DEF a
  <2>4. AnswerPass(Cursor(FileBytes(fs[k]) \o z, Holding(h, "fs", a)))
          = Cursor(z, Holding(h, "fs", Append(a, FDataHeld(fs[k]))))
    BY <2>2, AnswerListed
  <2> QED BY <2>1, <2>2, <2>3, <2>4, Zenon
<1>2. m[0] = Holding(h, "fs", <<>>) /\ m[n] = Holding(h, "fs", [j \in 1 .. n |-> v[j]])
  OBVIOUS
<1>3. v = [j \in 1 .. n |-> v[j]]
  OBVIOUS
<1> HIDE DEF m, v
<1>4. AnswerLoop(Cursor(y, m[0]), n) = Cursor(q, m[n])
  <2>1. AnswerReads(n, w, m)
    BY <1>1 DEF AnswerReads
  <2> QED BY <2>1, AnswerReadsAll
<1>5. With(Cursor(y, h), "fs", <<>>) = Cursor(y, m[0])
  <2> HIDE DEF y
  <2> QED BY <1>2, WithIs
<1>6. AnswerLoop(With(Cursor(y, h), "fs", <<>>), n) = Cursor(q, Holding(h, "fs", v))
  BY <1>2, <1>3, <1>4, <1>5, Zenon
<1> QED BY <1>6 DEF y, v, AnswersAreRead

(* An answer is a head, and files that may be packed.                       *)
BackOps == {Opx.SEARCH_BACK, Opx.SEARCH_BC}
AnswerHead(data) == Read(Task(Is(data, BackOps)), <<U("flags", 4), U("fc", 1)>>)
Unpacked(d) == IF Num(d.m["op"]) = Opx.SEARCH_BC THEN Inflate(d) ELSE d
AnswerFiles(d) == AnswerLoop(With(d, "fs", <<>>), Num(d.m["fc"]))

LEMMA AnswerParseIs ==
    ASSUME NEW data
    PROVE  LET h == AnswerHead(data)
               e == Unpacked(h)
           IN  SearchBackParse(data) = IF h.ok THEN (IF e.ok THEN AnswerFiles(e) ELSE e) ELSE h
BY DEF SearchBackParse, AnswerHead, Unpacked, AnswerFiles, AnswerLoop, BackOps, Then

LEMMA AnswerHeadCarries ==
    ASSUME NEW data \in Bytes, NEW x \in Bytes
    PROVE  Carries(AnswerHead(data), AnswerHead(data \o x), x)
<1>1. Carries(Is(data, BackOps), Is(data \o x, BackOps), x)
  BY IsCarries
<1>2. Carries(Task(Is(data, BackOps)), Task(Is(data \o x, BackOps)), x)
  BY <1>1, TaskCarries
<1> QED BY <1>2, TwoCarry DEF AnswerHead

LEMMA AnswerFilesCarry ==
    ASSUME NEW b \in Bytes, NEW x \in Bytes, NEW g, IsFields(g), Num(g["fc"]) \in Nat
    PROVE  Carries(AnswerFiles(Cursor(b, g)), AnswerFiles(Cursor(b \o x, g)), x)
<1> DEFINE d == Cursor(b, g)
           e == Cursor(b \o x, g)
           n == Num(g["fc"])
<1>1. Carries(d, e, x) /\ d.ok
  BY MadeCarries, CursorIs
<1>2. AnswerFiles(d) = AnswerLoop(With(d, "fs", <<>>), n) /\ AnswerFiles(e) = AnswerLoop(With(e, "fs", <<>>), n)
  BY CursorIs DEF AnswerFiles
<1> HIDE DEF d, e, n
<1>3. "fs" \in ListFields
  BY DEF ListFields
<1>4. Carries(With(d, "fs", <<>>), With(e, "fs", <<>>), x)
  BY <1>1, <1>3, WithCarries
<1>5. n \in Nat
  BY DEF n
<1>6. Carries(AnswerFiles(d), AnswerFiles(e), x)
  BY <1>2, <1>4, <1>5, AnswerLoopCarries
<1> QED BY <1>6 DEF d, e

(* Files on the wire, plain or packed.                                      *)
High(y) == [i \in DOMAIN y |-> y[i] + 256]
Form(op, y) == IF op = Opx.SEARCH_BC THEN High(y) ELSE y

LEMMA FormIs ==
    ASSUME NEW y \in Bytes, NEW op, NEW g, Num(g["op"]) = op
    PROVE  /\ Form(op, y) \in Bytes /\ Len(Form(op, y)) = Len(y)
           /\ Unpacked(Cursor(Form(op, y), g)) = Cursor(y, g)
<1>1. \A v : Unpacked(Cursor(v, g)) = IF op = Opx.SEARCH_BC THEN Inflate(Cursor(v, g)) ELSE Cursor(v, g)
  BY CursorIs DEF Unpacked
<1>2. CASE op # Opx.SEARCH_BC
  BY <1>1, <1>2 DEF Form
<1>3. CASE op = Opx.SEARCH_BC
  <2>1. DOMAIN y = 1 .. Len(y)
    BY LenProperties DEF Bytes
  <2> DEFINE high == [i \in 1 .. Len(y) |-> y[i] + 256]
  <2>2. Form(op, y) = high
    BY <1>3, <2>1 DEF Form, High
  <2>3. high \in Bytes /\ Inflate(Cursor(high, g)) = Cursor(y, g)
    BY Inflated
  <2>4. Len(high) = Len(y)
    <3>1. Len(y) \in Nat /\ DOMAIN high = 1 .. Len(y)
      BY LenProperties DEF Bytes
    <3> HIDE DEF high
    <3>2. DOMAIN high = 1 .. Len(high) /\ Len(high) \in Nat
      BY <2>3, LenProperties DEF Bytes
    <3> QED BY <3>1, <3>2
  <2> HIDE DEF high
  <2> QED BY <1>1, <1>3, <2>2, <2>3, <2>4
<1> QED BY <1>2, <1>3

LEMMA FormJoins ==
    ASSUME NEW a \in Bytes, NEW b \in Bytes, NEW op
    PROVE  Form(op, a \o b) = Form(op, a) \o Form(op, b)
<1>1. a \in Seq(Nat) /\ b \in Seq(Nat) /\ a \o b \in Seq(Nat)
  BY Closed DEF Bytes
<1> DEFINE u == Len(a)
           v == Len(b)
<1>2. /\ u \in Nat /\ v \in Nat /\ DOMAIN a = 1 .. u /\ DOMAIN b = 1 .. v
      /\ Len(a \o b) = u + v /\ DOMAIN (a \o b) = 1 .. u + v
      /\ \A i \in 1 .. u + v : (a \o b)[i] = IF i <= u THEN a[i] ELSE b[i - u]
  <2>1. u \in Nat /\ v \in Nat /\ DOMAIN a = 1 .. u /\ DOMAIN b = 1 .. v
    BY <1>1, LenProperties
  <2>2. Len(a \o b) = u + v
    BY <1>1, ConcatProperties
  <2>3. DOMAIN (a \o b) = 1 .. u + v
    BY <1>1, <2>2, LenProperties
  <2>4. \A i \in 1 .. u + v : (a \o b)[i] = IF i <= u THEN a[i] ELSE b[i - u]
    BY <1>1, ConcatProperties
  <2> QED BY <2>1, <2>2, <2>3, <2>4
<1> DEFINE p == High(a)
           q == High(b)
           c == a \o b
           h == High(c)
<1>3. p \in Seq(Nat) /\ q \in Seq(Nat) /\ Len(p) = u /\ Len(q) = v
  <2>1. Len(p) = u /\ p \in Seq(Nat)
    <3>1. p = [i \in 1 .. u |-> a[i] + 256] /\ \A i \in 1 .. u : a[i] + 256 \in Nat
      BY <1>1, <1>2 DEF High
    <3> HIDE DEF p, u
    <3>2. p \in Seq(Nat)
      BY <1>2, <3>1 DEF u
    <3>3. DOMAIN p = 1 .. u
      BY <3>1
    <3>4. DOMAIN p = 1 .. Len(p) /\ Len(p) \in Nat
      BY <3>2, LenProperties
    <3>5. u \in Nat
      BY <1>2 DEF u
    <3> QED BY <3>2, <3>3, <3>4, <3>5
  <2>2. Len(q) = v /\ q \in Seq(Nat)
    <3>1. q = [i \in 1 .. v |-> b[i] + 256] /\ \A i \in 1 .. v : b[i] + 256 \in Nat
      BY <1>1, <1>2 DEF High
    <3> HIDE DEF q, v
    <3>2. q \in Seq(Nat)
      BY <1>2, <3>1 DEF v
    <3>3. DOMAIN q = 1 .. v
      BY <3>1
    <3>4. DOMAIN q = 1 .. Len(q) /\ Len(q) \in Nat
      BY <3>2, LenProperties
    <3>5. v \in Nat
      BY <1>2 DEF v
    <3> QED BY <3>2, <3>3, <3>4, <3>5
  <2> QED BY <2>1, <2>2
<1>4. h = p \o q
  <2> DEFINE n == u + v
             pq == p \o q
  <2>1. DOMAIN h = 1 .. n /\ \A i \in 1 .. n : h[i] = c[i] + 256
    BY <1>2 DEF High
  <2>2. \A i \in 1 .. u : p[i] = a[i] + 256
    BY <1>2 DEF High
  <2>3. \A i \in 1 .. v : q[i] = b[i] + 256
    BY <1>2 DEF High
  <2>4. pq \in Seq(Nat) /\ Len(pq) = n
        /\ \A i \in 1 .. n : pq[i] = IF i <= u THEN p[i] ELSE q[i - u]
    <3> HIDE DEF p, q, u, v
    <3> QED BY <1>3, ConcatProperties
  <2>5. h = [i \in 1 .. n |-> h[i]]
    BY <1>2 DEF High
  <2>6. pq = [i \in 1 .. n |-> pq[i]]
    <3> HIDE DEF pq, n
    <3>1. DOMAIN pq = 1 .. n
      BY <2>4, LenProperties
    <3>2. pq = [i \in DOMAIN pq |-> pq[i]]
      BY <2>4
    <3> QED BY <3>1, <3>2
  <2>7. \A i \in 1 .. n : c[i] = IF i <= u THEN a[i] ELSE b[i - u]
    BY <1>2
  <2> HIDE DEF h, p, q, c, pq
  <2>8. ASSUME NEW i \in 1 .. n PROVE h[i] = pq[i]
    <3>1. h[i] = c[i] + 256
      BY <2>1
    <3>2. pq[i] = IF i <= u THEN p[i] ELSE q[i - u]
      BY <2>4
    <3>3. c[i] = IF i <= u THEN a[i] ELSE b[i - u]
      BY <2>7
    <3>4. u \in Nat /\ v \in Nat /\ i \in 1 .. u + v
      BY <1>2
    <3> HIDE DEF u, v, n
    <3>5. CASE i <= u
      <4>1. i \in 1 .. u
        BY <3>4, <3>5
      <4>2. p[i] = a[i] + 256
        BY <2>2, <4>1
      <4>3. pq[i] = p[i] /\ c[i] = a[i]
        BY <3>2, <3>3, <3>5
      <4> QED BY <3>1, <4>2, <4>3, Zenon
    <3>6. CASE ~ (i <= u)
      <4> DEFINE j == i - u
      <4>1. j \in 1 .. v
        BY <3>4, <3>6
      <4>2. pq[i] = q[j] /\ c[i] = b[j]
        BY <3>2, <3>3, <3>6
      <4> HIDE DEF j
      <4>3. q[j] = b[j] + 256
        BY <2>3, <4>1
      <4> QED BY <3>1, <4>2, <4>3, Zenon
    <3> QED BY <3>5, <3>6
  <2>9. [i \in 1 .. n |-> h[i]] = [i \in 1 .. n |-> pq[i]]
    <3> HIDE DEF n
    <3> QED BY <2>8
  <2>10. h = pq
    BY <2>5, <2>6, <2>9, Zenon
  <2> QED BY <2>10 DEF pq
<1> QED BY <1>4 DEF Form

-------------------------------------------------------------------------------
(* An answer, its head and its files.                                       *)
AnswerHeadBytes(m) == <<Opx[m.kind]>> \o m.uid \o m.tid \o m.flags \o Le(Len(m.fs), 1)
AnswerPieces(m) == [i \in DOMAIN m.fs |-> FileBytes(m.fs[i])]
AnswerFileBytes(m) == FlattenSeq(AnswerPieces(m))
AnswerHeld(m) ==
    Holding(Holding(Asking(Opened(Opx[m.kind]), m.uid, m.tid), "flags", m.flags),
            "fc", Le(Len(m.fs), 1))

LEMMA AnswerIs ==
    ASSUME NEW m, m.kind \in {"SEARCH_BACK", "SEARCH_BC"}
    PROVE  /\ Answer(m) = AnswerHeadBytes(m) \o Form(Opx[m.kind], AnswerFileBytes(m))
           /\ Opx[m.kind] \in BackOps /\ Opx[m.kind] \in Nat /\ Opx[m.kind] # 0
<1>1. Opx[m.kind] \in BackOps /\ Opx[m.kind] \in Nat /\ Opx[m.kind] # 0
  BY DEF Opx, BackOps
<1>2. m.kind = "SEARCH_BC" <=> Opx[m.kind] = Opx.SEARCH_BC
  BY DEF Opx
<1> DEFINE y == AnswerFileBytes(m)
           z == IF m.kind = "SEARCH_BC" THEN [i \in DOMAIN y |-> y[i] + 256] ELSE y
<1>3. Answer(m) = AnswerHeadBytes(m) \o z
  BY DEF Answer, AnswerHeadBytes, AnswerFileBytes, AnswerPieces, FileBytes
<1>4. z = Form(Opx[m.kind], y)
  BY <1>2 DEF Form, High
<1> QED BY <1>1, <1>3, <1>4

(* What it has is of these kinds.                                          *)
LEMMA AnswerHas ==
    ASSUME NEW m, IsAnswer(m)
    PROVE  /\ m.uid \in Width(20) /\ m.tid \in Width(2) /\ m.flags \in Width(4)
           /\ Len(m.fs) \in Nat /\ Len(m.fs) < 256 /\ DOMAIN m.fs = 1 .. Len(m.fs)
           /\ \A i \in 1 .. Len(m.fs) : IsFData(m.fs[i])
<1> DEFINE n == Len(m.fs)
           fs == m.fs
<1>1. /\ m.uid \in Width(20) /\ m.tid \in Width(2) /\ m.flags \in Width(4) /\ n \in 0 .. 255
      /\ fs = [i \in 1 .. n |-> fs[i]] /\ \A i \in 1 .. n : IsFData(fs[i])
  BY Zenon DEF IsAnswer
<1>2. DOMAIN fs = 1 .. n
  <2> HIDE DEF fs, n
  <2> QED BY <1>1
<1>3. n \in Nat /\ n < 256
  <2> HIDE DEF n
  <2> QED BY <1>1
<1> QED BY <1>1, <1>2, <1>3, Zenon

(* The bytes of the head are bytes, and it is read whatever is behind it.   *)
HeadOfAnswer(m, y) ==
    /\ AnswerHeadBytes(m) \in Bytes /\ Len(AnswerHeadBytes(m)) > 0
    /\ Digit(AnswerHeadBytes(m) \o y, 1) = Opx[m.kind]
    /\ AnswerHead(AnswerHeadBytes(m) \o y) = Cursor(y, AnswerHeld(m))

LEMMA AnswerHeadReads ==
    ASSUME LengthSets, NEW m, IsAnswer(m), NEW y \in Bytes
    PROVE  HeadOfAnswer(m, y)
<1> DEFINE op == Opx[m.kind]
           p == <<op>>
           a == m.uid
           b == m.tid
           f == m.flags
           c == Le(Len(m.fs), 1)
           k == Asking(Opened(op), a, b)
           r == f \o (c \o y)
           s == a \o (b \o r)
           l == <<U("flags", 4), U("fc", 1)>>
           h == p \o a \o b \o f \o c
<1>1. op \in BackOps /\ op \in Nat
  BY AnswerIs DEF IsAnswer
<1>2. a \in Width(20) /\ b \in Width(2) /\ f \in Width(4) /\ Len(m.fs) \in Nat /\ Len(m.fs) < 256
  BY AnswerHas
<1>3. c \in Bytes /\ Len(c) = 1
  <2> DEFINE n == Len(m.fs)
  <2> HIDE DEF n
  <2>1. n \in Nat /\ n < 256
    BY <1>2 DEF n
  <2>2. Le(n, 1) \in Bytes /\ Len(Le(n, 1)) = 1
    BY <2>1, CountOne
  <2> QED BY <2>2 DEF n
<1>4. AnswerHeadBytes(m) = h /\ AnswerHeld(m) = Holding(Holding(k, "flags", f), "fc", c)
  BY DEF AnswerHeadBytes, AnswerHeld
<1>5. \A d : AnswerHead(d) = Read(Task(Is(d, BackOps)), l)
  BY DEF AnswerHead
<1> HIDE DEF op, a, b, f, c, l
<1>6. /\ a \in Bytes /\ Len(a) = 20 /\ b \in Bytes /\ Len(b) = 2 /\ f \in Bytes /\ Len(f) = 4
      /\ p \in Bytes
  BY <1>1, <1>2, Widths, NumOne
<1>7. h \o y = p \o s /\ s \in Bytes /\ r \in Bytes /\ h \in Bytes /\ Len(h) > 0
  <2>1. Flat6(p, a, b, f, c, y)
    BY <1>3, <1>6, SixFlat
  <2>2. r \in Bytes
    BY <1>3, <1>6, Closed
  <2>3. h \in Bytes /\ h = p \o (a \o (b \o (f \o c))) /\ a \o (b \o (f \o c)) \in Bytes
    <3>1. Flat5(p, a, b, f, c)
      BY <1>3, <1>6, FiveFlat
    <3>2. a \o (b \o (f \o c)) \in Bytes
      BY <1>3, <1>6, Closed
    <3> QED BY <3>1, <3>2, <1>6, Closed DEF Flat5
  <2> DEFINE t == a \o (b \o (f \o c))
  <2>4. Len(h) > 0
    <3> HIDE DEF h, t
    <3>1. h = <<op>> \o t /\ t \in Bytes
      BY <2>3 DEF t
    <3>2. Len(<<op>> \o t) = Len(t) + 1 /\ Len(t) \in Nat
      BY <1>1, <3>1, FirstOf
    <3> QED BY <3>1, <3>2
  <2> QED BY <2>1, <2>2, <2>3, <2>4 DEF Flat6
<1> HIDE DEF h, r, s
<1>8. Digit(h \o y, 1) = op
  <2>1. Digit(<<op>> \o s, 1) = op
    BY <1>1, <1>7, FirstOf
  <2> QED BY <1>7, <2>1, Zenon
<1>9. Is(h \o y, BackOps) = Cursor(s, Opened(op))
  <2>1. Is(<<op>> \o s, BackOps) = Cursor(s, Opened(op))
    BY <1>1, <1>7, IsReads
  <2> QED BY <1>7, <2>1, Zenon
<1>10. Task(Cursor(s, Opened(op))) = Cursor(r, k)
  <2>1. TaskRead(Opened(op), r, a, b)
    BY <1>6, <1>7, TaskReads
  <2> QED BY <2>1, Zenon DEF TaskRead, s
<1> HIDE DEF k
<1>11. Read(Cursor(r, k), l) = Cursor(y, Holding(Holding(k, "flags", f), "fc", c))
  <2>1. TwoRead2(k, y, "flags", 4, f, "fc", 1, c)
    BY <1>3, <1>6, TwoDoes
  <2> QED BY <2>1, Zenon DEF TwoRead2, l, r
<1>12. AnswerHead(h \o y) = Cursor(y, Holding(Holding(k, "flags", f), "fc", c))
  BY <1>5, <1>9, <1>10, <1>11, Zenon
<1>13. AnswerHeadBytes(m) \in Bytes /\ Len(AnswerHeadBytes(m)) > 0
  BY <1>4, <1>7
<1>14. Digit(AnswerHeadBytes(m) \o y, 1) = Opx[m.kind]
  BY <1>4, <1>8, Zenon DEF op
<1>15. AnswerHead(AnswerHeadBytes(m) \o y) = Cursor(y, AnswerHeld(m))
  BY <1>4, <1>12, Zenon
<1> QED BY <1>13, <1>14, <1>15, Zenon DEF HeadOfAnswer

(* What was read of the head.                                               *)
LEMMA AnswerHeldIs ==
    ASSUME NEW m, IsAnswer(m), NEW g, g = AnswerHeld(m)
    PROVE  /\ IsFields(g) /\ Num(g["op"]) = Opx[m.kind] /\ Num(g["fc"]) = Len(m.fs)
           /\ "uid" \in DOMAIN g /\ g["uid"] = m.uid /\ "tid" \in DOMAIN g /\ g["tid"] = m.tid
           /\ "flags" \in DOMAIN g /\ g["flags"] = m.flags
<1> DEFINE op == Opx[m.kind]
           p == <<op>>
           a == m.uid
           b == m.tid
           f == m.flags
           c == Le(Len(m.fs), 1)
           o == Opened(op)
           u == Holding(o, "uid", a)
           t == Holding(u, "tid", b)
           k == Holding(t, "flags", f)
<1>1. op \in BackOps /\ op \in Nat
  BY AnswerIs DEF IsAnswer
<1>2. a \in Width(20) /\ b \in Width(2) /\ f \in Width(4) /\ Len(m.fs) \in Nat /\ Len(m.fs) < 256
  BY AnswerHas
<1>3. c \in Bytes /\ Num(c) = Len(m.fs)
  <2> DEFINE n == Len(m.fs)
  <2> HIDE DEF n
  <2>1. n \in Nat /\ n < 256
    BY <1>2 DEF n
  <2>2. Le(n, 1) \in Bytes /\ Num(Le(n, 1)) = n
    BY <2>1, CountOne
  <2> QED BY <2>2 DEF n
<1>4. g = Holding(k, "fc", c) /\ o = Holding(<<>>, "op", p)
  BY DEF AnswerHeld, Asking, Opened
<1> HIDE DEF op, a, b, f, c, o, u, t, k
<1>5. a \in Bytes /\ b \in Bytes /\ f \in Bytes /\ p \in Bytes /\ Num(p) = op
  BY <1>1, <1>2, Widths, NumOne
<1>6. IsFields(o)
  BY <1>4, <1>5, HoldingTyped, Unnamed
<1>7. IsFields(u)
  BY <1>5, <1>6, HoldingTyped DEF u
<1>8. IsFields(t)
  BY <1>5, <1>7, HoldingTyped DEF t
<1>9. IsFields(k)
  BY <1>5, <1>8, HoldingTyped DEF k
<1>10. IsFields(g)
  BY <1>3, <1>4, <1>9, HoldingTyped
<1>11. "op" \in DOMAIN o /\ o["op"] = p
  BY <1>4, Held
<1>12. "op" \in DOMAIN u /\ u["op"] = p /\ "uid" \in DOMAIN u /\ u["uid"] = a
  BY <1>11, Held, HeldBefore DEF u
<1>13. /\ "op" \in DOMAIN t /\ t["op"] = p /\ "uid" \in DOMAIN t /\ t["uid"] = a
       /\ "tid" \in DOMAIN t /\ t["tid"] = b
  BY <1>12, Held, HeldBefore DEF t
<1>14. /\ "op" \in DOMAIN k /\ k["op"] = p /\ "uid" \in DOMAIN k /\ k["uid"] = a
       /\ "tid" \in DOMAIN k /\ k["tid"] = b /\ "flags" \in DOMAIN k /\ k["flags"] = f
  BY <1>13, Held, HeldBefore DEF k
<1>15. /\ g["op"] = p /\ "uid" \in DOMAIN g /\ g["uid"] = a
       /\ "tid" \in DOMAIN g /\ g["tid"] = b /\ "flags" \in DOMAIN g /\ g["flags"] = f
       /\ g["fc"] = c
  BY <1>4, <1>14, Held, HeldBefore
<1>16. Num(g["op"]) = op /\ Num(g["fc"]) = Len(m.fs)
  BY <1>3, <1>5, <1>15
<1> QED BY <1>10, <1>15, <1>16 DEF op, a, b, f
(* Its files are read, and nothing is left.                                 *)
AnswerList(m) == [j \in 1 .. Len(m.fs) |-> FDataHeld(m.fs[j])]

LEMMA AnswerPiecesAre ==
    ASSUME LengthSets, NEW m, IsAnswer(m)
    PROVE  /\ ArePieces(AnswerPieces(m), Len(m.fs)) /\ AreAnswers(Len(m.fs), m.fs, AnswerPieces(m))
           /\ AnswerFileBytes(m) \in Bytes
<1> DEFINE n == Len(m.fs)
           fs == m.fs
           w == AnswerPieces(m)
<1>1. n \in Nat /\ DOMAIN fs = 1 .. n /\ \A i \in 1 .. n : IsFData(fs[i])
  BY AnswerHas, Zenon
<1>2. w = [i \in DOMAIN fs |-> FileBytes(fs[i])]
  BY DEF AnswerPieces
<1> HIDE DEF n, fs, w
<1>3. DOMAIN w = 1 .. n /\ w = [i \in 1 .. n |-> w[i]] /\ \A i \in 1 .. n : w[i] = FileBytes(fs[i])
  BY <1>1, <1>2
<1>4. \A i \in 1 .. n : w[i] \in Bytes /\ Len(w[i]) > 0
  BY <1>1, <1>3, FDataReads
<1>5. ArePieces(w, n)
  BY <1>1, <1>3, <1>4, Gathered
<1>6. AreAnswers(n, fs, w)
  BY <1>1, <1>3 DEF AreAnswers
<1>7. FlattenSeq(w) \in Bytes
  BY <1>1, <1>5, NotShorter DEF ArePieces
<1> QED BY <1>5, <1>6, <1>7, Zenon DEF n, fs, w, AnswerFileBytes

LEMMA AnswerFilesAreRead ==
    ASSUME LengthSets, NEW m, IsAnswer(m)
    PROVE  AnswerFiles(Cursor(AnswerFileBytes(m), AnswerHeld(m)))
             = Cursor(<<>>, Holding(AnswerHeld(m), "fs", AnswerList(m)))
<1> DEFINE n == Len(m.fs)
           fs == m.fs
           w == AnswerPieces(m)
           y == FlattenSeq(w)
           g == AnswerHeld(m)
           e == <<>>
<1>1. n \in Nat
  BY AnswerHas
<1>2. ArePieces(w, n) /\ AreAnswers(n, fs, w) /\ y \in Bytes
  BY AnswerPiecesAre DEF AnswerFileBytes
<1>3. Num(g["fc"]) = n
  BY AnswerHeldIs
<1>4. AnswerList(m) = [j \in 1 .. n |-> FDataHeld(fs[j])]
  BY DEF AnswerList
<1>5. AnswerFileBytes(m) = y
  BY DEF AnswerFileBytes
<1> HIDE DEF n, fs, w, g, e
<1>6. AnswersAreRead(n, fs, w, e, g)
  BY <1>1, <1>2, AnswersRead, NoBytes DEF e
<1>7. y \o e = y
  <2> HIDE DEF y
  <2> QED BY <1>2, NothingBehind DEF e
<1>8. AnswerLoop(With(Cursor(y, g), "fs", <<>>), n) = Cursor(e, Holding(g, "fs", AnswerList(m)))
  BY <1>4, <1>6, <1>7, Zenon DEF AnswersAreRead
<1>9. AnswerFiles(Cursor(y, g)) = AnswerLoop(With(Cursor(y, g), "fs", <<>>), n)
  <2>1. Cursor(y, g).m = g
    BY CursorIs, Zenon
  <2> HIDE DEF y
  <2> QED BY <1>3, <2>1 DEF AnswerFiles
<1> QED BY <1>5, <1>8, <1>9, Zenon DEF g, e

LEMMA BackParses ==
    ASSUME NEW s, Digit(s, 1) \in BackOps
    PROVE  KadxParsed(s) = SearchBackParse(s)
BY DEF KadxParsed, Opx, BackOps

(* The bytes of an answer, and what the parse makes of them.                *)
AnswerRead(m) ==
    /\ Answer(m) \in Bytes /\ Digit(Answer(m), 1) \in BackOps /\ Digit(Answer(m), 1) # 0
    /\ AnswerHead(Answer(m)) = Cursor(Form(Opx[m.kind], AnswerFileBytes(m)), AnswerHeld(m))
    /\ KadxParsed(Answer(m)) = Cursor(<<>>, Holding(AnswerHeld(m), "fs", AnswerList(m)))

LEMMA AnswerReads2 ==
    ASSUME LengthSets, NEW m, IsAnswer(m)
    PROVE  AnswerRead(m)
<1> DEFINE op == Opx[m.kind]
           y == AnswerFileBytes(m)
           z == Form(op, y)
           h == AnswerHeadBytes(m)
           g == AnswerHeld(m)
           s == h \o z
<1>1. Answer(m) = s /\ op \in BackOps /\ op # 0
  BY AnswerIs DEF IsAnswer
<1>2. y \in Bytes
  BY AnswerPiecesAre
<1>3. Num(g["op"]) = op
  BY AnswerHeldIs
<1>4. AnswerFiles(Cursor(y, g)) = Cursor(<<>>, Holding(g, "fs", AnswerList(m)))
  BY AnswerFilesAreRead
<1>5. z \in Bytes /\ Unpacked(Cursor(z, g)) = Cursor(y, g)
  <2> HIDE DEF y, g, op
  <2> QED BY <1>2, <1>3, FormIs
<1> HIDE DEF z
<1>6. HeadOfAnswer(m, z)
  BY <1>5, AnswerHeadReads
<1>7. h \in Bytes /\ Digit(s, 1) = op /\ AnswerHead(s) = Cursor(z, g)
  BY <1>6, Zenon DEF HeadOfAnswer
<1> HIDE DEF op, y, h, g
<1>8. s \in Bytes
  BY <1>5, <1>7, Closed
<1> HIDE DEF s
<1>9. KadxParsed(s) = SearchBackParse(s)
  BY <1>1, <1>7, BackParses
<1>10. Cursor(z, g).ok /\ Cursor(y, g).ok
  BY CursorIs, Zenon
<1>11. SearchBackParse(s) = AnswerFiles(Cursor(y, g))
  BY <1>5, <1>7, <1>10, AnswerParseIs
<1>12. KadxParsed(s) = Cursor(<<>>, Holding(g, "fs", AnswerList(m)))
  BY <1>4, <1>9, <1>11, Zenon
<1>13. Answer(m) \in Bytes /\ Digit(Answer(m), 1) \in BackOps /\ Digit(Answer(m), 1) # 0
  BY <1>1, <1>7, <1>8
<1>14. AnswerHead(Answer(m)) = Cursor(Form(Opx[m.kind], AnswerFileBytes(m)), AnswerHeld(m))
  BY <1>1, <1>7, Zenon DEF z, op, y, g
<1>15. KadxParsed(Answer(m)) = Cursor(<<>>, Holding(AnswerHeld(m), "fs", AnswerList(m)))
  BY <1>1, <1>12, Zenon DEF g
<1> QED BY <1>13, <1>14, <1>15, Zenon DEF AnswerRead

(* To the last field of the last file.                                      *)
LEMMA AnswerTold ==
    ASSUME LengthSets, NEW m, IsAnswer(m)
    PROVE  LET d == KadxParsed(Answer(m)) IN d.ok /\ d.rest = <<>> /\ Reads(d, m)
<1> DEFINE n == Len(m.fs)
           fs == m.fs
           v == AnswerList(m)
           g == AnswerHeld(m)
           k == Holding(g, "fs", v)
           d == KadxParsed(Answer(m))
<1>1. d = Cursor(<<>>, k)
  BY AnswerReads2, Zenon DEF AnswerRead
<1>2. d.ok /\ d.rest = <<>> /\ d.m = k
  <2> HIDE DEF k, d
  <2> QED BY <1>1, CursorIs
<1>3. n \in Nat /\ DOMAIN fs = 1 .. n /\ \A i \in 1 .. n : IsFData(fs[i])
  BY AnswerHas, Zenon
<1>4. v = [j \in 1 .. n |-> FDataHeld(fs[j])]
  BY DEF AnswerList
<1>5. /\ "uid" \in DOMAIN g /\ g["uid"] = m.uid /\ "tid" \in DOMAIN g /\ g["tid"] = m.tid
      /\ "flags" \in DOMAIN g /\ g["flags"] = m.flags
  BY AnswerHeldIs, Zenon
<1>6. m.kind \in {"SEARCH_BACK", "SEARCH_BC"}
  BY DEF IsAnswer
<1> HIDE DEF n, fs, v, g, d
<1>7. /\ "uid" \in DOMAIN k /\ k["uid"] = m.uid /\ "tid" \in DOMAIN k /\ k["tid"] = m.tid
      /\ "flags" \in DOMAIN k /\ k["flags"] = m.flags /\ k["fs"] = v
  BY <1>5, Held, HeldBefore
<1> HIDE DEF k
<1>8. Find(d, m, {"uid", "tid", "flags"})
  BY <1>2, <1>7 DEF Find
<1>9. Len(v) = n
  BY <1>3, <1>4
<1>10. ASSUME NEW i \in 1 .. n
       PROVE  Find([m |-> v[i]], fs[i], DOMAIN fs[i])
  <2>1. FileTold(fs[i], v[i])
    BY <1>3, <1>4, FDataHeldIs
  <2> QED BY <2>1 DEF Find, FileTold
<1>11. Len(d.m["fs"]) = Len(m.fs)
  BY <1>2, <1>7, <1>9 DEF n
<1>12. \A i \in DOMAIN m.fs : Find([m |-> d.m["fs"][i]], m.fs[i], DOMAIN m.fs[i])
  <2>1. \A i \in DOMAIN fs : Find([m |-> v[i]], fs[i], DOMAIN fs[i])
    BY <1>3, <1>10
  <2>2. d.m["fs"] = v
    BY <1>2, <1>7
  <2> QED BY <2>1, <2>2, Zenon DEF fs
<1>13. Reads(d, m)
  BY <1>6, <1>8, <1>11, <1>12 DEF Reads
<1> QED BY <1>2, <1>13 DEF d

(* And not when it was cut: were it read, its head was read and some of its *)
(* files, and the rest of them would be left over from the whole answer.    *)
LEMMA AnswerCut ==
    ASSUME LengthSets, NEW m, IsAnswer(m), NEW n \in 0 .. Len(Answer(m)) - 1
    PROVE  ~KadxParsed(SubSeq(Answer(m), 1, n)).ok
<1> DEFINE s == Answer(m)
           op == Opx[m.kind]
           y == AnswerFileBytes(m)
           z == Form(op, y)
           g == AnswerHeld(m)
<1>1. s \in Bytes /\ Digit(s, 1) \in BackOps /\ Digit(s, 1) # 0 /\ AnswerHead(s) = Cursor(z, g)
  BY AnswerReads2, Zenon DEF AnswerRead
<1>2. y \in Bytes
  BY AnswerPiecesAre
<1>3. IsFields(g) /\ Num(g["op"]) = op /\ Num(g["fc"]) \in Nat
  BY AnswerHeldIs, AnswerHas
<1>4. AnswerFiles(Cursor(y, g)).rest = <<>>
  <2>1. AnswerFiles(Cursor(y, g)) = Cursor(<<>>, Holding(g, "fs", AnswerList(m)))
    BY AnswerFilesAreRead
  <2> HIDE DEF y, g
  <2> QED BY <2>1, CursorIs
<1>5. n \in 0 .. Len(s) - 1
  OBVIOUS
<1> HIDE DEF s, op, y, g
<1>6. z \in Bytes /\ Len(z) = Len(y)
  BY <1>2, FormIs, <1>3
<1>7. PICK a \in Bytes, x \in Bytes :
        /\ s = a \o x /\ SubSeq(s, 1, n) = a /\ Len(x) > 0
        /\ n > 0 => Digit(a, 1) = Digit(s, 1)
        /\ n = 0 => Digit(a, 1) = 0
  BY <1>1, <1>5, CutInTwo
<1>8. CASE n = 0
  BY <1>7, <1>8, NothingIsNoPacket DEF s
<1>9. CASE n # 0
  <2>1. KadxParsed(a) = SearchBackParse(a)
    <3>1. n > 0
      BY <1>5, <1>9
    <3>2. Digit(a, 1) \in BackOps
      BY <1>1, <1>7, <3>1
    <3> QED BY <3>2, BackParses
  <2> DEFINE c == AnswerHead(a)
             b == c.rest
  <2>2. Carries(c, AnswerHead(s), x)
    BY <1>7, AnswerHeadCarries
  <2>3. SUFFICES ASSUME c.ok PROVE ~KadxParsed(a).ok
    <3>1. ~c.ok => ~KadxParsed(a).ok
      BY <2>1, AnswerParseIs
    <3> QED BY <1>7, <3>1 DEF s
  <2> HIDE DEF c, z
  <2>4. c = Cursor(b, g) /\ z = b \o x /\ b \in Bytes
    <3>1. AnswerHead(s) = Cursor(b \o x, c.m) /\ c = Cursor(b, c.m) /\ b \in Bytes
      BY <2>2, <2>3, LongerIs
    <3> DEFINE u == b \o x
    <3> HIDE DEF u
    <3>2. Cursor(z, g) = Cursor(u, c.m)
      BY <1>1, <3>1 DEF u
    <3> DEFINE k == c.m
    <3> HIDE DEF k
    <3>3. Cursor(z, g).rest = z /\ Cursor(z, g).m = g /\ Cursor(u, k).rest = u /\ Cursor(u, k).m = k
      BY CursorIs
    <3>4. z = u /\ g = k
      BY <3>2, <3>3, Zenon DEF k
    <3> QED BY <3>1, <3>4, Zenon DEF u, k
  <2> HIDE DEF b
  <2>5. PICK p \in Bytes, q \in Bytes : y = p \o q /\ Len(p) = Len(b)
    <3>1. Len(z) = Len(b) + Len(x) /\ Len(b) \in Nat /\ Len(x) \in Nat
      BY <1>7, <2>4, CutOf, LenProperties DEF Bytes
    <3>2. Len(b) <= Len(y)
      BY <1>6, <3>1
    <3> QED BY <1>2, <3>1, <3>2, CutAt
  <2>6. Form(op, p) = b /\ Form(op, q) = x
    <3> DEFINE e == Form(op, p)
               f == Form(op, q)
    <3>1. e \in Bytes /\ Len(e) = Len(p) /\ f \in Bytes
      BY <1>3, FormIs
    <3>2. z = e \o f
      BY <2>5, FormJoins DEF z
    <3> HIDE DEF e, f
    <3>3. SubSeq(e \o f, 1, Len(e)) = e /\ SubSeq(e \o f, Len(e) + 1, Len(e \o f)) = f
      BY <3>1, CutOf
    <3>4. SubSeq(b \o x, 1, Len(b)) = b /\ SubSeq(b \o x, Len(b) + 1, Len(b \o x)) = x
      BY <1>7, <2>4, CutOf
    <3>5. Len(e) = Len(b) /\ e \o f = b \o x
      BY <2>4, <2>5, <3>1, <3>2
    <3>6. e = b
      BY <3>3, <3>4, <3>5, Zenon
    <3>7. f = x
      BY <3>3, <3>4, <3>5, Zenon
    <3> QED BY <3>6, <3>7 DEF e, f
  <2>7. Len(q) = Len(x)
    BY <1>3, <2>6, FormIs
  <2>8. Unpacked(c) = Cursor(p, g)
    <3>1. Unpacked(Cursor(Form(op, p), g)) = Cursor(p, g)
      BY <1>3, FormIs
    <3> QED BY <2>4, <2>6, <3>1, Zenon
  <2>9. SearchBackParse(a) = AnswerFiles(Cursor(p, g))
    <3>1. Cursor(p, g).ok
      BY CursorIs, Zenon
    <3> QED BY <2>3, <2>8, <3>1, AnswerParseIs DEF c
  <2>10. Carries(AnswerFiles(Cursor(p, g)), AnswerFiles(Cursor(y, g)), q)
    BY <1>3, <2>5, AnswerFilesCarry
  <2>11. ~AnswerFiles(Cursor(p, g)).ok
    BY <1>4, <1>7, <2>7, <2>10, CutOff
  <2> QED BY <2>1, <2>9, <2>11, Zenon
<1> QED BY <1>8, <1>9
-------------------------------------------------------------------------------
(* Every message of a node is understood by another: all of it to its last   *)
(* byte, and no part of it.                                                 *)
Accepted(s, m) ==
    LET d == KadxParsed(s)
    IN  /\ d.ok /\ d.rest = <<>> /\ Reads(d, m)
        /\ \A n \in 0 .. Len(s) - 1 : ~KadxParsed(SubSeq(s, 1, n)).ok

LEMMA UnderstoodAccepted ==
    ASSUME NEW m, Understood(m)
    PROVE  Accepted(KadxWritten(m), m)
<1> DEFINE s == KadxWritten(m)
           d == KadxParsed(s)
<1>1. s \in Bytes /\ Digit(s, 1) \in NodeOps /\ d.ok /\ d.rest = <<>> /\ Reads(d, m)
  BY DEF Understood
<1> HIDE DEF s
<1>2. \A n \in 0 .. Len(s) - 1 : ~KadxParsed(SubSeq(s, 1, n)).ok
  BY <1>1, NodeCut
<1> QED BY <1>1, <1>2, Zenon DEF Accepted, s

LEMMA AnswerAccepted ==
    ASSUME LengthSets, NEW m, IsAnswer(m)
    PROVE  Accepted(Answer(m), m)
BY AnswerTold, AnswerCut, Zenon DEF Accepted

(* What goes out between nodes is an answer, or of the kinds of the classes  *)
(* of the program.                                                          *)
LEMMA NodeKindIs ==
    ASSUME NEW m \in Sent, m.kind \in Agreed
    PROVE  \/ IsAnswer(m) /\ m.kind \in {"SEARCH_BACK", "SEARCH_BC"}
           \/ /\ m.kind \notin {"SEARCH_BACK", "SEARCH_BC"}
              /\ \/ m \in Searches \/ m \in Callbacks \/ m \in Holes \/ m \in HoleCallbacks
                 \/ m \in Holings
                 \/ /\ TypeFits(m)
                    /\ \/ m \in HashStatuses \/ m \in SourceQuestions \/ m \in FoundSources
                       \/ m \in FilePartLists
<1>1. \/ m \in ClientKinds \/ m \in OwnKinds \/ m \in NodeKinds
      \/ m \in TypedKinds \/ IsAnswer(m) \/ IsXcm(m)
  BY LinkAssumption
<1>2. m \notin ClientKinds /\ m \notin OwnKinds /\ ~IsXcm(m)
  <2>1. m \notin ClientKinds
    BY DEF ClientKinds, Agreed
  <2>2. m \notin OwnKinds
    <3>1. m \notin ServerKinds
      BY DEF ServerKinds, Agreed
    <3>2. m \notin SendingParts
      BY DEF SendingParts, Agreed
    <3>3. m \notin [kind : {"FOUNDSOURCES_OBFU"}, hash : Width(16), srvs : Servers({<<1>>})]
      BY DEF Agreed
    <3> QED BY <3>1, <3>2, <3>3 DEF OwnKinds
  <2>3. ~IsXcm(m)
    BY DEF IsXcm, Agreed
  <2> QED BY <2>1, <2>2, <2>3
<1>3. CASE m \in NodeKinds
  <2>1. \/ m \in Searches \/ m \in Callbacks \/ m \in Holes \/ m \in HoleCallbacks \/ m \in Holings
    BY <1>3 DEF NodeKinds, Searches, Callbacks, Holes, HoleCallbacks, Holings, Agreed
  <2>2. m.kind \notin {"SEARCH_BACK", "SEARCH_BC"}
    BY <2>1 DEF Searches, Callbacks, Holes, HoleCallbacks, Holings
  <2> QED BY <2>1, <2>2
<1>4. CASE m \in TypedKinds
  <2>1. TypeFits(m)
    BY <1>4 DEF TypedKinds
  <2>2. \/ m \in HashStatuses \/ m \in SourceQuestions \/ m \in FoundSources \/ m \in FilePartLists
    BY <1>4 DEF TypedKinds, HashStatuses, SourceQuestions, FoundSources, FilePartLists,
                Finders, Blocks, Agreed
  <2>3. m.kind \notin {"SEARCH_BACK", "SEARCH_BC"}
    BY <2>2 DEF HashStatuses, SourceQuestions, FoundSources, FilePartLists
  <2> QED BY <2>1, <2>2, <2>3
<1>5. CASE IsAnswer(m)
  BY <1>5 DEF IsAnswer
<1> QED BY <1>1, <1>2, <1>3, <1>4, <1>5

(* What a node writes another node reads, to the last field of the last     *)
(* file of an answer, and nothing of it when it was cut, whatever it writes *)
(* and however many files it has found.                                     *)
THEOREM NodesAlwaysUnderstand == LengthSets => (Spec => []NodesUnderstand)
<1> SUFFICES ASSUME LengthSets PROVE Spec => []NodesUnderstand
  OBVIOUS
<1>1. OnTheWire => NodesUnderstand
  <2> SUFFICES ASSUME OnTheWire, link.way = "out", link.m.kind \in Agreed
               PROVE  Accepted(link.data, link.m) /\ got = KadxParsed(link.data)
    BY DEF NodesUnderstand, Accepted
  <2> DEFINE m == link.m
  <2>1. m \in Sent /\ link.data = WrittenBy(m) /\ got = ReadThere(m, link.data)
    BY DEF OnTheWire
  <2>2. m.kind \in Agreed
    OBVIOUS
  <2> HIDE DEF m
  <2>3. ReadThere(m, link.data) = KadxParsed(link.data)
    <3>1. /\ m.kind # "HELLO" /\ m.kind \notin AtServer /\ m.kind \notin OwnParse
          /\ m.kind \in OfNodes /\ m.kind # "XCM"
      BY <2>2 DEF Agreed, AtServer, OwnParse, OfNodes
    <3> QED BY <3>1 DEF ReadThere
  <2>4. CASE m.kind \in {"SEARCH_BACK", "SEARCH_BC"}
    <3>1. IsAnswer(m)
      BY <2>1, <2>2, <2>4, NodeKindIs
    <3>2. WrittenBy(m) = Answer(m)
      BY <2>4 DEF WrittenBy
    <3> QED BY <2>1, <2>3, <3>1, <3>2, AnswerAccepted, Zenon DEF m
  <2>5. CASE m.kind \notin {"SEARCH_BACK", "SEARCH_BC"}
    <3>1. Understood(m)
      BY <2>1, <2>2, <2>5, NodeKindIs, SearchUnderstood, NodeCallbackUnderstood, HoleUnderstood,
         HoleCallbackUnderstood, HolingUnderstood, StatusUnderstood, SearchSourceUnderstood,
         FoundUnderstood, PartsUnderstood
    <3>2. WrittenBy(m) = KadxWritten(m)
      <4>1. m.kind \in OfNodes /\ m.kind # "XCM"
        BY <2>2 DEF OfNodes, Agreed
      <4> QED BY <2>5, <4>1 DEF WrittenBy
    <3> QED BY <2>1, <2>3, <3>1, <3>2, UnderstoodAccepted, Zenon DEF m
  <2> QED BY <2>4, <2>5
<1> QED BY <1>1, WireAlways, PTL

-------------------------------------------------------------------------------
(* What a class of the program writes is read back whole by its own parse.  *)
Restored(m) ==
    LET d == ReadThere(m, WrittenBy(m)) IN d.ok /\ d.rest = <<>> /\ Reads(d, m)

(* What the parses of this program do with what its classes write is what   *)
(* they do with the documented packet, when that is what is written.        *)
LEMMA OwnRestored ==
    ASSUME NEW m, m.kind \in OwnParse, Written(m) = Documented(m), Well(m, FALSE),
           m.kind # "IDCHANGE"
    PROVE  Restored(m)
<1>1. WrittenBy(m) = Packet(m, FALSE)
  <2>1. WrittenBy(m) = Written(m)
    BY DEF WrittenBy, OwnParse, OfNodes, Agreed, Uneven
  <2> QED BY <2>1 DEF Packet
<1>2. ReadThere(m, WrittenBy(m)) = Parsed(Packet(m, FALSE), FALSE)
  <2>1. ReadThere(m, WrittenBy(m)) = Parsed(WrittenBy(m), FALSE)
    BY DEF ReadThere, OwnParse, AtServer, OfNodes, Agreed, Uneven
  <2> QED BY <1>1, <2>1
<1> DEFINE d == Parsed(Packet(m, FALSE), FALSE)
<1>3. d.ok /\ d.rest = <<>> /\ Reads(d, m)
  BY DEF Well
<1> HIDE DEF d
<1> QED BY <1>2, <1>3 DEF Restored, d

LEMMA IdParseIs ==
    ASSUME NEW s, NEW packed, Digit(s, 1) = Op.IDCHANGE
    PROVE  Parsed(s, packed) = Read(Body(s, {Op.IDCHANGE}, packed), <<U("id", 4), U("bitmap", 4)>>)
BY DEF Parsed, IDCHANGEParse, Op

(* An id: its class writes the two fields and none of the bytes a server    *)
(* has behind them.                                                         *)
LEMMA IdRestored ==
    ASSUME NEW m \in [kind : {"IDCHANGE"}, id : Width(4), bitmap : Width(4)]
    PROVE  Restored(m)
<1> DEFINE op == Op.IDCHANGE
           u == m.id
           v == m.bitmap
           y == u \o (v \o <<>>)
           s == <<op>> \o y
           ops == {op}
           g == Holding(Holding(Opened(op), "id", u), "bitmap", v)
<1>1. m.kind = "IDCHANGE" /\ DOMAIN m = {"kind", "id", "bitmap"}
  OBVIOUS
<1>2. u \in Bytes /\ Len(u) = 4 /\ v \in Bytes /\ Len(v) = 4
  <2>1. m.id \in Width(4) /\ m.bitmap \in Width(4)
    OBVIOUS
  <2> QED BY <2>1, Widths
<1>3. op \in Nat /\ op \in ops
  BY DEF Op
<1>4. <<op>> \in Bytes
  <2> HIDE DEF op
  <2> QED BY <1>3, NumOne
<1> HIDE DEF u, v
<1>5. y \in Bytes /\ s = <<op>> \o u \o v
  <2>1. v \o <<>> = v
    BY <1>2, NothingBehind
  <2> DEFINE o == <<op>>
  <2> HIDE DEF o
  <2>2. o \o u \o v = o \o (u \o v) /\ u \o v \in Bytes
    BY <1>2, <1>4, ThreeFlat DEF Flat3, o
  <2> QED BY <2>1, <2>2 DEF o
<1>6. WrittenBy(m) = s
  <2>1. WrittenBy(m) = IDCHANGEEncode(m)
    BY <1>1 DEF WrittenBy, Written, OfNodes, Agreed, Uneven
  <2>2. IDCHANGEEncode(m) = <<op>> \o u \o v
    BY DEF IDCHANGEEncode, u, v
  <2> QED BY <1>5, <2>1, <2>2
<1>7. Wrap(s, FALSE) = s
  BY DEF Wrap
<1> HIDE DEF y
<1>8. Digit(s, 1) = op /\ Body(s, ops, FALSE) = Cursor(y, Opened(op))
  <2>1. \A packed : Digit(Wrap(<<op>> \o y, packed), 1) = op
                    /\ Body(Wrap(<<op>> \o y, packed), ops, packed) = Cursor(y, Opened(op))
    <3> HIDE DEF op, ops
    <3> QED BY <1>3, <1>5, BodyReads
  <2> QED BY <1>7, <2>1
<1> HIDE DEF s
<1>9. ReadThere(m, s) = Read(Body(s, ops, FALSE), <<U("id", 4), U("bitmap", 4)>>)
  <2>1. ReadThere(m, s) = Parsed(s, FALSE)
    BY <1>1 DEF ReadThere, AtServer, OwnParse, OfNodes, Agreed, Uneven
  <2>2. Parsed(s, FALSE) = Read(Body(s, ops, FALSE), <<U("id", 4), U("bitmap", 4)>>)
    BY <1>8, IdParseIs, Zenon DEF ops
  <2> QED BY <2>1, <2>2, Zenon
<1> HIDE DEF op
<1>10. Read(Cursor(y, Opened(op)), <<U("id", 4), U("bitmap", 4)>>) = Cursor(<<>>, g)
  <2> DEFINE q == <<>>
  <2>1. q \in Bytes
    BY NoBytes
  <2> HIDE DEF q
  <2>2. Read(Cursor(u \o (v \o q), Opened(op)), <<U("id", 4), U("bitmap", 4)>>) = Cursor(q, g)
    BY <1>2, <2>1, IdReads DEF g
  <2> QED BY <2>2 DEF q, y
<1> HIDE DEF g
<1>11. ReadThere(m, WrittenBy(m)) = Cursor(<<>>, g)
  BY <1>6, <1>8, <1>9, <1>10, Zenon
<1>12. "id" \in DOMAIN g /\ g["id"] = u /\ "bitmap" \in DOMAIN g /\ g["bitmap"] = v
  BY Held, HeldBefore DEF g
<1> DEFINE d == Cursor(<<>>, g)
<1>13. d.ok /\ d.rest = <<>> /\ d.m = g
  BY CursorIs
<1> HIDE DEF d
<1>14. Reads(d, m)
  BY <1>1, <1>12, <1>13 DEF Reads, Find, u, v
<1> QED BY <1>11, <1>13, <1>14, Zenon DEF Restored, d

(* The messages of a server or a peer.                                      *)
LEMMA OwnKindsRestored ==
    ASSUME NEW m \in OwnKinds, LengthSets \/ m.kind # "SENDINGPART"
    PROVE  Restored(m)
<1>1. CASE m \in [kind : {"SERVERMESSAGE"}, msg : Below(256 * 256)]
  <2>1. m.kind \in OwnParse /\ m.kind # "IDCHANGE" /\ Written(m) = SrvMessageEncode(m)
    BY <1>1 DEF Written, OwnParse
  <2> QED BY <1>1, <2>1, TextDocumented, TextWell, OwnRestored
<1>2. CASE m \in [kind : {"IDCHANGE"}, id : Width(4), bitmap : Width(4)]
  BY <1>2, IdRestored
<1>3. CASE m \in [kind : {"SERVERSTATUS"}, userc : Width(4), filec : Width(4)]
  <2>1. m.kind \in OwnParse /\ m.kind # "IDCHANGE" /\ Written(m) = SrvStatusEncode(m)
    BY <1>3 DEF Written, OwnParse
  <2> QED BY <1>3, <2>1, StatusDocumented, StatusWell, OwnRestored
<1>4. CASE m \in [kind : {"CALLBACKREQUESTED"}, first : Width(4), second : Width(2)]
  <2>1. m.kind \in OwnParse /\ m.kind # "IDCHANGE" /\ Written(m) = CallbackRequestedEncode(m)
    BY <1>4 DEF Written, OwnParse
  <2> QED BY <1>4, <2>1, RequestedDocumented, CalledWell, OwnRestored
<1>5. CASE m \in SendingParts
  <2>1. m.kind \in OwnParse /\ m.kind # "IDCHANGE" /\ Written(m) = SendingPartEncode(m)
    BY <1>5 DEF Written, OwnParse, SendingParts
  <2>2. LengthSets
    BY <1>5 DEF SendingParts
  <2> QED BY <1>5, <2>1, <2>2, PartDocumented, PartWell, OwnRestored
<1>6. CASE m \in OwnSources
  <2>1. m.kind \in OwnParse /\ m.kind # "IDCHANGE" /\ Written(m) = FoundSourceEncode(m)
    BY <1>6 DEF Written, OwnParse, OwnSources
  <2>2. m \in [kind : {"FOUNDSOURCES_OBFU"}, hash : Width(16), srvs : Servers([1 .. 1 -> 0 .. 7])]
    <3>1. <<1>> \in [1 .. 1 -> 0 .. 7]
      OBVIOUS
    <3> DEFINE S == [addr : Width(4), port : Width(2), obf : {<<1>>}]
               T == [addr : Width(4), port : Width(2), obf : [1 .. 1 -> 0 .. 7]]
    <3>2. S \subseteq T
      BY <3>1
    <3>3. Servers({<<1>>}) = Short(S, 256) /\ Servers([1 .. 1 -> 0 .. 7]) = Short(T, 256)
      BY DEF Servers
    <3> HIDE DEF S, T
    <3>4. Short(S, 256) \subseteq Short(T, 256)
      <4>1. Seq(S) \subseteq Seq(T)
        BY <3>2
      <4> QED BY <4>1 DEF Short
    <3> QED BY <1>6, <3>3, <3>4 DEF OwnSources
  <2> QED BY <1>6, <2>1, <2>2, SourcesDocumented, SourcesWell, OwnRestored
<1> QED BY <1>1, <1>2, <1>3, <1>4, <1>5, <1>6 DEF OwnKinds, ServerKinds, OwnSources

(* A request to be called back.                                             *)
LEMMA CallbackRestored ==
    ASSUME NEW m \in [kind : {"CALLBACKREQUEST"}, cid : Width(4)]
    PROVE  Restored(m)
<1> DEFINE op == Op.CALLBACKREQUEST
           u == m.cid
           s == <<op>> \o u
           ops == {op}
           g == Holding(Opened(op), "cid", u)
<1>1. m.kind = "CALLBACKREQUEST" /\ DOMAIN m = {"kind", "cid"}
  OBVIOUS
<1>2. u \in Bytes /\ Len(u) = 4
  <2>1. m.cid \in Width(4)
    OBVIOUS
  <2> QED BY <2>1, Widths
<1>3. op \in Nat /\ op \in ops
  BY DEF Op
<1> HIDE DEF u
<1>4. WrittenBy(m) = s
  <2>1. WrittenBy(m) = CallbackRequestEncode(m)
    BY <1>1 DEF WrittenBy, Written, OfNodes, Agreed, Uneven
  <2> QED BY <2>1 DEF CallbackRequestEncode, u
<1>5. Digit(s, 1) = op /\ Body(s, ops, FALSE) = Cursor(u, Opened(op))
  <2>1. \A packed : Digit(Wrap(<<op>> \o u, packed), 1) = op
                    /\ Body(Wrap(<<op>> \o u, packed), ops, packed) = Cursor(u, Opened(op))
    <3> HIDE DEF op, ops
    <3> QED BY <1>2, <1>3, BodyReads
  <2>2. Wrap(s, FALSE) = s
    BY DEF Wrap
  <2> QED BY <2>1, <2>2
<1> HIDE DEF s
<1>6. ReadThere(m, s) = Get(Body(s, ops, FALSE), U("cid", 4))
  <2>1. ReadThere(m, s) = ParsedThere(s, FALSE)
    BY <1>1 DEF ReadThere, AtServer, OwnParse, OfNodes, Agreed, Uneven
  <2>2. ParsedThere(s, FALSE) = Get(Body(s, ops, FALSE), U("cid", 4))
    BY <1>5 DEF ParsedThere, CallbackRequestParse, Op, ops
  <2> QED BY <2>1, <2>2, Zenon
<1> HIDE DEF op
<1>7. Get(Cursor(u, Opened(op)), U("cid", 4)) = Cursor(<<>>, g)
  <2> DEFINE q == <<>>
             n == 4
  <2>1. q \in Bytes /\ u \o q = u
    BY <1>2, NoBytes, NothingBehind
  <2> HIDE DEF q
  <2>2. Len(u) = n
    BY <1>2
  <2> HIDE DEF n
  <2>3. GetRead(Opened(op), q, "cid", n, u)
    BY <1>2, <2>1, <2>2, OneDoes
  <2>4. Get(Cursor(u \o q, Opened(op)), U("cid", n)) = Cursor(q, g)
    BY <2>3 DEF GetRead, g
  <2> QED BY <2>1, <2>4 DEF q, n
<1> HIDE DEF g
<1>8. ReadThere(m, WrittenBy(m)) = Cursor(<<>>, g)
  BY <1>4, <1>5, <1>6, <1>7, Zenon
<1>9. "cid" \in DOMAIN g /\ g["cid"] = u
  BY Held DEF g
<1> DEFINE d == Cursor(<<>>, g)
<1>10. d.ok /\ d.rest = <<>> /\ d.m = g
  BY CursorIs
<1> HIDE DEF d
<1>11. Reads(d, m)
  BY <1>1, <1>9, <1>10 DEF Reads, Find, u
<1> QED BY <1>8, <1>10, <1>11, Zenon DEF Restored, d

(* What is held once a number was kept.                                     *)
WordKept(m, k, word, words) == Holding(WordHeld(m, k, word), words[k], word)

LEMMA WordIsKept ==
    ASSUME NEW g, NEW k \in Nat, NEW word \in Bytes, Len(word) = 4,
           NEW texts, NEW words, NEW skip, skip, k \in DOMAIN words
    PROVE  PassesTo(IntTag(k, word), g, WordKept(g, k, word, words), texts, words, skip)
<1>1. IntTag(k, word) \in Bytes /\ Len(IntTag(k, word)) > 0
      /\ \A z \in Bytes : WordRead(z, g, k, word, texts, words, skip)
  BY WordPass
<1> QED BY <1>1, Zenon DEF PassesTo, WordRead, WordKept

LEMMA WordKeeps ==
    ASSUME NEW g, NEW k, NEW t, NEW words
    PROVE  /\ words[k] \in DOMAIN WordKept(g, k, t, words) /\ WordKept(g, k, t, words)[words[k]] = t
           /\ \A f \in DOMAIN g \ (TagFields \cup {words[k]}) :
                f \in DOMAIN WordKept(g, k, t, words) /\ WordKept(g, k, t, words)[f] = g[f]
<1>1. words[k] \in DOMAIN WordKept(g, k, t, words) /\ WordKept(g, k, t, words)[words[k]] = t
  BY Held DEF WordKept
<1>2. ASSUME NEW f \in DOMAIN g, f \notin TagFields, f # words[k]
      PROVE  f \in DOMAIN WordKept(g, k, t, words) /\ WordKept(g, k, t, words)[f] = g[f]
  <2>1. f \in DOMAIN WordHeld(g, k, t) /\ WordHeld(g, k, t)[f] = g[f]
    BY <1>2, TagKeeps
  <2> QED BY <1>2, <2>1, HeldBefore DEF WordKept
<1> QED BY <1>1, <1>2

(* The four tags of a login, one behind the other.                          *)
LoginNames ==
    /\ 1 \in DOMAIN LoginTexts /\ LoginTexts[1] = "name"
    /\ 17 \in DOMAIN LoginWords /\ LoginWords[17] = "version"
    /\ 32 \in DOMAIN LoginWords /\ LoginWords[32] = "flags"
    /\ 251 \in DOMAIN LoginWords /\ LoginWords[251] = "mver"
LEMMA LoginNamesAre == LoginNames
<1>1. 17 \in DOMAIN LoginWords /\ 32 \in DOMAIN LoginWords /\ 251 \in DOMAIN LoginWords
  BY DEF LoginWords
<1>2. LoginWords[17] = "version" /\ LoginWords[32] = "flags" /\ LoginWords[251] = "mver"
  BY <1>1 DEF LoginWords
<1>3. 1 \in DOMAIN LoginTexts /\ LoginTexts[1] = "name"
  BY DEF LoginTexts
<1> QED BY <1>1, <1>2, <1>3 DEF LoginNames

FourKept(g, t, u, v, x) ==
    WordKept(WordKept(WordKept(Kept(g, 1, t, LoginTexts), 17, u, LoginWords), 32, v, LoginWords),
             251, x, LoginWords)
FourRead(w, q, g, h, skip) ==
    ReadTags(Cursor(FlattenSeq(w) \o q, g), 4, LoginTexts, LoginWords, skip) = Cursor(q, h)
FourDo(g, q, t, u, v, x, skip) ==
    LET w == <<StrTag(1, t), IntTag(17, u), IntTag(32, v), IntTag(251, x)>>
    IN  w \in Seq(Bytes) /\ FourRead(w, q, g, FourKept(g, t, u, v, x), skip)
LEMMA FourTags ==
    ASSUME NEW g, NEW q \in Bytes, NEW skip, skip, NEW t \in TagText,
           NEW u \in Bytes, NEW v \in Bytes, NEW x \in Bytes, Len(u) = 4, Len(v) = 4, Len(x) = 4
    PROVE  FourDo(g, q, t, u, v, x, skip)
<1> DEFINE k1 == 1
           k17 == 17
           k32 == 32
           k251 == 251
           h1 == Kept(g, k1, t, LoginTexts)
           h2 == WordKept(h1, k17, u, LoginWords)
           h3 == WordKept(h2, k32, v, LoginWords)
           h4 == WordKept(h3, k251, x, LoginWords)
           p1 == StrTag(k1, t)
           p2 == IntTag(k17, u)
           p3 == IntTag(k32, v)
           p4 == IntTag(k251, x)
           w == <<p1, p2, p3, p4>>
           n == 4
           m == [i \in 0 .. n |-> IF i = 0 THEN g ELSE IF i = 1 THEN h1 ELSE IF i = 2 THEN h2
                                  ELSE IF i = 3 THEN h3 ELSE h4]
<1>1. k1 \in Nat /\ k17 \in Nat /\ k32 \in Nat /\ k251 \in Nat
  OBVIOUS
<1>2. k1 \in DOMAIN LoginTexts /\ k17 \in DOMAIN LoginWords /\ k32 \in DOMAIN LoginWords
      /\ k251 \in DOMAIN LoginWords
  BY LoginNamesAre DEF LoginNames
<1>3. FourKept(g, t, u, v, x) = h4
  BY DEF FourKept
<1> HIDE DEF k1, k17, k32, k251
<1>4. PassesTo(p1, g, h1, LoginTexts, LoginWords, skip)
  BY <1>1, <1>2, TextPasses
<1>5. PassesTo(p2, h1, h2, LoginTexts, LoginWords, skip)
  <2> HIDE DEF h1
  <2> QED BY <1>1, <1>2, WordIsKept
<1>6. PassesTo(p3, h2, h3, LoginTexts, LoginWords, skip)
  <2> HIDE DEF h2
  <2> QED BY <1>1, <1>2, WordIsKept
<1>7. PassesTo(p4, h3, h4, LoginTexts, LoginWords, skip)
  <2> HIDE DEF h3
  <2> QED BY <1>1, <1>2, WordIsKept
<1> HIDE DEF p1, h1, p2, h2, p3, h3, p4, h4
<1>8. n \in Nat /\ DOMAIN w = 1 .. n /\ w = [i \in 1 .. n |-> w[i]]
      /\ w[1] = p1 /\ w[2] = p2 /\ w[3] = p3 /\ w[4] = p4
  OBVIOUS
<1>9. \A i \in 1 .. n : i = 1 \/ i = 2 \/ i = 3 \/ i = 4
  OBVIOUS
<1>10. m[0] = g /\ m[1] = h1 /\ m[2] = h2 /\ m[3] = h3 /\ m[4] = h4 /\ m[n] = h4
  OBVIOUS
<1> HIDE DEF w, n, m
<1>11. ArePieces(w, n)
  <2>1. \A i \in 1 .. n : w[i] \in Bytes /\ Len(w[i]) > 0
    BY <1>4, <1>5, <1>6, <1>7, <1>8, <1>9 DEF PassesTo
  <2> QED BY <1>8, <2>1, Gathered
<1>12. TagPassReads(n, w, m, LoginTexts, LoginWords, skip)
  <2>1. ASSUME NEW i \in 1 .. n, NEW z \in Bytes
        PROVE  TagPass(Cursor(w[i] \o z, m[i - 1]), LoginTexts, LoginWords, skip) = Cursor(z, m[i])
    <3>1. CASE i = 1
      <4>1. w[i] = p1 /\ m[i - 1] = g /\ m[i] = h1
        BY <1>8, <1>10, <3>1
      <4> QED BY <1>4, <4>1 DEF PassesTo
    <3>2. CASE i = 2
      <4>1. w[i] = p2 /\ m[i - 1] = h1 /\ m[i] = h2
        BY <1>8, <1>10, <3>2
      <4> QED BY <1>5, <4>1 DEF PassesTo
    <3>3. CASE i = 3
      <4>1. w[i] = p3 /\ m[i - 1] = h2 /\ m[i] = h3
        BY <1>8, <1>10, <3>3
      <4> QED BY <1>6, <4>1 DEF PassesTo
    <3>4. CASE i = 4
      <4>1. w[i] = p4 /\ m[i - 1] = h3 /\ m[i] = h4
        BY <1>8, <1>10, <3>4
      <4> QED BY <1>7, <4>1 DEF PassesTo
    <3> QED BY <1>9, <3>1, <3>2, <3>3, <3>4
  <2> QED BY <2>1 DEF TagPassReads
<1>13. AllTags(n, w, q, m, LoginTexts, LoginWords, skip)
  BY <1>8, <1>11, <1>12, AllTagsRead
<1>14. FourRead(w, q, g, h4, skip)
  BY <1>10, <1>13 DEF AllTags, FourRead, n
<1>15. w \in Seq(Bytes)
  BY <1>11 DEF ArePieces
<1>16. w = <<StrTag(1, t), IntTag(17, u), IntTag(32, v), IntTag(251, x)>>
  BY DEF w, p1, p2, p3, p4, k1, k17, k32, k251
<1> QED BY <1>3, <1>14, <1>15, <1>16, Zenon DEF FourDo

(* What the login was read into, and what the tags leave of it.             *)
LEMMA FourKeep ==
    ASSUME NEW g, NEW t, NEW u, NEW v, NEW x, NEW h, h = FourKept(g, t, u, v, x)
    PROVE  /\ "name" \in DOMAIN h /\ h["name"] = t
           /\ "version" \in DOMAIN h /\ h["version"] = u
           /\ "flags" \in DOMAIN h /\ h["flags"] = v /\ "mver" \in DOMAIN h /\ h["mver"] = x
           /\ \A f \in DOMAIN g \ (TagFields \cup {"name", "version", "flags", "mver"}) :
                f \in DOMAIN h /\ h[f] = g[f]
<1> DEFINE h1 == Kept(g, 1, t, LoginTexts)
           h2 == WordKept(h1, 17, u, LoginWords)
           h3 == WordKept(h2, 32, v, LoginWords)
           h4 == WordKept(h3, 251, x, LoginWords)
<1>1. LoginNames
  BY LoginNamesAre
<1>2. "name" \in DOMAIN h1 /\ h1["name"] = t
      /\ \A f \in DOMAIN g \ (TagFields \cup {"name"}) : f \in DOMAIN h1 /\ h1[f] = g[f]
  BY <1>1, KeptKeeps DEF LoginNames
<1>3. h = h4
  BY DEF FourKept
<1> HIDE DEF h1
<1>4. "version" \in DOMAIN h2 /\ h2["version"] = u
      /\ \A f \in DOMAIN h1 \ (TagFields \cup {"version"}) : f \in DOMAIN h2 /\ h2[f] = h1[f]
  BY <1>1, WordKeeps DEF LoginNames
<1> HIDE DEF h2
<1>5. "flags" \in DOMAIN h3 /\ h3["flags"] = v
      /\ \A f \in DOMAIN h2 \ (TagFields \cup {"flags"}) : f \in DOMAIN h3 /\ h3[f] = h2[f]
  BY <1>1, WordKeeps DEF LoginNames
<1> HIDE DEF h3
<1>6. "mver" \in DOMAIN h4 /\ h4["mver"] = x
      /\ \A f \in DOMAIN h3 \ (TagFields \cup {"mver"}) : f \in DOMAIN h4 /\ h4[f] = h3[f]
  BY <1>1, WordKeeps DEF LoginNames
<1> HIDE DEF h4
<1>7. "name" \notin TagFields /\ "version" \notin TagFields /\ "flags" \notin TagFields
  BY DEF TagFields
<1> QED BY <1>2, <1>3, <1>4, <1>5, <1>6, <1>7


(* The four tags of a login one behind the other.                           *)
FourTagRow(w, e, f, g, h) ==
    FlattenSeq(w) = e \o (f \o (g \o h)) /\ e \o (f \o (g \o h)) \in Bytes
LEMMA FourRow ==
    ASSUME NEW e \in Bytes, NEW f \in Bytes, NEW g \in Bytes, NEW h \in Bytes,
           NEW w, w = <<e, f, g, h>>
    PROVE  FourTagRow(w, e, f, g, h)
<1> DEFINE n == 4
           v == <<>>
<1>1. w \in Seq(Bytes) /\ Len(w) = n /\ w[1] = e /\ w[2] = f /\ w[3] = g /\ w[4] = h
  <2> DEFINE S == Bytes
  <2> HIDE DEF S
  <2>1. e \in S /\ f \in S /\ g \in S /\ h \in S
    BY DEF S
  <2>2. w \in Seq(S) /\ Len(w) = n /\ w[1] = e /\ w[2] = f /\ w[3] = g /\ w[4] = h
    BY <2>1
  <2> QED BY <2>2 DEF S
<1>2. n \in Nat /\ 1 \in 1 .. n /\ 2 \in 1 .. n /\ 3 \in 1 .. n /\ 4 \in 1 .. n /\ n = 4
      /\ 1 - 1 = 0 /\ 2 - 1 = 1 /\ 3 - 1 = 2 /\ 4 - 1 = 3
  OBVIOUS
<1> HIDE DEF n, v
<1>3. PICK s : /\ s[0] = FlattenSeq(w) /\ s[n] = v
               /\ \A k \in 0 .. n : s[k] \in Bytes
               /\ \A k \in 1 .. n : w[k] \in Bytes /\ s[k - 1] = w[k] \o s[k]
  BY <1>1, <1>2, Pieces DEF v
<1>4. s[0] = e \o s[1] /\ s[1] = f \o s[2] /\ s[2] = g \o s[3] /\ s[3] = h \o s[4] /\ s[4] = v
  BY <1>1, <1>2, <1>3
<1>5. h \o v = h
  BY NothingBehind DEF v
<1>6. s[0] = e \o (f \o (g \o h))
  BY <1>4, <1>5
<1>7. e \o (f \o (g \o h)) \in Bytes
  BY FourFlat DEF Flat4
<1> QED BY <1>3, <1>6, <1>7 DEF FourTagRow

Logins == [kind : {"LOGINREQUEST"}, hash : Width(16), cid : Width(4), port : Width(2),
           name : TagText, version : Width(4), flags : Width(4), mver : Width(4)]
LoginTags(m) ==
    <<StrTag(1, m.name), IntTag(17, m.version), IntTag(32, m.flags), IntTag(251, m.mver)>>

(* A login is its head and then the tags.                                   *)
LoginIs(m, o, t) ==
    /\ LoginEncode(m) = o \o (m.hash \o (m.cid \o (m.port \o (Le(4, 4) \o t))))
    /\ m.hash \o (m.cid \o (m.port \o (Le(4, 4) \o t))) \in Bytes
LEMMA LoginBytes ==
    ASSUME NEW m \in Logins, LoginTags(m) \in Seq(Bytes), NEW o, o = <<Op.LOGINREQUEST>>
    PROVE  FlattenSeq(LoginTags(m)) \in Bytes /\ LoginIs(m, o, FlattenSeq(LoginTags(m)))
<1> DEFINE a == m.hash
           b == m.cid
           c == m.port
           d == Le(4, 4)
           e == StrTag(1, m.name)
           f == IntTag(17, m.version)
           g == IntTag(32, m.flags)
           h == IntTag(251, m.mver)
           t == FlattenSeq(LoginTags(m))
           r == e \o (f \o (g \o h))
           x == o \o a \o b \o c \o d
           y == o \o (a \o (b \o (c \o d)))
<1>1. a \in Width(16) /\ b \in Width(4) /\ c \in Width(2)
  BY DEF Logins
<1>2. LoginEncode(m) = x \o e \o f \o g \o h
  BY DEF LoginEncode
<1>3. d \in Bytes
  <2> DEFINE w == 4
  <2>1. w \in Nat
    OBVIOUS
  <2> HIDE DEF w
  <2>2. Le(w, w) \in Bytes
    BY <2>1, LeIs
  <2> QED BY <2>2 DEF w
<1>4. a \in Bytes /\ b \in Bytes /\ c \in Bytes
  <2> HIDE DEF a, b, c
  <2> QED BY <1>1, Widths
<1>5. o \in Bytes
  BY NumOne DEF Op
<1>6. LoginTags(m) = <<e, f, g, h>>
  BY DEF LoginTags
<1> HIDE DEF e, f, g, h
<1>7. e \in Bytes /\ f \in Bytes /\ g \in Bytes /\ h \in Bytes
  <2> DEFINE S == Bytes
             w == <<e, f, g, h>>
  <2>1. w \in Seq(S)
    BY <1>6
  <2>2. Len(w) = 4 /\ w[1] = e /\ w[2] = f /\ w[3] = g /\ w[4] = h
    OBVIOUS
  <2> HIDE DEF S, w
  <2>3. \A i \in 1 .. 4 : w[i] \in S
    BY <2>1, <2>2, ElementOfSeq
  <2>4. 1 \in 1 .. 4 /\ 2 \in 1 .. 4 /\ 3 \in 1 .. 4 /\ 4 \in 1 .. 4
    OBVIOUS
  <2> QED BY <2>2, <2>3, <2>4 DEF S
<1>8. t = r /\ t \in Bytes
  <2>1. FourTagRow(LoginTags(m), e, f, g, h)
    BY <1>6, <1>7, FourRow
  <2> QED BY <2>1 DEF FourTagRow
<1> HIDE DEF t, a, b, c, d
<1>9. x = y /\ y \in Bytes
  <2>1. Flat5(o, a, b, c, d)
    BY <1>3, <1>4, <1>5, FiveFlat
  <2> QED BY <2>1 DEF Flat5
<1>10. x \o e \o f \o g \o h = x \o r
  <2> HIDE DEF x, y
  <2>1. x \in Bytes
    BY <1>9
  <2>2. Flat5(x, e, f, g, h)
    BY <1>7, <2>1, FiveFlat
  <2> QED BY <2>2 DEF Flat5
<1>11. y \o t = o \o (a \o (b \o (c \o (d \o t)))) /\ a \o (b \o (c \o (d \o t))) \in Bytes
  <2>1. Then5(o, a, b, c, d, t)
    BY <1>3, <1>4, <1>5, <1>8, FiveThen
  <2> QED BY <2>1 DEF Then5
<1> HIDE DEF x, y, r
<1>12. LoginEncode(m) = y \o t
  BY <1>2, <1>8, <1>9, <1>10
<1> QED BY <1>8, <1>11, <1>12 DEF LoginIs, a, b, c, d, t

LEMMA LoginParseIs ==
    ASSUME NEW s, NEW packed, Digit(s, 1) = Op.LOGINREQUEST, NEW skip, skip = TRUE
    PROVE  ParsedThere(s, packed) =
             LET b == Read(Body(s, {Op.LOGINREQUEST}, packed),
                           <<U("hash", 16), U("cid", 4), U("port", 2), U("tc", 4)>>)
             IN  IF b.ok THEN ReadTags(b, Num(b.m["tc"]), LoginTexts, LoginWords, skip) ELSE b
<1>1. ParsedThere(s, packed) = LoginParse(s, packed)
  BY DEF ParsedThere, Op
<1>2. LoginParse(s, packed) =
             LET b == Read(Body(s, {Op.LOGINREQUEST}, packed),
                           <<U("hash", 16), U("cid", 4), U("port", 2), U("tc", 4)>>)
             IN  IF b.ok THEN ReadTags(b, Num(b.m["tc"]), LoginTexts, LoginWords, skip) ELSE b
  BY DEF LoginParse, Then, ReadTags, Repeat, Times
<1> QED BY <1>1, <1>2

(* What a login is read into.                                               *)
LEMMA LoginRestored ==
    ASSUME NEW m \in Logins
    PROVE  Restored(m)
<1> DEFINE op == Op.LOGINREQUEST
           o == <<op>>
           a == m.hash
           b == m.cid
           c == m.port
           d == Le(4, 4)
           t == FlattenSeq(LoginTags(m))
           y == a \o (b \o (c \o (d \o t)))
           s == o \o y
           ops == {op}
           l == <<U("hash", 16), U("cid", 4), U("port", 2), U("tc", 4)>>
           k == Holding(Holding(Holding(Holding(Opened(op), "hash", a), "cid", b), "port", c), "tc", d)
           h == FourKept(k, m.name, m.version, m.flags, m.mver)
           q == <<>>
           skip == TRUE
<1>1. /\ m.kind = "LOGINREQUEST"
      /\ DOMAIN m = {"kind", "hash", "cid", "port", "name", "version", "flags", "mver"}
      /\ a \in Width(16) /\ b \in Width(4) /\ c \in Width(2) /\ m.name \in TagText
      /\ m.version \in Width(4) /\ m.flags \in Width(4) /\ m.mver \in Width(4)
  BY DEF Logins
<1>2. /\ a \in Bytes /\ Len(a) = 16 /\ b \in Bytes /\ Len(b) = 4 /\ c \in Bytes /\ Len(c) = 2
      /\ m.version \in Bytes /\ Len(m.version) = 4 /\ m.flags \in Bytes /\ Len(m.flags) = 4
      /\ m.mver \in Bytes /\ Len(m.mver) = 4
  <2> HIDE DEF a, b, c
  <2> QED BY <1>1, Widths
<1>3. d \in Bytes /\ Len(d) = 4 /\ Num(d) = 4
  <2> DEFINE w == 4
  <2>1. w \in Nat /\ w < Beyond
    BY DEF Beyond
  <2> HIDE DEF w
  <2>2. Le(w, w) \in Bytes /\ Len(Le(w, w)) = w
    BY <2>1, LeIs
  <2>3. Num(Le(w, 4)) = w
    BY <2>1, NumLe4
  <2> QED BY <2>2, <2>3 DEF w
<1>4. q \in Bytes /\ skip
  BY NoBytes
<1>5. op \in Nat /\ op \in ops
  BY DEF Op
<1> HIDE DEF q, skip, k
<1>6. LoginTags(m) \in Seq(Bytes) /\ FourRead(LoginTags(m), q, k, h, skip)
  <2> DEFINE n == m.name
             u == m.version
             v == m.flags
             x == m.mver
             w == <<StrTag(1, n), IntTag(17, u), IntTag(32, v), IntTag(251, x)>>
  <2>1. n \in TagText /\ u \in Bytes /\ Len(u) = 4 /\ v \in Bytes /\ Len(v) = 4
        /\ x \in Bytes /\ Len(x) = 4
    BY <1>1, <1>2
  <2>2. LoginTags(m) = w /\ h = FourKept(k, n, u, v, x)
    BY DEF LoginTags
  <2> HIDE DEF n, u, v, x, h
  <2>3. FourDo(k, q, n, u, v, x, skip)
    BY <1>4, <2>1, FourTags
  <2>4. w \in Seq(Bytes) /\ FourRead(w, q, k, FourKept(k, n, u, v, x), skip)
    BY <2>3, Zenon DEF FourDo, w
  <2> HIDE DEF w
  <2> QED BY <2>2, <2>4, Zenon
<1>7. t \in Bytes /\ LoginIs(m, o, t)
  BY <1>6, LoginBytes
<1>8. LoginEncode(m) = s /\ y \in Bytes
  BY <1>7 DEF LoginIs
<1>9. WrittenBy(m) = s
  <2>1. WrittenBy(m) = LoginEncode(m)
    BY <1>1 DEF WrittenBy, Written, OfNodes, Agreed, Uneven
  <2> QED BY <1>8, <2>1, Zenon
<1> HIDE DEF y, t
<1>10. Digit(s, 1) = op /\ Body(s, ops, FALSE) = Cursor(y, Opened(op))
  <2>1. \A packed : Digit(Wrap(<<op>> \o y, packed), 1) = op
                    /\ Body(Wrap(<<op>> \o y, packed), ops, packed) = Cursor(y, Opened(op))
    <3> HIDE DEF op, ops
    <3> QED BY <1>5, <1>8, BodyReads
  <2>2. Wrap(s, FALSE) = s
    BY DEF Wrap
  <2> QED BY <2>1, <2>2
<1> HIDE DEF s
<1> DEFINE z == Read(Body(s, ops, FALSE), l)
<1>11. ReadThere(m, s) = IF z.ok THEN ReadTags(z, Num(z.m["tc"]), LoginTexts, LoginWords, skip) ELSE z
  <2>1. ReadThere(m, s) = ParsedThere(s, FALSE)
    BY <1>1 DEF ReadThere, AtServer, OwnParse, OfNodes, Agreed, Uneven
  <2>2. skip = TRUE
    BY DEF skip
  <2>3. ParsedThere(s, FALSE) = IF z.ok THEN ReadTags(z, Num(z.m["tc"]), LoginTexts, LoginWords, skip) ELSE z
    BY <1>10, <2>2, LoginParseIs, Zenon DEF ops, op, z, l
  <2> QED BY <2>1, <2>3, Zenon
<1>12. z = Cursor(t, k)
  <2>1. HeadRead(Opened(op), t, a, b, c, d)
    <3> HIDE DEF a, b, c, d, op
    <3> QED BY <1>2, <1>3, <1>7, HeadDoes
  <2>2. Read(Cursor(y, Opened(op)), l) = Cursor(t, k)
    BY <2>1 DEF HeadRead, y, k
  <2> QED BY <1>10, <2>2, Zenon
<1> HIDE DEF z, d, op, l
<1>13. "hash" \in DOMAIN k /\ k["hash"] = a /\ "cid" \in DOMAIN k /\ k["cid"] = b
       /\ "port" \in DOMAIN k /\ k["port"] = c /\ "tc" \in DOMAIN k /\ k["tc"] = d
  BY Held, HeldBefore DEF k
<1>14. z.ok /\ z.m = k
  BY <1>12, CursorIs
<1>15. ReadThere(m, s) = ReadTags(z, 4, LoginTexts, LoginWords, skip)
  BY <1>3, <1>11, <1>13, <1>14
<1>16. t \o q = t
  BY <1>7, NothingBehind DEF q
<1>17. ReadTags(Cursor(t, k), 4, LoginTexts, LoginWords, skip) = Cursor(q, h)
  BY <1>6, <1>16 DEF FourRead, t
<1>18. ReadThere(m, WrittenBy(m)) = Cursor(q, h)
  BY <1>9, <1>12, <1>15, <1>17, Zenon
<1> HIDE DEF h
<1>19. /\ "name" \in DOMAIN h /\ h["name"] = m.name
       /\ "version" \in DOMAIN h /\ h["version"] = m.version
       /\ "flags" \in DOMAIN h /\ h["flags"] = m.flags /\ "mver" \in DOMAIN h /\ h["mver"] = m.mver
       /\ \A f \in DOMAIN k \ (TagFields \cup {"name", "version", "flags", "mver"}) :
            f \in DOMAIN h /\ h[f] = k[f]
  BY FourKeep DEF h
<1>20. "hash" \in DOMAIN h /\ h["hash"] = a /\ "cid" \in DOMAIN h /\ h["cid"] = b
       /\ "port" \in DOMAIN h /\ h["port"] = c
  <2>1. \A f \in {"hash", "cid", "port"} : f \notin TagFields \cup {"name", "version", "flags", "mver"}
    BY DEF TagFields
  <2> QED BY <1>13, <1>19, <2>1
<1> DEFINE x == Cursor(q, h)
<1>21. x.ok /\ x.rest = <<>> /\ x.m = h
  BY CursorIs DEF q
<1> HIDE DEF x
<1>22. \A f \in DOMAIN m \ {"kind"} : f \in DOMAIN x.m /\ x.m[f] = m[f]
  BY <1>1, <1>19, <1>20, <1>21 DEF a, b, c
<1>23. Reads(x, m)
  BY <1>1, <1>22 DEF Reads, Find
<1> QED BY <1>18, <1>21, <1>23, Zenon DEF Restored, x

-------------------------------------------------------------------------------
(* The file beside a download: one pass of its read, and the passes.        *)
ConfPass(e) == IF e.rest = <<>> THEN e ELSE Then(Get(e, U("mark", 1)), FileConfField)
ConfTimes(d, n) ==
    Times(d, n, LAMBDA e : IF e.rest = <<>> THEN e ELSE Then(Get(e, U("mark", 1)), FileConfField))
TextLayout == <<U("len", 2), D("hash", "len")>>
AtLayout == <<U("at", 8)>>
CountedList(d, name, l) ==
    LET c == Get(d, U("count", 2)) IN IF c.ok THEN ReadList(c, name, Num(c.m["count"]), l) ELSE c

LEMMA ConfTables ==
    /\ DOMAIN Bytes1 = {16, 48, 80, 96}
    /\ Bytes1[16] = "filename" /\ Bytes1[48] = "emd4" /\ Bytes1[80] = "md5" /\ Bytes1[96] = "sha1"
<1>1. DOMAIN Bytes1 = {16, 48, 80, 96}
  BY DEF Bytes1
<1>2. 16 \in DOMAIN Bytes1 /\ 48 \in DOMAIN Bytes1 /\ 80 \in DOMAIN Bytes1 /\ 96 \in DOMAIN Bytes1
  BY <1>1
<1>3. Bytes1[16] = "filename" /\ Bytes1[48] = "emd4"
  BY <1>2 DEF Bytes1
<1>4. Bytes1[80] = "md5" /\ Bytes1[96] = "sha1"
  BY <1>2 DEF Bytes1
<1> QED BY <1>1, <1>3, <1>4

LEMMA ConfIs ==
    ASSUME NEW d, NEW k, k = Num(d.m["mark"])
    PROVE  /\ k \in DOMAIN Bytes1 => FileConfField(d) = Read(d, <<U("len", 2), D(Bytes1[k], "len")>>)
           /\ k = 32 => FileConfField(d) = Get(d, U("size", 8))
           /\ k = 64 => FileConfField(d) = CountedList(d, "ed2k", TextLayout)
           /\ k = 112 => FileConfField(d) = CountedList(d, "parts", AtLayout)
           /\ k \notin {32, 64, 112} \cup DOMAIN Bytes1 => FileConfField(d) = d
<1> DEFINE A == Read(d, <<U("len", 2), D(Bytes1[k], "len")>>)
           E == Get(d, U("size", 8))
           C == CountedList(d, "ed2k", TextLayout)
           F == CountedList(d, "parts", AtLayout)
<1>1. FileConfField(d) = CASE k \in DOMAIN Bytes1 -> A [] k = 32 -> E [] k = 64 -> C
                           [] k = 112 -> F [] OTHER -> d
  BY DEF FileConfField, CountedList, Then, TextLayout, AtLayout
<1> HIDE DEF A, E, C, F
<1>2. /\ k \in DOMAIN Bytes1 => FileConfField(d) = A
      /\ k = 32 => FileConfField(d) = E
      /\ k = 64 => FileConfField(d) = C
      /\ k = 112 => FileConfField(d) = F
      /\ k \notin {32, 64, 112} \cup DOMAIN Bytes1 => FileConfField(d) = d
  BY <1>1, ConfTables
<1> QED BY <1>2, Zenon DEF A, E, C, F

LEMMA CountedListCarries ==
    ASSUME NEW d, NEW e, NEW x \in Bytes, Carries(d, e, x), NEW name \in ListFields, NEW l, IsLayout(l)
    PROVE  Carries(CountedList(d, name, l), CountedList(e, name, l), x)
<1> DEFINE a == Get(d, U("count", 2))
           b == Get(e, U("count", 2))
<1>1. Carries(a, b, x) /\ (a.ok => "count" \in DOMAIN a.m)
  BY OneIs
<1>2. "count" \notin ListFields
  BY DEF ListFields
<1>3. /\ CountedList(d, name, l) = IF a.ok THEN ReadList(a, name, Num(a.m["count"]), l) ELSE a
      /\ CountedList(e, name, l) = IF b.ok THEN ReadList(b, name, Num(b.m["count"]), l) ELSE b
  BY DEF CountedList
<1> HIDE DEF a, b
<1>4. Carries(IF a.ok THEN ReadList(a, name, Num(a.m["count"]), l) ELSE a,
              IF b.ok THEN ReadList(b, name, Num(b.m["count"]), l) ELSE b, x)
  BY <1>1, <1>2, CountedCarries
<1> QED BY <1>3, <1>4

LEMMA ConfFieldCarries ==
    ASSUME NEW d, NEW e, NEW x \in Bytes, Carries(d, e, x), d.ok, "mark" \in DOMAIN d.m
    PROVE  Carries(FileConfField(d), FileConfField(e), x)
<1> DEFINE k == Num(d.m["mark"])
<1>1. e.m = d.m
  BY NumOfField DEF ListFields
<1>2. k = Num(d.m["mark"]) /\ k = Num(e.m["mark"])
  BY <1>1
<1> HIDE DEF k
<1>3. CASE k \in DOMAIN Bytes1
  <2> DEFINE l == <<U("len", 2), D(Bytes1[k], "len")>>
  <2>1. IsLayout(l)
    BY Text1 DEF ListFields
  <2>2. FileConfField(d) = Read(d, l) /\ FileConfField(e) = Read(e, l)
    BY <1>2, <1>3, ConfIs
  <2> HIDE DEF l
  <2> QED BY <2>1, <2>2, ReadCarries
<1>4. CASE k = 32
  <2>1. Carries(Get(d, U("size", 8)), Get(e, U("size", 8)), x)
    BY OneIs
  <2> QED BY <1>2, <1>4, <2>1, ConfIs
<1>5. CASE k = 64
  <2>1. IsLayout(TextLayout) /\ "ed2k" \in ListFields
    BY Text1 DEF TextLayout, ListFields
  <2>2. Carries(CountedList(d, "ed2k", TextLayout), CountedList(e, "ed2k", TextLayout), x)
    BY <2>1, CountedListCarries
  <2> QED BY <1>2, <1>5, <2>2, ConfIs
<1>6. CASE k = 112
  <2>1. IsLayout(AtLayout) /\ "parts" \in ListFields
    BY Fixed1 DEF AtLayout, ListFields
  <2>2. Carries(CountedList(d, "parts", AtLayout), CountedList(e, "parts", AtLayout), x)
    BY <2>1, CountedListCarries
  <2> QED BY <1>2, <1>6, <2>2, ConfIs
<1>7. CASE k \notin {32, 64, 112} \cup DOMAIN Bytes1
  BY <1>2, <1>7, ConfIs
<1> QED BY <1>3, <1>4, <1>5, <1>6, <1>7

LEMMA ConfPassCarries ==
    ASSUME NEW d, NEW e, NEW x \in Bytes, Carries(d, e, x), d.ok, d.rest # <<>>, e.rest # <<>>
    PROVE  Carries(ConfPass(d), ConfPass(e), x)
<1> DEFINE a == Get(d, U("mark", 1))
           b == Get(e, U("mark", 1))
           p == FileConfField(a)
           q == FileConfField(b)
<1>2. ConfPass(d) = IF a.ok THEN p ELSE a
  BY DEF ConfPass, Then
<1>3. ConfPass(e) = IF b.ok THEN q ELSE b
  BY DEF ConfPass, Then
<1>4. Carries(a, b, x) /\ (a.ok => "mark" \in DOMAIN a.m)
  BY OneIs
<1> HIDE DEF a, b
<1>5. a.ok => Carries(p, q, x)
  BY <1>4, ConfFieldCarries
<1> HIDE DEF p, q
<1>6. Carries(IF a.ok THEN p ELSE a, IF b.ok THEN q ELSE b, x)
  BY <1>4, <1>5, ThenCarries
<1> QED BY <1>2, <1>3, <1>6

ConfRun(r, a, n) ==
    r[0] = a /\ \A k \in 1 .. n : r[k] = (IF r[k - 1].ok THEN ConfPass(r[k - 1]) ELSE r[k - 1])

(* The passes of FileConfRead.                                              *)
LEMMA ConfRuns ==
    ASSUME NEW a, NEW n \in Nat
    PROVE  \E r : ConfRun(r, a, n) /\ ConfTimes(a, n) = r[n]
<1> DEFINE Runs(r, m) == r[0] = a /\ \A k \in 1 .. m : r[k] = (IF r[k - 1].ok THEN ConfPass(r[k - 1]) ELSE r[k - 1])
           Built(r) == [k \in 0 .. n |-> IF k = 0 THEN a ELSE (IF r[k - 1].ok THEN ConfPass(r[k - 1]) ELSE r[k - 1])]
           run == CHOOSE r : r = Built(r)
           S == { m \in 0 .. n : \E r : Runs(r, m) }
<1>1. Runs([k \in 0 .. 0 |-> a], 0)
  OBVIOUS
<1>2. ASSUME NEW m \in 1 .. n, NEW h, Runs(h, m - 1) PROVE \E r : Runs(r, m)
  <2> DEFINE r == [k \in 0 .. m |-> IF k = m THEN (IF h[m - 1].ok THEN ConfPass(h[m - 1]) ELSE h[m - 1]) ELSE h[k]]
  <2>1. r[0] = a /\ r[m] = (IF h[m - 1].ok THEN ConfPass(h[m - 1]) ELSE h[m - 1]) /\ \A k \in 0 .. m - 1 : r[k] = h[k]
    BY <1>2
  <2>2. \A k \in 1 .. m : k - 1 \in 0 .. m - 1 /\ (k # m => k \in 1 .. m - 1)
    OBVIOUS
  <2> HIDE DEF r
  <2>3. Runs(r, m)
    BY <1>2, <2>1, <2>2
  <2> QED BY <2>3
<1>3. PICK r : Runs(r, n)
  <2>1. 0 \in S /\ \A m \in 1 .. n : m - 1 \in S => m \in S
    <3> HIDE DEF Runs
    <3> QED BY <1>1, <1>2
  <2>2. n \in S
    <3> HIDE DEF S
    <3> QED BY <2>1, UpTo
  <2> QED BY <2>2
<1> DEFINE g == [k \in 0 .. n |-> r[k]]
<1>4. g = Built(g)
  <2>1. \A k \in 0 .. n : g[k] = IF k = 0 THEN a ELSE (IF g[k - 1].ok THEN ConfPass(g[k - 1]) ELSE g[k - 1])
    BY <1>3
  <2>2. g = [k \in 0 .. n |-> g[k]]
    OBVIOUS
  <2> HIDE DEF g
  <2> QED BY <2>1, <2>2
<1>5. run = Built(run)
  <2> HIDE DEF Built, g
  <2> QED BY <1>4
<1>6. Runs(run, n)
  <2> HIDE DEF run
  <2> QED BY <1>5
<1>7. ConfTimes(a, n) = run[n]
  BY DEF ConfTimes, Times, Then, ConfPass
<1> QED BY <1>6, <1>7 DEF ConfRun

LEMMA ConfReadIs ==
    ASSUME NEW s
    PROVE  FileConfRead(s) = ConfTimes(Cursor(s, <<>>), Len(s))
BY DEF FileConfRead, ConfTimes, Times, Then, Decoding

-------------------------------------------------------------------------------
(* What a field of the file says, and what a pass adds to what was read.    *)
Passing == {"mark", "len", "count"}
Right(m, n, v) ==
    CASE n = "ed2k"  -> [i \in DOMAIN v |-> v[i]["hash"]] = m.ed2k
      [] n = "parts" -> [i \in DOMAIN v |-> v[i]["at"]] = m.parts
      [] OTHER       -> v = m[n]
Gives(m, g, h, n) ==
    /\ n \in DOMAIN h /\ Right(m, n, h[n])
    /\ DOMAIN h \subseteq DOMAIN g \cup Passing \cup {n}
    /\ \A f \in DOMAIN g \ (Passing \cup {n}) : f \in DOMAIN h /\ h[f] = g[f]
ConfReads(m, p, n, z) ==
    \A g : \E h : ConfPass(Cursor(p \o z, g)) = Cursor(z, h) /\ Gives(m, g, h, n)
IsPiece(m, p, n) == p \in Bytes /\ Len(p) > 0 /\ \A z \in Bytes : ConfReads(m, p, n, z)

Further(g, n, v, h) ==
    /\ DOMAIN h = DOMAIN g \cup {n} /\ h[n] = v
    /\ \A f \in DOMAIN g : f # n => h[f] = g[f]
LEMMA HoldsMore == \A g, n, v : Further(g, n, v, Holding(g, n, v))
<1> SUFFICES ASSUME NEW g, NEW n, NEW v PROVE Further(g, n, v, Holding(g, n, v))
  OBVIOUS
<1>1. DOMAIN Holding(g, n, v) = DOMAIN g \cup {n}
  BY HoldingIs
<1>2. Holding(g, n, v)[n] = v
  BY HoldingIs
<1>3. \A f \in DOMAIN g : f # n => Holding(g, n, v)[f] = g[f]
  BY HoldingIs
<1> QED BY <1>1, <1>2, <1>3 DEF Further

(* A field that only passes changes nothing of the others.                  *)
PassedOn(g, i) ==
    /\ DOMAIN i \subseteq DOMAIN g \cup Passing
    /\ \A f \in DOMAIN g \ Passing : f \in DOMAIN i /\ i[f] = g[f]
LEMMA PassesOn ==
    ASSUME NEW g, NEW i, PassedOn(g, i), NEW n \in Passing, NEW v
    PROVE  PassedOn(g, Holding(i, n, v))
<1> DEFINE h == Holding(i, n, v)
<1>1. Further(i, n, v, h)
  BY HoldsMore, Zenon
<1> HIDE DEF h
<1>2. DOMAIN h = DOMAIN i \cup {n} /\ h[n] = v /\ \A f \in DOMAIN i : f # n => h[f] = i[f]
  BY <1>1 DEF Further
<1>3. PassedOn(g, h)
  BY <1>2 DEF PassedOn
<1> QED BY <1>3 DEF h

LEMMA LastGives ==
    ASSUME NEW m, NEW g, NEW i, NEW n, n \notin Passing, NEW v, Right(m, n, v),
           PassedOn(g, i)
    PROVE  Gives(m, g, Holding(i, n, v), n)
<1> DEFINE h == Holding(i, n, v)
<1>1. Further(i, n, v, h)
  BY HoldsMore, Zenon
<1> HIDE DEF h
<1>2. DOMAIN h = DOMAIN i \cup {n} /\ h[n] = v /\ \A f \in DOMAIN i : f # n => h[f] = i[f]
  BY <1>1 DEF Further
<1>3. DOMAIN h \subseteq DOMAIN g \cup Passing \cup {n}
  BY <1>2 DEF PassedOn
<1>4. \A f \in DOMAIN g \ (Passing \cup {n}) : f \in DOMAIN h /\ h[f] = g[f]
  BY <1>2 DEF PassedOn
<1>5. n \in DOMAIN h /\ Right(m, n, h[n])
  BY <1>2
<1>6. Gives(m, g, h, n)
  BY <1>3, <1>4, <1>5 DEF Gives
<1> QED BY <1>6 DEF h

LEMMA TwoGives ==
    ASSUME NEW m, NEW g, NEW a, NEW n, n \notin Passing, NEW v, Right(m, n, v)
    PROVE  Gives(m, g, Holding(Holding(g, "mark", a), n, v), n)
<1>1. PassedOn(g, g) /\ "mark" \in Passing
  BY DEF PassedOn, Passing
<1>2. PassedOn(g, Holding(g, "mark", a))
  BY <1>1, PassesOn
<1> QED BY <1>2, LastGives

LEMMA ThreeGives ==
    ASSUME NEW m, NEW g, NEW a, NEW b \in {"len", "count"}, NEW c, NEW n, n \notin Passing,
           NEW v, Right(m, n, v)
    PROVE  Gives(m, g, Holding(Holding(Holding(g, "mark", a), b, c), n, v), n)
<1>1. PassedOn(g, g) /\ "mark" \in Passing /\ b \in Passing
  BY DEF PassedOn, Passing
<1>2. PassedOn(g, Holding(g, "mark", a))
  BY <1>1, PassesOn
<1> DEFINE i == Holding(g, "mark", a)
<1> HIDE DEF i
<1>3. PassedOn(g, Holding(i, b, c))
  BY <1>1, <1>2, PassesOn DEF i
<1> QED BY <1>3, LastGives DEF i

(* The number of a field is read, and what comes behind it by that number.  *)
MarkGone(k, g, t) ==
    LET d == Cursor(t, Holding(g, "mark", <<k>>))
    IN  ConfPass(Cursor(<<k>> \o t, g)) = FileConfField(d) /\ Num(d.m["mark"]) = k
LEMMA ConfMarkReads ==
    ASSUME NEW k \in Nat, NEW g, NEW t \in Bytes
    PROVE  MarkGone(k, g, t)
<1> DEFINE p == <<k>>
           d == Cursor(p \o t, g)
           h == Holding(g, "mark", p)
<1>1. p \in Bytes /\ Len(p) = 1 /\ Num(p) = k
  BY NumOne
<1> HIDE DEF p
<1>2. Get(d, U("mark", 1)) = Cursor(t, h)
  <2>1. GetRead(g, t, "mark", 1, p)
    BY <1>1, OneDoes
  <2> QED BY <2>1, Zenon DEF GetRead
<1>3. d.rest # <<>>
  <2>1. d.rest = p \o t
    BY CursorIs
  <2> DEFINE y == p \o t
  <2>2. Len(y) = Len(p) + Len(t) /\ Len(t) \in Nat
    BY <1>1, CutOf, LenProperties DEF Bytes
  <2>3. Len(y) > 0
    BY <1>1, <2>2
  <2> HIDE DEF y
  <2>4. Len(<<>>) = 0
    OBVIOUS
  <2>5. y # <<>>
    BY <2>3, <2>4
  <2> QED BY <2>1, <2>5 DEF y
<1> DEFINE a == Get(d, U("mark", 1))
<1>4. ConfPass(d) = IF a.ok THEN FileConfField(a) ELSE a
  <2> HIDE DEF d
  <2> QED BY <1>3 DEF ConfPass, Then
<1>5. a.ok
  <2> HIDE DEF a
  <2> QED BY <1>2, CursorIs DEF a
<1>6. ConfPass(d) = FileConfField(Cursor(t, h))
  <2> HIDE DEF d, h
  <2>1. ConfPass(d) = FileConfField(a)
    BY <1>4, <1>5
  <2> QED BY <1>2, <2>1, Zenon
<1>7. Num(Cursor(t, h).m["mark"]) = k
  <2>1. Cursor(t, h).m = h /\ h["mark"] = p
    BY CursorIs, Held
  <2> QED BY <1>1, <2>1
<1> QED BY <1>6, <1>7 DEF p, MarkGone

(* The texts, the size and the lists, each behind its number.               *)
LEMMA RightText ==
    ASSUME NEW m, NEW n, n \notin {"ed2k", "parts"}
    PROVE  Right(m, n, m[n])
BY DEF Right

LEMMA TextIs ==
    ASSUME NEW m, NEW k \in Nat, NEW n, n \notin Passing,
           \A d : Num(d.m["mark"]) = k => FileConfField(d) = Read(d, <<U("len", 2), D(n, "len")>>),
           NEW v \in Below(256 * 256), Right(m, n, v)
    PROVE  IsPiece(m, <<k>> \o (Le(Len(v), 2) \o v), n)
<1> DEFINE p == <<k>>
           c == Le(Len(v), 2)
<1>5. v \in Bytes
  BY Texts
<1>6. c \in Bytes /\ Len(c) = 2 /\ Num(c) = Len(v)
  BY CountTwo
<1>7. p \in Bytes /\ Len(p) = 1
  BY NumOne
<1> HIDE DEF p, c
<1>8. p \o (c \o v) \in Bytes /\ Len(p \o (c \o v)) > 0
  <2> DEFINE cv == c \o v
  <2>1. cv \in Bytes
    BY <1>5, <1>6, Closed
  <2> HIDE DEF cv
  <2>2. p \o cv \in Bytes /\ Len(p \o cv) = Len(p) + Len(cv) /\ Len(cv) \in Nat
    BY <1>7, <2>1, CutOf, LenProperties DEF Bytes
  <2>3. Len(p \o cv) > 0
    BY <1>7, <2>2
  <2> QED BY <2>2, <2>3 DEF cv
<1>9. ASSUME NEW z \in Bytes PROVE ConfReads(m, p \o (c \o v), n, z)
  <2>1. ASSUME NEW g
        PROVE  \E h : ConfPass(Cursor((p \o (c \o v)) \o z, g)) = Cursor(z, h) /\ Gives(m, g, h, n)
    <3> DEFINE t == c \o (v \o z)
               i == Holding(g, "mark", p)
               d == Cursor(t, i)
               h == Holding(Holding(i, "len", c), n, v)
    <3>1. (p \o (c \o v)) \o z = p \o t /\ t \in Bytes
      <4>1. Then3(p, c, v, z)
        BY <1>5, <1>6, <1>7, ThreeThen
      <4> QED BY <4>1, Zenon DEF Then3
    <3>2. ConfPass(Cursor(p \o t, g)) = FileConfField(d) /\ Num(d.m["mark"]) = k
      <4>1. MarkGone(k, g, t)
        <5> HIDE DEF t
        <5> QED BY <3>1, ConfMarkReads
      <4> QED BY <4>1 DEF MarkGone, p
    <3>3. FileConfField(d) = Read(d, <<U("len", 2), D(n, "len")>>)
      <4> HIDE DEF d
      <4> QED BY <3>2
    <3>4. Read(d, <<U("len", 2), D(n, "len")>>) = Cursor(z, h)
      <4>1. TextRead2(i, z, "len", 2, c, n, v)
        BY <1>5, <1>6, TextDoes
      <4> QED BY <4>1, Zenon DEF TextRead2, d, t
    <3>5. Gives(m, g, h, n)
      BY ThreeGives
    <3> HIDE DEF t, d, h
    <3>6. ConfPass(Cursor((p \o (c \o v)) \o z, g)) = Cursor(z, h)
      BY <3>1, <3>2, <3>3, <3>4, Zenon
    <3> QED BY <3>5, <3>6
  <2> QED BY <2>1 DEF ConfReads
<1>10. IsPiece(m, p \o (c \o v), n)
  BY <1>8, <1>9 DEF IsPiece
<1> QED BY <1>10 DEF p, c

LEMMA MarkedIs ==
    ASSUME NEW m, NEW k \in {16, 48, 80, 96}, Bytes1[k] \in DOMAIN m,
           m[Bytes1[k]] \in Below(256 * 256)
    PROVE  IsPiece(m, Marked(k, m, Bytes1[k]), Bytes1[k])
<1> DEFINE n == Bytes1[k]
           v == m[n]
<1>1. n \notin Passing /\ n \notin {"ed2k", "parts"}
  BY ConfTables DEF Passing
<1>2. \A d : Num(d.m["mark"]) = k => FileConfField(d) = Read(d, <<U("len", 2), D(n, "len")>>)
  <2> SUFFICES ASSUME NEW d, Num(d.m["mark"]) = k
               PROVE  FileConfField(d) = Read(d, <<U("len", 2), D(Bytes1[k], "len")>>)
    OBVIOUS
  <2>1. k \in DOMAIN Bytes1
    BY ConfTables
  <2>2. k \in DOMAIN Bytes1 => FileConfField(d) = Read(d, <<U("len", 2), D(Bytes1[k], "len")>>)
    BY ConfIs
  <2> QED BY <2>1, <2>2
<1>3. k \in Nat
  OBVIOUS
<1>4. n \in DOMAIN m /\ v \in Below(256 * 256)
  OBVIOUS
<1> HIDE DEF n
<1>5. Right(m, n, v)
  BY <1>1, RightText
<1>6. Marked(k, m, n) = <<k>> \o (Le(Len(v), 2) \o v)
  BY <1>4 DEF Marked, Sized
<1>7. IsPiece(m, <<k>> \o (Le(Len(v), 2) \o v), n)
  <2> HIDE DEF v
  <2> QED BY <1>1, <1>2, <1>3, <1>4, <1>5, TextIs
<1>8. IsPiece(m, Marked(k, m, n), n)
  BY <1>6, <1>7, Zenon
<1> QED BY <1>8 DEF n

LEMMA SizeIs ==
    ASSUME NEW m, m.size \in Width(8)
    PROVE  IsPiece(m, <<32>> \o m.size, "size")
<1> DEFINE v == m.size
           k == 32
           p == <<k>>
           n == "size"
<1>1. k \in Nat /\ n \notin Passing /\ v \in Width(8) /\ Right(m, n, v)
  BY DEF Passing, Right
<1>2. \A d : Num(d.m["mark"]) = k => FileConfField(d) = Get(d, U(n, 8))
  BY ConfIs
<1> HIDE DEF v, k, n
<1>3. v \in Bytes /\ Len(v) = 8
  BY <1>1, Widths
<1>4. p \in Bytes /\ Len(p) = 1
  BY <1>1, NumOne
<1> HIDE DEF p
<1>5. p \o v \in Bytes /\ Len(p \o v) > 0
  <2>1. p \o v \in Bytes /\ Len(p \o v) = Len(p) + Len(v)
    BY <1>3, <1>4, CutOf
  <2> QED BY <1>3, <1>4, <2>1
<1>6. ASSUME NEW z \in Bytes PROVE ConfReads(m, p \o v, n, z)
  <2>1. ASSUME NEW g
        PROVE  \E h : ConfPass(Cursor((p \o v) \o z, g)) = Cursor(z, h) /\ Gives(m, g, h, n)
    <3> DEFINE t == v \o z
               i == Holding(g, "mark", p)
               d == Cursor(t, i)
               h == Holding(i, n, v)
    <3>1. (p \o v) \o z = p \o t /\ t \in Bytes
      BY <1>3, <1>4, Joined
    <3>2. ConfPass(Cursor(p \o t, g)) = FileConfField(d) /\ Num(d.m["mark"]) = k
      <4>1. MarkGone(k, g, t)
        <5> HIDE DEF t
        <5> QED BY <1>1, <3>1, ConfMarkReads
      <4> QED BY <4>1 DEF MarkGone, p
    <3>3. FileConfField(d) = Get(d, U(n, 8))
      <4> HIDE DEF d
      <4> QED BY <1>2, <3>2
    <3>4. Get(d, U(n, 8)) = Cursor(z, h)
      <4> HIDE DEF i
      <4>1. GetRead(i, z, n, 8, v)
        BY <1>3, OneDoes
      <4> QED BY <4>1, Zenon DEF GetRead
    <3>5. Gives(m, g, h, n)
      BY <1>1, TwoGives
    <3> HIDE DEF t, d, h
    <3>6. ConfPass(Cursor((p \o v) \o z, g)) = Cursor(z, h)
      BY <3>1, <3>2, <3>3, <3>4, Zenon
    <3> QED BY <3>5, <3>6
  <2> QED BY <2>1 DEF ConfReads
<1>7. IsPiece(m, p \o v, n)
  BY <1>5, <1>6 DEF IsPiece
<1> QED BY <1>7 DEF p, v, n, k

(* A list behind its count, when its layout reads each of its records.      *)
LEMMA CountedIs ==
    ASSUME NEW m, NEW k \in Nat, NEW name \in {"ed2k", "parts"}, NEW l,
           \A d : Num(d.m["mark"]) = k => FileConfField(d) = CountedList(d, name, l),
           NEW n \in Nat, n < 256 * 256, NEW w, ArePieces(w, n),
           NEW fs, fs = [j \in 1 .. n |-> fs[j]], ReadsEach(n, w, l, fs), Right(m, name, fs)
    PROVE  IsPiece(m, <<k>> \o Le(n, 2) \o FlattenSeq(w), name)
<1> DEFINE p == <<k>>
           c == Le(n, 2)
           v == FlattenSeq(w)
<1>1. name \notin Passing
  BY DEF Passing
<1>2. v \in Bytes
  BY NotShorter DEF ArePieces
<1>3. c \in Bytes /\ Len(c) = 2 /\ Num(c) = n
  <2>1. 2 \in Nat
    OBVIOUS
  <2> QED BY <2>1, LeIs, NumLe2
<1>4. p \in Bytes /\ Len(p) = 1
  BY NumOne
<1> HIDE DEF p, c, v
<1>5. Flat3(p, c, v)
  BY <1>2, <1>3, <1>4, ThreeFlat
<1>6. p \o c \o v \in Bytes /\ Len(p \o c \o v) > 0
  <2> DEFINE cv == c \o v
  <2>1. p \o c \o v = p \o cv /\ cv \in Bytes
    BY <1>5 DEF Flat3
  <2> HIDE DEF cv
  <2>2. p \o cv \in Bytes /\ Len(p \o cv) = Len(p) + Len(cv) /\ Len(cv) \in Nat
    BY <1>4, <2>1, CutOf, LenProperties DEF Bytes
  <2>3. Len(p \o cv) > 0
    BY <1>4, <2>2
  <2> QED BY <2>1, <2>2, <2>3
<1>7. ASSUME NEW z \in Bytes PROVE ConfReads(m, p \o c \o v, name, z)
  <2>1. ASSUME NEW g
        PROVE  \E h : ConfPass(Cursor((p \o c \o v) \o z, g)) = Cursor(z, h) /\ Gives(m, g, h, name)
    <3> DEFINE s == v \o z
               t == c \o s
               i == Holding(g, "mark", p)
               j == Holding(i, "count", c)
               d == Cursor(t, i)
               e == Cursor(s, j)
               h == Holding(j, name, fs)
    <3>1. (p \o c \o v) \o z = p \o t /\ t \in Bytes /\ s \in Bytes
      <4>1. Then3(p, c, v, z) /\ Then2(v, z, z)
        BY <1>2, <1>3, <1>4, ThreeThen, TwoThen
      <4>2. s \in Bytes
        BY <1>2, Closed
      <4> QED BY <1>5, <4>1, <4>2, Zenon DEF Then3, Flat3
    <3>2. ConfPass(Cursor(p \o t, g)) = FileConfField(d) /\ Num(d.m["mark"]) = k
      <4>1. MarkGone(k, g, t)
        <5> HIDE DEF t
        <5> QED BY <3>1, ConfMarkReads
      <4> QED BY <4>1 DEF MarkGone, p
    <3>3. FileConfField(d) = CountedList(d, name, l)
      <4> HIDE DEF d
      <4> QED BY <3>2
    <3>4. Get(d, U("count", 2)) = e
      <4> HIDE DEF i, s
      <4>1. GetRead(i, s, "count", 2, c)
        BY <1>3, <3>1, OneDoes
      <4> QED BY <4>1, Zenon DEF GetRead
    <3>5. e.ok /\ Num(e.m["count"]) = n
      <4>1. e.ok /\ e.m = j /\ j["count"] = c
        BY CursorIs, Held
      <4> HIDE DEF e
      <4> QED BY <1>3, <4>1
    <3>6. CountedList(d, name, l) = ReadList(e, name, n, l)
      <4> HIDE DEF d, e
      <4> QED BY <3>4, <3>5 DEF CountedList
    <3>7. ReadList(e, name, n, l) = Cursor(z, h)
      <4> HIDE DEF j
      <4>1. Listing(w, z, j, name, n, l, fs)
        BY Listings
      <4> QED BY <4>1, Zenon DEF Listing, e, s, v
    <3>8. Gives(m, g, h, name)
      BY <1>1, ThreeGives
    <3> HIDE DEF t, d, e, h
    <3>9. ConfPass(Cursor((p \o c \o v) \o z, g)) = Cursor(z, h)
      BY <3>1, <3>2, <3>3, <3>6, <3>7, Zenon
    <3> QED BY <3>8, <3>9
  <2> QED BY <2>1 DEF ConfReads
<1>8. IsPiece(m, p \o c \o v, name)
  BY <1>6, <1>7 DEF IsPiece
<1> QED BY <1>8 DEF p, c, v

-------------------------------------------------------------------------------
(* The pieces of a saved file: each is read into its field, and those that  *)
(* are not there are empty.                                                 *)
Saved(m, n) ==
    CASE n = "size" -> TRUE
      [] n \in {"ed2k", "parts"} -> m[n] # <<>>
      [] OTHER -> n \in DOMAIN m
XcmPiece(m, n, p) == IF Saved(m, n) THEN IsPiece(m, p, n) ELSE p = <<>>

LEMMA XcmText ==
    ASSUME NEW m, IsXcm(m), NEW k \in {16, 48, 80, 96}
    PROVE  XcmPiece(m, Bytes1[k], Marked(k, m, Bytes1[k]))
<1> DEFINE n == Bytes1[k]
<1>1. n \in {"filename", "emd4", "md5", "sha1"}
  BY ConfTables
<1>2. n \in DOMAIN m => IsPiece(m, Marked(k, m, n), n)
  <2> SUFFICES ASSUME n \in DOMAIN m PROVE IsPiece(m, Marked(k, m, n), n)
    OBVIOUS
  <2>1. m[n] \in Below(256 * 256)
    BY <1>1 DEF IsXcm
  <2> QED BY <2>1, MarkedIs
<1> HIDE DEF n
<1>3. Saved(m, n) = (n \in DOMAIN m)
  BY <1>1 DEF Saved
<1>4. n \notin DOMAIN m => Marked(k, m, n) = <<>>
  BY DEF Marked
<1>5. XcmPiece(m, n, Marked(k, m, n))
  BY <1>2, <1>3, <1>4 DEF XcmPiece
<1> QED BY <1>5 DEF n

LEMMA XcmSize ==
    ASSUME NEW m, IsXcm(m)
    PROVE  XcmPiece(m, "size", <<32>> \o m.size)
<1>1. m.size \in Width(8)
  BY DEF IsXcm
<1>2. IsPiece(m, <<32>> \o m.size, "size")
  BY <1>1, SizeIs
<1>3. Saved(m, "size")
  BY DEF Saved
<1> QED BY <1>2, <1>3 DEF XcmPiece

(* A list of texts, each read into a record with its length in front.       *)
HashHeld(v) == Holding(Holding(<<>>, "len", Le(Len(v), 2)), "hash", v)
HashRead(v, z) == Read(Cursor(Sized(v) \o z, <<>>), TextLayout) = Cursor(z, HashHeld(v))
LEMMA HashReads ==
    ASSUME NEW v \in Below(256 * 256)
    PROVE  /\ Sized(v) \in Bytes /\ Len(Sized(v)) > 0 /\ HashHeld(v)["hash"] = v
           /\ \A z \in Bytes : HashRead(v, z)
<1> DEFINE c == Le(Len(v), 2)
           o == <<>>
<1>1. v \in Bytes
  BY Texts
<1>2. c \in Bytes /\ Len(c) = 2 /\ Num(c) = Len(v)
  BY CountTwo
<1>3. Sized(v) = c \o v
  BY DEF Sized
<1>4. HashHeld(v) = Holding(Holding(o, "len", c), "hash", v)
  BY DEF HashHeld
<1> HIDE DEF c, o
<1>5. Sized(v) \in Bytes /\ Len(Sized(v)) > 0
  <2>1. c \o v \in Bytes /\ Len(c \o v) = Len(c) + Len(v) /\ Len(v) \in Nat
    BY <1>1, <1>2, CutOf, LenProperties DEF Bytes
  <2> QED BY <1>2, <1>3, <2>1
<1>6. HashHeld(v)["hash"] = v
  BY Held DEF HashHeld
<1>7. ASSUME NEW z \in Bytes PROVE HashRead(v, z)
  <2>1. TextRead2(o, z, "len", 2, c, "hash", v)
    BY <1>1, <1>2, TextDoes
  <2>2. (c \o v) \o z = c \o (v \o z)
    BY <1>1, <1>2, Assoc
  <2>3. Read(Cursor(c \o (v \o z), o), TextLayout) = Cursor(z, HashHeld(v))
    BY <1>4, <2>1, Zenon DEF TextRead2, TextLayout
  <2>4. Read(Cursor(Sized(v) \o z, o), TextLayout) = Cursor(z, HashHeld(v))
    BY <1>3, <2>2, <2>3, Zenon
  <2> QED BY <2>4, Zenon DEF HashRead, o
<1> QED BY <1>5, <1>6, <1>7

LEMMA XcmHashes ==
    ASSUME NEW m, IsXcm(m)
    PROVE  XcmPiece(m, "ed2k", Counted(64, [i \in DOMAIN m.ed2k |-> Sized(m.ed2k[i])]))
<1> DEFINE vs == m.ed2k
           n == Len(vs)
           w == [i \in DOMAIN vs |-> Sized(vs[i])]
           fs == [i \in 1 .. n |-> HashHeld(vs[i])]
           k == 64
           e == "ed2k"
<1>1. vs \in Short(Below(256 * 256), 256 * 256)
  BY DEF IsXcm
<1>2. k \in Nat /\ e \in {"ed2k", "parts"}
  OBVIOUS
<1>3. \A d : Num(d.m["mark"]) = k => FileConfField(d) = CountedList(d, e, TextLayout)
  BY ConfIs
<1>4. Saved(m, e) = (vs # <<>>)
  BY DEF Saved
<1>5. /\ n \in Nat /\ n < 256 * 256 /\ DOMAIN vs = 1 .. n /\ vs = [i \in 1 .. n |-> vs[i]]
      /\ \A i \in 1 .. n : vs[i] \in Below(256 * 256)
  <2> DEFINE S == Below(256 * 256)
             top == 256 * 256
  <2>1. top \in Nat /\ vs \in Short(S, top)
    BY <1>1
  <2> HIDE DEF vs, S, top
  <2>2. n \in Nat /\ n < top /\ DOMAIN vs = 1 .. n /\ vs = [i \in 1 .. n |-> vs[i]]
        /\ \A i \in 1 .. n : vs[i] \in S
    BY <2>1, ShortIs, ShortWhole
  <2> QED BY <2>2 DEF S, top
<1>6. Right(m, e, fs)
  <2>1. \A i \in 1 .. n : fs[i]["hash"] = vs[i]
    BY <1>5, HashReads
  <2>2. DOMAIN fs = 1 .. n
    OBVIOUS
  <2> HIDE DEF fs
  <2>3. [i \in DOMAIN fs |-> fs[i]["hash"]] = vs
    <3> HIDE DEF vs, n
    <3> QED BY <1>5, <2>1, <2>2
  <2> QED BY <2>3 DEF Right
<1> HIDE DEF k, e, vs
<1>7. fs = [i \in 1 .. n |-> fs[i]] /\ \A i \in 1 .. n : fs[i] = HashHeld(vs[i])
  OBVIOUS
<1>8. w = [i \in 1 .. n |-> w[i]] /\ DOMAIN w = 1 .. n /\ \A i \in 1 .. n : w[i] = Sized(vs[i])
  BY <1>5
<1> HIDE DEF fs, w, n
<1>9. ArePieces(w, n)
  <2>1. \A i \in 1 .. n : w[i] \in Bytes /\ Len(w[i]) > 0
    BY <1>5, <1>8, HashReads
  <2> QED BY <1>5, <1>8, <2>1, Gathered
<1>10. ReadsEach(n, w, TextLayout, fs)
  <2>1. ASSUME NEW i \in 1 .. n, NEW z \in Bytes
        PROVE  Read(Cursor(w[i] \o z, <<>>), TextLayout) = Cursor(z, fs[i])
    <3>1. HashRead(vs[i], z)
      BY <1>5, HashReads
    <3> QED BY <1>7, <1>8, <3>1, Zenon DEF HashRead
  <2> QED BY <2>1 DEF ReadsEach
<1>11. IsPiece(m, <<k>> \o Le(n, 2) \o FlattenSeq(w), e)
  BY <1>2, <1>3, <1>5, <1>6, <1>7, <1>9, <1>10, CountedIs
<1>12. Len(w) = n /\ (vs = <<>> => w = <<>>) /\ (vs # <<>> => w # <<>>)
  <2>1. Len(w) = n /\ w \in Seq(Bytes)
    BY <1>9 DEF ArePieces
  <2>2. n = Len(vs) /\ Len(<<>>) = 0
    BY DEF n
  <2>3. vs = <<>> => n = 0
    BY <2>2
  <2>4. w = <<>> => n = 0
    BY <2>1, <2>2
  <2>5. n = 0 => w = <<>> /\ vs = <<>>
    BY <1>5, <1>8
  <2> QED BY <2>1, <2>3, <2>4, <2>5
<1>13. Counted(k, w) = IF w = <<>> THEN <<>> ELSE <<k>> \o Le(n, 2) \o FlattenSeq(w)
  BY <1>12 DEF Counted
<1> DEFINE y == <<k>> \o Le(n, 2) \o FlattenSeq(w)
<1> HIDE DEF y
<1>14. XcmPiece(m, e, Counted(k, w))
  <2>1. IsPiece(m, y, e) /\ Counted(k, w) = IF w = <<>> THEN <<>> ELSE y
    BY <1>11, <1>13 DEF y
  <2> QED BY <1>4, <1>12, <2>1 DEF XcmPiece
<1> QED BY <1>14 DEF w, k, e, vs

(* A list of offsets.                                                       *)
AtHeld(v) == [at |-> v]
LEMMA AtHolds ==
    ASSUME NEW v \in Width(8)
    PROVE  AtHeld(v) \in Blocks /\ AtHeld(v).at = v /\ AtHeld(v)["at"] = v
BY DEF AtHeld, Blocks

LEMMA XcmParts ==
    ASSUME NEW m, IsXcm(m)
    PROVE  XcmPiece(m, "parts", Counted(112, m.parts))
<1> DEFINE w == m.parts
           n == Len(w)
           fs == [i \in 1 .. n |-> AtHeld(w[i])]
           k == 112
           e == "parts"
<1>1. w \in Short(Width(8), 256 * 256)
  BY DEF IsXcm
<1>2. k \in Nat /\ e \in {"ed2k", "parts"}
  OBVIOUS
<1>3. \A d : Num(d.m["mark"]) = k => FileConfField(d) = CountedList(d, e, AtLayout)
  BY ConfIs
<1>4. Saved(m, e) = (w # <<>>)
  BY DEF Saved
<1>5. /\ n \in Nat /\ n < 256 * 256 /\ DOMAIN w = 1 .. n /\ w = [i \in 1 .. n |-> w[i]]
      /\ \A i \in 1 .. n : w[i] \in Width(8)
  <2> DEFINE S == Width(8)
             top == 256 * 256
  <2>1. top \in Nat /\ w \in Short(S, top)
    BY <1>1
  <2> HIDE DEF w, S, top
  <2>2. n \in Nat /\ n < top /\ DOMAIN w = 1 .. n /\ w = [i \in 1 .. n |-> w[i]]
        /\ \A i \in 1 .. n : w[i] \in S
    BY <2>1, ShortIs, ShortWhole
  <2> QED BY <2>2 DEF S, top
<1>6. Right(m, e, fs)
  <2>1. \A i \in 1 .. n : fs[i]["at"] = w[i]
    BY <1>5, AtHolds
  <2>2. DOMAIN fs = 1 .. n
    OBVIOUS
  <2> HIDE DEF fs
  <2>3. [i \in DOMAIN fs |-> fs[i]["at"]] = w
    <3> HIDE DEF w, n
    <3> QED BY <1>5, <2>1, <2>2
  <2> QED BY <2>3 DEF Right
<1> HIDE DEF k, e, w
<1>7. fs = [i \in 1 .. n |-> fs[i]] /\ \A i \in 1 .. n : fs[i] = AtHeld(w[i])
  OBVIOUS
<1> HIDE DEF fs, n
<1>8. \A i \in 1 .. n : fs[i] \in Blocks /\ fs[i].at = w[i]
  BY <1>5, <1>7, AtHolds
<1>9. ArePieces(w, n)
  <2>1. \A i \in 1 .. n : w[i] \in Bytes /\ Len(w[i]) > 0
    BY <1>8, AtReads
  <2> QED BY <1>5, <2>1, Gathered
<1>10. ReadsEach(n, w, AtLayout, fs)
  <2>1. ASSUME NEW i \in 1 .. n, NEW z \in Bytes
        PROVE  Read(Cursor(w[i] \o z, <<>>), AtLayout) = Cursor(z, fs[i])
    <3>1. AtRead(fs[i], z)
      BY <1>8, AtReads
    <3>2. fs[i].at = w[i]
      BY <1>8
    <3> QED BY <3>1, <3>2, Zenon DEF AtRead, AtLayout
  <2> QED BY <2>1 DEF ReadsEach
<1>11. IsPiece(m, <<k>> \o Le(n, 2) \o FlattenSeq(w), e)
  BY <1>2, <1>3, <1>5, <1>6, <1>7, <1>9, <1>10, CountedIs
<1>12. Len(w) = n
  BY DEF n
<1>13. Counted(k, w) = IF w = <<>> THEN <<>> ELSE <<k>> \o Le(n, 2) \o FlattenSeq(w)
  BY <1>12 DEF Counted
<1> DEFINE y == <<k>> \o Le(n, 2) \o FlattenSeq(w)
<1> HIDE DEF y
<1>14. XcmPiece(m, e, Counted(k, w))
  <2>1. IsPiece(m, y, e) /\ Counted(k, w) = IF w = <<>> THEN <<>> ELSE y
    BY <1>11, <1>13 DEF y
  <2> QED BY <1>4, <2>1 DEF XcmPiece
<1> QED BY <1>14 DEF w, k, e

-------------------------------------------------------------------------------
(* The seven pieces of a saved file one behind the other: s[k] is what is   *)
(* left behind the first k.                                                 *)
XcmNames == <<"filename", "size", "emd4", "ed2k", "md5", "sha1", "parts">>
XcmRows(m, w, s) ==
    /\ s[0] = FileConfSave(m) /\ s[7] = <<>> /\ \A k \in 0 .. 7 : s[k] \in Bytes
    /\ \A k \in 1 .. 7 : w[k] \in Bytes /\ s[k - 1] = w[k] \o s[k] /\ XcmPiece(m, XcmNames[k], w[k])

LEMMA PieceBytes ==
    ASSUME NEW m, NEW n, NEW p, XcmPiece(m, n, p)
    PROVE  p \in Bytes
BY NoBytes DEF XcmPiece, IsPiece

RowOf(s, a, b, c, d, e, f, g) ==
    /\ s[0] = a \o b \o c \o d \o e \o f \o g /\ s[7] = <<>>
    /\ \A k \in 0 .. 7 : s[k] \in Bytes
    /\ s[0] = a \o s[1] /\ s[1] = b \o s[2] /\ s[2] = c \o s[3] /\ s[3] = d \o s[4]
    /\ s[4] = e \o s[5] /\ s[5] = f \o s[6] /\ s[6] = g \o s[7]
LEMMA RowOfSeven ==
    ASSUME NEW a \in Bytes, NEW b \in Bytes, NEW c \in Bytes, NEW d \in Bytes, NEW e \in Bytes,
           NEW f \in Bytes, NEW g \in Bytes
    PROVE  \E s : RowOf(s, a, b, c, d, e, f, g)
<1> DEFINE s7 == <<>>
           s6 == g
           s5 == f \o s6
           s4 == e \o s5
           s3 == d \o s4
           s2 == c \o s3
           s1 == b \o s2
           s0 == a \o s1
           s == [k \in 0 .. 7 |-> IF k = 0 THEN s0 ELSE IF k = 1 THEN s1 ELSE IF k = 2 THEN s2
                                  ELSE IF k = 3 THEN s3 ELSE IF k = 4 THEN s4 ELSE IF k = 5 THEN s5
                                  ELSE IF k = 6 THEN s6 ELSE s7]
<1>1. a \o b \o c \o d \o e \o f \o g = s0
  <2>1. Row7(a, b, c, d, e, f, g)
    BY SevenRow
  <2> QED BY <2>1, Zenon DEF Row7
<1>2. s7 \in Bytes /\ s6 \in Bytes /\ s6 = g \o s7
  BY NothingBehind
<1> HIDE DEF s7, s6
<1>3. s5 \in Bytes
  BY <1>2, Closed
<1>4. s5 = f \o s6
  OBVIOUS
<1> HIDE DEF s5
<1>5. s4 \in Bytes
  BY <1>3, Closed
<1>6. s4 = e \o s5
  OBVIOUS
<1> HIDE DEF s4
<1>7. s3 \in Bytes
  BY <1>5, Closed
<1>8. s3 = d \o s4
  OBVIOUS
<1> HIDE DEF s3
<1>9. s2 \in Bytes
  BY <1>7, Closed
<1>10. s2 = c \o s3
  OBVIOUS
<1> HIDE DEF s2
<1>11. s1 \in Bytes
  BY <1>9, Closed
<1>12. s1 = b \o s2
  OBVIOUS
<1> HIDE DEF s1
<1>13. s0 \in Bytes
  BY <1>11, Closed
<1>14. s0 = a \o s1
  OBVIOUS
<1> HIDE DEF s0
<1>15. s[0] = s0 /\ s[1] = s1 /\ s[2] = s2 /\ s[3] = s3 /\ s[4] = s4 /\ s[5] = s5 /\ s[6] = s6
       /\ s[7] = s7
  OBVIOUS
<1>16. \A k \in 0 .. 7 : s[k] \in Bytes
  BY <1>2, <1>3, <1>5, <1>7, <1>9, <1>11, <1>13
<1> HIDE DEF s
<1>17. s7 = <<>>
  BY DEF s7
<1>18. s[0] = a \o s[1] /\ s[1] = b \o s[2] /\ s[2] = c \o s[3] /\ s[3] = d \o s[4]
       /\ s[4] = e \o s[5] /\ s[5] = f \o s[6] /\ s[6] = g \o s[7]
  BY <1>2, <1>4, <1>6, <1>8, <1>10, <1>12, <1>14, <1>15, Zenon
<1>19. s[0] = a \o b \o c \o d \o e \o f \o g /\ s[7] = <<>>
  BY <1>1, <1>15, <1>17, Zenon
<1>20. RowOf(s, a, b, c, d, e, f, g)
  BY <1>16, <1>18, <1>19, Zenon DEF RowOf
<1> QED BY <1>20, Zenon

LEMMA XcmRow ==
    ASSUME NEW m, IsXcm(m)
    PROVE  \E w, s : XcmRows(m, w, s)
<1> DEFINE a == Marked(16, m, "filename")
           p == <<32>>
           v == m.size
           b == p \o v
           c == Marked(48, m, "emd4")
           d == Counted(64, [i \in DOMAIN m.ed2k |-> Sized(m.ed2k[i])])
           e == Marked(80, m, "md5")
           f == Marked(96, m, "sha1")
           g == Counted(112, m.parts)
           w == <<a, b, c, d, e, f, g>>
<1>1. FileConfSave(m) = a \o p \o v \o c \o d \o e \o f \o g
  BY DEF FileConfSave
<1>2. /\ XcmPiece(m, "filename", a) /\ XcmPiece(m, "emd4", c)
      /\ XcmPiece(m, "md5", e) /\ XcmPiece(m, "sha1", f)
  <2>1. \A k \in {16, 48, 80, 96} : XcmPiece(m, Bytes1[k], Marked(k, m, Bytes1[k]))
    BY XcmText
  <2>2. 16 \in {16, 48, 80, 96} /\ 48 \in {16, 48, 80, 96} /\ 80 \in {16, 48, 80, 96}
        /\ 96 \in {16, 48, 80, 96}
    OBVIOUS
  <2> QED BY <2>1, <2>2, ConfTables, Zenon
<1>3. XcmPiece(m, "size", b)
  BY XcmSize
<1>4. XcmPiece(m, "ed2k", d)
  BY XcmHashes
<1>5. XcmPiece(m, "parts", g)
  BY XcmParts
<1>6. p \in Bytes /\ v \in Bytes
  <2>1. v \in Width(8)
    BY DEF IsXcm
  <2>2. 32 \in Nat
    OBVIOUS
  <2> QED BY <2>1, <2>2, Widths, NumOne
<1> HIDE DEF a, p, v, c, d, e, f, g
<1>7. a \o p \o v = a \o b
  <2>1. a \in Bytes
    BY <1>2, PieceBytes
  <2> QED BY <1>6, <2>1, Assoc
<1> HIDE DEF b
<1>8. a \in Bytes /\ b \in Bytes /\ c \in Bytes /\ d \in Bytes /\ e \in Bytes /\ f \in Bytes /\ g \in Bytes
  BY <1>2, <1>3, <1>4, <1>5, PieceBytes
<1>9. FileConfSave(m) = a \o b \o c \o d \o e \o f \o g
  BY <1>1, <1>7, Zenon
<1>20. PICK s : RowOf(s, a, b, c, d, e, f, g)
  BY <1>8, RowOfSeven, Zenon
<1>10. /\ s[0] = a \o b \o c \o d \o e \o f \o g /\ s[7] = <<>>
       /\ \A k \in 0 .. 7 : s[k] \in Bytes
       /\ s[0] = a \o s[1] /\ s[1] = b \o s[2] /\ s[2] = c \o s[3] /\ s[3] = d \o s[4]
       /\ s[4] = e \o s[5] /\ s[5] = f \o s[6] /\ s[6] = g \o s[7]
  BY <1>20, Zenon DEF RowOf
<1>11. w[1] = a /\ w[2] = b /\ w[3] = c /\ w[4] = d /\ w[5] = e /\ w[6] = f /\ w[7] = g
  OBVIOUS
<1> HIDE DEF w
<1> DEFINE N == XcmNames
<1>12. /\ N[1] = "filename" /\ N[2] = "size" /\ N[3] = "emd4" /\ N[4] = "ed2k"
       /\ N[5] = "md5" /\ N[6] = "sha1" /\ N[7] = "parts"
  BY DEF XcmNames
<1> HIDE DEF N
<1> DEFINE Fine(k) == w[k] \in Bytes /\ s[k - 1] = w[k] \o s[k] /\ XcmPiece(m, N[k], w[k])
<1>13. Fine(1) /\ Fine(2) /\ Fine(3) /\ Fine(4) /\ Fine(5) /\ Fine(6) /\ Fine(7)
  <2>1. 1 - 1 = 0 /\ 2 - 1 = 1 /\ 3 - 1 = 2 /\ 4 - 1 = 3 /\ 5 - 1 = 4 /\ 6 - 1 = 5 /\ 7 - 1 = 6
    OBVIOUS
  <2>2. Fine(1) /\ Fine(2)
    BY <1>2, <1>3, <1>8, <1>10, <1>11, <1>12, <2>1, Zenon
  <2>3. Fine(3) /\ Fine(4)
    BY <1>2, <1>4, <1>8, <1>10, <1>11, <1>12, <2>1, Zenon
  <2>4. Fine(5) /\ Fine(6)
    BY <1>2, <1>8, <1>10, <1>11, <1>12, <2>1, Zenon
  <2>5. Fine(7)
    BY <1>5, <1>8, <1>10, <1>11, <1>12, <2>1, Zenon
  <2> QED BY <2>2, <2>3, <2>4, <2>5
<1>14. \A k \in 1 .. 7 : Fine(k)
  <2> HIDE DEF Fine
  <2>1. \A k \in 1 .. 7 : k = 1 \/ k = 2 \/ k = 3 \/ k = 4 \/ k = 5 \/ k = 6 \/ k = 7
    OBVIOUS
  <2> QED BY <1>13, <2>1, Zenon
<1>15. s[0] = FileConfSave(m)
  BY <1>9, <1>10, Zenon
<1> QED BY <1>10, <1>14, <1>15, Zenon DEF XcmRows, N

-------------------------------------------------------------------------------
(* The read of a saved file: behind each piece every field up to it is told *)
(* and nothing is told wrong.                                               *)
ToldTo(m, g, k) ==
    \A j \in 1 .. k : Saved(m, XcmNames[j]) =>
        XcmNames[j] \in DOMAIN g /\ Right(m, XcmNames[j], g[XcmNames[j]])
OnlyTold(m, g) == \A f \in DOMAIN g \ Passing : Right(m, f, g[f])
StandsAt(m, s, k, d) == \E g : d = Cursor(s[k], g) /\ ToldTo(m, g, k) /\ OnlyTold(m, g)
Stands(m, s, d) == \E k \in 0 .. 7 : StandsAt(m, s, k, d)

LEMMA XcmNamesAre == \A k \in 1 .. 7 : XcmNames[k] \notin Passing
BY DEF XcmNames, Passing

LEMMA PieceNotEmpty ==
    ASSUME NEW m, NEW n, NEW p, XcmPiece(m, n, p), Saved(m, n)
    PROVE  p # <<>> /\ IsPiece(m, p, n)
<1>1. IsPiece(m, p, n)
  BY DEF XcmPiece
<1>2. Len(p) > 0
  BY <1>1 DEF IsPiece
<1>3. p # <<>>
  <2> SUFFICES ASSUME p = <<>> PROVE FALSE
    OBVIOUS
  <2> QED BY <1>2, NoBytes
<1> QED BY <1>1, <1>3

RowStep(m, w, s, j) ==
    /\ s[j - 1] = w[j] \o s[j] /\ XcmPiece(m, XcmNames[j], w[j])
    /\ s[j] \in Bytes /\ w[j] \in Bytes
LEMMA RowAt ==
    ASSUME NEW m, NEW w, NEW s, XcmRows(m, w, s)
    PROVE  \A j \in 1 .. 7 : RowStep(m, w, s, j)
<1> SUFFICES ASSUME NEW j \in 1 .. 7 PROVE RowStep(m, w, s, j)
  OBVIOUS
<1>1. j \in 0 .. 7
  OBVIOUS
<1> QED BY <1>1, Zenon DEF XcmRows, RowStep

(* From where the read stands the next piece that is there begins, or none. *)
LEMMA NextPiece ==
    ASSUME NEW m, NEW w, NEW s, XcmRows(m, w, s), NEW d, NEW k \in 0 .. 7, StandsAt(m, s, k, d)
    PROVE  \/ StandsAt(m, s, 7, d)
           \/ \E j \in 1 .. 7 : StandsAt(m, s, j - 1, d) /\ Saved(m, XcmNames[j])
<1> SUFFICES ASSUME \A j \in 1 .. 7 : StandsAt(m, s, j - 1, d) => ~Saved(m, XcmNames[j])
             PROVE  StandsAt(m, s, 7, d)
  OBVIOUS
<1> DEFINE n == 7 - k
           S == { i \in 0 .. n : StandsAt(m, s, k + i, d) }
<1>1. n \in Nat /\ k + n = 7 /\ k + 0 = k
  OBVIOUS
<1>2. ASSUME NEW j \in 1 .. 7, StandsAt(m, s, j - 1, d) PROVE StandsAt(m, s, j, d)
  <2>1. PICK g : d = Cursor(s[j - 1], g) /\ ToldTo(m, g, j - 1) /\ OnlyTold(m, g)
    BY <1>2 DEF StandsAt
  <2>2. ~Saved(m, XcmNames[j])
    BY <1>2
  <2>3. s[j - 1] = w[j] \o s[j] /\ XcmPiece(m, XcmNames[j], w[j]) /\ s[j] \in Bytes
    <3>1. RowStep(m, w, s, j)
      BY RowAt
    <3> QED BY <3>1 DEF RowStep
  <2>4. w[j] = <<>>
    BY <2>2, <2>3 DEF XcmPiece
  <2>5. s[j - 1] = s[j]
    <3>1. <<>> \o s[j] = s[j]
      BY <2>3, NothingBehind
    <3> QED BY <2>3, <2>4, <3>1
  <2>6. ToldTo(m, g, j)
    <3>1. \A i \in 1 .. j : i = j \/ i \in 1 .. j - 1
      OBVIOUS
    <3> QED BY <2>1, <2>2, <3>1 DEF ToldTo
  <2>7. d = Cursor(s[j], g)
    BY <2>1, <2>5, Zenon
  <2> QED BY <2>1, <2>6, <2>7 DEF StandsAt
<1>3. 0 \in S
  BY <1>1
<1>4. ASSUME NEW i \in 1 .. n, i - 1 \in S PROVE i \in S
  <2> DEFINE j == k + i
  <2>1. j \in 1 .. 7 /\ j - 1 = k + (i - 1) /\ i \in 0 .. n
    OBVIOUS
  <2>2. StandsAt(m, s, k + (i - 1), d)
    BY <1>4
  <2> HIDE DEF j
  <2>3. StandsAt(m, s, j, d)
    BY <1>2, <2>1, <2>2
  <2> QED BY <2>1, <2>3 DEF j
<1>5. \A i \in 0 .. n : i \in S
  <2> HIDE DEF S, n
  <2> QED BY <1>1, <1>3, <1>4, UpTo
<1>6. n \in S
  <2> HIDE DEF S
  <2> QED BY <1>1, <1>5
<1>7. StandsAt(m, s, k + n, d)
  <2> HIDE DEF n
  <2> QED BY <1>6
<1> QED BY <1>1, <1>7

(* A pass reads the piece.                                                  *)
LEMMA PassStands ==
    ASSUME NEW m, NEW w, NEW s, XcmRows(m, w, s), NEW d, NEW j \in 1 .. 7,
           StandsAt(m, s, j - 1, d), Saved(m, XcmNames[j])
    PROVE  /\ StandsAt(m, s, j, ConfPass(d)) /\ d.rest # <<>>
           /\ Len(ConfPass(d).rest) < Len(d.rest)
<1> DEFINE n == XcmNames[j]
           p == w[j]
           z == s[j]
<1>1. s[j - 1] = p \o z /\ XcmPiece(m, n, p) /\ z \in Bytes /\ p \in Bytes
  <2>1. RowStep(m, w, s, j)
    BY RowAt
  <2> QED BY <2>1 DEF RowStep
<1>2. n \notin Passing
  BY XcmNamesAre
<1>3. Saved(m, n)
  OBVIOUS
<1>4. PICK g : d = Cursor(s[j - 1], g) /\ ToldTo(m, g, j - 1) /\ OnlyTold(m, g)
  BY DEF StandsAt
<1> HIDE DEF p
<1>5. IsPiece(m, p, n)
  <2> HIDE DEF n
  <2> QED BY <1>1, <1>3, PieceNotEmpty
<1>6. ConfReads(m, p, n, z)
  <2> HIDE DEF n, z
  <2> QED BY <1>1, <1>5 DEF IsPiece
<1>7. PICK h : ConfPass(Cursor(p \o z, g)) = Cursor(z, h) /\ Gives(m, g, h, n)
  <2> HIDE DEF n, z
  <2> QED BY <1>6, Zenon DEF ConfReads
<1>8. d = Cursor(p \o z, g)
  BY <1>1, <1>4, Zenon
<1>9. ConfPass(d) = Cursor(z, h)
  BY <1>7, <1>8, Zenon
<1>10. ConfPass(d).rest = z /\ d.rest = p \o z
  BY <1>8, <1>9, CursorIs
<1>11. Len(p \o z) = Len(p) + Len(z) /\ Len(p) > 0 /\ Len(p) \in Nat /\ Len(z) \in Nat
  <2> HIDE DEF n, z
  <2> QED BY <1>1, <1>5, CutOf, LenProperties DEF IsPiece, Bytes
<1>12. Len(z) < Len(p \o z) /\ p \o z # <<>>
  <2> DEFINE y == p \o z
  <2>1. Len(y) = Len(p) + Len(z)
    BY <1>11
  <2> HIDE DEF y, z
  <2>2. Len(z) < Len(y) /\ Len(y) > 0
    BY <1>11, <2>1
  <2>3. y # <<>>
    BY <2>2, NoBytes
  <2> QED BY <2>2, <2>3 DEF y
<1>13. OnlyTold(m, h)
  <2> SUFFICES ASSUME NEW f \in DOMAIN h, f \notin Passing PROVE Right(m, f, h[f])
    BY DEF OnlyTold
  <2> HIDE DEF n
  <2>1. CASE f = n
    BY <1>7, <2>1 DEF Gives
  <2>2. CASE f # n
    <3>1. f \in DOMAIN g /\ h[f] = g[f]
      BY <1>7, <2>2 DEF Gives
    <3> QED BY <1>4, <3>1 DEF OnlyTold
  <2> QED BY <2>1, <2>2
<1>14. ToldTo(m, h, j)
  <2> SUFFICES ASSUME NEW i \in 1 .. j, Saved(m, XcmNames[i])
               PROVE  XcmNames[i] \in DOMAIN h /\ Right(m, XcmNames[i], h[XcmNames[i]])
    BY DEF ToldTo
  <2> DEFINE f == XcmNames[i]
  <2>1. f \notin Passing
    BY XcmNamesAre
  <2>2. f = n \/ i \in 1 .. j - 1
    OBVIOUS
  <2>3. i \in 1 .. j - 1 => f \in DOMAIN g /\ Right(m, f, g[f])
    BY <1>4 DEF ToldTo
  <2> HIDE DEF f, n
  <2>4. CASE f = n
    <3>1. f \in DOMAIN h /\ Right(m, f, h[f])
      BY <1>7, <2>4 DEF Gives
    <3> QED BY <3>1 DEF f
  <2>5. CASE f # n
    <3>1. f \in DOMAIN g /\ Right(m, f, g[f])
      BY <2>2, <2>3, <2>5
    <3>2. f \in DOMAIN h /\ h[f] = g[f]
      BY <1>7, <2>1, <2>5, <3>1 DEF Gives
    <3>3. f \in DOMAIN h /\ Right(m, f, h[f])
      BY <3>1, <3>2
    <3> QED BY <3>3 DEF f
  <2> QED BY <2>4, <2>5
<1>15. StandsAt(m, s, j, ConfPass(d))
  BY <1>9, <1>13, <1>14 DEF StandsAt
<1> QED BY <1>10, <1>12, <1>15

LEMMA ConfStep ==
    ASSUME NEW m, NEW w, NEW s, XcmRows(m, w, s), NEW d, Stands(m, s, d)
    PROVE  /\ Stands(m, s, ConfPass(d)) /\ d.ok
           /\ d.rest # <<>> => Len(ConfPass(d).rest) < Len(d.rest)
           /\ d.rest = <<>> => ConfPass(d) = d /\ StandsAt(m, s, 7, d)
<1>1. PICK k \in 0 .. 7 : StandsAt(m, s, k, d)
  BY DEF Stands
<1>2. d.ok
  BY <1>1, CursorIs DEF StandsAt
<1>3. d.rest = <<>> => ConfPass(d) = d
  BY DEF ConfPass
<1>4. CASE StandsAt(m, s, 7, d)
  <2>1. s[7] = <<>>
    BY DEF XcmRows
  <2>2. d.rest = <<>>
    BY <1>4, <2>1, CursorIs DEF StandsAt
  <2> QED BY <1>2, <1>3, <1>4, <2>2
<1>5. CASE \E j \in 1 .. 7 : StandsAt(m, s, j - 1, d) /\ Saved(m, XcmNames[j])
  <2>1. PICK j \in 1 .. 7 : StandsAt(m, s, j - 1, d) /\ Saved(m, XcmNames[j])
    BY <1>5
  <2>2. StandsAt(m, s, j, ConfPass(d)) /\ d.rest # <<>> /\ Len(ConfPass(d).rest) < Len(d.rest)
    BY <2>1, PassStands
  <2>3. j \in 0 .. 7
    OBVIOUS
  <2> QED BY <1>2, <2>2, <2>3 DEF Stands
<1> QED BY <1>1, <1>4, <1>5, NextPiece

-------------------------------------------------------------------------------
(* The whole of a saved file, and what a cut one says.                      *)
LEMMA RunsOut ==
    ASSUME NEW m, NEW w, NEW s, XcmRows(m, w, s), NEW r, ConfRun(r, Cursor(s[0], <<>>), Len(s[0]))
    PROVE  StandsAt(m, s, 7, r[Len(s[0])])
<1> DEFINE N == Len(s[0])
           a == Cursor(s[0], <<>>)
           Far(i) == Stands(m, s, r[i]) /\ (r[i].rest = <<>> \/ Len(r[i].rest) + i <= N)
           S == { i \in 0 .. N : Far(i) }
<1>1. s[0] \in Bytes
  <2>1. 0 \in 0 .. 7
    OBVIOUS
  <2> QED BY <2>1, Zenon DEF XcmRows
<1>2. N \in Nat
  BY <1>1, LenProperties DEF Bytes
<1>3. Stands(m, s, a)
  <2> DEFINE o == <<>>
  <2>1. DOMAIN o = {}
    OBVIOUS
  <2> HIDE DEF o
  <2>2. ToldTo(m, o, 0) /\ OnlyTold(m, o)
    BY <2>1 DEF ToldTo, OnlyTold
  <2>3. a = Cursor(s[0], o)
    BY DEF o
  <2> HIDE DEF a
  <2>4. StandsAt(m, s, 0, a)
    BY <2>2, <2>3 DEF StandsAt
  <2>5. 0 \in 0 .. 7
    OBVIOUS
  <2> QED BY <2>4, <2>5 DEF Stands
<1>4. r[0] = a /\ \A k \in 1 .. N : r[k] = (IF r[k - 1].ok THEN ConfPass(r[k - 1]) ELSE r[k - 1])
  BY DEF ConfRun
<1>5. Far(0)
  <2>1. a.rest = s[0]
    BY CursorIs
  <2> HIDE DEF a
  <2> QED BY <1>2, <1>3, <1>4, <2>1
<1> HIDE DEF a
<1>6. \A k \in 0 .. 7 : s[k] \in Bytes
  BY Zenon DEF XcmRows
<1>7. \A d : Stands(m, s, d) => d.rest \in Bytes
  <2> SUFFICES ASSUME NEW d, Stands(m, s, d) PROVE d.rest \in Bytes
    OBVIOUS
  <2>1. PICK k \in 0 .. 7 : StandsAt(m, s, k, d)
    BY DEF Stands
  <2>2. d.rest = s[k]
    BY <2>1, CursorIs DEF StandsAt
  <2> QED BY <1>6, <2>2
<1>8. ASSUME NEW k \in 1 .. N, Far(k - 1) PROVE Far(k)
  <2> DEFINE d == r[k - 1]
             e == r[k]
  <2>1. Stands(m, s, d) /\ (d.rest = <<>> \/ Len(d.rest) + (k - 1) <= N)
    BY <1>8
  <2>2. e = IF d.ok THEN ConfPass(d) ELSE d
    BY <1>4
  <2> HIDE DEF d, e
  <2>3. /\ Stands(m, s, ConfPass(d)) /\ d.ok
        /\ d.rest # <<>> => Len(ConfPass(d).rest) < Len(d.rest)
        /\ d.rest = <<>> => ConfPass(d) = d /\ StandsAt(m, s, 7, d)
    BY <2>1, ConfStep
  <2>4. e = ConfPass(d)
    BY <2>2, <2>3
  <2>5. Stands(m, s, e)
    BY <2>3, <2>4
  <2>6. Len(e.rest) \in Nat /\ Len(d.rest) \in Nat
    BY <1>7, <2>1, <2>5, LenProperties DEF Bytes
  <2>7. e.rest = <<>> \/ Len(e.rest) + k <= N
    <3>1. CASE d.rest = <<>>
      BY <2>3, <2>4, <3>1
    <3>2. CASE d.rest # <<>>
      <4>1. Len(e.rest) < Len(d.rest) /\ Len(d.rest) + (k - 1) <= N
        BY <2>1, <2>3, <2>4, <3>2
      <4> HIDE DEF N
      <4> QED BY <1>2, <2>6, <4>1
    <3> QED BY <3>1, <3>2
  <2> QED BY <2>5, <2>7 DEF e
<1>9. N \in S
  <2> HIDE DEF Far, N
  <2>1. 0 \in S /\ \A k \in 1 .. N : k - 1 \in S => k \in S
    BY <1>2, <1>5, <1>8
  <2>2. \A k \in 0 .. N : k \in S
    <3> HIDE DEF S
    <3> QED BY <1>2, <2>1, UpTo
  <2> QED BY <1>2, <2>2
<1> DEFINE d == r[N]
<1>10. Stands(m, s, d) /\ (d.rest = <<>> \/ Len(d.rest) + N <= N)
  BY <1>9
<1> HIDE DEF d
<1>11. d.rest = <<>>
  <2>1. d.rest \in Bytes
    BY <1>7, <1>10
  <2> DEFINE y == d.rest
  <2>2. Len(y) \in Nat
    BY <2>1, LenProperties DEF Bytes
  <2>3. Len(y) = 0 => y = <<>>
    BY <2>1 DEF Bytes
  <2>4. y = <<>> \/ Len(y) + N <= N
    BY <1>10
  <2> HIDE DEF y, N
  <2>5. y = <<>>
    BY <1>2, <2>2, <2>3, <2>4
  <2> QED BY <2>5 DEF y
<1>12. StandsAt(m, s, 7, d)
  BY <1>10, <1>11, ConfStep
<1> QED BY <1>12 DEF d, N

LEMMA XcmRead ==
    ASSUME NEW m, NEW w, NEW s, XcmRows(m, w, s)
    PROVE  StandsAt(m, s, 7, FileConfRead(s[0]))
<1> DEFINE y == s[0]
<1>1. y \in Bytes
  <2>1. 0 \in 0 .. 7
    OBVIOUS
  <2> QED BY <2>1, Zenon DEF XcmRows
<1>2. Len(y) \in Nat
  BY <1>1, LenProperties DEF Bytes
<1>3. FileConfRead(y) = ConfTimes(Cursor(y, <<>>), Len(y))
  BY ConfReadIs
<1>4. PICK r : ConfRun(r, Cursor(y, <<>>), Len(y)) /\ ConfTimes(Cursor(y, <<>>), Len(y)) = r[Len(y)]
  <2> HIDE DEF y
  <2> QED BY <1>2, ConfRuns
<1>5. StandsAt(m, s, 7, r[Len(y)])
  BY <1>4, RunsOut
<1> QED BY <1>3, <1>4, <1>5

(* The read of the first bytes of a saved file stands where the read of the *)
(* whole has stood.                                                         *)
StandsOn(m, s, e, x) == e.ok => \E d : Stands(m, s, d) /\ Carries(e, d, x)
LEMMA CutStep ==
    ASSUME NEW m, NEW w, NEW s, XcmRows(m, w, s), NEW x \in Bytes, NEW e, StandsOn(m, s, e, x),
           e.ok
    PROVE  StandsOn(m, s, ConfPass(e), x)
<1>1. PICK d : Stands(m, s, d) /\ Carries(e, d, x)
  BY DEF StandsOn
<1>2. CASE e.rest = <<>>
  <2>1. ConfPass(e) = e
    BY <1>2 DEF ConfPass
  <2> QED BY <2>1
<1>3. CASE e.rest # <<>>
  <2>1. d.rest = e.rest \o x /\ e.rest \in Bytes
    BY <1>1, LongerOk
  <2> DEFINE y == e.rest
  <2>2. y \in Bytes /\ y # <<>>
    BY <1>3, <2>1
  <2>3. Len(y) \in Nat /\ Len(y) # 0
    BY <2>2, LenProperties, EmptySeq DEF Bytes
  <2> HIDE DEF y
  <2>4. Len(y \o x) = Len(y) + Len(x) /\ Len(x) \in Nat
    BY <2>2, CutOf, LenProperties DEF Bytes
  <2> DEFINE z == y \o x
  <2>5. Len(z) > 0
    BY <2>3, <2>4
  <2> HIDE DEF z
  <2>6. z # <<>>
    BY <2>5, NoBytes
  <2>7. d.rest # <<>>
    BY <2>1, <2>6 DEF z, y
  <2>8. Carries(ConfPass(e), ConfPass(d), x)
    BY <1>1, <1>3, <2>7, ConfPassCarries
  <2>9. Stands(m, s, ConfPass(d))
    BY <1>1, ConfStep
  <2> QED BY <2>8, <2>9 DEF StandsOn
<1> QED BY <1>2, <1>3

LEMMA CutRun ==
    ASSUME NEW m, NEW w, NEW s, XcmRows(m, w, s), NEW a \in Bytes, NEW x \in Bytes, s[0] = a \o x
    PROVE  StandsOn(m, s, FileConfRead(a), x)
<1> DEFINE n == Len(a)
           b == Cursor(a, <<>>)
<1>1. n \in Nat
  BY LenProperties DEF Bytes
<1>2. FileConfRead(a) = ConfTimes(b, n)
  BY ConfReadIs
<1>3. StandsOn(m, s, b, x)
  <2> DEFINE o == <<>>
             d == Cursor(a \o x, o)
  <2>1. DOMAIN o = {} /\ IsFields(o)
    BY Unnamed
  <2> HIDE DEF o
  <2>2. ToldTo(m, o, 0) /\ OnlyTold(m, o)
    BY <2>1 DEF ToldTo, OnlyTold
  <2>3. Carries(Cursor(a, o), d, x)
    BY <2>1, MadeCarries
  <2>4. d = Cursor(s[0], o)
    OBVIOUS
  <2> HIDE DEF d
  <2>5. StandsAt(m, s, 0, d)
    BY <2>2, <2>4 DEF StandsAt
  <2>6. 0 \in 0 .. 7
    OBVIOUS
  <2>7. Stands(m, s, d)
    BY <2>5, <2>6 DEF Stands
  <2>8. b = Cursor(a, o)
    BY DEF o
  <2>9. Carries(b, d, x)
    BY <2>3, <2>8
  <2> QED BY <2>7, <2>9 DEF StandsOn
<1> HIDE DEF b, n
<1>4. PICK r : ConfRun(r, b, n) /\ ConfTimes(b, n) = r[n]
  BY <1>1, ConfRuns
<1>5. r[0] = b /\ \A k \in 1 .. n : r[k] = (IF r[k - 1].ok THEN ConfPass(r[k - 1]) ELSE r[k - 1])
  BY <1>4 DEF ConfRun
<1> DEFINE S == { k \in 0 .. n : StandsOn(m, s, r[k], x) }
<1>6. ASSUME NEW k \in 1 .. n, StandsOn(m, s, r[k - 1], x) PROVE StandsOn(m, s, r[k], x)
  <2> DEFINE e == r[k - 1]
  <2>1. r[k] = IF e.ok THEN ConfPass(e) ELSE e
    BY <1>5
  <2>2. StandsOn(m, s, e, x)
    BY <1>6
  <2> HIDE DEF e
  <2>3. CASE e.ok
    BY <2>1, <2>2, <2>3, CutStep
  <2>4. CASE ~e.ok
    BY <2>1, <2>2, <2>4
  <2> QED BY <2>3, <2>4
<1>7. \A k \in 0 .. n : k \in S
  <2>1. 0 \in S /\ \A k \in 1 .. n : k - 1 \in S => k \in S
    BY <1>1, <1>3, <1>5, <1>6
  <2> HIDE DEF S
  <2> QED BY <1>1, <2>1, UpTo
<1>8. StandsOn(m, s, r[n], x)
  BY <1>1, <1>7
<1> QED BY <1>2, <1>4, <1>8

SavedWhole(m, data) ==
    \A n \in 0 .. Len(data) - 1 :
        LET cut == FileConfRead(SubSeq(data, 1, n)) IN cut.ok => SavedOnly(cut, m)
LEMMA SavedIsRight ==
    ASSUME NEW m, NEW d, OnlyTold(m, d.m)
    PROVE  SavedOnly(d, m)
BY DEF OnlyTold, SavedOnly, ListOf, Right, Passing

LEMMA XcmCut ==
    ASSUME NEW m, IsXcm(m)
    PROVE  SavedWhole(m, FileConfSave(m))
<1>1. PICK w, s : XcmRows(m, w, s)
  BY XcmRow
<1> DEFINE y == s[0]
<1>2. y \in Bytes /\ y = FileConfSave(m)
  <2>1. 0 \in 0 .. 7
    OBVIOUS
  <2> QED BY <1>1, <2>1, Zenon DEF XcmRows
<1>3. ASSUME NEW n \in 0 .. Len(y) - 1, FileConfRead(SubSeq(y, 1, n)).ok
      PROVE  SavedOnly(FileConfRead(SubSeq(y, 1, n)), m)
  <2>1. PICK a \in Bytes, x \in Bytes : y = a \o x /\ SubSeq(y, 1, n) = a
    BY <1>2, <1>3, CutInTwo
  <2> DEFINE e == FileConfRead(a)
  <2>2. StandsOn(m, s, e, x)
    BY <1>1, <2>1, CutRun
  <2>3. e.ok
    BY <1>3, <2>1
  <2> HIDE DEF e
  <2>4. PICK d : Stands(m, s, d) /\ Carries(e, d, x)
    BY <2>2, <2>3 DEF StandsOn
  <2>5. d.m = e.m
    BY <2>3, <2>4, LongerOk
  <2>6. OnlyTold(m, d.m)
    <3>1. PICK k \in 0 .. 7 : StandsAt(m, s, k, d)
      BY <2>4 DEF Stands
    <3> QED BY <3>1, CursorIs DEF StandsAt
  <2>7. SavedOnly(e, m)
    BY <2>5, <2>6, SavedIsRight
  <2> QED BY <2>1, <2>7 DEF e
<1> HIDE DEF y
<1>4. SavedWhole(m, y)
  BY <1>3 DEF SavedWhole
<1> QED BY <1>2, <1>4

LEMMA XcmToldAll ==
    ASSUME NEW m, IsXcm(m), NEW d, ToldTo(m, d.m, 7)
    PROVE  Reads(d, m)
<1>1. m.kind = "XCM"
  BY DEF IsXcm
<1> DEFINE N == XcmNames
<1>2. /\ N[1] = "filename" /\ N[2] = "size" /\ N[3] = "emd4" /\ N[4] = "ed2k"
      /\ N[5] = "md5" /\ N[6] = "sha1" /\ N[7] = "parts"
  BY DEF XcmNames
<1>3. \A j \in 1 .. 7 : Saved(m, N[j]) => N[j] \in DOMAIN d.m /\ Right(m, N[j], d.m[N[j]])
  BY Zenon DEF ToldTo
<1> HIDE DEF N
<1>4. 1 \in 1 .. 7 /\ 2 \in 1 .. 7 /\ 3 \in 1 .. 7 /\ 4 \in 1 .. 7 /\ 5 \in 1 .. 7 /\ 6 \in 1 .. 7
      /\ 7 \in 1 .. 7
  OBVIOUS
<1> DEFINE Says(n) == Saved(m, n) => n \in DOMAIN d.m /\ Right(m, n, d.m[n])
<1>5. Says("filename") /\ Says("size") /\ Says("emd4") /\ Says("ed2k") /\ Says("md5") /\ Says("sha1")
      /\ Says("parts")
  BY <1>2, <1>3, <1>4, Zenon
<1>6. ASSUME NEW f \in DOMAIN m \ {"kind", "ed2k", "parts"} PROVE f \in DOMAIN d.m /\ d.m[f] = m[f]
  <2>1. f \in {"filename", "size", "emd4", "md5", "sha1"}
    BY DEF IsXcm
  <2>2. Saved(m, f)
    BY <2>1 DEF Saved
  <2>3. Says(f)
    <3> HIDE DEF Says
    <3> QED BY <1>5, <2>1
  <2>4. f \in DOMAIN d.m /\ Right(m, f, d.m[f])
    BY <2>2, <2>3
  <2> QED BY <2>1, <2>4 DEF Right
<1>7. m.ed2k # <<>> => ListOf(d, "ed2k", "hash") = m.ed2k
  <2> SUFFICES ASSUME m.ed2k # <<>> PROVE ListOf(d, "ed2k", "hash") = m.ed2k
    OBVIOUS
  <2>1. Saved(m, "ed2k")
    BY DEF Saved
  <2>2. Right(m, "ed2k", d.m["ed2k"])
    BY <1>5, <2>1
  <2> QED BY <2>2 DEF Right, ListOf
<1>8. m.parts # <<>> => ListOf(d, "parts", "at") = m.parts
  <2> SUFFICES ASSUME m.parts # <<>> PROVE ListOf(d, "parts", "at") = m.parts
    OBVIOUS
  <2>1. Saved(m, "parts")
    BY DEF Saved
  <2>2. Right(m, "parts", d.m["parts"])
    BY <1>5, <2>1
  <2> QED BY <2>2 DEF Right, ListOf
<1>9. Find(d, m, DOMAIN m \ {"kind", "ed2k", "parts"})
  BY <1>6 DEF Find
<1> QED BY <1>1, <1>7, <1>8, <1>9 DEF Reads

LEMMA XcmRestored ==
    ASSUME NEW m, IsXcm(m)
    PROVE  Restored(m) /\ WrittenBy(m) = FileConfSave(m)
<1>1. m.kind = "XCM"
  BY DEF IsXcm
<1>2. WrittenBy(m) = FileConfSave(m)
  BY <1>1 DEF WrittenBy
<1>3. \A data : ReadThere(m, data) = FileConfRead(data)
  BY <1>1 DEF ReadThere, AtServer, OwnParse, OfNodes, Agreed, Uneven
<1>4. PICK w, s : XcmRows(m, w, s)
  BY XcmRow
<1> DEFINE d == FileConfRead(s[0])
<1>5. s[0] = FileConfSave(m) /\ s[7] = <<>>
  BY <1>4, Zenon DEF XcmRows
<1>6. StandsAt(m, s, 7, d)
  BY <1>4, XcmRead
<1> HIDE DEF d
<1>7. PICK g : d = Cursor(s[7], g) /\ ToldTo(m, g, 7)
  BY <1>6 DEF StandsAt
<1>8. d.ok /\ d.rest = <<>> /\ d.m = g
  BY <1>5, <1>7, CursorIs
<1>9. Reads(d, m)
  BY <1>7, <1>8, XcmToldAll
<1>10. ReadThere(m, WrittenBy(m)) = d
  BY <1>2, <1>3, <1>5 DEF d
<1>11. Restored(m)
  BY <1>8, <1>9, <1>10, Zenon DEF Restored
<1> QED BY <1>2, <1>11

(* Which messages those are that the program's own classes read.            *)
LEMMA OwnKindIs ==
    ASSUME NEW m \in Sent, m.kind \in (OwnParse \cup AtServer \cup {"XCM"}) \ {"GETSOURCES_OBFU"}
    PROVE  \/ m \in OwnKinds \/ m \in Logins \/ m \in [kind : {"CALLBACKREQUEST"}, cid : Width(4)]
           \/ IsXcm(m)
<1>1. \/ m \in ClientKinds \/ m \in OwnKinds \/ m \in NodeKinds
      \/ m \in TypedKinds \/ IsAnswer(m) \/ IsXcm(m)
  BY LinkAssumption
<1>2. m.kind \in {"SERVERMESSAGE", "IDCHANGE", "SERVERSTATUS", "FOUNDSOURCES_OBFU",
                  "CALLBACKREQUESTED", "SENDINGPART", "LOGINREQUEST", "CALLBACKREQUEST", "XCM"}
  BY DEF OwnParse, AtServer
<1>3. m \notin NodeKinds
  BY <1>2 DEF NodeKinds
<1>4. m \notin TypedKinds
  BY <1>2 DEF TypedKinds
<1>5. ~IsAnswer(m)
  BY <1>2 DEF IsAnswer
<1>6. CASE m \in ClientKinds
  <2>1. m \in Logins \/ m \in [kind : {"CALLBACKREQUEST"}, cid : Width(4)]
    BY <1>2, <1>6 DEF ClientKinds, Logins
  <2> QED BY <2>1
<1> QED BY <1>1, <1>3, <1>4, <1>5, <1>6

(* A block that was written and not read back, set(16) making no hash.      *)
UnsetSent ==
    /\ ~LengthSets /\ link.way = "out" /\ ~got.ok
    /\ link.m.kind = "SENDINGPART"

LEMMA UnsetBlock ==
    ASSUME ~LengthSets, NEW m \in OwnKinds, m.kind = "SENDINGPART"
    PROVE  ~ReadThere(m, WrittenBy(m)).ok
<1>1. m \in SendingParts
  BY DEF OwnKinds, ServerKinds
<1>2. WrittenBy(m) = Documented(m)
  <2>1. WrittenBy(m) = Written(m)
    BY DEF WrittenBy, OfNodes, Agreed, Uneven
  <2>2. Written(m) = SendingPartEncode(m)
    BY DEF Written
  <2> QED BY <1>1, <2>1, <2>2, PartDocumented
<1>3. Packet(m, FALSE) = Documented(m)
  BY DEF Packet
<1>4. ReadThere(m, Documented(m)) = Parsed(Documented(m), FALSE)
  BY DEF ReadThere, OwnParse, AtServer, OfNodes, Agreed, Uneven
<1>5. m \in Receivable
  BY <1>1 DEF Receivable
<1>6. ~Parsed(Packet(m, FALSE), FALSE).ok
  BY <1>5, UnsetRefused
<1> QED BY <1>2, <1>3, <1>4, <1>6, Zenon

(* What a class of the program writes its own parse reads back whole, and a *)
(* saved .xcm that was cut is refused or read with fields missing and none  *)
(* changed, however long the lists and whatever the texts, of a login those *)
(* that fit the buffer of its parse.  As the program is compiled, where     *)
(* set(16) makes no hash, a block is the one message that throws.           *)
THEOREM AlwaysReadBack == Spec => [](UnsetSent \/ ReadBack)
<1>1. OnTheWire => UnsetSent \/ ReadBack
  <2> SUFFICES ASSUME OnTheWire, link.way = "out",
                      link.m.kind \in (OwnParse \cup AtServer \cup {"XCM"}) \ {"GETSOURCES_OBFU"}
               PROVE  \/ UnsetSent
                      \/ /\ got.ok /\ got.rest = <<>> /\ Reads(got, link.m)
                         /\ link.m.kind = "XCM" => SavedWhole(link.m, link.data)
    BY DEF ReadBack, SavedWhole
  <2> DEFINE m == link.m
  <2>1. m \in Sent /\ link.data = WrittenBy(m) /\ got = ReadThere(m, WrittenBy(m))
    BY DEF OnTheWire
  <2>2. m.kind \in (OwnParse \cup AtServer \cup {"XCM"}) \ {"GETSOURCES_OBFU"}
    OBVIOUS
  <2>0. link.way = "out" /\ link.m = m
    OBVIOUS
  <2> HIDE DEF m
  <2>3. \/ m \in OwnKinds \/ m \in Logins \/ m \in [kind : {"CALLBACKREQUEST"}, cid : Width(4)]
        \/ IsXcm(m)
    BY <2>1, <2>2, OwnKindIs
  <2>4. CASE LengthSets \/ m.kind # "SENDINGPART"
    <3>1. Restored(m)
      BY <2>3, <2>4, OwnKindsRestored, LoginRestored, CallbackRestored, XcmRestored
    <3>2. got.ok /\ got.rest = <<>> /\ Reads(got, m)
      BY <2>1, <3>1, Zenon DEF Restored
    <3>3. m.kind = "XCM" => SavedWhole(m, link.data)
      <4> SUFFICES ASSUME m.kind = "XCM" PROVE SavedWhole(m, link.data)
        OBVIOUS
      <4>1. m \notin OwnKinds
        BY DEF OwnKinds, ServerKinds, SendingParts
      <4>2. m \notin Logins /\ m \notin [kind : {"CALLBACKREQUEST"}, cid : Width(4)]
        BY DEF Logins
      <4>3. IsXcm(m)
        BY <2>3, <4>1, <4>2
      <4>4. SavedWhole(m, FileConfSave(m)) /\ WrittenBy(m) = FileConfSave(m)
        BY <4>3, XcmCut, XcmRestored
      <4> QED BY <2>1, <4>4, Zenon
    <3> QED BY <2>0, <3>2, <3>3
  <2>5. CASE ~LengthSets /\ m.kind = "SENDINGPART"
    <3>1. m \in OwnKinds
      <4>1. m \notin Logins /\ m \notin [kind : {"CALLBACKREQUEST"}, cid : Width(4)] /\ ~IsXcm(m)
        BY <2>5 DEF Logins, IsXcm
      <4> QED BY <2>3, <4>1
    <3>2. ~ReadThere(m, WrittenBy(m)).ok
      BY <2>5, <3>1, UnsetBlock
    <3> QED BY <2>0, <2>1, <2>5, <3>2 DEF UnsetSent
  <2> QED BY <2>4, <2>5
<1> QED BY <1>1, WireAlways, PTL
=============================================================================
