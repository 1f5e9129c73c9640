---------------------------- MODULE KadxMessages ----------------------------
(***************************************************************************)
(* The messages between the nodes of the program itself,                   *)
(* src/protocol/kadx_protocol.cpp, and the files of an answer, FData_ of   *)
(* src/fs/fs.cpp.  A node is known by a uid of 20 bytes, its question by a *)
(* tid, and a hash travels with its type.  SearchBack_::encode is not      *)
(* here: its loop has no end.                                              *)
(***************************************************************************)
EXTENDS Messages

Opx == [ LOGIN |-> 16, LOGIN_BACK |-> 17, SEARCH |-> 20, SEARCH_BACK |-> 21,
         SEARCH_BC |-> 22, SSRC |-> 24, FSRC |-> 25, CALLBACK |-> 27, HOLE |-> 32,
         HOLE_CALLBACK |-> 33, HOLING |-> 35, FILE_STATUS |-> 48,
         FILE_STATUS_BACK |-> 49, FILE_PART |-> 50, FILE_PROC |-> 51 ]

(* EMD4, MD5 and SHA1 with their lengths.                                   *)
HashLength == [type \in {1, 2, 4} |-> IF type = 4 THEN 20 ELSE 16]

END == 238

-----------------------------------------------------------------------------
(* Mutant of TypedHash: the type is taken from the length.                  *)
TypedHashByLength(d) ==
    Then(SetHash(Get(d, U("type", 1))), LAMBDA t : Get(t, U("hash", 16)))

(* hash.set((HashType)type), which throws for a type it does not know, and  *)
(* the hash.  No constructor sets the type of a hash made from bytes.       *)
TypedHash(d) ==
    Then(SetHash(Get(d, U("type", 1))),
         LAMBDA t : IF Num(t.m["type"]) \in DOMAIN HashLength
                      THEN Get(t, U("hash", HashLength[Num(t.m["type"])])) ELSE Throw(t))

(* Task_: who asks, and which of his questions it is.                       *)
Task(d) == Read(SetHash(d), <<U("uid", 20), U("tid", 2)>>)

Is(data, ops) == Body(data, ops, FALSE)

(* The version is written in the two bytes of the member and read as four.  *)
KadxLoginEncode(m) ==
    <<Opx.LOGIN>> \o m.hash \o m.version \o Le(Len(m.name), 1) \o m.name
      \o m.addr \o m.port \o m.flags
KadxLoginParse(data) ==
    Read(Is(data, {Opx.LOGIN, Opx.LOGIN_BACK}),
         <<U("hash", 20), U("version", 4), U("nlen", 1), D("name", "nlen"),
           U("addr", 4), U("port", 2), U("flags", 4)>>)

SearchEncode(m) ==
    <<Opx.SEARCH>> \o m.uid \o m.tid \o Le(Len(m.key), 2) \o m.key \o m.flags
SearchParse(data) ==
    Read(Task(Is(data, {Opx.SEARCH})), <<U("klen", 2), D("key", "klen"), U("flags", 4)>>)

SearchSourceEncode(m) == <<Opx.SSRC>> \o m.uid \o m.tid \o m.type \o m.hash \o m.size
SearchSourceParse(data) == Get(TypedHash(Task(Is(data, {Opx.SSRC}))), U("size", 8))

KadxFoundSourceEncode(m) ==
    <<Opx.FSRC>> \o m.uid \o m.tid \o m.type \o m.hash \o Le(Len(m.srvs), 1)
      \o FlattenSeq([i \in DOMAIN m.srvs |-> m.srvs[i].addr \o m.srvs[i].port \o m.srvs[i].cid])
KadxFoundSourceParse(data) ==
    Then(Get(TypedHash(Task(Is(data, {Opx.FSRC}))), U("count", 1)),
         LAMBDA d : ReadList(d, "srvs", Num(d.m["count"]),
                             <<U("addr", 4), U("port", 2), U("cid", 8)>>))

CallbackEncode(m) == <<Opx.CALLBACK>> \o m.cid \o m.addr \o m.port
CallbackParse(data) ==
    Read(Is(data, {Opx.CALLBACK}), <<U("cid", 8), U("addr", 4), U("port", 2)>>)

HoleEncode(m) == <<Opx.HOLE>> \o m.cid \o m.flags
HoleParse(data) == Read(Is(data, {Opx.HOLE}), <<U("cid", 8), U("flags", 4)>>)

HoleCallbackEncode(m) == <<Opx.HOLE_CALLBACK>> \o m.addr \o m.port
HoleCallbackParse(data) ==
    Read(Is(data, {Opx.HOLE_CALLBACK}), <<U("addr", 4), U("port", 2)>>)

HolingEncode(m) == <<Opx.HOLING>> \o m.addr \o m.port \o m.way
HolingParse(data) ==
    Read(Is(data, {Opx.HOLING}), <<U("addr", 4), U("port", 2), U("way", 1)>>)

KadxFileStatusEncode(m) == <<Opx.FILE_STATUS>> \o m.type \o m.hash
KadxFileStatusParse(data) == TypedHash(Is(data, {Opx.FILE_STATUS}))

(* The range list of a file, as its flat vector.                            *)
FilePartEncode(m) ==
    <<Opx[m.kind]>> \o m.type \o m.hash \o m.total \o Le(Len(m.parts), 1)
      \o FlattenSeq([i \in DOMAIN m.parts |-> m.parts[i].at])
FilePartParse(data) ==
    Then(Read(TypedHash(Is(data, {Opx.FILE_STATUS_BACK, Opx.FILE_PART})),
              <<U("total", 8), U("sc", 1)>>),
         LAMBDA d : ReadList(d, "parts", Num(d.m["sc"]), <<U("at", 8)>>))

(* The length and the bytes are written behind the offset.  The parse stops *)
(* there and keeps the packet, and cdata points into the packet 9 bytes     *)
(* behind as many as the hash has.                                          *)
FileProcEncode(m) ==
    <<Opx.FILE_PROC>> \o m.type \o m.hash \o m.offset \o Le(Len(m.data), 8) \o m.data
FileProcParse(data) ==
    Then(Get(TypedHash(Is(data, {Opx.FILE_PROC})), U("offset", 8)),
         LAMBDA d : With(d, "data", SubSeq(data, Len(d.m["hash"]) + 10, Len(data))))

-----------------------------------------------------------------------------
(* FData_: each field behind its number, those that are not there left out. *)
Texts4 == [n \in {4, 6, 11, 13} |-> CASE n = 4  -> "filename"    [] n = 6  -> "format"
                                      [] n = 11 -> "description" [] n = 13 -> "source"]
Hashes3 == <<"sha1", "md5", "emd4">>

FDataEncode(m) ==
    LET field(n) ==
          IF n \in DOMAIN Hashes3 /\ Hashes3[n] \in DOMAIN m THEN <<n>> \o m[Hashes3[n]]
          ELSE IF n \in DOMAIN Texts4 /\ Texts4[n] \in DOMAIN m
            THEN <<n>> \o Le(Len(m[Texts4[n]]), 2) \o m[Texts4[n]]
          ELSE IF n = 5 /\ m.size # Le(0, 8) THEN <<n>> \o m.size
          ELSE <<>>
    IN  FlattenSeq([n \in 1..13 |-> field(n)]) \o <<END>>

FDataField(d) ==
    LET mark == Num(d.m["mark"])
    IN  CASE mark = 1 -> Get(SetHash(d), U("sha1", 20))
          [] mark \in {2, 3} -> Get(SetHash(d), U(Hashes3[mark], 16))
          [] mark \in DOMAIN Texts4 -> Read(d, <<U("len", 2), D(Texts4[mark], "len")>>)
          [] mark = 5 -> Get(d, U("size", 8))
          [] mark = END -> With(d, "end", <<>>)
          [] OTHER -> Throw(d)

(* The parse wants the mark of the end in front too.  A field takes three   *)
(* bytes at least, and then the end comes or the bytes are used up.         *)
FDataParse(d) ==
    LET next(e) == IF "end" \in DOMAIN e.m THEN e
                   ELSE Then(Get(e, U("mark", 1)), FDataField)
    IN  Then(Get(d, U("head", 1)),
             LAMBDA h : IF Num(h.m["head"]) # END THEN Throw(h)
                        ELSE Times(h, Len(h.rest) \div 3 + 1, next))

SearchBackParse(data) ==
    Then(Read(Task(Is(data, {Opx.SEARCH_BACK, Opx.SEARCH_BC})), <<U("flags", 4), U("fc", 1)>>),
         LAMBDA d :
           Then(IF Num(d.m["op"]) = Opx.SEARCH_BC THEN Inflate(d) ELSE d,
             LAMBDA e : Repeat(With(e, "fs", <<>>), Num(e.m["fc"]),
               LAMBDA r : Listed(r, "fs", FDataParse(Fresh(r))))))

-----------------------------------------------------------------------------
KadxWritten(m) ==
    CASE m.kind = "LOGIN"         -> KadxLoginEncode(m)
      [] m.kind = "SEARCH"        -> SearchEncode(m)
      [] m.kind = "SSRC"          -> SearchSourceEncode(m)
      [] m.kind = "FSRC"          -> KadxFoundSourceEncode(m)
      [] m.kind = "CALLBACK"      -> CallbackEncode(m)
      [] m.kind = "HOLE"          -> HoleEncode(m)
      [] m.kind = "HOLE_CALLBACK" -> HoleCallbackEncode(m)
      [] m.kind = "HOLING"        -> HolingEncode(m)
      [] m.kind = "FILE_STATUS"   -> KadxFileStatusEncode(m)
      [] m.kind \in {"FILE_STATUS_BACK", "FILE_PART"} -> FilePartEncode(m)
      [] m.kind = "FILE_PROC"     -> FileProcEncode(m)

(* The class of each operation.                                             *)
KadxParsed(data) ==
    LET op == Digit(data, 1)
    IN  CASE op \in {Opx.LOGIN, Opx.LOGIN_BACK} -> KadxLoginParse(data)
          [] op = Opx.SEARCH        -> SearchParse(data)
          [] op \in {Opx.SEARCH_BACK, Opx.SEARCH_BC} -> SearchBackParse(data)
          [] op = Opx.SSRC          -> SearchSourceParse(data)
          [] op = Opx.FSRC          -> KadxFoundSourceParse(data)
          [] op = Opx.CALLBACK      -> CallbackParse(data)
          [] op = Opx.HOLE          -> HoleParse(data)
          [] op = Opx.HOLE_CALLBACK -> HoleCallbackParse(data)
          [] op = Opx.HOLING        -> HolingParse(data)
          [] op = Opx.FILE_STATUS   -> KadxFileStatusParse(data)
          [] op \in {Opx.FILE_STATUS_BACK, Opx.FILE_PART} -> FilePartParse(data)
          [] op = Opx.FILE_PROC     -> FileProcParse(data)
          [] OTHER                  -> Throw(Decoding(data))
=============================================================================
