------------------------------ MODULE Messages ------------------------------
(***************************************************************************)
(* The messages of the ed2k protocol, src/protocol/ed2k_protocol.cpp: for  *)
(* each class what encode puts on the wire and what parse reads off it.    *)
(* A message is a record of its fields; the value of a field is the tuple  *)
(* of its bytes, a list is a sequence of records.                          *)
(***************************************************************************)
EXTENDS FileList

CONSTANTS
    LengthSets, (* set(16) makes a hash of 16 bytes.  It does not as the     *)
                (* overloads of Hash::set stand: an int picks the one that   *)
                (* takes a HashType, which throws at any length.             *)
    OldMax      (* OLD_MAX_EMULE_FILE_SIZE, as eight bytes                   *)

ASSUME MessagesAssumption ==
    /\ LengthSets \in BOOLEAN
    /\ OldMax \in [1..8 -> 0..255] /\ \A i \in 5..8 : OldMax[i] = 0

(* hash.set(16) in a parse.                                                 *)
SetHash(d) == IF LengthSets THEN d ELSE Throw(d)

(* A parse that reads into a hash nobody has made: the null pointer is used *)
(* and the packet is lost with the handler.                                 *)
NullHash(d) == Throw(d)

-----------------------------------------------------------------------------
(* client and server *)

LoginEncode(m) ==
    <<Op.LOGINREQUEST>> \o m.hash \o m.cid \o m.port \o Le(4, 4)
      \o StrTag(1, m.name) \o IntTag(17, m.version)
      \o IntTag(32, m.flags) \o IntTag(251, m.mver)

LoginTexts == [name \in {1} |-> "name"]
LoginWords == [name \in {15, 17, 32, 251} |-> CASE name = 15 -> "port2" [] name = 17  -> "version"
                                              [] name = 32 -> "flags" [] name = 251 -> "mver"]
LoginParse(data, packed) ==
    Then(Read(Body(data, {Op.LOGINREQUEST}, packed),
              <<U("hash", 16), U("cid", 4), U("port", 2), U("tc", 4)>>),
         LAMBDA d : ReadTags(d, Num(d.m["tc"]), LoginTexts, LoginWords, TRUE))

SrvMessageEncode(m) == <<Op.SERVERMESSAGE>> \o Le(Len(m.msg), 2) \o m.msg
SrvMessageParse(data, packed) ==
    Read(Body(data, {Op.SERVERMESSAGE}, packed), <<U("len", 2), D("msg", "len")>>)

IDCHANGEEncode(m) == <<Op.IDCHANGE>> \o m.id \o m.bitmap
IDCHANGEParse(data, packed) ==
    Read(Body(data, {Op.IDCHANGE}, packed), <<U("id", 4), U("bitmap", 4)>>)

SrvStatusEncode(m) == <<Op.SERVERSTATUS>> \o m.userc \o m.filec
SrvStatusParse(data, packed) ==
    Read(Body(data, {Op.SERVERSTATUS}, packed), <<U("userc", 4), U("filec", 4)>>)

ListServer == <<Op.SERVERSTATUS>>

ServerListEncode(m) ==
    <<Op.SERVERLIST>> \o FlattenSeq([i \in DOMAIN m.srvs |-> m.srvs[i].addr \o m.srvs[i].port])
ServerListParse(data, packed) ==
    Then(Get(Body(data, {Op.SERVERLIST}, packed), U("count", 1)),
         LAMBDA d : ReadList(d, "srvs", Num(d.m["count"]), <<U("addr", 4), U("port", 2)>>))

(* name and desc are there or are empty; without either no count is put.    *)
ServerIndentEncode(m) ==
    LET tags == (IF m.name # <<>> THEN <<StrTag(1, m.name)>> ELSE <<>>)
                  \o (IF m.desc # <<>> THEN <<StrTag(1, m.desc)>> ELSE <<>>)
    IN  <<Op.SERVERIDENT>> \o m.hash \o Be(m.addr) \o m.port
          \o (IF tags = <<>> THEN <<>> ELSE Le(Len(tags), 4) \o FlattenSeq(tags))
ServerIndentParse(data, packed) ==
    Then(Read(NullHash(Body(data, {Op.SERVERIDENT}, packed)),
              <<U("hash", 16), U("addr", 4), U("port", 2), U("tc", 4)>>),
         LAMBDA d : ReadTags(d, Num(d.m["tc"]), 1 :> "name" @@ 11 :> "desc", <<>>, FALSE))

SearchArgsEncode(m) == <<Op.SEARCHREQUEST, 1>> \o Le(Len(m.search), 2) \o m.search
SearchArgsParse(data, packed) ==
    Then(Body(data, {Op.SEARCHREQUEST}, packed), LAMBDA d : With(d, "search", d.rest))

(* Mutant of Larger: the sizes are compared in 32 bits.                     *)
LargerIn32(a, b) ==
    \E i \in 1..4 : a[i] > b[i] /\ \A j \in 1..4 : j > i => a[j] = b[j]

(* size > OLD_MAX_EMULE_FILE_SIZE *)
Larger(a, b) == \E i \in DOMAIN a : a[i] > b[i] /\ \A j \in DOMAIN a : j > i => a[j] = b[j]

GetSourceEncode(m) ==
    <<Op.GETSOURCES_OBFU>> \o m.hash
      \o (IF Larger(m.size, OldMax) THEN Le(0, 4) \o m.size ELSE SubSeq(m.size, 1, 4))
GetSourceParse(data, packed) ==
    Then(Read(Body(data, {Op.GETSOURCES_OBFU}, packed), <<U("hash", 16), U("size", 4)>>),
         LAMBDA d : IF d.m["size"] = Le(0, 4) THEN Get(d, U("size", 8))
                    ELSE With(d, "size", Widened(d.m["size"], 8)))

(* Mutant of FoundSourceEncode: addresses go in the order of the machine.   *)
FoundSourceEncodeLittle(m) ==
    <<Op.FOUNDSOURCES_OBFU>> \o m.hash \o Le(Len(m.srvs), 1)
      \o FlattenSeq([i \in DOMAIN m.srvs |-> m.srvs[i].addr \o m.srvs[i].port \o <<1>>])
FoundSourceEncode(m) ==
    <<Op.FOUNDSOURCES_OBFU>> \o m.hash \o Le(Len(m.srvs), 1)
      \o FlattenSeq([i \in DOMAIN m.srvs |-> Be(m.srvs[i].addr) \o m.srvs[i].port \o <<1>>])
FoundSourceParse(data, packed) ==
    Then(Read(Body(data, {Op.FOUNDSOURCES_OBFU}, packed), <<U("hash", 16), U("count", 1)>>),
         LAMBDA d : ReadList(d, "srvs", Num(d.m["count"]),
                             <<B("addr", 4), U("port", 2), U("obf", 1)>>))

CallbackRequestEncode(m) == <<Op.CALLBACKREQUEST>> \o m.cid
CallbackRequestParse(data, packed) ==
    Get(Body(data, {Op.CALLBACKREQUEST}, packed), U("cid", 4))

CallbackRequestedEncode(m) == <<Op.CALLBACKREQUESTED>> \o m.first \o m.second
CallbackRequestedParse(data, packed) ==
    Read(Body(data, {Op.CALLBACKREQUESTED}, packed), <<U("first", 4), U("second", 2)>>)

-----------------------------------------------------------------------------
(* client and client *)

(* Mutant of HelloEncode: the optional port is put without being counted.   *)
HelloEncodeUncounted(m) ==
    LET tags == <<StrTag(1, m.name)>>
        port2 == IF Num(m.port2) # 0 THEN IntTag(15, m.port2 \o Le(0, 2)) ELSE <<>>
    IN  <<Op.HELLO, Len(m.hash)>> \o m.hash \o m.cid \o m.port
          \o Le(Len(tags), 4) \o FlattenSeq(tags) \o port2 \o Be(m.saddr) \o m.sport

(* Every optional field is there or empty; no constructor sets port2, so it *)
(* is whatever was in memory.                                               *)
HelloEncode(m) ==
    LET tags == (IF m.name # <<>> THEN <<StrTag(1, m.name)>> ELSE <<>>)
                  \o (IF m.version # <<>> THEN <<StrTag(17, m.version)>> ELSE <<>>)
                  \o (IF Num(m.port2) # 0 THEN <<IntTag(15, m.port2 \o Le(0, 2))>> ELSE <<>>)
    IN  <<Op.HELLO, Len(m.hash)>> \o m.hash \o m.cid \o m.port
          \o (IF tags = <<>> THEN <<>> ELSE Le(Len(tags), 4) \o FlattenSeq(tags))
          \o Be(m.saddr) \o m.sport

(* The tags an answer to a greeting is kept from: two texts and a number.   *)
HelloTexts == [name \in {1, 17} |-> IF name = 1 THEN "name" ELSE "version"]
HelloWords == [name \in {15} |-> "port2"]

HelloParse(data, packed) ==
    Then(Read(SetHash(Body(data, {Op.HELLOANSWER}, packed)),
              <<U("hash", 16), U("cid", 4), U("port", 2), U("tc", 4)>>),
         LAMBDA d : Read(ReadTags(d, Num(d.m["tc"]), HelloTexts, HelloWords, TRUE),
                         <<B("saddr", 4), U("sport", 2)>>))

(* Mutant of RequestPartsEncode: the ends stand beside the starts.          *)
RequestPartsEncodePaired(m) ==
    <<Op.REQUESTPARTS>> \o m.hash
      \o FlattenSeq([i \in DOMAIN m.parts |-> m.parts[i].first \o m.parts[i].second])
RequestPartsEncode(m) ==
    <<Op.REQUESTPARTS>> \o m.hash
      \o FlattenSeq([i \in DOMAIN m.parts |-> m.parts[i].first])
      \o FlattenSeq([i \in DOMAIN m.parts |-> m.parts[i].second])

(* Mutant of Span: the lengths' halves are taken apart.                     *)
SpanNoBorrow(start, end) ==
    LET low(v)  == Num(SubSeq(v, 1, 2))
        high(v) == Num(SubSeq(v, 3, 4))
    IN  ((high(end) - high(start)) % 256) * 65536 + ((low(end) - low(start)) % 65536)

(* end - start in 32 bits, as a length.                                     *)
Span(start, end) ==
    LET low(v)  == Num(SubSeq(v, 1, 2))
        high(v) == Num(SubSeq(v, 3, 4))
        carry == IF low(end) < low(start) THEN 1 ELSE 0
        lo == (low(end) - low(start)) % 65536
        hi == (high(end) - high(start) - carry) % 65536
    IN  IF hi > 255 THEN Beyond ELSE hi * 65536 + lo

SendingPartEncode(m) == <<Op.SENDINGPART>> \o m.hash \o m.start \o m.end \o m.part
SendingPartParse(data, packed) ==
    Then(Read(SetHash(Body(data, {Op.SENDINGPART}, packed)),
              <<U("hash", 16), U("start", 4), U("end", 4)>>),
         LAMBDA d : Get(d, U("part", Span(d.m["start"], d.m["end"]))))

(* UploadRequest, HashsetRequest and FidRequest.                            *)
MagicHashEncode(magic, m) == <<magic>> \o m.hash
MagicHashParse(data, packed, magic) ==
    Get(NullHash(Body(data, {magic}, packed)), U("hash", 16))

FidAnswerParse(data, packed) ==
    Read(NullHash(Body(data, {Op.REQFILENAMEANSWER}, packed)),
         <<U("hash", 16), U("len", 2), D("name", "len")>>)

HashsetAnswerParse(data, packed) ==
    Then(Read(NullHash(Body(data, {Op.HASHSETANSWER2}, packed)), <<U("hash", 16), U("pc", 2)>>),
         LAMBDA d : ReadList(d, "parts", Num(d.m["pc"]), <<U("hash", 16)>>))

(* What is inflated is told by the operation instead of the packed magic,   *)
(* which no header has.                                                     *)
FileStatusParse(data, packed) ==
    Then(Then(Read(NullHash(Body(data, {Op.FILESTATUS}, FALSE)), <<U("hash", 16), U("pc", 2)>>),
              LAMBDA d : ReadList(d, "parts", Num(d.m["pc"]), <<U("part", 1)>>)),
         LAMBDA p : IF Len(p.rest) = 2 THEN Get(p, U("source", 2)) ELSE p)

-----------------------------------------------------------------------------
(* What goes on the wire: the client's own calls, and the classes a server   *)
(* or a peer would write with.                                              *)
Written(m) ==
    CASE m.kind = "LOGINREQUEST"      -> LoginEncode(m)
      [] m.kind = "GETSERVERLIST"     -> ListServer
      [] m.kind = "SEARCHREQUEST"     -> SearchArgsEncode(m)
      [] m.kind = "GETSOURCES_OBFU"   -> GetSourceEncode(m)
      [] m.kind = "CALLBACKREQUEST"   -> CallbackRequestEncode(m)
      [] m.kind = "HELLO"             -> HelloEncode(m)
      [] m.kind = "REQUESTPARTS"      -> RequestPartsEncode(m)
      [] m.kind \in {"STARTUPLOADREQ", "SETREQFILEID", "HASHSETREQUEST"} ->
           MagicHashEncode(Op[m.kind], m)
      [] m.kind = "SERVERMESSAGE"     -> SrvMessageEncode(m)
      [] m.kind = "IDCHANGE"          -> IDCHANGEEncode(m)
      [] m.kind = "SERVERSTATUS"      -> SrvStatusEncode(m)
      [] m.kind = "SERVERLIST"        -> ServerListEncode(m)
      [] m.kind = "SERVERIDENT"       -> ServerIndentEncode(m)
      [] m.kind = "FOUNDSOURCES_OBFU" -> FoundSourceEncode(m)
      [] m.kind = "CALLBACKREQUESTED" -> CallbackRequestedEncode(m)
      [] m.kind = "SENDINGPART"       -> SendingPartEncode(m)

-----------------------------------------------------------------------------
(* OnCmd: which parse a packet that arrives is given to.  A throw leaves    *)
(* the handler, so what was read is used if ok only.                        *)
Parsed(data, packed) ==
    LET op == Digit(data, 1)
    IN  CASE op = Op.SERVERMESSAGE     -> SrvMessageParse(data, packed)
          [] op = Op.IDCHANGE          -> IDCHANGEParse(data, packed)
          [] op = Op.SERVERSTATUS      -> SrvStatusParse(data, packed)
          [] op = Op.SERVERLIST        -> ServerListParse(data, packed)
          [] op = Op.SERVERIDENT       -> ServerIndentParse(data, packed)
          [] op = Op.SEARCHRESULT      -> FileListParse(data, packed)
          [] op = Op.FOUNDSOURCES_OBFU -> FoundSourceParse(data, packed)
          [] op = Op.CALLBACKREQUESTED -> CallbackRequestedParse(data, packed)
          [] op = Op.HELLOANSWER       -> HelloParse(data, packed)
          [] op = Op.SENDINGPART       -> SendingPartParse(data, packed)
          [] op = Op.HASHSETANSWER     -> HashsetAnswerParse(data, packed)
          [] op = Op.REQFILENAMEANSWER -> FidAnswerParse(data, packed)
          [] op \in {Op.FILESTATUS, Op.FILEREQANSNOFIL} -> FileStatusParse(data, packed)
          [] OTHER                     -> Throw(Decoding(data))

(* The parses of what the client sends, which only the other end would use. *)
ParsedThere(data, packed) ==
    LET op == Digit(data, 1)
    IN  CASE op = Op.LOGINREQUEST      -> LoginParse(data, packed)
          [] op = Op.SEARCHREQUEST     -> SearchArgsParse(data, packed)
          [] op = Op.GETSOURCES_OBFU   -> GetSourceParse(data, packed)
          [] op = Op.CALLBACKREQUEST   -> CallbackRequestParse(data, packed)
          [] OTHER                     -> MagicHashParse(data, packed, op)
=============================================================================
