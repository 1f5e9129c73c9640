-------------------------------- MODULE Link --------------------------------
(***************************************************************************)
(* Messages of every kind go out to a server, a peer or another node, or   *)
(* come in from a server or a peer, one after the other, the incoming ones *)
(* plain or packed.  What the bytes of a message are is what               *)
(* ed2k_opcodes.h writes beside its operation, and not what the classes of *)
(* the program do.  For messages between nodes nothing is written.         *)
(***************************************************************************)
EXTENDS KadxMessages, FileConf, ResultFormat

CONSTANTS Sent, Came   (* the messages: records with their kind and fields  *)

VARIABLES
    link,   (* what is on the wire: way, message, and whether packed        *)
    got     (* what its reader made of it                                   *)

vars == <<link, got>>

-----------------------------------------------------------------------------
(* The messages: each member as wide as its type, texts and lists no longer *)
(* than their counts tell.                                                  *)
Servers(obf) == Short([addr : Width(4), port : Width(2), obf : obf], 256)

(* A text in a tag of a greeting fits the buffer its reader has for it.      *)
TagText == Below(BufLen + 1)

(* start + n in 32 bits *)
Plus(start, n) ==
    LET a == start[1] + (n % 256)
        b == start[2] + ((n \div 256) % 256) + (a \div 256)
        c == start[3] + (((n \div 256) \div 256) % 256) + (b \div 256)
        d == start[4] + (c \div 256)
    IN  <<a % 256, b % 256, c % 256, d % 256>>

(* A block ends where its bytes end.                                        *)
SendingParts ==
    { m \in [kind : {"SENDINGPART"}, hash : Width(16), start : Width(4), end : Width(4),
             part : Below(Beyond)] : m.end = Plus(m.start, Len(m.part)) }

ServerKinds ==
    [kind : {"SERVERMESSAGE"}, msg : Below(256 * 256)]
      \cup [kind : {"IDCHANGE"}, id : Width(4), bitmap : Width(4)]
      \cup [kind : {"SERVERSTATUS"}, userc : Width(4), filec : Width(4)]
      \cup [kind : {"CALLBACKREQUESTED"}, first : Width(4), second : Width(2)]

(* What comes in.  A source that wants an obfuscation of 8 or more has a    *)
(* hash of its own behind it, which the parse does not read.                *)
Receivable ==
    ServerKinds \cup SendingParts
      \cup [kind : {"SERVERLIST"}, srvs : Servers(Width(1))]
      \cup [kind : {"FOUNDSOURCES_OBFU"}, hash : Width(16), srvs : Servers([1..1 -> 0..7])]
      \cup [kind : {"SEARCHRESULT"}, fs : Short(Entries, Beyond)]
      \cup [kind : {"HELLOANSWER"}, hash : Width(16), cid : Width(4), port : Width(2),
            name : TagText, version : TagText, saddr : Width(4), sport : Width(2)]

(* What the client sends: a hello with a name, and sources for a file that  *)
(* is not empty.                                                            *)
ClientKinds ==
    [kind : {"LOGINREQUEST"}, hash : Width(16), cid : Width(4), port : Width(2),
     name : TagText, version : Width(4), flags : Width(4), mver : Width(4)]
      \cup [kind : {"HELLO"}, hash : Width(16), cid : Width(4), port : Width(2),
            name : TagText \ {<<>>}, version : {<<>>}, port2 : Width(2),
            saddr : Width(4), sport : Width(2)]
      \cup [kind : {"GETSOURCES_OBFU"}, hash : Width(16), size : Width(8) \ {Le(0, 8)}]
      \cup [kind : {"SEARCHREQUEST"}, search : Below(256 * 256)]
      \cup [kind : {"CALLBACKREQUEST"}, cid : Width(4)]
      \cup [kind : {"STARTUPLOADREQ", "SETREQFILEID", "HASHSETREQUEST"}, hash : Width(16)]
      \cup [kind : {"REQUESTPARTS"}, hash : Width(16),
            parts : [1..3 -> [first : Width(4), second : Width(4)]]]

(* What the classes of the messages a server or a peer sends would write.   *)
OwnKinds ==
    ServerKinds \cup SendingParts
      \cup [kind : {"FOUNDSOURCES_OBFU"}, hash : Width(16), srvs : Servers({<<1>>})]

(* A hash and its type.                                                     *)
TypeFits(m) == m.type[1] \in DOMAIN HashLength /\ Len(m.hash) = HashLength[m.type[1]]

(* A file of a node: a size, and any of the other fields.                   *)
FDataFields ==
    [ sha1 |-> Width(20), md5 |-> Width(16), emd4 |-> Width(16), filename |-> Below(256 * 256),
      size |-> Width(8) \ {Le(0, 8)}, format |-> Below(256 * 256),
      description |-> Below(256 * 256), source |-> Below(256 * 256) ]
IsFData(f) ==
    /\ DOMAIN f \subseteq DOMAIN FDataFields /\ "size" \in DOMAIN f
    /\ \A n \in DOMAIN f : f[n] \in FDataFields[n]

NodeKinds ==
    [kind : {"SEARCH"}, uid : Width(20), tid : Width(2), key : Below(256 * 256), flags : Width(4)]
      \cup [kind : {"CALLBACK"}, cid : Width(8), addr : Width(4), port : Width(2)]
      \cup [kind : {"HOLE"}, cid : Width(8), flags : Width(4)]
      \cup [kind : {"HOLE_CALLBACK"}, addr : Width(4), port : Width(2)]
      \cup [kind : {"HOLING"}, addr : Width(4), port : Width(2), way : Width(1)]
      \cup [kind : {"LOGIN"}, hash : Width(20), version : Width(2), name : Below(256),
            addr : Width(4), port : Width(2), flags : Width(4)]

TypedKinds ==
    { m \in [kind : {"SSRC"}, uid : Width(20), tid : Width(2), type : Width(1),
             hash : Below(21), size : Width(8)]
            \cup [kind : {"FSRC"}, uid : Width(20), tid : Width(2), type : Width(1),
                  hash : Below(21),
                  srvs : Short([addr : Width(4), port : Width(2), cid : Width(8)], 256)]
            \cup [kind : {"FILE_STATUS"}, type : Width(1), hash : Below(21)]
            \cup [kind : {"FILE_STATUS_BACK", "FILE_PART"}, type : Width(1), hash : Below(21),
                  total : Width(8), parts : Short([at : Width(8)], 256)]
            \cup [kind : {"FILE_PROC"}, type : Width(1), hash : Below(21), offset : Width(8),
                  data : Below(Beyond)] : TypeFits(m) }

IsAnswer(m) ==
    /\ DOMAIN m = {"kind", "uid", "tid", "flags", "fs"}
    /\ m.kind \in {"SEARCH_BACK", "SEARCH_BC"}
    /\ m.uid \in Width(20) /\ m.tid \in Width(2) /\ m.flags \in Width(4)
    /\ Len(m.fs) \in 0..255 /\ m.fs = [i \in 1..Len(m.fs) |-> m.fs[i]]
    /\ \A i \in 1..Len(m.fs) : IsFData(m.fs[i])

(* A file beside a download: a size, two lists and any of four texts.       *)
IsXcm(m) ==
    /\ DOMAIN m \subseteq {"kind", "size", "ed2k", "parts"}
                            \cup {"filename", "emd4", "md5", "sha1"}
    /\ {"kind", "size", "ed2k", "parts"} \subseteq DOMAIN m /\ m.kind = "XCM"
    /\ m.size \in Width(8)
    /\ m.ed2k \in Short(Below(256 * 256), 256 * 256) /\ m.parts \in Short(Width(8), 256 * 256)
    /\ \A n \in DOMAIN m \cap {"filename", "emd4", "md5", "sha1"} : m[n] \in Below(256 * 256)

ASSUME LinkAssumption ==
    /\ \A m \in Sent : \/ m \in ClientKinds \/ m \in OwnKinds \/ m \in NodeKinds
                       \/ m \in TypedKinds \/ IsAnswer(m) \/ IsXcm(m)
    /\ Came \subseteq Receivable

-----------------------------------------------------------------------------
(* The tag set of a client: its name, maybe its version, and its flags.     *)
ClientTags(m) ==
    LET version == IF m.version = <<>> THEN <<>> ELSE <<StrTag(17, m.version)>>
        tags == <<StrTag(1, m.name)>> \o version \o <<IntTag(32, <<1, 2, 3, 4>>)>>
    IN  Le(Len(tags), 4) \o FlattenSeq(tags)

(* A source without a hash of its own, as obfuscation settings below 8 are.  *)
SourceBytes(s) == Be(s.addr) \o s.port \o s.obf

Fields(m) ==
    CASE m.kind = "LOGINREQUEST" ->
           m.hash \o m.cid \o m.port \o Le(4, 4) \o StrTag(1, m.name)
             \o IntTag(17, m.version) \o IntTag(32, m.flags) \o IntTag(251, m.mver)
      [] m.kind = "CALLBACKREQUEST"   -> m.cid
      [] m.kind = "SERVERLIST" ->
           Le(Len(m.srvs), 1)
             \o FlattenSeq([i \in DOMAIN m.srvs |-> m.srvs[i].addr \o m.srvs[i].port])
      [] m.kind = "SERVERSTATUS"      -> m.userc \o m.filec
      [] m.kind = "SERVERMESSAGE"     -> Le(Len(m.msg), 2) \o m.msg
      [] m.kind = "CALLBACKREQUESTED" -> m.first \o m.second
      [] m.kind = "IDCHANGE"          -> m.id \o m.bitmap \o <<54, 18, 0, 0, 1, 2, 3, 4>>
      [] m.kind = "FOUNDSOURCES_OBFU" ->
           m.hash \o Le(Len(m.srvs), 1)
             \o FlattenSeq([i \in DOMAIN m.srvs |-> SourceBytes(m.srvs[i])])
      [] m.kind = "SEARCHRESULT"      -> ResultBytes(m.fs)
      [] m.kind = "HELLOANSWER" ->
           m.hash \o m.cid \o m.port \o ClientTags(m) \o Be(m.saddr) \o m.sport
      [] m.kind = "SENDINGPART"       -> m.hash \o m.start \o m.end \o m.part
      [] m.kind = "REQUESTPARTS" ->
           m.hash \o FlattenSeq([i \in 1..3 |-> m.parts[i].first])
                  \o FlattenSeq([i \in 1..3 |-> m.parts[i].second])
      [] m.kind \in {"STARTUPLOADREQ", "SETREQFILEID", "HASHSETREQUEST"} -> m.hash

Documented(m) == <<Op[m.kind]>> \o Fields(m)

Packet(m, packed) == IF packed THEN Packed(Documented(m)) ELSE Documented(m)

(* A HELLO has the length of its hash in front, which only the other end of *)
(* a greeting reads.                                                        *)
HelloThere(data) ==
    Then(Read(Decoding(data),
              <<U("op", 1), U("len", 1), U("hash", 16), U("cid", 4), U("port", 2), U("tc", 4)>>),
         LAMBDA h : Read(ReadTags(h, Num(h.m["tc"]), [name \in {1} |-> "name"], <<>>, TRUE),
                         <<B("saddr", 4), U("sport", 2)>>))

AtServer == {"LOGINREQUEST", "CALLBACKREQUEST", "GETSOURCES_OBFU"}
OwnParse == {"SERVERMESSAGE", "IDCHANGE", "SERVERSTATUS", "FOUNDSOURCES_OBFU",
             "CALLBACKREQUESTED", "SENDINGPART"}

(* The messages between nodes that the two halves of a class agree on, and  *)
(* the two on which they do not.  A node's answer to a search is put        *)
(* together here, plain or packed, as its parse wants it.                   *)
Agreed == {"SEARCH", "SEARCH_BACK", "SEARCH_BC", "SSRC", "FSRC", "CALLBACK", "HOLE",
           "HOLE_CALLBACK", "HOLING", "FILE_STATUS", "FILE_STATUS_BACK", "FILE_PART"}
Uneven == {"LOGIN", "FILE_PROC"}
OfNodes == Agreed \cup Uneven

Answer(m) ==
    LET files == FlattenSeq([i \in DOMAIN m.fs |-> <<END>> \o FDataEncode(m.fs[i])])
        head == <<Opx[m.kind]>> \o m.uid \o m.tid \o m.flags \o Le(Len(m.fs), 1)
    IN  head \o (IF m.kind = "SEARCH_BC" THEN [i \in DOMAIN files |-> files[i] + 256]
                                         ELSE files)

WrittenBy(m) ==
    IF m.kind \in {"SEARCH_BACK", "SEARCH_BC"} THEN Answer(m)
    ELSE IF m.kind = "XCM" THEN FileConfSave(m)
    ELSE IF m.kind \in OfNodes THEN KadxWritten(m) ELSE Written(m)

(* What the other end reads of a message, or, of those it has classes for,  *)
(* the program itself.                                                      *)
ReadThere(m, data) ==
    CASE m.kind = "HELLO"       -> HelloThere(data)
      [] m.kind \in AtServer -> ParsedThere(data, FALSE)
      [] m.kind \in OwnParse -> Parsed(data, FALSE)
      [] m.kind \in OfNodes  -> KadxParsed(data)
      [] m.kind = "XCM"      -> FileConfRead(data)
      [] OTHER               -> Decoding(data)

-----------------------------------------------------------------------------
Idle == link = [way |-> "idle"]

Init == Idle /\ got = Decoding(<<>>)

Send == Idle /\ \E m \in Sent :
                  /\ link' = [way |-> "out", m |-> m, data |-> WrittenBy(m)]
                  /\ got' = ReadThere(m, link'.data)

Come == Idle /\ \E m \in Came, packed \in BOOLEAN :
                  /\ link' = [way |-> "in", m |-> m, packed |-> packed]
                  /\ got' = Parsed(Packet(m, packed), packed)

Over == ~Idle /\ link' = [way |-> "idle"] /\ got' = Decoding(<<>>)

Next == Send \/ Come \/ Over

Spec == Init /\ [][Next]_vars

-----------------------------------------------------------------------------
(* The fields a reader is to find: a list keeps what the code keeps of its  *)
(* records.                                                                 *)
Find(d, m, fields) == \A f \in fields : f \in DOMAIN d.m /\ d.m[f] = m[f]
ListOf(d, name, field) == [i \in DOMAIN d.m[name] |-> d.m[name][i][field]]
Addresses(seq) == [i \in DOMAIN seq |-> <<seq[i].addr, seq[i].port>>]

Reads(d, m) ==
    CASE m.kind = "SERVERLIST"        -> Addresses(d.m["srvs"]) = Addresses(m.srvs)
      [] m.kind = "FOUNDSOURCES_OBFU" ->
           d.m["hash"] = m.hash /\ Addresses(d.m["srvs"]) = Addresses(m.srvs)
      [] m.kind = "HELLOANSWER" ->
           Find(d, m, {"hash", "cid", "port", "name", "saddr", "sport"})
             /\ (m.version # <<>> => Find(d, m, {"version"}))
      [] m.kind \in {"SEARCH_BACK", "SEARCH_BC"} ->
           /\ Find(d, m, {"uid", "tid", "flags"}) /\ Len(d.m["fs"]) = Len(m.fs)
           /\ \A i \in DOMAIN m.fs : Find([m |-> d.m["fs"][i]], m.fs[i], DOMAIN m.fs[i])
      [] m.kind = "XCM" ->
           /\ Find(d, m, DOMAIN m \ {"kind", "ed2k", "parts"})
           /\ m.ed2k # <<>> => ListOf(d, "ed2k", "hash") = m.ed2k
           /\ m.parts # <<>> => ListOf(d, "parts", "at") = m.parts
      [] m.kind = "SEARCHRESULT" -> d.rest = <<>> /\ InStep(d.m["fs"], m.fs)
      [] OTHER -> Find(d, m, DOMAIN m \ {"kind"})

ReadWhole(d, m, fields) == d.ok /\ d.rest = <<>> /\ Find(d, m, fields)

-----------------------------------------------------------------------------
(* What the client puts on the wire is what ed2k_opcodes.h says a server or *)
(* a peer expects.                                                          *)
SentAsDocumented ==
    link.way = "out" /\ link.m.kind \notin OfNodes \cup
                          {"HELLO", "GETSOURCES_OBFU", "SEARCHREQUEST", "IDCHANGE", "XCM"}
      => link.data = Documented(link.m)

(* A server or a peer that writes as ed2k_opcodes.h says, packed or plain,  *)
(* is read without an exception and without losing a field.                 *)
ReadAsDocumented == link.way = "in" => got.ok /\ Reads(got, link.m)

(* The first tag of a HELLO that is read by its count, whatever was left in *)
(* the memory of its optional port, is the client's name, and the address   *)
(* of the server ends it.                                                   *)
HelloUnderstood ==
    link.way = "out" /\ link.m.kind = "HELLO" =>
      ReadWhole(got, link.m,
                {"hash", "cid", "port", "name", "saddr", "sport"})

(* The size a file's sources are asked with is the size that is read, up    *)
(* and over the largest size of old clients and over 32 bits.               *)
SizeUnderstood ==
    link.way = "out" /\ link.m.kind = "GETSOURCES_OBFU" =>
      ReadWhole(got, link.m, {"hash", "size"})

(* The fields that were read, each with what was saved of it.               *)
SavedOnly(d, m) ==
    \A f \in DOMAIN d.m \ {"mark", "len", "count"} :
        CASE f = "ed2k"  -> ListOf(d, f, "hash") = m.ed2k
          [] f = "parts" -> ListOf(d, f, "at") = m.parts
          [] OTHER       -> d.m[f] = m[f]

(* What a class of the program writes its own parse reads back, as the      *)
(* tests of Login, FoundSource and FileConf have it; and a saved .xcm that  *)
(* was cut is refused, or read with fields missing and none changed.        *)
ReadBack ==
    link.way = "out" /\ link.m.kind \in (OwnParse \cup AtServer \cup {"XCM"}) \ {"GETSOURCES_OBFU"} =>
      /\ got.ok /\ got.rest = <<>> /\ Reads(got, link.m)
      /\ link.m.kind = "XCM" =>
           \A n \in 0..Len(link.data) - 1 :
             LET cut == FileConfRead(SubSeq(link.data, 1, n))
             IN  cut.ok => SavedOnly(cut, link.m)

(* What a node writes another node reads, to the last field of the last     *)
(* file of an answer, and nothing of it when it was cut: answers are routed *)
(* by two numbers in front of what is cut.                                  *)
NodesUnderstand ==
    link.way = "out" /\ link.m.kind \in Agreed =>
      /\ got.ok /\ got.rest = <<>> /\ Reads(got, link.m)
      /\ \A n \in 0..Len(link.data) - 1 : ~KadxParsed(SubSeq(link.data, 1, n)).ok

(* What a tag says of a file of a search result is what the file gets,      *)
(* whatever the tags before it and behind it.                               *)
ResultMeansWhatItSays ==
    link.way = "in" /\ link.m.kind = "SEARCHRESULT" =>
      \A i \in DOMAIN link.m.fs : SaysOf(got.m["fs"][i], link.m.fs[i])

(* A message that was cut short is refused: a handler never runs with some  *)
(* of its fields, or with a block of less than its length.                  *)
CutIsRefused ==
    link.way = "in" /\ ~link.packed /\ link.m.kind # "IDCHANGE" =>
      LET p == Packet(link.m, FALSE)
      IN  \A n \in 1..Len(p) - 1 : ~Parsed(SubSeq(p, 1, n), FALSE).ok
=============================================================================
