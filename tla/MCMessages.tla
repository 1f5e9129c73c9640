----------------------------- MODULE MCMessages -----------------------------
(***************************************************************************)
(* The messages the run sends and gets, one after the other.               *)
(***************************************************************************)
EXTENDS Link

Hashes == { [i \in 1..16 |-> i], [i \in 1..16 |-> 255] }
OldMaxBytes == <<0, 240, 180, 255>> \o Le(0, 4)      (* 4290048000 *)
Words == { <<0, 0, 0, 0>>, <<1, 2, 3, 4>>, <<255, 255, 255, 255>> }
Sizes == { <<1, 0, 0, 0>> \o Le(0, 4), OldMaxBytes,
           <<1, 240, 180, 255>> \o Le(0, 4), <<255, 255, 255, 255>> \o Le(0, 4),
           <<0, 0, 0, 0, 1, 0, 0, 0>>, <<5, 0, 0, 0, 1, 0, 0, 0>> }
Name == <<97, 98, 99>>
LongName == [i \in 1..BufLen |-> 97]      (* as long as a buffer of the reader *)
Port == <<54, 18>>
Source(addr, obf) == [addr |-> addr, port |-> <<152, 226>>, obf |-> <<obf>>]
Ranges(n) == [i \in 1..n |-> [first |-> <<0, i, 0, 0>>, second |-> <<255, i, 0, 0>>]]

Logins == [kind : {"LOGINREQUEST"}, hash : Hashes, cid : Words, port : {Port}, name : {Name, LongName},
           version : {<<60, 0, 0, 0>>}, flags : {<<25, 3, 0, 0>>}, mver : {<<0, 200, 0, 0>>}]
Hellos == [kind : {"HELLO"}, hash : Hashes, cid : Words, port : {Port}, name : {Name, LongName},
           version : {<<>>}, port2 : {<<0, 0>>, <<7, 9>>}, saddr : Words, sport : {Port}]
HelloAnswers ==
    [kind : {"HELLOANSWER"}, hash : Hashes, cid : Words, port : {Port}, name : {Name, LongName},
     version : {<<>>, <<60>>}, saddr : Words, sport : {Port}]
Asked == [kind : {"GETSOURCES_OBFU"}, hash : Hashes, size : Sizes]
Searches == [kind : {"SEARCHREQUEST"}, search : {Name}]
Callbacks == [kind : {"CALLBACKREQUEST"}, cid : Words]
OfHash == [kind : {"STARTUPLOADREQ", "SETREQFILEID", "HASHSETREQUEST"}, hash : Hashes]
Requests(n) == [kind : {"REQUESTPARTS"}, hash : Hashes, parts : {Ranges(n)}]
Texts == [kind : {"SERVERMESSAGE"}, msg : {<<>>, Name}]
Ids == [kind : {"IDCHANGE"}, id : Words, bitmap : Words]
Status == [kind : {"SERVERSTATUS"}, userc : Words, filec : Words]
Lists == [kind : {"SERVERLIST"}, srvs : { [i \in 1..n |-> Source(a, 0)] : a \in Words, n \in 0..2 }]
Sources(obf) ==
    [kind : {"FOUNDSOURCES_OBFU"}, hash : Hashes,
     srvs : { <<>> } \cup { <<Source(a, obf), Source(b, obf)>> : a, b \in Words }]
Called == [kind : {"CALLBACKREQUESTED"}, first : Words, second : {Port}]
Block(h, start, end, n) ==
    [kind |-> "SENDINGPART", hash |-> h, start |-> start, end |-> end, part |-> [i \in 1..n |-> i]]
Blocks ==
    { Block(h, Le(s, 4), Le(s + n, 4), n) : h \in Hashes, s \in {0, 250, 65530}, n \in {0, 5, 10} }
      \cup { Block(h, <<250, 255, 255, 255>>, Le(4, 4), 10) : h \in Hashes }

Uids == { [i \in 1..20 |-> i], [i \in 1..20 |-> 0] }
Tids == { <<1, 0>>, <<255, 255>> }
Long == Le(0, 7) \o <<1>>
TypedHashes == { <<<<t>>, [i \in 1..HashLength[t] |-> i + t]>> : t \in DOMAIN HashLength }
Typed(fields) == { fields @@ [type |-> h[1], hash |-> h[2]] : h \in TypedHashes }
AllFields ==
    [ sha1 |-> [i \in 1..20 |-> 238], md5 |-> [i \in 1..16 |-> i], emd4 |-> [i \in 1..16 |-> 4],
      filename |-> Name, size |-> Long, format |-> <<>>, description |-> Name, source |-> Name ]
Files == { [f \in {"size"} \cup fs |-> AllFields[f]] :
             fs \in SUBSET {"sha1", "emd4", "filename"} }
           \cup {AllFields}
Questions ==
    [kind : {"SEARCH"}, uid : Uids, tid : Tids, key : {<<>>, Name}, flags : Words]
      \cup UNION { Typed([kind |-> "SSRC", uid |-> u, tid |-> t, size |-> Long]) :
                     u \in Uids, t \in Tids }
Answers ==
    [kind : {"SEARCH_BACK", "SEARCH_BC"}, uid : {[i \in 1..20 |-> i]}, tid : {<<1, 0>>}, flags : {Le(0, 4)},
     fs : { <<>> } \cup { <<f, f>> : f \in Files }]
      \cup UNION { Typed([kind |-> "FSRC", uid |-> u, tid |-> t, srvs |-> s]) :
                     u \in Uids, t \in Tids,
                     s \in { [i \in 1..n |-> [addr |-> <<1, 2, 3, i>>, port |-> Port, cid |-> Long]] :
                                n \in 0..2 } }
Holes ==
    [kind : {"CALLBACK"}, cid : {Long}, addr : Words, port : {Port}]
      \cup [kind : {"HOLE"}, cid : {Long}, flags : Words]
      \cup [kind : {"HOLE_CALLBACK"}, addr : Words, port : {Port}]
      \cup [kind : {"HOLING"}, addr : Words, port : {Port}, way : {<<0>>, <<255>>}]
PartsOfFiles ==
    Typed([kind |-> "FILE_STATUS"])
      \cup UNION { Typed([kind |-> k, total |-> Long, parts |-> [i \in 1..n |-> [at |-> Le(i, 8)]]]) :
                     k \in {"FILE_STATUS_BACK", "FILE_PART"}, n \in {0, 2, 4} }
Others ==
    [kind : {"LOGIN"}, hash : Uids, version : {<<1, 0>>}, name : {Name}, addr : Words,
     port : {Port}, flags : {Le(0, 4)}]
      \cup Typed([kind |-> "FILE_PROC", offset |-> Long, data |-> Name])
Saves ==
    { [f \in {"kind", "filename", "size", "ed2k", "parts"} \cup fs |->
         CASE f = "kind" -> "XCM"
           [] f = "size" -> Long
           [] f = "ed2k" -> [i \in 1..n |-> <<112, 16 * i>>]
           [] f = "parts" -> [i \in 1..2 * n |-> Le(16 * i, 8)]
           [] OTHER -> Name] : fs \in SUBSET {"emd4", "md5", "sha1"}, n \in 0..2 }
NodeSends == Questions \cup Answers \cup Holes \cup PartsOfFiles \cup Others

T(form, key, type, val) == [form |-> form, key |-> key, type |-> type, val |-> val]

(* Tags of every form and type the parse reads past; float, bool and        *)
(* bool-array tags are not among them: it leaves their values in the packet. *)
PlainTags ==
    { T("compact", <<Ft.FILENAME>>, TagType.STRING, <<>>),
      T("compact", <<Ft.FILENAME>>, TagType.STR1 + 1, <<97, 98>>),
      T("long", <<Ft.FILENAME>>, TagType.STRING, <<97>>),
      T("long", <<Ft.FILESIZE>>, TagType.UINT32, <<9, 8, 7, 6>>),
      T("compact", <<Ft.FILESIZE>>, TagType.UINT16, <<9, 8>>),
      T("compact", <<Ft.FILESIZE>>, TagType.UINT64, <<9, 8, 7, 6, 5, 0, 0, 1>>),
      T("compact", <<Ft.FILEFORMAT>>, TagType.BLOB, <<1, 2, 3>>),
      T("compact", <<Ft.SOURCES>>, TagType.UINT8, <<7>>),
      T("compact", <<Ft.GAPSTART>>, TagType.UINT32, <<1, 0, 0, 0>>),
      T("compact", <<40>>, TagType.HASH, [i \in 1..16 |-> 10 + i]),
      T("text", Text.Artist, TagType.STRING, <<98>>) }

(* Any three tags behind one another in one file, and any two files with    *)
(* two tags between them at most.                                           *)
UpTo(n) == UNION { [1..k -> PlainTags] : k \in 0..n }
Found(i, tags) ==
    [hash |-> [j \in 1..16 |-> 10 * i + j], cid |-> <<i, 2, 3, 4>>, port |-> <<i, 17>>,
     tags |-> tags]
Results ==
    { <<>> } \cup { <<Found(1, ts)>> : ts \in UpTo(3) }
      \cup { <<Found(1, ts), Found(2, us)>> : ts \in UpTo(1), us \in UpTo(2) }
      \cup { <<Found(1, ts), Found(2, us)>> : ts \in UpTo(2), us \in UpTo(1) }

-----------------------------------------------------------------------------
ClientSends ==
    Logins \cup Hellos \cup Asked \cup Searches \cup Callbacks \cup OfHash \cup Requests(3)
      \cup Texts \cup Ids \cup Status \cup Sources(1) \cup Called \cup Blocks \cup NodeSends \cup Saves
ClientGets ==
    HelloAnswers \cup Texts \cup Ids \cup Status \cup Lists \cup Sources(0) \cup Sources(1)
      \cup Called \cup Blocks \cup [kind : {"SEARCHRESULT"}, fs : Results]
=============================================================================
