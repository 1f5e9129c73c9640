------------------------------ MODULE FileList ------------------------------
(***************************************************************************)
(* A list of files as a server sends it after a search: FTagParser,        *)
(* FileEntry_ and FileList of src/protocol/ed2k_protocol.cpp.  The list    *)
(* has no lengths, so an entry is where the tags before it end.            *)
(***************************************************************************)
EXTENDS Coding, Opcodes

(* The texts a tag can be named by, two letters of each.                    *)
Text == [ Artist |-> <<65, 114>>, Album |-> <<65, 108>>, Title |-> <<84, 105>>,
          length |-> <<108, 101>>, bitrate |-> <<98, 105>>, codec |-> <<99, 111>> ]

Widened(bytes, w) == bytes \o Le(0, w - Len(bytes))

(* The value behind the name of a tag, by its type.                         *)
TagValue(d, type) ==
    CASE type = TagType.STRING -> GetString(d, "sval", 0)
      [] type = TagType.UINT32 -> Get(d, U("num", 4))
      [] type = TagType.UINT64 -> Get(d, U("num", 8))
      [] type = TagType.UINT16 -> Get(d, U("num", 2))
      [] type = TagType.UINT8  -> Get(d, U("num", 1))
      [] type \in {TagType.FLOAT32, TagType.BOOL, TagType.BOOLARRAY} -> d
      [] type \in TagType.STR1..TagType.STR16 ->
           GetString(d, "sval", type - TagType.STR1 + 1)
      [] type = TagType.HASH -> Get(d, U("sval", 16))
      [] type = TagType.BLOB -> Read(d, <<U("blen", 4), D("sval", "blen")>>)
      [] OTHER -> Throw(d)

(* The name of a tag: a type with its highest bit set is followed by a name *)
(* of one byte, another by the length of the name, and a length of one by   *)
(* such a byte too.                                                         *)
TagName(d) ==
    IF Num(d.m["type"]) >= 128 THEN Get(d, U("uname", 1))
    ELSE Then(Get(d, U("nlen", 2)),
              LAMBDA l : IF Num(l.m["nlen"]) = 1 THEN Get(l, U("uname", 1))
                         ELSE GetString(With(l, "uname", <<0>>), "sname", Num(l.m["nlen"])))

(* FTagParser::parse. *)
FTagParse(d) ==
    Then(Then(Get(d, U("type", 1)), TagName),
         LAMBDA n : TagValue(n, Num(n.m["type"]) % 128))

(* Mutant of u64v: only a tag of the longest numbers sets it.               *)
u64vLong(tag) == IF "num" \in DOMAIN tag /\ Len(tag["num"]) = 8 THEN tag["num"] ELSE Le(0, 8)

(* A tag's members: u64v is set by every number, u32v by all but the longest, *)
(* u8v by the shortest only; each is 0 when it is not set.                   *)
u64v(tag) == IF "num" \in DOMAIN tag THEN Widened(tag["num"], 8) ELSE Le(0, 8)
u32v(tag) == IF "num" \in DOMAIN tag /\ Len(tag["num"]) <= 4
               THEN Widened(tag["num"], 4) ELSE Le(0, 4)
u8v(tag)  == IF "num" \in DOMAIN tag /\ Len(tag["num"]) = 1
               THEN tag["num"] ELSE Le(0, 1)
sval(tag) == IF "sval" \in DOMAIN tag THEN tag["sval"] ELSE <<>>

(* A tag with a number for a name.                                          *)
Numbered(d, tag) ==
    LET name == Num(tag["uname"])
        text == "sval" \in DOMAIN tag
    IN  CASE name = Ft.FILENAME /\ text     -> With(d, "name", sval(tag))
          [] name = Ft.FILESIZE             -> With(d, "size", u64v(tag))
          [] name = Ft.FILETYPE             -> With(d, "type", sval(tag))
          [] name = Ft.FILEFORMAT /\ text   -> With(d, "format", sval(tag))
          [] name = Ft.SOURCES              -> With(d, "sources", u8v(tag))
          [] name = Ft.COMPLETE_SOURCES     -> With(d, "completed", u8v(tag))
          [] name = Ft.GAPSTART             -> With(d, "gapstart", u32v(tag))
          [] OTHER                          -> d

(* A tag with a text for a name.  From the third test on it is the value    *)
(* that is compared, and a tag without a text value ends the handler.       *)
Named(d, tag) ==
    LET name == tag["sname"]
        text == "sval" \in DOMAIN tag
        counts == { f \in {"length", "bitrate", "codec"} : Text[f] = sval(tag) }
    IN  IF name = Text.Artist /\ text       THEN With(d, "artist", sval(tag))
        ELSE IF name = Text.Album /\ text   THEN With(d, "album", sval(tag))
        ELSE IF ~text                       THEN Throw(d)
        ELSE IF sval(tag) = Text.Title      THEN With(d, "title", sval(tag))
        ELSE IF counts # {} THEN With(d, CHOOSE f \in counts : TRUE, u32v(tag))
        ELSE d

(* What the tag t that was read behind d adds to the file. *)
Tagged(d, t) ==
    IF Num(t["uname"]) # 0 THEN Numbered(d, t)
    ELSE IF "sname" \in DOMAIN t THEN Named(d, t)
    ELSE d

(* FileEntry_::parse. *)
FileEntryParse(d) ==
    Then(Read(d, <<U("hash", 16), U("cid", 4), U("port", 2), U("tc", 4)>>),
         LAMBDA h : Repeat(h, Num(h.m["tc"]),
           LAMBDA e : Then(FTagParse(Fresh(e)), LAMBDA t : Tagged(Cursor(t.rest, e.m), t.m))))

(* FileList::parse: the entries one behind the other. *)
FileListParse(data, packed) ==
    Then(Get(Body(data, {Op.SEARCHRESULT, Op.OFFERFILES}, packed), U("rc", 4)),
         LAMBDA h : Repeat(With(h, "fs", <<>>), Num(h.m["rc"]),
           LAMBDA e : Listed(e, "fs", FileEntryParse(Fresh(e)))))
=============================================================================
