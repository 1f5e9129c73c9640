---------------------------- MODULE ResultFormat ----------------------------
(***************************************************************************)
(* A search result as a server may write it, tag by tag, and what a reader *)
(* is to find in it.                                                       *)
(***************************************************************************)
EXTENDS FileList

(* Sequences of less than n elements, texts, and numbers of a fixed width.  *)
Short(S, n) == { s \in Seq(S) : Len(s) < n }
Below(n) == Short(0..255, n)
Width(w) == [1..w -> 0..255]

NumberWidth ==
    [type \in {TagType.UINT8, TagType.UINT16, TagType.UINT32, TagType.UINT64} |->
       IF type = TagType.UINT8 THEN 1 ELSE IF type = TagType.UINT16 THEN 2
       ELSE IF type = TagType.UINT32 THEN 4 ELSE 8]

(* How long the value of a tag of each type may be.                         *)
ValuesOf(type) ==
    IF type \in DOMAIN NumberWidth THEN Width(NumberWidth[type])
    ELSE IF type = TagType.STRING THEN Below(256 * 256)
    ELSE IF type = TagType.BLOB THEN Below(Beyond)
    ELSE IF type = TagType.HASH THEN Width(16)
    ELSE Width(type - TagType.STR1 + 1)

(* The tags the parse reads past: it leaves the values of a float, a bool   *)
(* and a bool array in the packet.  A name, a format and what is named by a *)
(* text have texts for values, a size has a number.                         *)
Tags ==
    { t \in [form : {"compact", "long", "text"}, key : Below(256 * 256), type : 0..127,
             val : Below(Beyond)] :
        /\ t.type \in DOMAIN NumberWidth \cup {TagType.STRING, TagType.BLOB, TagType.HASH}
                        \cup TagType.STR1..TagType.STR16
        /\ t.val \in ValuesOf(t.type)
        /\ IF t.form = "text" THEN Len(t.key) > 1 ELSE Len(t.key) = 1
        /\ t.form = "text" \/ t.key \in {<<Ft.FILENAME>>, <<Ft.FILEFORMAT>>}
             => t.type \notin DOMAIN NumberWidth
        /\ t.key = <<Ft.FILESIZE>> => t.type \in DOMAIN NumberWidth }

Entries == [hash : Width(16), cid : Width(4), port : Width(2), tags : Short(Tags, Beyond)]

-----------------------------------------------------------------------------
(* How a server writes a tag: a name of one byte behind a marked type, the  *)
(* same behind its length, or a text; then the value with what its type     *)
(* needs in front.                                                          *)
PutName(t) ==
    CASE t.form = "compact" -> <<t.type + 128>> \o t.key
      [] t.form = "long"    -> <<t.type>> \o (Le(1, 2) \o t.key)
      [] t.form = "text"    -> <<t.type>> \o (Le(Len(t.key), 2) \o t.key)

PutValue(t) ==
    CASE t.type = TagType.STRING -> Le(Len(t.val), 2) \o t.val
      [] t.type = TagType.BLOB   -> Le(Len(t.val), 4) \o t.val
      [] OTHER                   -> t.val

Put(t) == PutName(t) \o PutValue(t)

Entry(f) ==
    f.hash \o f.cid \o f.port \o Le(Len(f.tags), 4)
      \o FlattenSeq([k \in DOMAIN f.tags |-> Put(f.tags[k])])

ResultBytes(fs) == Le(Len(fs), 4) \o FlattenSeq([i \in DOMAIN fs |-> Entry(fs[i])])

-----------------------------------------------------------------------------
(* Every file found begins where the one before it ends.                    *)
InStep(found, fs) ==
    /\ Len(found) = Len(fs)
    /\ \A i \in DOMAIN fs :
         found[i]["hash"] = fs[i].hash /\ found[i]["cid"] = fs[i].cid
           /\ found[i]["port"] = fs[i].port

(* The last tag with a name is what the file gets.                          *)
IsLast(tags, i, key) == tags[i].key = key /\ \A j \in DOMAIN tags : j > i => tags[j].key # key

Tells(file, tags, key, field, wide) ==
    \A i \in DOMAIN tags : IsLast(tags, i, key) =>
        /\ field \in DOMAIN file
        /\ file[field] = IF wide THEN Widened(tags[i].val, 8) ELSE tags[i].val

(* The name, the length and the format the search result is shown with, and *)
(* the first two are what a download is started with; and the first text    *)
(* that names a tag.                                                        *)
SaysOf(file, f) ==
    /\ Tells(file, f.tags, <<Ft.FILENAME>>, "name", FALSE)
    /\ Tells(file, f.tags, <<Ft.FILESIZE>>, "size", TRUE)
    /\ Tells(file, f.tags, <<Ft.FILEFORMAT>>, "format", FALSE)
    /\ Tells(file, f.tags, Text.Artist, "artist", FALSE)
=============================================================================
