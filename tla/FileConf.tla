------------------------------ MODULE FileConf ------------------------------
(***************************************************************************)
(* The file beside a download, .xcm: save and read of FileConf_            *)
(* (src/fs/fs.cpp).  Each field stands behind its number, those that are   *)
(* not there are left out, and it is written anew with every packet, so    *)
(* that a process that ends meanwhile leaves the first bytes of it.        *)
(***************************************************************************)
EXTENDS Coding

Sized(bytes) == Le(Len(bytes), 2) \o bytes

Marked(mark, m, name) == IF name \in DOMAIN m THEN <<mark>> \o Sized(m[name]) ELSE <<>>

Counted(mark, items) ==
    IF items = <<>> THEN <<>> ELSE <<mark>> \o Le(Len(items), 2) \o FlattenSeq(items)

FileConfSave(m) ==
    Marked(16, m, "filename") \o <<32>> \o m.size \o Marked(48, m, "emd4")
      \o Counted(64, [i \in DOMAIN m.ed2k |-> Sized(m.ed2k[i])])
      \o Marked(80, m, "md5") \o Marked(96, m, "sha1") \o Counted(112, m.parts)

Bytes1 == [n \in {16, 48, 80, 96} |-> CASE n = 16 -> "filename" [] n = 48 -> "emd4"
                                        [] n = 80 -> "md5"      [] n = 96 -> "sha1"]

(* A list begins anew with its count.  A number that is no field's is read  *)
(* past alone.                                                              *)
FileConfField(d) ==
    LET mark == Num(d.m["mark"])
        list(name, layout) ==
            Then(Get(d, U("count", 2)),
                 LAMBDA e : ReadList(e, name, Num(e.m["count"]), layout))
    IN  CASE mark \in DOMAIN Bytes1 -> Read(d, <<U("len", 2), D(Bytes1[mark], "len")>>)
          [] mark = 32  -> Get(d, U("size", 8))
          [] mark = 64  -> list("ed2k", <<U("len", 2), D("hash", "len")>>)
          [] mark = 112 -> list("parts", <<U("at", 8)>>)
          [] OTHER      -> d

(* Until the offset is at the end; a pass takes a byte at least.            *)
FileConfRead(data) ==
    Times(Decoding(data), Len(data),
          LAMBDA d : IF d.rest = <<>> THEN d ELSE Then(Get(d, U("mark", 1)), FileConfField))
=============================================================================
