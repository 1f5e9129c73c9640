------------------------------- MODULE Coding -------------------------------
(***************************************************************************)
(* Encoding and Decoding (src/encoding), the byte writer and the cursor    *)
(* that every message of the protocol is written and read with.  A byte is *)
(* a number below 256 and a fixed width number is the tuple of its bytes,  *)
(* lowest first, the order put and get use unless they are told otherwise. *)
(*                                                                         *)
(* A cursor is a record: ok is FALSE once a read has thrown, rest is what  *)
(* lies behind the offset and m holds the fields read so far.              *)
(***************************************************************************)
EXTENDS Integers, SequencesExt

STR_TAG == 2
INT_TAG == 3

\* What nbuf and vbuf hold, into which a parse reads the name and text of a tag.
BufLen == 256

\* Numbers that count something are compared with the length of a packet
\* only; those that need a fourth byte are longer than any packet.
Beyond == 256 * 256 * 256

Digit(bytes, i) == IF i \in DOMAIN bytes THEN bytes[i] ELSE 0

Num(bytes) ==
    IF \E i \in DOMAIN bytes : i > 3 /\ bytes[i] # 0
      THEN Beyond
      ELSE Digit(bytes, 1) + 256 * (Digit(bytes, 2) + 256 * Digit(bytes, 3))

\* The w bytes of a number below Beyond: put(uint8_t) to put(uint64_t) cast
\* what they are given, so higher bytes are cut off.
Le(n, w) ==
    [i \in 1..w |-> CASE i = 1 -> n % 256
                      [] i = 2 -> (n \div 256) % 256
                      [] i = 3 -> ((n \div 256) \div 256) % 256
                      [] OTHER -> 0]

\* put(val, true): the same bytes, highest first.
Be(bytes) == Reverse(bytes)

\* putv(uint8_t, Data &) and putv(uint8_t, uint32_t): a tag whose name is one
\* byte.
StrTag(name, text) ==
    <<STR_TAG>> \o Le(1, 2) \o <<name>> \o Le(Len(text), 2) \o text
IntTag(name, word) == <<INT_TAG>> \o Le(1, 2) \o <<name>> \o word

-----------------------------------------------------------------------------

Cursor(rest, m) == [ok |-> TRUE, rest |-> rest, m |-> m]

Decoding(data) == Cursor(data, <<>>)

Throw(d) == [ok |-> FALSE, rest |-> d.rest, m |-> d.m]

Holding(m, name, val) ==
    [f \in DOMAIN m \cup {name} |-> IF f = name THEN val ELSE m[f]]

With(d, name, val) == Cursor(d.rest, Holding(d.m, name, val))

\* What a read is asked for: w bytes, or as many as a field read before says,
\* turned round when they are big endian.
U(name, w) == [name |-> name, width |-> w, of |-> "none", big |-> FALSE]
B(name, w) == [U(name, w) EXCEPT !.big = TRUE]
D(name, of) == [U(name, 0) EXCEPT !.of = of]

\* Mutant of Take: a read over the end gives what there is.
TakeWhatIs(d, f, w) ==
    LET n == IF w > Len(d.rest) THEN Len(d.rest) ELSE w
    IN  Cursor(SubSeq(d.rest, n + 1, Len(d.rest)),
               Holding(d.m, f.name, SubSeq(d.rest, 1, n) \o Le(0, w - n)))

Turned(bytes, big) == IF big THEN Be(bytes) ELSE bytes

\* Decoding::get and getdata: throws if fewer than w bytes are left.
Take(d, f, w) ==
    IF w > Len(d.rest) THEN Throw(d)
    ELSE Cursor(SubSeq(d.rest, w + 1, Len(d.rest)),
           Holding(d.m, f.name, Turned(SubSeq(d.rest, 1, w), f.big)))

\* What a parse does next, unless it has thrown.
Then(d, next(_)) == IF d.ok THEN next(d) ELSE d

Get(d, f) ==
    Then(d, LAMBDA e : Take(e, f, IF f.of = "none" THEN f.width ELSE Num(e.m[f.of])))

Read(d, layout) ==
    LET read[k \in 0 .. Len(layout)] == IF k = 0 THEN d ELSE Get(read[k - 1], layout[k])
    IN  read[Len(layout)]

\* n passes of a loop; a throw leaves it.
Times(d, n, one(_)) ==
    LET run[i \in 0..n] == IF i = 0 THEN d ELSE Then(run[i - 1], one)
    IN  run[n]

\* The loops that read one thing n times.  Each takes a byte at least, so
\* more of them than bytes end in a throw.
Repeat(d, n, one(_)) ==
    Then(d, LAMBDA e : IF n > Len(e.rest) THEN Throw(e) ELSE Times(e, n, one))

\* The record read by r becomes the last of the list name of e.
Listed(e, name, r) ==
    Then(r, LAMBDA q : Cursor(q.rest, [e.m EXCEPT ![name] = Append(@, q.m)]))

\* Each record of a list starts from no fields.
Fresh(d) == Cursor(d.rest, <<>>)

ReadList(d, name, n, layout) ==
    Repeat(With(d, name, <<>>), n, LAMBDA e : Listed(e, name, Read(Fresh(e), layout)))

\* Decoding::getstring(len): with 0 it reads a length of two bytes first.
GetString(d, name, len) ==
    IF len # 0 THEN Get(d, U(name, len))
    ELSE Read(d, <<U("slen", 2), D(name, "slen")>>)

KeptTag(d, table) ==
    IF d.ok /\ Digit(d.m["tname"], 1) \in DOMAIN table
      THEN With(d, table[d.m["tname"][1]], d.m["tval"]) ELSE d

\* The tag that was read behind d, in the buffers: get copies into them as many
\* bytes as the tag says.  More than they hold are written over what lies
\* behind them; that is undefined, and the parse is taken to end there.  Of a
\* name without bytes the switch sees the byte the name before it left.
InBuffers(d, e) ==
    IF e.ok /\ (Len(e.m["tname"]) > BufLen \/ Len(e.m["tval"]) > BufLen) THEN Throw(e)
    ELSE IF e.ok /\ e.m["tname"] = <<>> /\ "tname" \in DOMAIN d.m
      THEN With(e, "tname", d.m["tname"])
    ELSE e

ReadTag(d, texts, words, skip) ==
    IF Num(d.m["tag"]) = STR_TAG
      THEN KeptTag(InBuffers(d, Read(d, <<U("nlen", 2), D("tname", "nlen"),
                                          U("vlen", 2), D("tval", "vlen")>>)), texts)
    ELSE IF skip /\ Num(d.m["tag"]) = INT_TAG
      THEN KeptTag(InBuffers(d, Read(d, <<U("nlen", 2), D("tname", "nlen"), U("tval", 4)>>)),
                   words)
    ELSE IF skip THEN d ELSE Throw(d)

\* The tag loops of Login, Hello and ServerIndent, n times: a text or a 32-bit
\* number whose name is in the table given is kept.  A tag of another kind is
\* not read past if skip is set, and throws otherwise.
ReadTags(d, n, texts, words, skip) ==
    Repeat(d, n, LAMBDA e : Then(Get(e, U("tag", 1)),
                                 LAMBDA t : ReadTag(t, texts, words, skip)))

\* Decoding::inflate: what zlib packed is unpacked in place, and data that
\* was not packed throws.  Packed bytes stand apart from plain ones.
Packed(data) == [i \in DOMAIN data |-> IF i = 1 THEN data[i] ELSE data[i] + 256]
Inflate(d) ==
    IF \A i \in DOMAIN d.rest : d.rest[i] >= 256
      THEN Cursor([i \in DOMAIN d.rest |-> d.rest[i] - 256], d.m) ELSE Throw(d)

IsOne(d, ops) == IF Num(d.m["op"]) \in ops THEN d ELSE Throw(d)

\* How every parse begins: the first byte is the operation, and the rest of a
\* packet with the packed magic is inflated.
Body(data, ops, packed) ==
    Then(Then(Get(Decoding(data), U("op", 1)), LAMBDA d : IsOne(d, ops)),
         LAMBDA d : IF packed THEN Inflate(d) ELSE d)
=============================================================================
