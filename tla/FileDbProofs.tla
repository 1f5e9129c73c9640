----------------------------- MODULE FileDbProofs -----------------------------
(***************************************************************************)
(* Theorems about the file database, for any hashes, names, answers and    *)
(* numbers of rows: a hash leads to one row, no name a search brought is   *)
(* lost, no index refuses what a search adds, and rows only grow.          *)
(***************************************************************************)
EXTENDS FileDb, SequenceTheorems, WellFoundedInduction, TLAPS

Word == UNION { Range(n) : n \in Name }

Tables == UNION { [T -> Row] : T \in SUBSET (Nat \ {0}) }

(* A database is a table of rows, no tid above the last one given. *)
DbTyped(db) ==
    /\ db \in [rows : Tables, last : Nat, ok : BOOLEAN]
    /\ \A t \in DOMAIN db.rows : t <= db.last

(* No two rows share a hash of any kind. *)
Unique(db) ==
    \A type \in 0 .. 2 : \A t \in DOMAIN db.rows : \A u \in DOMAIN db.rows :
        Column(db.rows[t], type) = Column(db.rows[u], type)
        /\ Column(db.rows[t], type) # Null => t = u

(* One name is part of another. *)
Within(name, filename) ==
    \E i \in 0 .. Len(filename) - Len(name) :
        SubSeq(filename, i + 1, i + Len(name)) = name

(* Of each hash the row has the names that came for it. *)
Brought(db, names) ==
    \A h \in Hash : \A name \in names[h] :
        \E t \in Found(db, h, 2) : Within(name, db.rows[t].filename)

(* What a row may become. *)
SameFile(r, s) ==
    /\ r.sha = s.sha /\ r.md5 = s.md5 /\ r.emd4 = s.emd4
    /\ r.size = s.size /\ r.status = s.status
    /\ IsPrefix(r.filename, s.filename)

(* b has the rows of a, grown, and new ones with tids not yet given.        *)
Grown(a, b) ==
    /\ a.last <= b.last
    /\ \A t \in DOMAIN a.rows : t \in DOMAIN b.rows /\ SameFile(a.rows[t], b.rows[t])
    /\ \A t \in DOMAIN b.rows : t \notin DOMAIN a.rows => t > a.last

-------------------------------------------------------------------------------
LEMMA ColumnOf ==
    \A row : Column(row, 0) = row.sha /\ Column(row, 1) = row.md5 /\ Column(row, 2) = row.emd4
BY DEF Column

LEMMA FoundRows ==
    \A db, hash, type, t :
        t \in Found(db, hash, type) <=>
            t \in DOMAIN db.rows /\ Column(db.rows[t], type) = hash /\ hash # Null
BY DEF Found

LEMMA NamesAreWords == \A name \in Name : name \in Seq(Word)
BY FileDbAssumption DEF Word

LEMMA RowTyped ==
    ASSUME NEW r \in Row
    PROVE  /\ r.sha \in Hash \cup {Null} /\ r.md5 \in Hash \cup {Null} /\ r.emd4 \in Hash
           /\ r.filename \in Seq(Word) /\ r.size \in Nat
           /\ r.status \in {FDSS_SHARING, NoStatus}
BY DEF Row, Word

LEMMA TableTyped ==
    ASSUME NEW rows \in Tables
    PROVE  /\ DOMAIN rows \subseteq Nat \ {0}
           /\ rows \in [DOMAIN rows -> Row]
           /\ \A t \in DOMAIN rows : rows[t] \in Row
BY DEF Tables

-------------------------------------------------------------------------------
(* One name behind another: what was part of the first, and the second, are *)
(* parts of the whole, and the first is its beginning.                      *)
LEMMA PrefixSame ==
    ASSUME NEW s \in Seq(Word) PROVE IsPrefix(s, s) /\ Within(s, s)
<1>1. Len(s) \in Nat
  BY LenProperties
<1>2. IsPrefix(s, s)
  BY <1>1 DEF IsPrefix
<1>3. SubSeq(s, 0 + 1, 0 + Len(s)) = s
  <2>1. \A i \in 1 .. Len(s) : s[i] \in Word
    BY ElementOfSeq
  <2>2. /\ SubSeq(s, 1, Len(s)) \in Seq(Word)
        /\ Len(SubSeq(s, 1, Len(s))) = IF 1 <= Len(s) THEN Len(s) - 1 + 1 ELSE 0
        /\ \A i \in 1 .. Len(s) - 1 + 1 : SubSeq(s, 1, Len(s))[i] = s[1 + i - 1]
    BY <1>1, <2>1, SubSeqProperties
  <2>3. /\ Len(SubSeq(s, 1, Len(s))) = Len(s)
        /\ \A i \in 1 .. Len(s) : SubSeq(s, 1, Len(s))[i] = s[i]
    BY <1>1, <2>2
  <2>4. SubSeq(s, 1, Len(s)) = s
    BY <2>2, <2>3, SeqEqual
  <2> QED BY <1>1, <2>4
<1>4. 0 \in 0 .. Len(s) - Len(s)
  BY <1>1
<1> QED BY <1>2, <1>3, <1>4 DEF Within

(* A prefix, point by point. *)
LEMMA PrefixPoints ==
    ASSUME NEW s \in Seq(Word), NEW t \in Seq(Word)
    PROVE  IsPrefix(s, t) <=> Len(s) <= Len(t) /\ \A i \in 1 .. Len(s) : s[i] = t[i]
<1>1. Len(s) \in Nat /\ Len(t) \in Nat
  BY LenProperties
<1>2. ASSUME Len(s) <= Len(t)
      PROVE  /\ SubSeq(s, 1, Len(s)) \in Seq(Word) /\ Len(SubSeq(s, 1, Len(s))) = Len(s)
             /\ \A i \in 1 .. Len(s) : SubSeq(s, 1, Len(s))[i] = s[i]
             /\ SubSeq(t, 1, Len(s)) \in Seq(Word) /\ Len(SubSeq(t, 1, Len(s))) = Len(s)
             /\ \A i \in 1 .. Len(s) : SubSeq(t, 1, Len(s))[i] = t[i]
  <2>1. \A i \in 1 .. Len(s) : s[i] \in Word /\ t[i] \in Word
    <3>1. \A i \in 1 .. Len(s) : i \in 1 .. Len(t)
      BY <1>1, <1>2
    <3> QED BY <3>1, ElementOfSeq
  <2>2. /\ SubSeq(s, 1, Len(s)) \in Seq(Word)
        /\ Len(SubSeq(s, 1, Len(s))) = IF 1 <= Len(s) THEN Len(s) - 1 + 1 ELSE 0
        /\ \A i \in 1 .. Len(s) - 1 + 1 : SubSeq(s, 1, Len(s))[i] = s[1 + i - 1]
    BY <1>1, <2>1, SubSeqProperties
  <2>3. /\ SubSeq(t, 1, Len(s)) \in Seq(Word)
        /\ Len(SubSeq(t, 1, Len(s))) = IF 1 <= Len(s) THEN Len(s) - 1 + 1 ELSE 0
        /\ \A i \in 1 .. Len(s) - 1 + 1 : SubSeq(t, 1, Len(s))[i] = t[1 + i - 1]
    BY <1>1, <2>1, SubSeqProperties
  <2> QED BY <1>1, <2>2, <2>3
<1>3. ASSUME Len(s) <= Len(t), \A i \in 1 .. Len(s) : s[i] = t[i]
      PROVE  SubSeq(s, 1, Len(s)) = SubSeq(t, 1, Len(s))
  <2> DEFINE a == SubSeq(s, 1, Len(s))
             b == SubSeq(t, 1, Len(s))
  <2>1. /\ a \in Seq(Word) /\ b \in Seq(Word) /\ Len(a) = Len(b)
        /\ \A i \in 1 .. Len(a) : a[i] = b[i]
    BY <1>2, <1>3
  <2> HIDE DEF a, b
  <2>2. a = b
    BY <2>1, SeqEqual
  <2> QED BY <2>2 DEF a, b
<1>4. ASSUME Len(s) <= Len(t), SubSeq(s, 1, Len(s)) = SubSeq(t, 1, Len(s)),
             NEW i \in 1 .. Len(s)
      PROVE  s[i] = t[i]
  BY <1>2, <1>4
<1> QED BY <1>3, <1>4 DEF IsPrefix

LEMMA PrefixTrans ==
    ASSUME NEW r \in Seq(Word), NEW s \in Seq(Word), NEW t \in Seq(Word),
           IsPrefix(r, s), IsPrefix(s, t)
    PROVE  IsPrefix(r, t)
<1>1. Len(r) \in Nat /\ Len(s) \in Nat /\ Len(t) \in Nat
  BY LenProperties
<1>2. /\ Len(r) <= Len(s) /\ \A i \in 1 .. Len(r) : r[i] = s[i]
      /\ Len(s) <= Len(t) /\ \A i \in 1 .. Len(s) : s[i] = t[i]
  BY PrefixPoints
<1>3. Len(r) <= Len(t)
  BY <1>1, <1>2
<1>4. \A i \in 1 .. Len(r) : i \in 1 .. Len(s)
  BY <1>1, <1>2
<1> QED BY <1>2, <1>3, <1>4, PrefixPoints

(* What is within a beginning is within the whole. *)
LEMMA WithinPrefix ==
    ASSUME NEW name \in Seq(Word), NEW s \in Seq(Word), NEW t \in Seq(Word),
           IsPrefix(s, t), Within(name, s)
    PROVE  Within(name, t)
<1>1. Len(name) \in Nat /\ Len(s) \in Nat /\ Len(t) \in Nat
  BY LenProperties
<1>2. Len(s) <= Len(t) /\ \A i \in 1 .. Len(s) : s[i] = t[i]
  BY PrefixPoints
<1>3. PICK i \in 0 .. Len(s) - Len(name) : SubSeq(s, i + 1, i + Len(name)) = name
  BY DEF Within
<1>4. i \in Nat /\ i + Len(name) <= Len(s) /\ i \in 0 .. Len(t) - Len(name)
  BY <1>1, <1>2, <1>3
<1>5. \A j \in i + 1 .. i + Len(name) : s[j] = t[j] /\ s[j] \in Word /\ t[j] \in Word
  <2>1. \A j \in i + 1 .. i + Len(name) : j \in 1 .. Len(s)
    BY <1>1, <1>4
  <2> QED BY <1>2, <2>1, ElementOfSeq
<1>6. SubSeq(s, i + 1, i + Len(name)) = SubSeq(t, i + 1, i + Len(name))
  <2> DEFINE m == i + 1
             n == i + Len(name)
             a == SubSeq(s, m, n)
             b == SubSeq(t, m, n)
  <2>1. m \in Int /\ n \in Int
    BY <1>1, <1>4
  <2>2. \A j \in m .. n : s[j] = t[j] /\ s[j] \in Word /\ t[j] \in Word
    BY <1>5
  <2> HIDE DEF m, n
  <2>3. /\ a \in Seq(Word) /\ Len(a) = IF m <= n THEN n - m + 1 ELSE 0
        /\ \A j \in 1 .. n - m + 1 : a[j] = s[m + j - 1]
    BY <2>1, <2>2, SubSeqProperties
  <2>4. /\ b \in Seq(Word) /\ Len(b) = IF m <= n THEN n - m + 1 ELSE 0
        /\ \A j \in 1 .. n - m + 1 : b[j] = t[m + j - 1]
    BY <2>1, <2>2, SubSeqProperties
  <2> HIDE DEF a, b
  <2>5. \A j \in 1 .. n - m + 1 : m + j - 1 \in m .. n
    BY <2>1
  <2>6. Len(a) = Len(b) /\ \A j \in 1 .. Len(a) : a[j] = b[j]
    <3>1. CASE m <= n
      BY <2>1, <2>2, <2>3, <2>4, <2>5, <3>1
    <3>2. CASE ~(m <= n)
      BY <2>1, <2>3, <2>4, <3>2
    <3> QED BY <3>1, <3>2
  <2>7. a = b
    BY <2>3, <2>4, <2>6, SeqEqual
  <2> QED BY <2>7 DEF a, b, m, n
<1> QED BY <1>3, <1>4, <1>6 DEF Within

LEMMA JoinedNames ==
    ASSUME NEW old \in Seq(Word), NEW new \in Seq(Word)
    PROVE  /\ Joined(old, new) \in Seq(Word)
           /\ IsPrefix(old, Joined(old, new))
           /\ Within(new, Joined(old, new))
<1> DEFINE all == old \o new
           i == Len(old)
           n == Len(new)
<1>1. /\ all \in Seq(Word) /\ Len(all) = i + n /\ i \in Nat /\ n \in Nat
      /\ \A j \in 1 .. i + n : all[j] = IF j <= i THEN old[j] ELSE new[j - i]
  BY ConcatProperties, LenProperties
<1> HIDE DEF all
<1>2. Len(old) <= Len(all) /\ \A j \in 1 .. Len(old) : old[j] = all[j]
  BY <1>1
<1>3. IsPrefix(old, all)
  BY <1>1, <1>2, PrefixPoints
<1>4. SubSeq(all, i + 1, i + n) = new
  <2> DEFINE a == SubSeq(all, i + 1, i + n)
  <2>1. \A j \in i + 1 .. i + n : all[j] \in Word
    <3>1. \A j \in i + 1 .. i + n : j \in 1 .. Len(all)
      BY <1>1
    <3> QED BY <1>1, <3>1, ElementOfSeq
  <2>2. i + 1 \in Int /\ i + n \in Int
    BY <1>1
  <2>3. /\ a \in Seq(Word) /\ Len(a) = IF i + 1 <= i + n THEN i + n - (i + 1) + 1 ELSE 0
        /\ \A j \in 1 .. i + n - (i + 1) + 1 : a[j] = all[i + 1 + j - 1]
    BY <2>1, <2>2, SubSeqProperties
  <2> HIDE DEF a
  <2>4. Len(a) = n
    BY <1>1, <2>3
  <2>5. ASSUME NEW j \in 1 .. n PROVE a[j] = new[j]
    <3>1. i + 1 + j - 1 = i + j /\ i + j \in 1 .. i + n /\ ~(i + j <= i) /\ i + j - i = j
      BY <1>1
    <3>2. j \in 1 .. i + n - (i + 1) + 1
      BY <1>1
    <3> QED BY <1>1, <2>3, <3>1, <3>2
  <2>6. a = new
    BY <2>3, <2>4, <2>5, SeqEqual
  <2> QED BY <2>6 DEF a
<1>5. i \in 0 .. Len(all) - Len(new)
  BY <1>1
<1>6. Within(new, all)
  BY <1>4, <1>5 DEF Within
<1> QED BY <1>1, <1>3, <1>6 DEF Joined, all

-------------------------------------------------------------------------------
(* A row that no index refuses is added behind the others. *)
LEMMA AddGood ==
    ASSUME NEW db, DbTyped(db), Unique(db), NEW row \in Row, ~Refused(db, row)
    PROVE  LET e == Add(db, row)
               n == db.last + 1
           IN  /\ DbTyped(e) /\ Unique(e) /\ Grown(db, e) /\ e.ok = db.ok
               /\ e.last = n /\ n \notin DOMAIN db.rows
               /\ DOMAIN e.rows = DOMAIN db.rows \cup {n} /\ e.rows[n] = row
               /\ \A t \in DOMAIN db.rows : e.rows[t] = db.rows[t]
<1> DEFINE e == Add(db, row)
           n == db.last + 1
<1>1. /\ db \in [rows : Tables, last : Nat, ok : BOOLEAN]
      /\ \A t \in DOMAIN db.rows : t <= db.last
  BY DEF DbTyped
<1>2. /\ DOMAIN db.rows \subseteq Nat \ {0}
      /\ \A t \in DOMAIN db.rows : db.rows[t] \in Row
  BY <1>1, TableTyped
<1>3. e = [db EXCEPT !.rows = WithRow(db.rows, n, row), !.last = n]
  BY <1>1 DEF Add
<1>4. /\ e \in [rows : {WithRow(db.rows, n, row)}, last : {n}, ok : BOOLEAN]
      /\ e.rows = WithRow(db.rows, n, row) /\ e.last = n /\ e.ok = db.ok
  BY <1>1, <1>3
<1> HIDE DEF e
<1>5. n \in Nat \ {0} /\ n > db.last /\ n \notin DOMAIN db.rows
  BY <1>1
<1> HIDE DEF n
<1>6. /\ DOMAIN e.rows = DOMAIN db.rows \cup {n} /\ e.rows[n] = row
      /\ \A t \in DOMAIN db.rows : e.rows[t] = db.rows[t]
  BY <1>4, <1>5 DEF WithRow
<1>7. WithRow(db.rows, n, row) \in [DOMAIN db.rows \cup {n} -> Row]
  BY <1>2 DEF WithRow
<1>8. WithRow(db.rows, n, row) \in Tables
  BY <1>2, <1>5, <1>7 DEF Tables
<1>9. DbTyped(e)
  <2>1. \A t \in DOMAIN e.rows : t <= e.last
    <3>1. \A t \in DOMAIN db.rows : t <= n
      BY <1>1, <1>2, <1>5
    <3> QED BY <1>4, <1>5, <1>6, <3>1
  <2> QED BY <1>4, <1>5, <1>8, <2>1 DEF DbTyped
<1>10. Unique(e)
  <2> SUFFICES ASSUME NEW type \in 0 .. 2, NEW t \in DOMAIN e.rows, NEW u \in DOMAIN e.rows,
                      Column(e.rows[t], type) = Column(e.rows[u], type),
                      Column(e.rows[t], type) # Null
               PROVE  t = u
    BY DEF Unique
  <2>1. \A v \in DOMAIN db.rows :
            ~(Column(db.rows[v], type) = Column(row, type) /\ Column(row, type) # Null)
    <3>1. Found(db, Column(row, type), type) = {}
      BY DEF Refused
    <3> QED BY <3>1, FoundRows
  <2>2. CASE t \in DOMAIN db.rows /\ u \in DOMAIN db.rows
    BY <1>6, <2>2 DEF Unique
  <2>3. CASE t = n /\ u = n
    BY <2>3
  <2>4. CASE t = n /\ u \in DOMAIN db.rows
    BY <1>6, <2>1, <2>4
  <2>5. CASE t \in DOMAIN db.rows /\ u = n
    BY <1>6, <2>1, <2>5
  <2> QED BY <1>6, <2>2, <2>3, <2>4, <2>5
<1>11. Grown(db, e)
  <2>1. db.last <= e.last
    BY <1>1, <1>4, <1>5
  <2>2. \A t \in DOMAIN db.rows : SameFile(db.rows[t], e.rows[t])
    BY <1>2, <1>6, RowTyped, PrefixSame DEF SameFile
  <2> QED BY <1>5, <1>6, <2>1, <2>2 DEF Grown
<1> QED BY <1>4, <1>5, <1>6, <1>9, <1>10, <1>11 DEF e, n

(* A row that gets a longer name stays what it was otherwise. *)
LEMMA UpdateGood ==
    ASSUME NEW db, DbTyped(db), Unique(db), NEW tid \in DOMAIN db.rows,
           NEW name \in Seq(Word), IsPrefix(db.rows[tid].filename, name)
    PROVE  LET e == UpdateFilename(db, tid, name)
           IN  /\ DbTyped(e) /\ Unique(e) /\ Grown(db, e) /\ e.ok = db.ok
               /\ DOMAIN e.rows = DOMAIN db.rows /\ e.rows[tid].filename = name
               /\ e.rows[tid].emd4 = db.rows[tid].emd4
<1> DEFINE e == UpdateFilename(db, tid, name)
           r == db.rows[tid]
           new == [r EXCEPT !.filename = name]
           rows == [db.rows EXCEPT ![tid] = new]
<1>1. /\ db \in [rows : Tables, last : Nat, ok : BOOLEAN]
      /\ \A t \in DOMAIN db.rows : t <= db.last
  BY DEF DbTyped
<1>2. /\ DOMAIN db.rows \subseteq Nat \ {0}
      /\ db.rows \in [DOMAIN db.rows -> Row]
      /\ \A t \in DOMAIN db.rows : db.rows[t] \in Row
  BY <1>1, TableTyped
<1>3. e = [db EXCEPT !.rows = rows]
  BY DEF UpdateFilename
<1>4. new \in Row /\ SameFile(r, new) /\ new.filename = name
  <2>1. r \in Row
    BY <1>2
  <2>2. /\ new \in Row
        /\ new.sha = r.sha /\ new.md5 = r.md5 /\ new.emd4 = r.emd4
        /\ new.size = r.size /\ new.status = r.status /\ new.filename = name
    BY <2>1 DEF Row, Word
  <2> QED BY <2>2 DEF SameFile
<1> HIDE DEF new
<1>5. /\ rows \in [DOMAIN db.rows -> Row] /\ DOMAIN rows = DOMAIN db.rows
      /\ rows[tid] = new
      /\ \A t \in DOMAIN db.rows : t # tid => rows[t] = db.rows[t]
  BY <1>2, <1>4
<1> HIDE DEF rows
<1>6. rows \in Tables
  BY <1>2, <1>5 DEF Tables
<1>7. /\ e.rows = rows /\ e.last = db.last /\ e.ok = db.ok
      /\ e \in [rows : Tables, last : Nat, ok : BOOLEAN]
  BY <1>1, <1>3, <1>6
<1> HIDE DEF e
<1>8. DbTyped(e)
  BY <1>1, <1>5, <1>7 DEF DbTyped
<1>9. \A t \in DOMAIN db.rows : SameFile(db.rows[t], rows[t])
  <2>1. \A t \in DOMAIN db.rows : SameFile(db.rows[t], db.rows[t])
    BY <1>2, RowTyped, PrefixSame DEF SameFile
  <2> QED BY <1>4, <1>5, <2>1 DEF r
<1>10. \A type \in 0 .. 2 : \A t \in DOMAIN db.rows :
          Column(rows[t], type) = Column(db.rows[t], type)
  <2> SUFFICES ASSUME NEW type \in 0 .. 2, NEW t \in DOMAIN db.rows
               PROVE  Column(rows[t], type) = Column(db.rows[t], type)
    OBVIOUS
  <2>1. SameFile(db.rows[t], rows[t])
    BY <1>9
  <2>2. type = 0 \/ type = 1 \/ type = 2
    OBVIOUS
  <2> QED BY <2>1, <2>2, ColumnOf DEF SameFile
<1>11. Unique(e)
  <2> SUFFICES ASSUME NEW type \in 0 .. 2, NEW t \in DOMAIN db.rows, NEW u \in DOMAIN db.rows,
                      Column(rows[t], type) = Column(rows[u], type),
                      Column(rows[t], type) # Null
               PROVE  t = u
    BY <1>5, <1>7 DEF Unique
  <2> QED BY <1>10 DEF Unique
<1>12. Grown(db, e)
  BY <1>1, <1>5, <1>7, <1>9 DEF Grown
<1>13. e.rows[tid].filename = name /\ e.rows[tid].emd4 = r.emd4
  BY <1>4, <1>5, <1>7 DEF SameFile
<1> QED BY <1>5, <1>7, <1>8, <1>11, <1>12, <1>13 DEF e, r

-------------------------------------------------------------------------------
LEMMA GrownSame ==
    ASSUME NEW db, DbTyped(db)
    PROVE  Grown(db, db)
<1>1. db.last \in Nat /\ \A t \in DOMAIN db.rows : db.rows[t] \in Row
  BY TableTyped DEF DbTyped
<1>2. \A t \in DOMAIN db.rows : SameFile(db.rows[t], db.rows[t])
  BY <1>1, RowTyped, PrefixSame DEF SameFile
<1> QED BY <1>1, <1>2 DEF Grown

LEMMA GrownTrans ==
    ASSUME NEW a, NEW b, NEW c, DbTyped(a), DbTyped(b), DbTyped(c),
           Grown(a, b), Grown(b, c)
    PROVE  Grown(a, c)
<1>1. /\ a.last \in Nat /\ b.last \in Nat /\ c.last \in Nat
      /\ a.last <= b.last /\ b.last <= c.last
      /\ DOMAIN b.rows \subseteq Nat /\ DOMAIN c.rows \subseteq Nat
  BY TableTyped DEF DbTyped, Grown
<1>2. ASSUME NEW t \in DOMAIN a.rows
      PROVE  t \in DOMAIN c.rows /\ SameFile(a.rows[t], c.rows[t])
  <2>1. t \in DOMAIN b.rows /\ SameFile(a.rows[t], b.rows[t])
    BY DEF Grown
  <2>2. t \in DOMAIN c.rows /\ SameFile(b.rows[t], c.rows[t])
    BY <2>1 DEF Grown
  <2>3. a.rows[t] \in Row /\ b.rows[t] \in Row /\ c.rows[t] \in Row
    BY <2>1, <2>2, TableTyped DEF DbTyped
  <2>4. /\ a.rows[t].filename \in Seq(Word) /\ b.rows[t].filename \in Seq(Word)
        /\ c.rows[t].filename \in Seq(Word)
    BY <2>3, RowTyped
  <2>5. IsPrefix(a.rows[t].filename, c.rows[t].filename)
    BY <2>1, <2>2, <2>4, PrefixTrans DEF SameFile
  <2> QED BY <2>1, <2>2, <2>5 DEF SameFile
<1>3. ASSUME NEW t \in DOMAIN c.rows, t \notin DOMAIN a.rows
      PROVE  t > a.last
  <2>1. CASE t \in DOMAIN b.rows
    BY <1>3, <2>1 DEF Grown
  <2>2. CASE t \notin DOMAIN b.rows
    <3>1. t > b.last
      BY <2>2 DEF Grown
    <3> QED BY <1>1, <3>1
  <2> QED BY <2>1, <2>2
<1> QED BY <1>1, <1>2, <1>3 DEF Grown

(* A name that is in the row of a hash stays there. *)
LEMMA KeptName ==
    ASSUME NEW a, NEW b, DbTyped(a), DbTyped(b), Grown(a, b),
           NEW name \in Name, NEW h,
           \E t \in Found(a, h, 2) : Within(name, a.rows[t].filename)
    PROVE  \E t \in Found(b, h, 2) : Within(name, b.rows[t].filename)
<1>1. PICK t \in Found(a, h, 2) : Within(name, a.rows[t].filename)
  OBVIOUS
<1>2. t \in DOMAIN a.rows /\ a.rows[t].emd4 = h /\ h # Null
  BY FoundRows, ColumnOf
<1>3. t \in DOMAIN b.rows /\ SameFile(a.rows[t], b.rows[t])
  BY <1>2 DEF Grown
<1>4. a.rows[t] \in Row /\ b.rows[t] \in Row
  BY <1>2, <1>3, TableTyped DEF DbTyped
<1>5. a.rows[t].filename \in Seq(Word) /\ b.rows[t].filename \in Seq(Word)
  BY <1>4, RowTyped
<1>6. IsPrefix(a.rows[t].filename, b.rows[t].filename) /\ b.rows[t].emd4 = h
  BY <1>2, <1>3 DEF SameFile
<1>7. Within(name, b.rows[t].filename)
  BY <1>1, <1>5, <1>6, NamesAreWords, WithinPrefix
<1>8. t \in Found(b, h, 2)
  BY <1>2, <1>3, <1>6, FoundRows, ColumnOf
<1> QED BY <1>7, <1>8

(* A hash leads to one row at most. *)
LEMMA OneFound ==
    ASSUME NEW db, Unique(db), NEW type \in 0 .. 2, NEW h, NEW t \in Found(db, h, type)
    PROVE  Found(db, h, type) = {t}
<1>1. \A u \in Found(db, h, type) : u = t
  BY FoundRows DEF Unique
<1> QED BY <1>1

LEMMA TheLeast == \A n \in Int : Min({n}) = n
<1> SUFFICES ASSUME NEW n \in Int PROVE Min({n}) = n
  OBVIOUS
<1>1. Min({n}) = CHOOSE x \in {n} : \A y \in {n} : x <= y
  BY DEF Min
<1>2. \E x \in {n} : \A y \in {n} : x <= y
  OBVIOUS
<1> QED BY <1>1, <1>2

(* A call that ends early leaves what is there. *)
LEMMA EndedGood ==
    ASSUME NEW db, DbTyped(db), Unique(db)
    PROVE  LET e == [db EXCEPT !.ok = FALSE]
           IN  /\ DbTyped(e) /\ Unique(e) /\ Grown(db, e) /\ ~e.ok
               /\ e.rows = db.rows /\ e.last = db.last
<1> DEFINE e == [db EXCEPT !.ok = FALSE]
<1>1. e.rows = db.rows /\ e.last = db.last /\ e.ok = FALSE
      /\ e \in [rows : Tables, last : Nat, ok : BOOLEAN]
  BY DEF DbTyped
<1> HIDE DEF e
<1>2. DbTyped(e) /\ Unique(e)
  BY <1>1 DEF DbTyped, Unique
<1>3. Grown(db, e)
  <2>1. Grown(db, db)
    BY GrownSame
  <2> QED BY <1>1, <2>1 DEF Grown
<1> QED BY <1>1, <1>2, <1>3 DEF e

(* A pass of the loop of OnFoundFile for a result with a name: the file is  *)
(* there afterwards, by its one row, and the name that came is part of the  *)
(* row's name.                                                              *)
LEMMA OnNamedGood ==
    ASSUME NEW db, DbTyped(db), Unique(db), db.ok, NEW f \in Entry, f.name # Null
    PROVE  LET e == OnEntry(db, f)
           IN  /\ DbTyped(e) /\ Unique(e) /\ Grown(db, e) /\ e.ok
               /\ \E t \in Found(e, f.hash, 2) : Within(f.name, e.rows[t].filename)
<1> DEFINE e == OnEntry(db, f)
           at == Found(db, f.hash, 2)
           row == [sha |-> Null, md5 |-> Null, emd4 |-> f.hash, filename |-> f.name,
                   size |-> f.size, status |-> NoStatus]
<1>1. /\ f.hash \in Hash /\ f.name \in Name /\ f.size \in Nat /\ f.hash # Null
      /\ f.name \in Seq(Word)
  BY FileDbAssumption, NamesAreWords DEF Entry
<1>2. CASE at = {}
  <2>1. e = Add(db, row)
    BY <1>1, <1>2 DEF OnEntry
  <2>2. row \in Row
    BY <1>1 DEF Row, Word
  <2>3. row.emd4 = f.hash /\ row.filename = f.name /\ row.sha = Null /\ row.md5 = Null
    OBVIOUS
  <2> HIDE DEF row
  <2>4. ~Refused(db, row)
    <3>1. ASSUME NEW type \in 0 .. 2 PROVE Found(db, Column(row, type), type) = {}
      <4>1. \A t : t \notin Found(db, Null, type)
        BY FoundRows
      <4>2. CASE type = 0 \/ type = 1
        BY <2>3, <4>1, <4>2, ColumnOf
      <4>3. CASE type = 2
        BY <1>2, <2>3, <4>3, ColumnOf
      <4> QED BY <4>2, <4>3
    <3> QED BY <3>1 DEF Refused
  <2> DEFINE n == db.last + 1
  <2> HIDE DEF e
  <2>9. LET d == Add(db, row)
        IN  /\ DbTyped(d) /\ Unique(d) /\ Grown(db, d) /\ d.ok = db.ok
            /\ DOMAIN d.rows = DOMAIN db.rows \cup {n} /\ d.rows[n] = row
    BY <2>2, <2>4, AddGood
  <2> HIDE DEF n
  <2>5. /\ DbTyped(e) /\ Unique(e) /\ Grown(db, e) /\ e.ok = db.ok
        /\ DOMAIN e.rows = DOMAIN db.rows \cup {n} /\ e.rows[n] = row
    BY <2>1, <2>9
  <2>6. n \in Found(e, f.hash, 2)
    BY <1>1, <2>3, <2>5, FoundRows, ColumnOf
  <2>7. Within(f.name, e.rows[n].filename)
    BY <1>1, <2>3, <2>5, PrefixSame
  <2> QED BY <2>5, <2>6, <2>7 DEF e
<1>3. CASE at # {}
  <2>1. PICK tid \in at : TRUE
    BY <1>3
  <2>2. at = {tid}
    BY <2>1, OneFound
  <2>3. tid \in DOMAIN db.rows /\ db.rows[tid].emd4 = f.hash
    BY <2>1, FoundRows, ColumnOf
  <2>4. tid \in Int /\ db.rows[tid] \in Row
    BY <2>3, TableTyped DEF DbTyped
  <2>5. Min(at) = tid
    BY <2>2, <2>4, TheLeast
  <2> DEFINE old == db.rows[tid].filename
  <2>6. old \in Seq(Word)
    BY <2>4, RowTyped
  <2>7. e = IF old = f.name THEN db ELSE UpdateFilename(db, tid, Joined(old, f.name))
    BY <1>1, <1>3, <2>5 DEF OnEntry
  <2> HIDE DEF at, e
  <2>8. CASE old = f.name
    <3>1. e = db
      BY <2>7, <2>8
    <3>2. Grown(db, db)
      BY GrownSame
    <3>3. Within(f.name, db.rows[tid].filename)
      BY <2>6, <2>8, PrefixSame
    <3>4. tid \in Found(db, f.hash, 2)
      BY <2>1 DEF at
    <3> QED BY <3>1, <3>2, <3>3, <3>4 DEF e
  <2>9. CASE old # f.name
    <3>1. e = UpdateFilename(db, tid, Joined(old, f.name))
      BY <2>7, <2>9
    <3>2. /\ Joined(old, f.name) \in Seq(Word) /\ IsPrefix(old, Joined(old, f.name))
          /\ Within(f.name, Joined(old, f.name))
      BY <1>1, <2>6, JoinedNames
    <3> DEFINE name == Joined(old, f.name)
    <3> HIDE DEF name
    <3>3. LET d == UpdateFilename(db, tid, name)
          IN  /\ DbTyped(d) /\ Unique(d) /\ Grown(db, d) /\ d.ok = db.ok
              /\ DOMAIN d.rows = DOMAIN db.rows /\ d.rows[tid].filename = name
              /\ d.rows[tid].emd4 = db.rows[tid].emd4
      BY <2>3, <3>2, UpdateGood DEF name
    <3>4. e = UpdateFilename(db, tid, name)
      BY <3>1 DEF name
    <3>5. /\ DbTyped(e) /\ Unique(e) /\ Grown(db, e) /\ e.ok = db.ok
          /\ DOMAIN e.rows = DOMAIN db.rows /\ e.rows[tid].filename = Joined(old, f.name)
          /\ e.rows[tid].emd4 = db.rows[tid].emd4
      BY <3>3, <3>4 DEF name
    <3>6. tid \in Found(e, f.hash, 2)
      BY <1>1, <2>3, <3>5, FoundRows, ColumnOf
    <3> QED BY <3>2, <3>5, <3>6 DEF e
  <2> QED BY <2>8, <2>9
<1> QED BY <1>2, <1>3

(* A pass for any result. *)
LEMMA OnEntryGood ==
    ASSUME NEW db, DbTyped(db), Unique(db), db.ok, NEW f \in Entry
    PROVE  LET e == OnEntry(db, f)
           IN  /\ DbTyped(e) /\ Unique(e) /\ Grown(db, e) /\ (e.ok <=> f.name # Null)
               /\ f.name # Null =>
                     \E t \in Found(e, f.hash, 2) : Within(f.name, e.rows[t].filename)
<1>1. CASE f.name = Null
  <2>1. OnEntry(db, f) = [db EXCEPT !.ok = FALSE]
    BY <1>1 DEF OnEntry
  <2> QED BY <1>1, <2>1, EndedGood
<1>2. CASE f.name # Null
  BY <1>2, OnNamedGood
<1> QED BY <1>1, <1>2

-------------------------------------------------------------------------------
(* The loop of OnFoundFile.  What a recursive function computes is shown by *)
(* least counterexample: the least pass after which it would not hold.      *)
LEMMA LeastPass ==
    ASSUME NEW S \in SUBSET Nat, S # {}
    PROVE  \E m \in S : \A k \in S : m <= k
<1> DEFINE R == OpToRel(<, Nat)
<1>1. \A x, y \in Nat : x < y => <<x, y>> \in R
  BY DEF OpToRel
<1>2. \E x \in S : \A y \in S : ~(<<y, x>> \in R)
  BY NatLessThanWellFounded, WFMin
<1> HIDE DEF R
<1>3. PICK x \in S : \A y \in S : ~(<<y, x>> \in R)
  BY <1>2
<1>4. ASSUME NEW y \in S PROVE x <= y
  <2>1. ~(y < x)
    BY <1>1, <1>3
  <2> QED BY <2>1
<1> QED BY <1>4

(* The first i results have names. *)
Named(fs, i) == \A k \in 1 .. i : fs[k].name # Null

(* Pass i of the loop, behind the pass before it. *)
Pass(d, f) == IF d.ok THEN OnEntry(d, f) ELSE d

IsLoop(g, m, fs) ==
    /\ DOMAIN g = 0 .. m
    /\ g = [i \in 0 .. m |-> g[i]]
    /\ g[0] = Db
    /\ \A i \in 1 .. m : g[i] = Pass(g[i - 1], fs[i])

LEMMA LoopExists ==
    ASSUME NEW fs
    PROVE  \A m \in Nat : \E g : IsLoop(g, m, fs)
<1> DEFINE Bad == { m \in Nat : ~\E g : IsLoop(g, m, fs) }
<1>1. SUFFICES ASSUME Bad # {} PROVE FALSE
  OBVIOUS
<1>2. PICK m \in Bad : \A k \in Bad : m <= k
  BY <1>1, LeastPass
<1>3. m \in Nat /\ ~\E g : IsLoop(g, m, fs)
  OBVIOUS
<1>4. CASE m = 0
  <2> DEFINE g == [i \in 0 .. 0 |-> Db]
  <2>1. DOMAIN g = 0 .. 0 /\ g[0] = Db /\ g = [i \in 0 .. 0 |-> g[i]]
    OBVIOUS
  <2>2. 1 .. 0 = {}
    OBVIOUS
  <2> HIDE DEF g
  <2>3. IsLoop(g, 0, fs)
    BY <2>1, <2>2 DEF IsLoop
  <2> QED BY <1>3, <1>4, <2>3
<1>5. CASE m # 0
  <2>1. m - 1 \in Nat /\ ~(m <= m - 1)
    BY <1>3, <1>5
  <2>2. PICK h : IsLoop(h, m - 1, fs)
    BY <1>2, <2>1
  <2> DEFINE g == [i \in 0 .. m |-> IF i = m THEN Pass(h[m - 1], fs[m]) ELSE h[i]]
  <2>3. /\ DOMAIN g = 0 .. m /\ g = [i \in 0 .. m |-> g[i]]
        /\ g[m] = Pass(h[m - 1], fs[m])
        /\ \A i \in 0 .. m : i # m => g[i] = h[i]
    BY <1>3
  <2> HIDE DEF g
  <2>4. g[0] = Db
    <3>1. 0 \in 0 .. m /\ 0 # m
      BY <1>3, <1>5
    <3>2. g[0] = h[0]
      BY <2>3, <3>1
    <3> QED BY <2>2, <3>2 DEF IsLoop
  <2>5. ASSUME NEW i \in 1 .. m PROVE g[i] = Pass(g[i - 1], fs[i])
    <3>1. i - 1 \in 0 .. m /\ i - 1 # m
      BY <1>3
    <3>2. CASE i = m
      BY <1>3, <2>3, <3>1, <3>2
    <3>3. CASE i # m
      <4>1. i \in 1 .. m - 1 /\ i \in 0 .. m
        BY <1>3, <3>3
      <4>2. h[i] = Pass(h[i - 1], fs[i])
        BY <2>2, <4>1 DEF IsLoop
      <4> QED BY <2>3, <3>1, <3>3, <4>1, <4>2
    <3> QED BY <3>2, <3>3
  <2>6. IsLoop(g, m, fs)
    BY <2>3, <2>4, <2>5 DEF IsLoop
  <2> QED BY <1>3, <2>6
<1> QED BY <1>4, <1>5

LEMMA AfterAllLoops ==
    ASSUME NEW fs, Len(fs) \in Nat
    PROVE  \E g : IsLoop(g, Len(fs), fs) /\ AfterAll(fs) = g[Len(fs)]
<1> DEFINE n == Len(fs)
           Body(g) == [i \in 0 .. n |->
                          IF i = 0 THEN Db
                          ELSE IF g[i - 1].ok THEN OnEntry(g[i - 1], fs[i]) ELSE g[i - 1]]
           db == CHOOSE g : g = Body(g)
<1> HIDE DEF n
<1>1. AfterAll(fs) = db[n]
  BY DEF AfterAll, n
<1>2. ASSUME NEW g, IsLoop(g, n, fs) PROVE g = Body(g)
  <2>1. \A i \in 0 .. n : g[i] = Body(g)[i]
    <3> SUFFICES ASSUME NEW i \in 0 .. n
                 PROVE  g[i] = IF i = 0 THEN Db
                               ELSE IF g[i - 1].ok THEN OnEntry(g[i - 1], fs[i]) ELSE g[i - 1]
      OBVIOUS
    <3>1. CASE i = 0
      BY <1>2, <3>1 DEF IsLoop
    <3>2. CASE i # 0
      <4>1. i \in 1 .. n
        BY <3>2
      <4>2. g[i] = Pass(g[i - 1], fs[i])
        BY <1>2, <4>1 DEF IsLoop
      <4> QED BY <3>2, <4>2 DEF Pass
    <3> QED BY <3>1, <3>2
  <2>2. g = [i \in 0 .. n |-> g[i]] /\ Body(g) = [i \in 0 .. n |-> Body(g)[i]]
    BY <1>2 DEF IsLoop
  <2> HIDE DEF Body
  <2> QED BY <2>1, <2>2
<1>3. ASSUME NEW g, g = Body(g) PROVE IsLoop(g, n, fs)
  <2>1. n \in Nat
    BY DEF n
  <2>2. DOMAIN g = 0 .. n /\ g = [i \in 0 .. n |-> g[i]]
    BY <1>3
  <2>3. g[0] = Db
    BY <1>3, <2>1
  <2>4. ASSUME NEW i \in 1 .. n PROVE g[i] = Pass(g[i - 1], fs[i])
    <3>1. i \in 0 .. n /\ i # 0
      BY <2>1
    <3>2. Body(g)[i] = IF g[i - 1].ok THEN OnEntry(g[i - 1], fs[i]) ELSE g[i - 1]
      BY <3>1
    <3>3. g[i] = Body(g)[i]
      BY <1>3
    <3> QED BY <3>2, <3>3 DEF Pass
  <2> QED BY <2>2, <2>3, <2>4 DEF IsLoop
<1>4. \E g : g = Body(g)
  <2>1. n \in Nat
    BY DEF n
  <2>2. PICK g : IsLoop(g, n, fs)
    BY <2>1, LoopExists
  <2> HIDE DEF Body
  <2> QED BY <1>2, <2>2
<1>5. db = Body(db)
  <2> HIDE DEF Body
  <2> QED BY <1>4
<1>6. IsLoop(db, n, fs)
  <2> HIDE DEF Body, db
  <2> QED BY <1>3, <1>5
<1> HIDE DEF db
<1> QED BY <1>1, <1>6 DEF n

(* After the loop every result in front of a nameless one is in the         *)
(* database, which has only grown: rows and names that were there still are.*)
LEMMA AfterAllGood ==
    ASSUME NEW fs, Len(fs) \in Nat, \A i \in 1 .. Len(fs) : fs[i] \in Entry,
           DbTyped(Db), Unique(Db)
    PROVE  LET e == AfterAll(fs)
           IN  /\ DbTyped(e) /\ Unique(e) /\ Grown(Db, e) /\ (e.ok <=> Named(fs, Len(fs)))
               /\ \A i \in 1 .. Len(fs) : Named(fs, i) =>
                     \E t \in Found(e, fs[i].hash, 2) : Within(fs[i].name, e.rows[t].filename)
<1> DEFINE n == Len(fs)
<1>1. PICK g : IsLoop(g, n, fs) /\ AfterAll(fs) = g[n]
  BY AfterAllLoops
<1> DEFINE Good(m) ==
              /\ DbTyped(g[m]) /\ Unique(g[m]) /\ Grown(Db, g[m])
              /\ (g[m].ok <=> Named(fs, m))
              /\ \A i \in 1 .. m : Named(fs, i) =>
                    \E t \in Found(g[m], fs[i].hash, 2) :
                        Within(fs[i].name, g[m].rows[t].filename)
           Bad == { m \in 0 .. n : ~Good(m) }
<1> HIDE DEF n
<1>2. n \in Nat /\ \A i \in 1 .. n : fs[i] \in Entry
  BY DEF n
<1>3. g[0] = Db /\ \A i \in 1 .. n : g[i] = Pass(g[i - 1], fs[i])
  BY <1>1 DEF IsLoop
<1>4. Good(0)
  <2>1. Db.ok /\ 1 .. 0 = {} /\ Grown(Db, Db)
    BY GrownSame DEF Db
  <2>2. Named(fs, 0)
    BY <2>1 DEF Named
  <2> QED BY <1>3, <2>1, <2>2
<1>5. ASSUME NEW m \in 1 .. n, Good(m - 1)
      PROVE  Good(m)
  <2> DEFINE d == g[m - 1]
             e == g[m]
  <2>1. /\ DbTyped(d) /\ Unique(d) /\ Grown(Db, d)
        /\ (d.ok <=> Named(fs, m - 1))
        /\ \A i \in 1 .. m - 1 : Named(fs, i) =>
              \E t \in Found(d, fs[i].hash, 2) : Within(fs[i].name, d.rows[t].filename)
    BY <1>5
  <2> HIDE DEF Good
  <2>2. e = Pass(d, fs[m]) /\ fs[m] \in Entry
    BY <1>2, <1>3
  <2> HIDE DEF d, e
  <2>3. Named(fs, m) <=> Named(fs, m - 1) /\ fs[m].name # Null
    <3>1. m \in Nat /\ m \in 1 .. m /\ 1 .. m = (1 .. m - 1) \cup {m}
      BY <1>2
    <3> QED BY <3>1 DEF Named
  <2>4. /\ DbTyped(e) /\ Unique(e) /\ Grown(d, e) /\ (e.ok <=> Named(fs, m))
        /\ Named(fs, m) =>
              \E t \in Found(e, fs[m].hash, 2) : Within(fs[m].name, e.rows[t].filename)
    <3>1. CASE d.ok
      <4>1. e = OnEntry(d, fs[m])
        BY <2>2, <3>1 DEF Pass
      <4>2. /\ DbTyped(e) /\ Unique(e) /\ Grown(d, e) /\ (e.ok <=> fs[m].name # Null)
            /\ fs[m].name # Null =>
                  \E t \in Found(e, fs[m].hash, 2) : Within(fs[m].name, e.rows[t].filename)
        BY <2>1, <2>2, <3>1, <4>1, OnEntryGood
      <4> QED BY <2>1, <2>3, <3>1, <4>2
    <3>2. CASE ~d.ok
      <4>1. e = d
        BY <2>2, <3>2 DEF Pass
      <4>2. Grown(d, d)
        BY <2>1, GrownSame
      <4> QED BY <2>1, <2>3, <3>2, <4>1, <4>2
    <3> QED BY <3>1, <3>2
  <2>5. Grown(Db, e)
    BY <2>1, <2>4, GrownTrans
  <2>6. ASSUME NEW i \in 1 .. m, Named(fs, i)
        PROVE  \E t \in Found(e, fs[i].hash, 2) : Within(fs[i].name, e.rows[t].filename)
    <3>1. CASE i = m
      BY <2>4, <2>6, <3>1
    <3>2. CASE i # m
      <4>1. i \in 1 .. m - 1 /\ i \in 1 .. n /\ i \in 1 .. i
        BY <1>2, <3>2
      <4>2. fs[i].name \in Name
        BY <1>2, <2>6, <4>1 DEF Entry, Named
      <4>3. \E t \in Found(d, fs[i].hash, 2) : Within(fs[i].name, d.rows[t].filename)
        BY <2>1, <2>6, <4>1
      <4> QED BY <2>1, <2>4, <4>2, <4>3, KeptName
    <3> QED BY <3>1, <3>2
  <2> QED BY <2>4, <2>5, <2>6 DEF Good, e
<1> HIDE DEF Good
<1>6. Good(n)
  <2>1. SUFFICES ASSUME Bad # {} PROVE FALSE
    BY <1>2
  <2>2. Bad \in SUBSET Nat
    OBVIOUS
  <2>3. PICK m \in Bad : \A k \in Bad : m <= k
    BY <2>1, <2>2, LeastPass
  <2>4. m # 0
    BY <1>4, <2>3
  <2>5. m \in 1 .. n /\ m - 1 \in 0 .. n /\ ~(m <= m - 1)
    BY <1>2, <2>4
  <2>6. Good(m - 1)
    BY <2>3, <2>5
  <2> QED BY <1>5, <2>5, <2>6
<1> DEFINE e == g[n]
<1>7. /\ DbTyped(e) /\ Unique(e) /\ Grown(Db, e) /\ (e.ok <=> Named(fs, n))
      /\ \A i \in 1 .. n : Named(fs, i) =>
            \E t \in Found(e, fs[i].hash, 2) : Within(fs[i].name, e.rows[t].filename)
  BY <1>6 DEF Good
<1>8. AfterAll(fs) = e
  BY <1>1 DEF n
<1> HIDE DEF e
<1> QED BY <1>7, <1>8 DEF n

-------------------------------------------------------------------------------
(* The inductive invariant: what a search brought is not refused, because   *)
(* no two rows share a hash, and the row of a hash has all its names.       *)
DbInv ==
    /\ DbTyped(Db) /\ Unique(Db) /\ Brought(Db, came)
    /\ came \in [Hash -> SUBSET Name]
    /\ lastTid <= MaxTid /\ failed \in {"no", "nameless", "share"}

LEMMA DbIs == Db.rows = ex_file /\ Db.last = lastTid /\ Db.ok
BY DEF Db

(* What is stored is what the call left, but for the mark of an exception.  *)
LEMMA StoredDb ==
    ASSUME NEW e, DbTyped(e), Unique(e), NEW call, Stored(e, call)
    PROVE  /\ DbTyped(Db') /\ Unique(Db') /\ Db'.rows = e.rows /\ Db'.last = e.last
           /\ lastTid' <= MaxTid /\ (e.ok => failed' = "no")
           /\ failed' \in {"no", call}
<1>1. ex_file' = e.rows /\ lastTid' = e.last /\ e.last <= MaxTid
      /\ failed' = IF e.ok THEN "no" ELSE call
  BY DEF Stored
<1>2. Db' = [rows |-> e.rows, last |-> e.last, ok |-> TRUE]
  BY <1>1 DEF Db
<1>3. e.rows \in Tables /\ e.last \in Nat
  BY DEF DbTyped
<1>4. Db'.rows = e.rows /\ Db'.last = e.last
      /\ Db' \in [rows : Tables, last : Nat, ok : BOOLEAN]
  BY <1>2, <1>3
<1>5. DbTyped(Db')
  BY <1>4 DEF DbTyped
<1>6. Unique(Db')
  BY <1>4 DEF Unique
<1> QED BY <1>1, <1>4, <1>5, <1>6

LEMMA InitInv == Init => DbInv
<1> SUFFICES ASSUME Init PROVE DbInv
  OBVIOUS
<1>1. ex_file = << >> /\ lastTid = 0 /\ failed = "no" /\ came = [h \in Hash |-> {}]
  BY DEF Init
<1>2. ex_file \in [{} -> Row] /\ DOMAIN ex_file = {}
  BY <1>1
<1>3. ex_file \in Tables
  BY <1>2 DEF Tables
<1>4. Db \in [rows : Tables, last : Nat, ok : BOOLEAN]
  BY <1>1, <1>3 DEF Db
<1>5. DbTyped(Db) /\ Unique(Db)
  BY <1>2, <1>4, DbIs DEF DbTyped, Unique
<1>6. Brought(Db, came) /\ came \in [Hash -> SUBSET Name]
  BY <1>1 DEF Brought
<1> QED BY <1>1, <1>5, <1>6, FileDbAssumption DEF DbInv

(* What RowsOnlyGrow says of a step. *)
RowsStep ==
    /\ \A tid \in DOMAIN ex_file \cap DOMAIN ex_file' :
          /\ [ex_file[tid] EXCEPT !.filename = << >>]
               = [ex_file'[tid] EXCEPT !.filename = << >>]
          /\ IsPrefix(ex_file[tid].filename, ex_file'[tid].filename)
    /\ \A tid \in DOMAIN ex_file' \ DOMAIN ex_file : tid > lastTid

LEMMA SameButName ==
    ASSUME NEW r \in Row, NEW s \in Row, SameFile(r, s)
    PROVE  [r EXCEPT !.filename = << >>] = [s EXCEPT !.filename = << >>]
<1> DEFINE a == [r EXCEPT !.filename = << >>]
           b == [s EXCEPT !.filename = << >>]
<1>1. << >> \in Seq(UNION { Range(n) : n \in Name })
  OBVIOUS
<1>2. a \in Row /\ b \in Row
  BY <1>1 DEF Row
<1>3. /\ a.sha = r.sha /\ a.md5 = r.md5 /\ a.emd4 = r.emd4 /\ a.filename = << >>
      /\ a.size = r.size /\ a.status = r.status
      /\ b.sha = s.sha /\ b.md5 = s.md5 /\ b.emd4 = s.emd4 /\ b.filename = << >>
      /\ b.size = s.size /\ b.status = s.status
  BY DEF Row
<1> HIDE DEF a, b
<1>4. /\ a.sha = b.sha /\ a.md5 = b.md5 /\ a.emd4 = b.emd4 /\ a.filename = b.filename
      /\ a.size = b.size /\ a.status = b.status
  BY <1>3 DEF SameFile
<1>5. a = b
  BY <1>2, <1>4 DEF Row
<1> QED BY <1>5 DEF a, b

LEMMA GrownRows ==
    ASSUME NEW a, NEW b, DbTyped(a), DbTyped(b), Grown(a, b),
           a.rows = ex_file, a.last = lastTid, b.rows = ex_file'
    PROVE  RowsStep
<1>1. ASSUME NEW tid \in DOMAIN ex_file, tid \in DOMAIN ex_file'
      PROVE  /\ [ex_file[tid] EXCEPT !.filename = << >>]
                  = [ex_file'[tid] EXCEPT !.filename = << >>]
             /\ IsPrefix(ex_file[tid].filename, ex_file'[tid].filename)
  <2>1. SameFile(ex_file[tid], ex_file'[tid])
    BY <1>1 DEF Grown
  <2>2. ex_file[tid] \in Row /\ ex_file'[tid] \in Row
    BY <1>1, TableTyped DEF DbTyped
  <2> QED BY <2>1, <2>2, SameButName DEF SameFile
<1>2. \A tid \in DOMAIN ex_file' \ DOMAIN ex_file : tid > lastTid
  BY DEF Grown
<1> QED BY <1>1, <1>2 DEF RowsStep

LEMMA BroughtStays ==
    ASSUME NEW a, NEW b, DbTyped(a), DbTyped(b), Grown(a, b),
           NEW names \in [Hash -> SUBSET Name], Brought(a, names)
    PROVE  Brought(b, names)
<1> SUFFICES ASSUME NEW h \in Hash, NEW name \in names[h]
             PROVE  \E t \in Found(b, h, 2) : Within(name, b.rows[t].filename)
  BY DEF Brought
<1>1. name \in Name
  OBVIOUS
<1>2. \E t \in Found(a, h, 2) : Within(name, a.rows[t].filename)
  BY DEF Brought
<1> QED BY <1>1, <1>2, KeptName

(* Found asks for the rows of a database only. *)
LEMMA BroughtRows ==
    ASSUME NEW a, NEW b, a.rows = b.rows, NEW names, Brought(a, names)
    PROVE  Brought(b, names)
BY DEF Brought, Found

LEMMA SearchInv ==
    ASSUME DbInv, NEW n \in Nat, NEW fs \in [1 .. n -> Entry], OnFoundFile(fs)
    PROVE  DbInv' /\ RowsStep
<1> DEFINE e == AfterAll(fs)
           call == IF Handled(fs) = DOMAIN fs THEN "search" ELSE "nameless"
<1>1. Len(fs) = n /\ DOMAIN fs = 1 .. n /\ \A i \in 1 .. n : fs[i] \in Entry
  OBVIOUS
<1>2. DbTyped(Db) /\ Unique(Db) /\ Brought(Db, came) /\ came \in [Hash -> SUBSET Name]
  BY DEF DbInv
<1>3. LET d == AfterAll(fs)
      IN  /\ DbTyped(d) /\ Unique(d) /\ Grown(Db, d) /\ (d.ok <=> Named(fs, n))
          /\ \A i \in 1 .. n : Named(fs, i) =>
                \E t \in Found(d, fs[i].hash, 2) : Within(fs[i].name, d.rows[t].filename)
  BY <1>1, <1>2, AfterAllGood
<1>4. Stored(e, call)
      /\ came' = [h \in Hash |-> came[h] \cup
                    { fs[i].name : i \in { j \in Handled(fs) : fs[j].hash = h } }]
  BY DEF OnFoundFile
<1> HIDE DEF e
<1>5. /\ DbTyped(e) /\ Unique(e) /\ Grown(Db, e) /\ (e.ok <=> Named(fs, n))
      /\ \A i \in 1 .. n : Named(fs, i) =>
            \E t \in Found(e, fs[i].hash, 2) : Within(fs[i].name, e.rows[t].filename)
  BY <1>3 DEF e
<1>12. Handled(fs) = { i \in 1 .. n : Named(fs, i) }
  BY <1>1 DEF Handled, Named
<1>13. \A i \in Handled(fs) : i \in 1 .. n /\ fs[i].name \in Name
  <2> SUFFICES ASSUME NEW i \in 1 .. n, Named(fs, i) PROVE fs[i].name \in Name
    BY <1>12
  <2>1. i \in 1 .. i
    OBVIOUS
  <2> QED BY <1>1, <2>1 DEF Named, Entry
<1>14. e.ok \/ call = "nameless"
  <2>1. ASSUME ~Named(fs, n) PROVE Handled(fs) # DOMAIN fs
    <3>1. n \in 1 .. n
      <4>1. CASE n = 0
        BY <2>1, <4>1 DEF Named
      <4>2. CASE n # 0
        BY <4>2
      <4> QED BY <4>1, <4>2
    <3> QED BY <1>1, <1>12, <2>1, <3>1
  <2> QED BY <1>5, <2>1
<1> HIDE DEF call
<1>6. /\ DbTyped(Db') /\ Unique(Db') /\ Db'.rows = e.rows /\ lastTid' <= MaxTid
      /\ failed' \in {"no", "nameless"}
  BY <1>4, <1>5, <1>14, StoredDb
<1>7. came' \in [Hash -> SUBSET Name]
  BY <1>2, <1>4, <1>13
<1>8. Brought(e, came')
  <2> SUFFICES ASSUME NEW h \in Hash, NEW name \in came'[h]
               PROVE  \E t \in Found(e, h, 2) : Within(name, e.rows[t].filename)
    BY DEF Brought
  <2>1. name \in came[h] \/ \E i \in Handled(fs) : fs[i].hash = h /\ name = fs[i].name
    BY <1>4
  <2>2. CASE name \in came[h]
    BY <1>2, <1>5, <2>2, BroughtStays DEF Brought
  <2>3. CASE \E i \in Handled(fs) : fs[i].hash = h /\ name = fs[i].name
    BY <1>5, <1>12, <2>3
  <2> QED BY <2>1, <2>2, <2>3
<1>9. Brought(Db', came')
  BY <1>6, <1>8, BroughtRows
<1>10. ex_file' = e.rows
  BY <1>4 DEF Stored
<1>11. RowsStep
  BY <1>2, <1>5, <1>10, DbIs, GrownRows
<1> QED BY <1>6, <1>7, <1>9, <1>11 DEF DbInv

LEMMA ShareInv ==
    ASSUME DbInv, NEW h \in Hash, NEW name \in Name, NEW size \in Size, Share(h, name, size)
    PROVE  DbInv' /\ RowsStep
<1> DEFINE row == [sha |-> h, md5 |-> h, emd4 |-> h, filename |-> name,
                   size |-> size, status |-> FDSS_SHARING]
           e == Add(Db, row)
           n == Db.last + 1
<1>1. row \in Row /\ row.filename = name /\ row.emd4 = h /\ h # Null
  BY FileDbAssumption, NamesAreWords DEF Row, Word
<1>2. DbTyped(Db) /\ Unique(Db) /\ Brought(Db, came) /\ came \in [Hash -> SUBSET Name]
  BY DEF DbInv
<1>3. /\ Stored(e, "share")
      /\ came' = IF failed' = "share" THEN came ELSE [came EXCEPT ![h] = {name}]
  BY DEF Share
<1> HIDE DEF row
<1>4. CASE Refused(Db, row)
  <2>1. e = [Db EXCEPT !.ok = FALSE]
    BY <1>4 DEF Add
  <2> HIDE DEF e
  <2>2. /\ DbTyped(e) /\ Unique(e) /\ Grown(Db, e) /\ ~e.ok
        /\ e.rows = Db.rows /\ e.last = Db.last
    BY <1>2, <2>1, EndedGood
  <2>4. /\ DbTyped(Db') /\ Unique(Db') /\ Db'.rows = e.rows /\ lastTid' <= MaxTid
        /\ ex_file' = e.rows /\ failed' = "share"
    BY <1>3, <2>2, StoredDb DEF Stored
  <2>5. came' = came
    BY <1>3, <2>4
  <2>6. Brought(Db', came')
    BY <1>2, <2>2, <2>4, <2>5, BroughtRows
  <2>8. RowsStep
    BY <1>2, <2>2, <2>4, DbIs, GrownRows
  <2> QED BY <1>2, <2>4, <2>5, <2>6, <2>8 DEF DbInv
<1>5. CASE ~Refused(Db, row)
  <2>1. LET d == Add(Db, row)
        IN  /\ DbTyped(d) /\ Unique(d) /\ Grown(Db, d) /\ d.ok = Db.ok
            /\ DOMAIN d.rows = DOMAIN Db.rows \cup {n} /\ d.rows[n] = row
    BY <1>1, <1>2, <1>5, AddGood
  <2> HIDE DEF e, n
  <2>2. /\ DbTyped(e) /\ Unique(e) /\ Grown(Db, e) /\ e.ok
        /\ DOMAIN e.rows = DOMAIN Db.rows \cup {n} /\ e.rows[n] = row
    BY <2>1, DbIs DEF e
  <2>3. /\ DbTyped(Db') /\ Unique(Db') /\ Db'.rows = e.rows /\ lastTid' <= MaxTid
        /\ ex_file' = e.rows /\ failed' = "no"
    BY <1>3, <2>2, StoredDb DEF Stored
  <2>4. came' = [came EXCEPT ![h] = {name}] /\ came' \in [Hash -> SUBSET Name]
    BY <1>2, <1>3, <2>3
  <2>5. Brought(e, came')
    <3> SUFFICES ASSUME NEW k \in Hash, NEW m \in came'[k]
                 PROVE  \E t \in Found(e, k, 2) : Within(m, e.rows[t].filename)
      BY DEF Brought
    <3>1. CASE k = h
      <4>1. m = name
        BY <1>2, <2>4, <3>1
      <4>2. n \in Found(e, h, 2)
        BY <1>1, <2>2, FoundRows, ColumnOf
      <4>3. Within(name, e.rows[n].filename)
        BY <1>1, <2>2, NamesAreWords, PrefixSame
      <4> QED BY <3>1, <4>1, <4>2, <4>3
    <3>2. CASE k # h
      <4>1. m \in came[k]
        BY <1>2, <2>4, <3>2
      <4>2. Brought(e, came)
        BY <1>2, <2>2, BroughtStays
      <4> QED BY <4>1, <4>2 DEF Brought
    <3> QED BY <3>1, <3>2
  <2>6. Brought(Db', came')
    BY <2>3, <2>5, BroughtRows
  <2>7. RowsStep
    BY <1>2, <2>2, <2>3, DbIs, GrownRows
  <2> QED BY <2>3, <2>4, <2>6, <2>7 DEF DbInv
<1> QED BY <1>4, <1>5

LEMMA DeleteInv ==
    ASSUME DbInv, NEW tid \in DOMAIN ex_file, Delete(tid)
    PROVE  DbInv' /\ RowsStep
<1>1. /\ ex_file' = [t \in DOMAIN ex_file \ {tid} |-> ex_file[t]]
      /\ came' = [came EXCEPT ![ex_file[tid].emd4] = {}]
      /\ failed' = "no" /\ lastTid' = lastTid
  BY DEF Delete
<1>2. /\ DbTyped(Db) /\ Unique(Db) /\ Brought(Db, came) /\ came \in [Hash -> SUBSET Name]
      /\ lastTid <= MaxTid
  BY DEF DbInv
<1>3. /\ DOMAIN ex_file \subseteq Nat \ {0} /\ lastTid \in Nat
      /\ \A t \in DOMAIN ex_file : ex_file[t] \in Row /\ t <= lastTid
  BY <1>2, DbIs, TableTyped DEF DbTyped
<1>4. /\ DOMAIN ex_file' = DOMAIN ex_file \ {tid}
      /\ \A t \in DOMAIN ex_file' : ex_file'[t] = ex_file[t]
      /\ ex_file' \in [DOMAIN ex_file \ {tid} -> Row]
  BY <1>1, <1>3
<1>5. ex_file' \in Tables
  <2>1. DOMAIN ex_file \ {tid} \in SUBSET (Nat \ {0})
    BY <1>3
  <2> QED BY <1>4, <2>1 DEF Tables
<1>6. Db' = [rows |-> ex_file', last |-> lastTid, ok |-> TRUE]
  BY <1>1 DEF Db
<1>7. /\ Db'.rows = ex_file' /\ Db'.last = lastTid
      /\ Db' \in [rows : Tables, last : Nat, ok : BOOLEAN]
  BY <1>3, <1>5, <1>6
<1>8. DbTyped(Db')
  BY <1>3, <1>4, <1>7 DEF DbTyped
<1>9. Unique(Db')
  BY <1>2, <1>4, <1>7, DbIs DEF Unique
<1>10. ex_file[tid].emd4 \in Hash
  BY <1>3, RowTyped
<1>11. came' \in [Hash -> SUBSET Name]
  BY <1>1, <1>2
<1>12. Brought(Db', came')
  <2> SUFFICES ASSUME NEW h \in Hash, NEW name \in came'[h]
               PROVE  \E t \in Found(Db', h, 2) : Within(name, Db'.rows[t].filename)
    BY DEF Brought
  <2>1. h # ex_file[tid].emd4 /\ name \in came[h]
    BY <1>1, <1>2, <1>10
  <2>2. PICK t \in Found(Db, h, 2) : Within(name, Db.rows[t].filename)
    BY <1>2, <2>1 DEF Brought
  <2>3. t \in DOMAIN ex_file /\ ex_file[t].emd4 = h /\ h # Null
    BY <2>2, FoundRows, ColumnOf, DbIs
  <2>4. t \in DOMAIN ex_file'
    BY <1>4, <2>1, <2>3
  <2>5. Db'.rows[t] = ex_file[t]
    BY <1>4, <1>7, <2>4
  <2>6. t \in Found(Db', h, 2)
    BY <1>7, <2>3, <2>4, <2>5, FoundRows, ColumnOf
  <2> QED BY <2>2, <2>5, <2>6, DbIs
<1>13. RowsStep
  <2>1. \A t \in DOMAIN ex_file' : IsPrefix(ex_file[t].filename, ex_file[t].filename)
    BY <1>3, <1>4, RowTyped, PrefixSame
  <2> QED BY <1>4, <2>1 DEF RowsStep
<1> QED BY <1>1, <1>2, <1>8, <1>9, <1>11, <1>12, <1>13 DEF DbInv

LEMMA NextInv ==
    ASSUME DbInv, [Next]_vars
    PROVE  DbInv' /\ [RowsStep]_vars
<1>1. CASE Next
  <2>1. ASSUME NEW n \in 1 .. MaxFound, NEW fs \in [1 .. n -> Entry], OnFoundFile(fs)
        PROVE  DbInv' /\ RowsStep
    <3>1. n \in Nat
      BY FileDbAssumption
    <3> QED BY <2>1, <3>1, SearchInv
  <2>2. ASSUME NEW h \in Hash, NEW name \in Name, NEW size \in Size, Share(h, name, size)
        PROVE  DbInv' /\ RowsStep
    BY <2>2, ShareInv
  <2>3. ASSUME NEW tid \in DOMAIN ex_file, Delete(tid)
        PROVE  DbInv' /\ RowsStep
    BY <2>3, DeleteInv
  <2> QED BY <1>1, <2>1, <2>2, <2>3 DEF Next
<1>2. CASE UNCHANGED vars
  <2>1. /\ ex_file' = ex_file /\ lastTid' = lastTid /\ failed' = failed /\ came' = came
    BY <1>2 DEF vars
  <2>2. Db' = Db
    BY <2>1 DEF Db
  <2> QED BY <1>2, <2>1, <2>2 DEF DbInv
<1> QED BY <1>1, <1>2

LEMMA DbInvariance == Spec => []DbInv
BY InitInv, NextInv, PTL DEF Spec

-------------------------------------------------------------------------------
(* The tables hold rows, and tids up to the last one given. *)
THEOREM FileDbTyped == Spec => []TypeOK
<1>1. DbInv => TypeOK
  <2> SUFFICES ASSUME DbInv PROVE TypeOK
    OBVIOUS
  <2>1. /\ DOMAIN ex_file \subseteq Nat \ {0} /\ lastTid \in Nat
        /\ \A t \in DOMAIN ex_file : ex_file[t] \in Row /\ t <= lastTid
    BY DbIs, TableTyped DEF DbInv, DbTyped
  <2>2. DOMAIN ex_file \subseteq 1 .. lastTid
    BY <2>1
  <2> QED BY <2>1, <2>2, FileDbAssumption DEF DbInv, TypeOK
<1> QED BY <1>1, DbInvariance, PTL

(* OneRowPerHash of src/fs/fs.cpp:466: whatever is searched, shared and     *)
(* removed, a hash of any kind leads to one row.                            *)
THEOREM FilesStayApart == Spec => []OneRowPerHash
<1>1. DbInv => OneRowPerHash
  <2> SUFFICES ASSUME DbInv, NEW tid \in DOMAIN ex_file, NEW type \in 0 .. 2,
                      Column(ex_file[tid], type) # Null
               PROVE  Found(Db, Column(ex_file[tid], type), type) = {tid}
    BY DEF OneRowPerHash
  <2>1. tid \in Found(Db, Column(ex_file[tid], type), type)
    BY FoundRows, DbIs
  <2> QED BY <2>1, OneFound DEF DbInv
<1> QED BY <1>1, DbInvariance, PTL

(* NoNameLost of OnFoundFile, src/runner/runner.cpp: each name a search     *)
(* brought in front of a nameless result is part of the name of its row,    *)
(* however many came before it in the same answer.                          *)
THEOREM NamesAreKept == Spec => []NoNameLost
<1>1. DbInv => NoNameLost
  BY DbIs DEF DbInv, Brought, Within, NoNameLost
<1> QED BY <1>1, DbInvariance, PTL

(* SearchStored: an answer whose results all have a name is stored to the   *)
(* end; no index ever refuses what OnFoundFile adds.                        *)
THEOREM SearchIsStored == Spec => []SearchStored
<1>1. DbInv => SearchStored
  BY DEF DbInv, SearchStored
<1> QED BY <1>1, DbInvariance, PTL

(* RowsOnlyGrow: a row stays about its file, its name only grows at the     *)
(* end, and a tid is never used again.                                      *)
THEOREM RowsGrow == Spec => RowsOnlyGrow
<1>1. DbInv /\ [Next]_vars => [RowsStep]_vars
  BY NextInv
<1> QED BY <1>1, DbInvariance, PTL DEF Spec, RowsOnlyGrow, RowsStep
===============================================================================
