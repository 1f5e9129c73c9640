------------------------------- MODULE FileDb -------------------------------
(***************************************************************************)
(* The file database: the table ex_file of src/fs/sql.cpp, the class       *)
(* FDataDb_ of src/fs/fs.cpp, and OnFoundFile of src/runner/runner.cpp,    *)
(* which puts the results of a search into it.  Every step is a call on    *)
(* the io_service thread.  A name is a sequence of words: JoinData puts    *)
(* one name behind the other, and what it gives is a name like any other.  *)
(***************************************************************************)
EXTENDS Integers, SequencesExt

CONSTANTS
    Hash,      (* the files there are, each by any of its three hashes     *)
    Name,      (* the names a server or a directory may give a file        *)
    Size,      (* the sizes a server may say a file has                    *)
    Null,      (* a column that is null, and the name of a nameless result *)
    MaxFound,  (* entries of one answer to a search                        *)
    MaxTid,    (* bound: rows ever added                                   *)
    MaxName    (* bound: words of a stored name                            *)

ASSUME FileDbAssumption ==
    /\ Name \subseteq Seq(UNION { Range(n) : n \in Name })
    /\ Null \notin Hash \cup Name /\ Size \subseteq Nat
    /\ MaxFound \in Nat /\ MaxTid \in Nat /\ MaxName \in Nat

VARIABLES
    ex_file,  (* the rows, by tid                                          *)
    lastTid,  (* the tid of the last row added                             *)
    failed,   (* how the last call ended: no, or search, nameless, share    *)
    came      (* per hash: the names results brought since its row is there *)

vars == <<ex_file, lastTid, failed, came>>

(* The type column: shared files are listed, results of searches are not.   *)
FDSS_SHARING == 100
NoStatus == 0

Row == [ sha : Hash \cup {Null}, md5 : Hash \cup {Null}, emd4 : Hash,
         filename : Seq(UNION { Range(n) : n \in Name }), size : Nat,
         status : {FDSS_SHARING, NoStatus} ]

TypeOK ==
    /\ DOMAIN ex_file \subseteq 1 .. lastTid
    /\ \A tid \in DOMAIN ex_file : ex_file[tid] \in Row
    /\ lastTid \in 0 .. MaxTid
    /\ failed \in {"no", "search", "nameless", "share"}
    /\ came \in [Hash -> SUBSET Name]

Init ==
    /\ ex_file = << >> /\ lastTid = 0 /\ failed = "no"
    /\ came = [h \in Hash |-> {}]

-------------------------------------------------------------------------------
(* The database as a value, while a loop goes through the results.          *)
Db == [rows |-> ex_file, last |-> lastTid, ok |-> TRUE]

(* FDataDb_::find, type 0, 1 and 2: null equals nothing, not even null.     *)
Column(row, type) ==
    CASE type = 0 -> row.sha [] type = 1 -> row.md5 [] type = 2 -> row.emd4

Found(db, hash, type) ==
    { tid \in DOMAIN db.rows : Column(db.rows[tid], type) = hash /\ hash # Null }

(* Mutant of Refused: the table has no unique index.                        *)
RefusedNever(db, row) == FALSE

(* The unique indexes ex_f_sha, ex_f_md5 and ex_f_emd4.                     *)
Refused(db, row) ==
    \E type \in 0 .. 2 : Found(db, Column(row, type), type) # {}

WithRow(rows, tid, row) ==
    [t \in DOMAIN rows \cup {tid} |-> IF t = tid THEN row ELSE rows[t]]

(* Mutant of Add: the tid of a new row is not kept.                         *)
AddUncounted(db, row) ==
    IF Refused(db, row) THEN [db EXCEPT !.ok = FALSE]
    ELSE [db EXCEPT !.rows = WithRow(@, db.last + 1, row)]

(* FDataDb_::add: autoincrement never gives a tid twice; a row an index     *)
(* refuses is thrown.                                                       *)
Add(db, row) ==
    IF Refused(db, row) THEN [db EXCEPT !.ok = FALSE]
    ELSE [db EXCEPT !.rows = WithRow(@, db.last + 1, row), !.last = @ + 1]

(* FDataDb_::updateFilename. *)
UpdateFilename(db, tid, name) == [db EXCEPT !.rows[tid].filename = name]

(* Mutants of Joined: the new name in front; the new name only.             *)
JoinedInFront(old, new) == new \o old
JoinedOver(old, new) == new

(* JoinData of the name that is stored and the one that came. *)
Joined(old, new) == old \o new

(* Mutant of OnEntry: the rows are looked up once, before the loop.         *)
OnEntryLookedUp(db, f) ==
    LET at == Found(Db, f.hash, 2)
    IN  IF f.name = Null THEN [db EXCEPT !.ok = FALSE]
        ELSE IF at = {} THEN Add(db, [sha |-> Null, md5 |-> Null, emd4 |-> f.hash,
                                      filename |-> f.name, size |-> f.size,
                                      status |-> NoStatus])
        ELSE LET tid == Min(at)
             IN  IF db.rows[tid].filename = f.name THEN db
                 ELSE UpdateFilename(db, tid, Joined(db.rows[tid].filename, f.name))

(* One pass of the loop of OnFoundFile: a file that is there gets the name  *)
(* behind its own unless the two are the same; another is added with what   *)
(* the entry says and a hash only.  Without a name it ends here: there is    *)
(* none to compare with, and the column filename takes no null.             *)
OnEntry(db, f) ==
    LET at == Found(db, f.hash, 2)
    IN  IF f.name = Null THEN [db EXCEPT !.ok = FALSE]
        ELSE IF at = {} THEN Add(db, [sha |-> Null, md5 |-> Null, emd4 |-> f.hash,
                                      filename |-> f.name, size |-> f.size,
                                      status |-> NoStatus])
        ELSE LET tid == Min(at)
             IN  IF db.rows[tid].filename = f.name THEN db
                 ELSE UpdateFilename(db, tid, Joined(db.rows[tid].filename, f.name))

(* The loop leaves at the first such end, and what it did stays done.       *)
AfterAll(fs) ==
    LET db[i \in 0 .. Len(fs)] ==
            IF i = 0 THEN Db
            ELSE IF db[i - 1].ok THEN OnEntry(db[i - 1], fs[i]) ELSE db[i - 1]
    IN  db[Len(fs)]

-------------------------------------------------------------------------------
(* A result has a name if one of its tags is a FILENAME with a text.        *)
Entry == [hash : Hash, name : Name \cup {Null}, size : Size]

(* The results in front of the first without a name. *)
Handled(fs) == { i \in DOMAIN fs : \A k \in 1 .. i : fs[k].name # Null }

Stored(db, call) ==
    /\ db.last <= MaxTid
    /\ \A tid \in DOMAIN db.rows : Len(db.rows[tid].filename) <= MaxName
    /\ ex_file' = db.rows /\ lastTid' = db.last /\ failed' = IF db.ok THEN "no" ELSE call

(* The results of a search, in one answer of a server. *)
OnFoundFile(fs) ==
    /\ Stored(AfterAll(fs), IF Handled(fs) = DOMAIN fs THEN "search" ELSE "nameless")
    /\ came' = [h \in Hash |-> came[h] \cup
                   { fs[i].name : i \in { j \in Handled(fs) : fs[j].hash = h } }]

(* A file of this machine is added, with all its hashes (BuildFData). *)
Share(h, name, size) ==
    /\ Stored(Add(Db, [sha |-> h, md5 |-> h, emd4 |-> h, filename |-> name,
                       size |-> size, status |-> FDSS_SHARING]), "share")
    /\ came' = IF failed' = "share" THEN came ELSE [came EXCEPT ![h] = {name}]

(* FDataDb_::remove. *)
Delete(tid) ==
    /\ ex_file' = [t \in DOMAIN ex_file \ {tid} |-> ex_file[t]]
    /\ came' = [came EXCEPT ![ex_file[tid].emd4] = {}]
    /\ failed' = "no" /\ UNCHANGED lastTid

Next ==
    \/ \E n \in 1 .. MaxFound : \E fs \in [1 .. n -> Entry] : OnFoundFile(fs)
    \/ \E h \in Hash, name \in Name, size \in Size : Share(h, name, size)
    \/ \E tid \in DOMAIN ex_file : Delete(tid)

Spec == Init /\ [][Next]_vars

-------------------------------------------------------------------------------
(* A hash of any kind leads to one row, and each row is found by every hash *)
(* it has: what a search added and what the user shares stay apart or are   *)
(* one row, but never two rows of one file.                                 *)
OneRowPerHash ==
    \A tid \in DOMAIN ex_file : \A type \in 0 .. 2 :
        Column(ex_file[tid], type) # Null =>
            Found(Db, Column(ex_file[tid], type), type) = {tid}

(* No name a search brought is lost: it is part of the name of its row,     *)
(* however often the file was found, and under whichever names; but for the *)
(* names behind a result that has none, in the same answer.                 *)
NoNameLost ==
    \A h \in Hash : \A name \in came[h] :
        \E tid \in Found(Db, h, 2) :
            \E i \in 0 .. Len(ex_file[tid].filename) - Len(name) :
                SubSeq(ex_file[tid].filename, i + 1, i + Len(name)) = name

(* A row stays about the file it was added for: later results, of whatever  *)
(* size or name, only put names behind the one it has, and the tid of a     *)
(* removed row is not used again.                                           *)
RowsOnlyGrow ==
    [][ /\ \A tid \in DOMAIN ex_file \cap DOMAIN ex_file' :
              /\ [ex_file[tid] EXCEPT !.filename = << >>]
                   = [ex_file'[tid] EXCEPT !.filename = << >>]
              /\ IsPrefix(ex_file[tid].filename, ex_file'[tid].filename)
        /\ \A tid \in DOMAIN ex_file' \ DOMAIN ex_file : tid > lastTid ]_vars

(* Results that all have a name are stored without an exception:            *)
(* OnFoundFile looks each file up right before it adds it, so that no index *)
(* refuses it, though one answer may name a file twice and the user may     *)
(* share it.  An answer with a nameless result in it does end there.        *)
SearchStored == failed # "search"
=============================================================================
