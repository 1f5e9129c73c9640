------------------------------- MODULE FileStore -------------------------------
(***************************************************************************)
(* Files and tasks on disk: File_ and FileManager_ (the files being        *)
(* received) and the task table of EmuleX_, all of src/fs/fs.cpp.  The     *)
(* .xdm file is described by which of its bytes have been written and      *)
(* which of those are wrong; the .xcm file is a copy of fcparts that no    *)
(* live code reads back.                                                   *)
(***************************************************************************)
EXTENDS EmuleX, SortedPart

CONSTANTS
    Size,      (* per file: its length in bytes, from the task          *)
    BlockSize, (* EMBLOCKSIZE: how many bytes a block request covers    *)
    Width,     (* a Part holds offsets modulo this (2^32)               *)
    BadDir,    (* files whose .xdm may fail to open                     *)
    ListLimit, (* listTask's default limit                              *)
    MaxTask    (* bound: rows the task table ever gets                  *)

ASSUME FileStoreAssumption ==
    /\ Size \in [File -> Nat \ {0}]
    /\ BlockSize \in Nat \ {0}
    /\ Width \in Nat \ {0}
    /\ BadDir \subseteq File
    /\ ListLimit \in Nat
    /\ MaxTask \in Nat

VARIABLES
    opened,    (* FileManager_::opened: the files with an open stream   *)
    fcparts,   (* per file: fc->parts, the ranges received              *)
    written,   (* per file: bytes of .xdm written since it was opened   *)
    wrong,     (* per file: those of them that differ from the file     *)
    fin,       (* per file: what is at its final path                   *)
    tasks      (* the table ex_task, a sequence of rows                 *)

openVars == <<opened, fcparts, written, wrong>>
fileVars == <<opened, fcparts, written, wrong, fin, tasks>>

Row == [file : File, status : {"running", "done"}]

FileTypeOK ==
    /\ opened \subseteq File
    /\ fcparts \in [File -> Seq(Nat \X Nat)]
    /\ written \in [File -> SUBSET Nat]
    /\ wrong \in [File -> SUBSET Nat]
    /\ fin \in [File -> {"none", "whole", "broken"}]
    /\ tasks \in Seq(Row)

Contents(f) == 0 .. Size[f] - 1

(* The blocks of a file nothing of which is claimed: split(EMBLOCKSIZE).    *)
Blocks(f) == AllBlocks(Size[f], BlockSize, Width)
BlockBytes(b) == b[1] .. b[2] - 1

-------------------------------------------------------------------------------
(* FileManager_::open for the files F, where they are not open yet: a new   *)
(* .xcm is saved, .xdm is truncated, no range is claimed.                   *)
OpenFiles(F) ==
    LET new == F \ opened
    IN  /\ opened' = opened \cup F
        /\ fcparts' = [f \in File |-> IF f \in new THEN << >> ELSE fcparts[f]]
        /\ written' = [f \in File |-> IF f \in new THEN {} ELSE written[f]]
        /\ wrong' = [f \in File |-> IF f \in new THEN {} ELSE wrong[f]]

(* What of the file is wrong after a .. b is written, with the file's own   *)
(* bytes or not.                                                            *)
WrongAfter(f, a, b, good) ==
    IF good THEN wrong[f] \ (a .. b) ELSE wrong[f] \cup (a .. b)

(* Mutant of Write: the end of the range is one byte too far. *)
WriteOneMore(f, a, b, good) ==
    /\ fcparts' = [fcparts EXCEPT ![f] = Added(@, a, b + 1)]
    /\ written' = [written EXCEPT ![f] = @ \cup (a .. b)]
    /\ wrong' = [wrong EXCEPT ![f] = WrongAfter(f, a, b, good)]

(* File_::write.                                                            *)
Write(f, a, b, good) ==
    /\ fcparts' = [fcparts EXCEPT ![f] = Added(@, a, b)]
    /\ written' = [written EXCEPT ![f] = @ \cup (a .. b)]
    /\ wrong' = [wrong EXCEPT ![f] = WrongAfter(f, a, b, good)]

(* What write returns.                                                      *)
WriteReturns(f, a, b) == AddReturns(fcparts[f], a, b, Size[f])

(* .xdm has the file's content after the write.                             *)
Right(f, a, b, good) ==
    written[f] \cup (a .. b) = Contents(f) /\ WrongAfter(f, a, b, good) = {}

(* Mutant of Valid: the hash is not compared. *)
ValidAnyway(f, a, b, good) == TRUE

(* File_::valid(EMD4): the hash of .xdm is the one the task named.          *)
Valid(f, a, b, good) == Right(f, a, b, good)

(* File_::done: .xdm becomes the final file, .xcm is removed.               *)
Rename(f, a, b, good) ==
    fin' = [fin EXCEPT ![f] = IF Right(f, a, b, good) THEN "whole" ELSE "broken"]

(* FileManager_::done forgets the file; its stream is closed.               *)
CloseFile(f) == opened' = opened \ {f}

-------------------------------------------------------------------------------
(* EmuleX_::listTask(FTSS_RUNNING) with its default limit: the files of the *)
(* first ListLimit running rows.                                            *)
Running == { i \in DOMAIN tasks : tasks[i].status = "running" }
Listed ==
    { tasks[i].file : i \in { j \in Running :
        Cardinality({ k \in Running : k < j }) < ListLimit } }

(* Mutants of InsertRow: the status is left as it is constructed; the row   *)
(* replaces those there are of the file.                                    *)
InsertIdleRow(f) == tasks' = Append(tasks, [file |-> f, status |-> "none"])
InsertOverRows(f) ==
    tasks' = Append(SelectSeq(tasks, LAMBDA r : r.file # f),
                    [file |-> f, status |-> "running"])

(* EmuleX_::addTask: a running row is inserted.                             *)
InsertRow(f) == tasks' = Append(tasks, [file |-> f, status |-> "running"])

===============================================================================
