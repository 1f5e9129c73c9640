------------------------------ MODULE MCPartList ------------------------------
(* PartList on small files. *)
EXTENDS PartList

(* Every range of a file. *)
AllRanges == { r \in (0 .. Total - 1) \X (0 .. Total - 1) : r[1] <= r[2] }

(* Ranges that start at even bytes and end at odd ones, or with the file.   *)
EvenRanges ==
    { r \in AllRanges : r[1] % 2 = 0 /\ (r[2] % 2 = 1 \/ r[2] = Total - 1) }

===============================================================================
