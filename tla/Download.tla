------------------------------ MODULE Download ------------------------------
(***************************************************************************)
(* What the downloader promises its user, without servers, peers, blocks   *)
(* or processes: files are wanted, a file at its final path is the right   *)
(* one, was wanted, and stays there, and the user is told that a file is   *)
(* done only when it is, and for good.  Runner implements it.              *)
(***************************************************************************)
EXTENDS Integers

CONSTANT File

VARIABLES
    wanted,  (* the files the user has added a task for                    *)
    fin,     (* per file: what is at its final path                        *)
    told     (* the files a task of which says done                        *)

Init == wanted = {} /\ fin = [f \in File |-> "none"] /\ told = {}

Want(f) == wanted' = wanted \cup {f} /\ UNCHANGED <<fin, told>>

(* The file is put in place; the user is told at once, or, if the process   *)
(* ends in between, not.                                                    *)
Finish(f) ==
    /\ f \in wanted
    /\ fin' = [fin EXCEPT ![f] = "whole"]
    /\ told' \in {told, told \cup {f}}
    /\ UNCHANGED wanted

Next == \E f \in File : Want(f) \/ Finish(f)

Spec == Init /\ [][Next]_<<wanted, fin, told>>
=============================================================================
