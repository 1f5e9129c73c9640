-------------------------------- MODULE ByteSet --------------------------------
(***************************************************************************)
(* What a receipt of file ranges promises, with no list at all: a set of   *)
(* bytes that grows by exactly the range received, and an answer that is   *)
(* TRUE only when the set holds the whole file.                            *)
(***************************************************************************)
EXTENDS Integers

CONSTANTS
    Total,    (* bytes in the file                     *)
    Ranges    (* the <<first, last>> pairs that arrive *)

VARIABLES
    bytes,    (* received so far                       *)
    complete  (* the last answer                       *)

Init == bytes = {} /\ complete = FALSE

Receive(r) ==
    /\ bytes' = bytes \cup (r[1] .. r[2])
    /\ complete' \in BOOLEAN
    /\ complete' => 0 .. Total - 1 \subseteq bytes'

Next == \E r \in Ranges : Receive(r)

Spec == Init /\ [][Next]_<<bytes, complete>>

===============================================================================
