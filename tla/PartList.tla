------------------------------- MODULE PartList -------------------------------
(***************************************************************************)
(* One SortedPart object under an arbitrary caller: a behaviour is a       *)
(* sequence of calls of add.  got remembers what really arrived, which the *)
(* object itself does not.                                                 *)
(***************************************************************************)
EXTENDS SortedPart

CONSTANTS
    Total,     (* the constructor's argument: bytes in the file        *)
    Ranges,    (* the <<av, bv>> arguments the caller uses             *)
    BlockSizes,(* the arguments of split the properties ask about      *)
    Width      (* offsets in a Part are taken modulo this              *)

ASSUME PartListAssumption ==
    /\ Total \in Nat \ {0}
    /\ Width \in Nat \ {0}
    /\ BlockSizes \subseteq Nat \ {0}
    /\ Ranges \subseteq { r \in Nat \X Nat : r[1] <= r[2] }

VARIABLES
    parts,     (* the object *)
    answer,    (* what the last add returned *)
    got        (* history: every byte passed to add so far *)

vars == <<parts, answer, got>>

Init == parts = << >> /\ answer = FALSE /\ got = {}

Add(r) ==
    /\ parts' = Added(parts, r[1], r[2])
    /\ answer' = AddReturns(parts, r[1], r[2], Total)
    /\ got' = got \cup (r[1] .. r[2])

Next == \E r \in Ranges : Add(r)

Spec == Init /\ [][Next]_vars

-------------------------------------------------------------------------------
(* The two loops of add, written out as loops, to compare the closed forms  *)
(* of SortedPart with.  One pass of the second: pair i absorbs the next     *)
(* pair, or the loop has ended.                                             *)
Absorb(p, i) ==
    IF i >= Len(p) \/ Lo(p[i + 1]) > Hi(p[i]) + 1 THEN p
    ELSE RemoveAt(IF Hi(p[i]) >= Hi(p[i + 1]) THEN p
                  ELSE ReplaceAt(p, i, <<Lo(p[i]), Hi(p[i + 1])>>), i + 1)

(* Each pass erases a pair, so that as many as there are pairs suffice.     *)
MergeLoop(p, i) ==
    LET run[n \in 0 .. Len(p)] == IF n = 0 THEN p ELSE Absorb(run[n - 1], i)
    IN  run[Len(p)]

(* What add does at the pair where the first loop stops: the list that is   *)
(* left, and the value returned.                                            *)
AddAt(p, i, av, bv) ==
    LET ends(q) == <<q, IsDone(q, Total)>>
    IN  IF av <= Lo(p[i]) + 1
        THEN IF bv < Lo(p[i]) THEN <<InsertAt(p, i, <<av, bv>>), FALSE>>
             ELSE IF bv <= Hi(p[i]) THEN <<ReplaceAt(p, i, <<av, Hi(p[i])>>), FALSE>>
             ELSE ends(MergeLoop(ReplaceAt(p, i, <<av, bv>>), i))
        ELSE IF bv <= Hi(p[i]) THEN <<p, FALSE>>
             ELSE ends(MergeLoop(ReplaceAt(p, i, <<Lo(p[i]), bv>>), i))

(* The first loop, with d pairs ahead. *)
AddLoop(p, av, bv) ==
    LET from[d \in 0 .. Len(p)] ==
            LET i == Len(p) + 1 - d
            IN  IF d = 0
                THEN <<Append(p, <<av, bv>>), IsDone(Append(p, <<av, bv>>), Total)>>
                ELSE IF av > Lo(p[i]) + 1 /\ av > Hi(p[i]) + 1 THEN from[d - 1]
                ELSE AddAt(p, i, av, bv)
    IN  from[Len(p)]

-------------------------------------------------------------------------------
TypeOK ==
    /\ parts \in Seq(Nat \X Nat)
    /\ answer \in BOOLEAN
    /\ got \subseteq Nat

(* After any calls of add the pairs are non-empty, ascending and disjoint:  *)
(* exists and the next add look at the first pair that qualifies and rely   *)
(* on it.                                                                   *)
Ascending ==
    /\ \A i \in 1 .. Len(parts) : Lo(parts[i]) <= Hi(parts[i])
    /\ \A i, j \in 1 .. Len(parts) : i < j => Hi(parts[i]) < Lo(parts[j])

(* add never claims a byte that no call brought: neither moving a pair's    *)
(* start nor absorbing the pairs behind it bridges a hole.                  *)
ClaimsReceived == Bytes(parts) \subseteq got

(* add answers TRUE only when every byte of the file was brought.           *)
AnswerSound == answer => 0 .. Total - 1 \subseteq got

(* exists answers TRUE only for ranges every byte of which was brought,     *)
(* however the pairs came about.                                            *)
ExistsSound ==
    \A a, b \in 0 .. Total - 1 :
        a <= b /\ Exists(parts, a, b) => a .. b \subseteq got

(* No byte that is still missing falls between the blocks split hands out:  *)
(* downloading them all completes the file.  For files longer than a        *)
(* multiple of the block size by exactly one byte the code does not give    *)
(* this (see SplitReachesTheEnd).                                           *)
SplitCovers ==
    \A max \in BlockSizes :
        Total % max # 1 =>
            \A x \in (0 .. Total - 1) \ Bytes(parts) :
                \E k \in DOMAIN Split(parts, Total, max, Width) :
                    LET b == Split(parts, Total, max, Width)[k]
                    IN  b[1] <= x /\ x < b[2]

(* For every list the calls can build and every argument, the closed form   *)
(* of add gives what its loops give, and AllBlocks, the form the downloader *)
(* uses, what split gives for an untouched list.                            *)
LoopsAgree ==
    /\ \A r \in Ranges :
          AddLoop(parts, r[1], r[2]) =
              <<Added(parts, r[1], r[2]), AddReturns(parts, r[1], r[2], Total)>>
    /\ \A max \in BlockSizes :
          Split(<< >>, Total, max, Width) = AllBlocks(Total, max, Width)

(* The status a node tells of a file names the parts it has whole, and no   *)
(* others, when the pairs start where parts do and none of them at the      *)
(* first part of a byte: there the code shifts a bit out of the byte.       *)
StatusExact ==
    \A plen \in BlockSizes :
        (\A i \in 1 .. Len(parts) :
            Lo(parts[i]) % plen = 0 /\ (Lo(parts[i]) > 0 => Lo(parts[i]) % (8 * plen) # 0)) =>
                /\ PartStatus(parts, plen).ok
                /\ PartStatus(parts, plen).set =
                       { k \in 0 .. Total \div plen :
                            k * plen .. k * plen + plen - 1 \subseteq Bytes(parts) }

(* A step loses at most the one byte at the start of the pair it touches,   *)
(* and only for an argument one above that start.                           *)
LosesAtMostTheStart ==
    [][ \A r \in Ranges : Add(r) =>
            LET lost == (Bytes(parts) \cup (r[1] .. r[2])) \ Bytes(parts')
            IN  lost \subseteq { x \in { r[1] - 1 } :
                    \E i \in 1 .. Len(parts) : Lo(parts[i]) = x } ]_vars

(* The object implements the abstract receipt for a caller whose ranges     *)
(* never start one byte above the start of a pair: nothing brought is lost. *)
Abstract == INSTANCE ByteSet WITH bytes <- Bytes(parts), complete <- answer
IsByteSet == Abstract!Spec

-------------------------------------------------------------------------------
(* What the unit test FilePart shows of one list: a range that lies inside  *)
(* a pair leaves the list as it was.                                        *)
InsideChangesNothing ==
    [][ \A r \in Ranges :
            Add(r) /\ (\E i \in 1 .. Len(parts) :
                          Lo(parts[i]) <= r[1] /\ r[2] <= Hi(parts[i]))
                => parts' = parts ]_vars

(* What the unit test PartSplit shows of 1010 bytes in blocks of 100: the   *)
(* last block split hands out ends with the file.                           *)
SplitReachesTheEnd ==
    parts = << >> =>
        \A max \in BlockSizes :
            LET ps == Split(parts, Total, max, Width)
            IN  ps # << >> /\ ps[Len(ps)][2] = Total

===============================================================================
