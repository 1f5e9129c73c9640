------------------------------ MODULE SortedPart ------------------------------
(***************************************************************************)
(* The range list of src/fs/fs.cpp (class SortedPart): which bytes of a    *)
(* file have been received.  The code keeps a flat vector                  *)
(* [lo_1, hi_1, lo_2, hi_2, ...] of closed ranges; here a list is a        *)
(* sequence of pairs <<lo, hi>>.  The operators are the code's member      *)
(* functions; nothing here has state.                                      *)
(*                                                                         *)
(* Arguments: add is called with av <= bv (a zero-length write, whose bv   *)
(* wraps below av, is outside this module).                                *)
(***************************************************************************)
EXTENDS Integers, SequencesExt

Lo(r) == r[1]
Hi(r) == r[2]

Larger(x, y) == IF x < y THEN y ELSE x

(* The bytes a list claims. *)
Bytes(p) == UNION { Lo(p[i]) .. Hi(p[i]) : i \in 1 .. Len(p) }

-------------------------------------------------------------------------------
(* Mutant of Touched: a range that begins inside a pair is not seen. *)
TouchedAtStart(p, av) == SelectInSeq(p, LAMBDA r : av <= Lo(r) + 1)

(* Where the loop of add stops: the first pair that av touches, compared   *)
(* with lo + 1 first and with hi + 1 second; 0 when the loop runs off the  *)
(* end.                                                                    *)
Touched(p, av) ==
    SelectInSeq(p, LAMBDA r : av <= Lo(r) + 1 \/ av <= Hi(r) + 1)

(* Mutants of Kept: a hole of one byte is bridged; nothing is merged; the   *)
(* pairs absorbed on the way are forgotten.                                 *)
KeptBridging(p, i, hi) ==
    Min({ j \in i + 1 .. Len(p) + 1 :
            j = Len(p) + 1 \/ Lo(p[j]) > Larger(hi, Hi(p[j - 1])) + 2 })
KeptNext(p, i, hi) == i + 1
KeptPlain(p, i, hi) ==
    Min({ j \in i + 1 .. Len(p) + 1 : j = Len(p) + 1 \/ Lo(p[j]) > hi + 1 })

(* The first pair after i that the merge loop leaves alone, when pair i    *)
(* has grown to end at hi; Len(p) + 1 when every later pair is absorbed.   *)
(* A pair is absorbed while it starts at most one byte after the end that  *)
(* the pairs before it have reached.                                       *)
Kept(p, i, hi) ==
    Min({ j \in i + 1 .. Len(p) + 1 :
            j = Len(p) + 1 \/ Lo(p[j]) > Larger(hi, Hi(p[j - 1])) + 1 })

(* Pair i becomes lo .. hi and the merge loop runs. *)
Merged(p, i, lo, hi) ==
    LET k == Kept(p, i, hi)
    IN  SubSeq(p, 1, i - 1)
          \o << <<lo, Larger(hi, Hi(p[k - 1]))>> >>
          \o SubSeq(p, k, Len(p))

(* Mutants of Added: a new last pair starts one byte early; a range inside  *)
(* a pair cuts its tail off.                                                *)
AddedEarly(p, av, bv) ==
    IF Touched(p, av) = 0 THEN Append(p, <<av - 1, bv>>) ELSE p
AddedShort(p, av, bv) ==
    LET i == Touched(p, av)
    IN  IF i = 0 THEN Append(p, <<av, bv>>)
        ELSE IF bv < Lo(p[i]) THEN InsertAt(p, i, <<av, bv>>)
        ELSE IF bv <= Hi(p[i]) THEN ReplaceAt(p, i, <<Lo(p[i]), bv>>)
        ELSE Merged(p, i, IF av <= Lo(p[i]) + 1 THEN av ELSE Lo(p[i]), bv)

(* The list add(av, bv) leaves behind.  The start of the touched pair moves *)
(* to av whenever av <= lo + 1, which for av = lo + 1 gives up byte lo.     *)
Added(p, av, bv) ==
    LET i  == Touched(p, av)
        lo == IF av <= Lo(p[i]) + 1 THEN av ELSE Lo(p[i])
    IN  IF i = 0 THEN Append(p, <<av, bv>>)
        ELSE IF bv < Lo(p[i]) THEN InsertAt(p, i, <<av, bv>>)
        ELSE IF bv <= Hi(p[i]) THEN ReplaceAt(p, i, <<lo, Hi(p[i])>>)
        ELSE Merged(p, i, lo, bv)

(* Mutant of IsDone: the pairs between the ends are not counted. *)
IsDoneAtEnds(p, total) ==
    p # << >> /\ Lo(p[1]) = 0 /\ Hi(p[Len(p)]) = total - 1

(* One pair that covers the file. *)
IsDone(p, total) == p = << <<0, total - 1>> >>

(* What add returns: the early returns answer FALSE whatever the list says. *)
AddReturns(p, av, bv, total) ==
    LET i == Touched(p, av)
    IN  /\ i # 0 => bv > Hi(p[i])
        /\ IsDone(Added(p, av, bv), total)

-------------------------------------------------------------------------------
(* Mutant of Exists: the start is not looked at. *)
ExistsEnd(p, av, bv) == SelectInSeq(p, LAMBDA r : bv <= Hi(r)) # 0

(* exists(av, bv) looks at the first pair that ends at bv or later and at  *)
(* no other.                                                               *)
Exists(p, av, bv) ==
    LET i == SelectInSeq(p, LAMBDA r : bv <= Hi(r))
    IN  i # 0 /\ av >= Lo(p[i])

(* The loop of split: the whole blocks not yet present, as half-open pairs. *)
(* A Part is a pair of unsigned integers below width, so both ends are      *)
(* taken modulo width.                                                      *)
Lacking(p, total, max, width) ==
    LET lack[k \in 0 .. total \div max] ==
            IF k = 0 THEN << >>
            ELSE IF Exists(p, (k - 1) * max, k * max - 1) THEN lack[k - 1]
            ELSE Append(lack[k - 1], <<((k - 1) * max) % width, (k * max) % width>>)
    IN  lack[total \div max]

(* Mutant of Split: the trailing short block is left out. *)
SplitWhole(p, total, max, width) == Lacking(p, total, max, width)

(* split(max): the trailing short block comes last. *)
Split(p, total, max, width) ==
    LET whole == (total \div max) * max
        lack  == Lacking(p, total, max, width)
    IN  IF whole < total - 1 /\ ~Exists(p, whole, total - 1)
        THEN Append(lack, <<whole % width, total % width>>) ELSE lack

(* split(max) of a list that claims nothing, block by block. *)
AllBlocks(total, max, width) ==
    LET n    == total \div max
        size == IF n * max < total - 1 THEN n + 1 ELSE n
    IN  [k \in 1 .. size |->
            <<((k - 1) * max) % width,
              (IF k <= n THEN k * max ELSE total) % width>>]

-------------------------------------------------------------------------------
(* parsePartStatus(plen): a bit for each part of plen bytes, eight to a     *)
(* byte.  at is the bit the loop stands at, in the byte after the first     *)
(* full ones: 8 when it got there by skipping, 0 when by filling a byte.    *)
(* set holds the parts whose bit is set; ok is lost when a bit is shifted   *)
(* to a negative place, which may set any.                                  *)
NoStatus == [full |-> 0, at |-> 0, next |-> 0, set |-> {}, ok |-> TRUE]

(* Mutant of PartsOf: a part that has been begun counts. *)
PartsBegun(r, plen) == (Hi(r) - Lo(r) + plen) \div plen

(* How many parts a pair counts for: its length, wherever it starts.        *)
PartsOf(r, plen) == (Hi(r) - Lo(r) + 1) \div plen

StatusStep(s, r, plen) ==
    LET first == (Lo(r) + plen - 1) \div plen
        n     == PartsOf(r, plen)
        moved == s.at + first - s.next
        skip  == IF moved > 8 THEN (moved - 1) \div 8 ELSE 0
        at    == moved - 8 * skip
        lost  == n > 0 /\ at = 8
        bit   == 8 * (s.full + skip) + at
        end   == bit + n - (IF lost THEN 1 ELSE 0)
    IN  [full |-> IF n = 0 THEN s.full + skip ELSE end \div 8,
         at   |-> IF n = 0 THEN at ELSE end % 8,
         next |-> first + n,
         set  |-> s.set \cup (bit .. end - 1),
         ok   |-> s.ok /\ ~lost]

PartStatus(p, plen) ==
    LET s[k \in 0 .. Len(p)] ==
            IF k = 0 THEN NoStatus ELSE StatusStep(s[k - 1], p[k], plen)
    IN  s[Len(p)]

===============================================================================
