----------------------------- MODULE Ranges ---------------------------------
(***************************************************************************)
(* The cached-range rbtree of src/src/item.c: a set of closed key          *)
(* intervals [start, end] over which the item cache is authoritative.      *)
(*                                                                         *)
(* insert_range() and remove_range() are written as RECURSIVE operators    *)
(* following the code's "find an overlapping range, adjust, restart the    *)
(* descent" loops.  The rbtree descent finds *some* range overlapping the  *)
(* argument; which one depends on the tree's shape, so the operators pick  *)
(* any overlapping range.                                                  *)
(*                                                                         *)
(* Keys are the naturals of a finite interval; scoutfs_key_inc/_dec are    *)
(* +1/-1 (the code only applies them strictly inside a range).             *)
(*                                                                         *)
(* RangeStore checks the operators; ItemCache uses them.                  *)
(***************************************************************************)
EXTENDS Integers, FiniteSets, Sequences

CONSTANTS Keys          \* the key space, a finite interval of naturals

ASSUME Keys # {} /\ Keys \subseteq Nat

KeyInc(k) == k + 1      \* scoutfs_key_inc
KeyDec(k) == k - 1      \* scoutfs_key_dec

Rng(s, e) == [start |-> s, end |-> e]

Intervals == {Rng(s, e) : s \in Keys, e \in Keys} \cap
             {r \in [start : Keys, end : Keys] : r.start <= r.end}

KeysOf(r) == r.start .. r.end

\* The keys for which a set of ranges claims authority.
Covered(R) == UNION {KeysOf(r) : r \in R}

(* scoutfs_key_compare_ranges(): 0 when the two ranges overlap. *)
CompareRanges(a, b) ==
    IF a.end < b.start THEN -1 ELSE IF a.start > b.end THEN 1 ELSE 0

Overlapping(R, x) == {r \in R : CompareRanges(x, r) = 0}

(* Variants of insert_range() with a plausible bug, each of which a run   *)
(* shows breaks a property: one that links the merged range after the     *)
(* first overlap instead of restarting the descent, and one that forgets  *)
(* to take over the end of a range it partly overlaps.                     *)
InsertRangeNoRestart(R, ins) ==
    IF Overlapping(R, ins) = {} THEN R \cup {ins}
    ELSE LET rng == CHOOSE r \in Overlapping(R, ins) : TRUE
         IN IF ins.start >= rng.start /\ ins.end <= rng.end THEN R
            ELSE (R \ {rng}) \cup
                 {Rng(IF ins.start > rng.start /\ ins.end > rng.end
                      THEN rng.start ELSE ins.start,
                      IF ins.start < rng.start /\ ins.end < rng.end
                      THEN rng.end ELSE ins.end)}

RECURSIVE InsertRangeKeepEnd(_, _)
InsertRangeKeepEnd(R, ins) ==
    IF Overlapping(R, ins) = {} THEN R \cup {ins}
    ELSE LET rng == CHOOSE r \in Overlapping(R, ins) : TRUE
         IN IF ins.start >= rng.start /\ ins.end <= rng.end THEN R
            ELSE InsertRangeKeepEnd(R \ {rng},
                    Rng(IF ins.start > rng.start /\ ins.end > rng.end
                        THEN rng.start ELSE ins.start, ins.end))

(***************************************************************************)
(* insert_range(): merge ins into R.  An insertion inside an existing      *)
(* range is freed; a partial overlap extends ins over the existing range,  *)
(* which is erased; a range inside ins is erased; then the descent         *)
(* restarts.  With no overlap left ins is linked.                          *)
(***************************************************************************)
RECURSIVE InsertRange(_, _)
InsertRange(R, ins) ==
    IF Overlapping(R, ins) = {} THEN R \cup {ins}
    ELSE LET rng == CHOOSE r \in Overlapping(R, ins) : TRUE
             startCmp == ins.start - rng.start
             endCmp == ins.end - rng.end
         IN IF startCmp >= 0 /\ endCmp <= 0 THEN R
            ELSE InsertRange(R \ {rng},
                    [start |-> IF startCmp > 0 /\ endCmp > 0
                               THEN rng.start ELSE ins.start,
                     end |-> IF startCmp < 0 /\ endCmp < 0
                             THEN rng.end ELSE ins.end])

(* Variants of remove_range(): a split that keeps rem.start in the left   *)
(* part (no scoutfs_key_dec), and a split taken also when rem starts at   *)
(* the range's start (>= for >).                                           *)
RECURSIVE RemoveRangeSplitNoDec(_, _, _)
RemoveRangeSplitNoDec(R, rem, split) ==
    IF Overlapping(R, rem) = {}
    THEN IF split THEN R \cup {rem} ELSE R
    ELSE LET rng == CHOOSE r \in Overlapping(R, rem) : TRUE
             Rest == R \ {rng}
         IN CASE rem.start > rng.start /\ rem.end < rng.end ->
                   RemoveRangeSplitNoDec(Rest \cup {Rng(rng.start, rem.start)},
                                         Rng(KeyInc(rem.end), rng.end), TRUE)
              [] rem.start < rng.start /\ rem.end < rng.end ->
                   RemoveRangeSplitNoDec(Rest \cup {Rng(KeyInc(rem.end), rng.end)},
                                         Rng(rem.start, rng.start), split)
              [] rem.start > rng.start /\ rem.end > rng.end ->
                   RemoveRangeSplitNoDec(Rest \cup {Rng(rng.start, KeyDec(rem.start))},
                                         Rng(rng.end, rem.end), split)
              [] OTHER -> RemoveRangeSplitNoDec(Rest, rem, split)

RECURSIVE RemoveRangeSplitAtStart(_, _, _)
RemoveRangeSplitAtStart(R, rem, split) ==
    IF Overlapping(R, rem) = {}
    THEN IF split THEN R \cup {rem} ELSE R
    ELSE LET rng == CHOOSE r \in Overlapping(R, rem) : TRUE
             Rest == R \ {rng}
         IN CASE rem.start >= rng.start /\ rem.end < rng.end ->
                   RemoveRangeSplitAtStart(Rest \cup {Rng(rng.start, KeyDec(rem.start))},
                                           Rng(KeyInc(rem.end), rng.end), TRUE)
              [] rem.start < rng.start /\ rem.end < rng.end ->
                   RemoveRangeSplitAtStart(Rest \cup {Rng(KeyInc(rem.end), rng.end)},
                                           Rng(rem.start, rng.start), split)
              [] rem.start > rng.start /\ rem.end > rng.end ->
                   RemoveRangeSplitAtStart(Rest \cup {Rng(rng.start, KeyDec(rem.start))},
                                           Rng(rng.end, rem.end), split)
              [] OTHER -> RemoveRangeSplitAtStart(Rest, rem, split)

(***************************************************************************)
(* remove_range(): take rem out of R.  `split` is the code's `insert`     *)
(* flag: once a range has been split, rem holds its right half and is      *)
(* linked when the descent finds no more overlap.                          *)
(*   - rem strictly inside rng: rng keeps [rng.start, rem.start-1], rem    *)
(*     becomes [rem.end+1, rng.end] and will be inserted;                  *)
(*   - both ends of rem before rng's: rng.start := rem.end+1 and rem.end   *)
(*     := the old rng.start (the swap());                                  *)
(*   - both ends after: rng.end := rem.start-1, rem.start := old rng.end;  *)
(*   - anything else erases rng (the code's final case, reached also when  *)
(*     one end of rem coincides with rng's and the other lies inside it).  *)
(***************************************************************************)
RECURSIVE RemoveRangeLoop(_, _, _)
RemoveRangeLoop(R, rem, split) ==
    IF Overlapping(R, rem) = {}
    THEN IF split THEN R \cup {rem} ELSE R
    ELSE LET rng == CHOOSE r \in Overlapping(R, rem) : TRUE
             startCmp == rem.start - rng.start
             endCmp == rem.end - rng.end
             Rest == R \ {rng}
         IN CASE startCmp > 0 /\ endCmp < 0 ->
                   RemoveRangeLoop(Rest \cup {Rng(rng.start, KeyDec(rem.start))},
                                   Rng(KeyInc(rem.end), rng.end), TRUE)
              [] startCmp < 0 /\ endCmp < 0 ->
                   RemoveRangeLoop(Rest \cup {Rng(KeyInc(rem.end), rng.end)},
                                   Rng(rem.start, rng.start), split)
              [] startCmp > 0 /\ endCmp > 0 ->
                   RemoveRangeLoop(Rest \cup {Rng(rng.start, KeyDec(rem.start))},
                                   Rng(rng.end, rem.end), split)
              [] OTHER -> RemoveRangeLoop(Rest, rem, split)

RemoveRange(R, rem) == RemoveRangeLoop(R, rem, FALSE)

(* check_range(): the range containing key, if any. *)
RangeOf(R, key) == {r \in R : key \in KeysOf(r)}


(* walk_ranges() for key k: besides the range containing k (RangeOf), the *)
(* range it leaves in *next, the one with the least start after k; a set  *)
(* of at most one range.                                                   *)
NextRange(R, k) ==
    {r \in R : r.start > k /\ \A o \in R : o.start > k => r.start <= o.start}

\* Variant: scoutfs_item_range_cached() testing only the range at start.
RangeCachedAtStart(R, s, e) == RangeOf(R, s) # {}

(* scoutfs_item_range_cached(s, e, false): a range contains s, or the     *)
(* next range after s starts no later than e.                              *)
RangeCached(R, s, e) ==
    RangeOf(R, s) # {} \/ \E nx \in NextRange(R, s) : nx.start <= e

(* The ranges in key order, as rb_first_rng()/rb_next_rng() visit them. *)
RECURSIVE SortRanges(_)
SortRanges(R) ==
    IF R = {} THEN <<>>
    ELSE LET r == CHOOSE r \in R : \A o \in R : r.start <= o.start
         IN <<r>> \o SortRanges(R \ {r})

(* The copy loop from range f on: start and end of each range while two  *)
(* more keys fit in the nr slots.                                          *)
CopyFrom(R, F, nr) ==
    LET S == IF F = {} THEN <<>>
             ELSE SortRanges({r \in R : r.start >= (CHOOSE f \in F : TRUE).start})
        n == IF Len(S) < nr \div 2 THEN Len(S) ELSE nr \div 2
    IN [i \in 1 .. 2 * n |-> IF i % 2 = 1 THEN S[(i + 1) \div 2].start
                                          ELSE S[i \div 2].end]

\* Variant: the descent of copy_range_keys() keeping only the next range.
CopyRangeKeysNextOnly(R, k, nr) == CopyFrom(R, NextRange(R, k), nr)

(* scoutfs_item_copy_range_keys(k, nr): the descent stops at the range    *)
(* containing k, or else leaves the next range after k; the copy starts   *)
(* there.                                                                  *)
CopyRangeKeys(R, k, nr) ==
    CopyFrom(R, IF RangeOf(R, k) # {} THEN RangeOf(R, k) ELSE NextRange(R, k), nr)

=============================================================================
