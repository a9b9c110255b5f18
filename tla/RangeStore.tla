----------------------------- MODULE RangeStore -----------------------------
(***************************************************************************)
(* Checks the range operators of Ranges (insert_range(), remove_range()   *)
(* of src/src/item.c): every step inserts or removes an arbitrary         *)
(* interval, and the properties compare the keys covered before and after *)
(* with set union / set difference.                                        *)
(***************************************************************************)
EXTENDS Ranges

CONSTANTS CopySlots   \* the nr of key slots copy_range_keys() is given

VARIABLES ranges,   \* the cached_range rbtree
          last      \* ghost: the operation of the last step and its range

vars == <<ranges, last>>

Init == ranges = {} /\ last = [op |-> "none", rng |-> Rng(0, 0)]

DoInsertRange(ins) ==
    /\ ranges' = InsertRange(ranges, ins)
    /\ last' = [op |-> "insert", rng |-> ins]

DoRemoveRange(rem) ==
    /\ ranges' = RemoveRange(ranges, rem)
    /\ last' = [op |-> "remove", rng |-> rem]

Next == \E r \in Intervals : DoInsertRange(r) \/ DoRemoveRange(r)

Spec == Init /\ [][Next]_vars

-----------------------------------------------------------------------------
TypeOK ==
    /\ ranges \subseteq Intervals
    /\ last \in [op : {"none", "insert", "remove"}, rng : Intervals]

(* The rbtree ordering needs the ranges pairwise disjoint: walk_ranges()  *)
(* and check_range() return one range per key only if no two overlap.     *)
RangesDisjoint ==
    \A r1, r2 \in ranges : r1 # r2 => CompareRanges(r1, r2) # 0

(* insert_range() makes the cache authoritative over exactly the union of *)
(* what it was and the inserted range: coalescing loses no key and adds   *)
(* none.                                                                  *)
InsertExact ==
    [][last'.op = "insert" =>
         Covered(ranges') = Covered(ranges) \cup KeysOf(last'.rng)]_vars

(* remove_range() never leaves a removed key covered and never adds       *)
(* coverage: after invalidation the cache must stop answering for the     *)
(* removed keys, including the +1/-1 edges of a split range.              *)
RemoveSound ==
    [][last'.op = "remove" =>
         Covered(ranges') \subseteq Covered(ranges) \ KeysOf(last'.rng)]_vars

(* range_cached(s, e) answers whether any key of [s, e] is covered,      *)
(* after any sequence of merges, splits and trims: the containing range  *)
(* and the next one after s are enough to tell.                            *)
RangeCachedExact ==
    \A s, e \in Keys : s <= e =>
        (RangeCached(ranges, s, e) <=> Covered(ranges) \cap (s .. e) # {})

(* copy_range_keys(k, nr) hands back cached ranges as start/end pairs    *)
(* that leave no gap: every covered key from k up to the last copied end, *)
(* or above k at all when fewer ranges than slots came back, lies in a   *)
(* copied pair.                                                            *)
CopyRangeKeysComplete ==
    \A k \in Keys, nr \in CopySlots :
        LET K == CopyRangeKeys(ranges, k, nr)
            P == {Rng(K[2 * i - 1], K[2 * i]) : i \in 1 .. Len(K) \div 2}
            short == Len(K) < 2 * (nr \div 2)
        IN /\ P \subseteq ranges
           /\ \A j \in Covered(ranges) :
                 k <= j /\ (short \/ (Len(K) > 0 /\ j <= K[Len(K)])) => j \in Covered(P)

(* The spec's remove_range (section 4.2): exactly the removed keys lose   *)
(* coverage, so a range sharing one end with the removal keeps the rest.  *)
RemoveExact ==
    [][last'.op = "remove" =>
         Covered(ranges') = Covered(ranges) \ KeysOf(last'.rng)]_vars
=============================================================================
