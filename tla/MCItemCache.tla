---------------------------- MODULE MCItemCache -----------------------------
(***************************************************************************)
(* Instances of ItemCache for TLC.  Three keys let a shrink find items on *)
(* both sides of the lru head (a split) and a dirty neighbour; two values *)
(* of different lengths make value swaps visible in dirty_val_bytes.      *)
(* BoundaryMin/Max are scaled down from 32/300 so that both limits of the *)
(* boundary walk are reached with three keys.                              *)
(***************************************************************************)
EXTENDS ItemCache, TLC

Keys2 == 0 .. 1
Keys3 == 0 .. 2
Keys4 == 0 .. 3
MCVals == {1, 2}

\* The transaction commit and the lock layer's writeback and invalidation.
LockOps == {"commit", "writeback", "invalidate"}

AllOps == LockOps \cup {"lookup", "dirty", "update", "delete", "create", "create_force",
           "delete_force", "delete_dirty", "update_dirty"}

\* The segments start empty or holding the even keys.
SegEvenOrEmpty == {[k \in Keys |-> NONE], [k \in Keys |-> IF k % 2 = 0 THEN 1 ELSE NONE]}

\* The segments hold every key (the shrinker has items to work on).
SegFull == {[k \in Keys |-> 1]}

ReadOps == LockOps \cup {"lookup", "dirty"}
LookupDelete == LockOps \cup {"lookup", "delete"}
ReadThroughOps == LockOps \cup {"lookup", "create", "update", "delete"}
OneVal == {1}
CreateDelete == LockOps \cup {"lookup", "create", "delete"}

\* next and prev beside the writes that change what they must find.
IterateOps == LockOps \cup {"next", "prev", "create", "delete"}

\* delete_save and restore beside the calls that change the saved keys, and
\* commits outside the save; no invalidation.
SaveOps == {"commit", "writeback", "lookup", "create", "update", "delete",
            "delete_save", "restore"}

\* The same with the lock layer invalidating ranges.
SaveInvalidateOps == SaveOps \cup {"invalidate"}

\* delete_save and restore with the iterators reading over the saved keys.
IterateSaveOps == SaveOps \cup {"next", "prev"}

\* Point calls and next beside each other's creates and deletes, for two
\* callers whose read-through retries interleave.
InterleaveIterOps == LockOps \cup {"lookup", "create", "delete", "next"}

MCSymmetry == Permutations(Threads)
=============================================================================
