----------------------------- MODULE DirtyTree ------------------------------
(***************************************************************************)
(* The augmented item rbtree of src/src/item.c and the dirty bits it      *)
(* carries.  Each cached_item has one dirty word: ITEM_DIRTY (the item    *)
(* must be written), LEFT_DIRTY and RIGHT_DIRTY (a subtree below holds a  *)
(* non-zero word).  The augment callbacks keep the child bits, and        *)
(* first_dirty()/next_dirty() use them to find the items dirty_seg()      *)
(* writes.  A bit is the string "ITEM", "LEFT" or "RIGHT".                *)
(*                                                                         *)
(* The tree is an unbalanced binary search tree: rb_insert_augmented()    *)
(* links the node where the descent ended and rb_erase_augmented() runs   *)
(* its three splice cases with the copy and propagate callbacks.  The     *)
(* red-black rotations are left out; their rotate callback recomputes     *)
(* both nodes' words from their children, so it can only repair a word.   *)
(* Values, the lru and the counters are in ItemCache.                     *)
(***************************************************************************)
EXTENDS Naturals, Sequences, FiniteSets
LOCAL INSTANCE SequencesExt

CONSTANTS Keys,      \* item keys, a set of naturals ordered by <
          NIL,       \* the NULL rb_node
          Ops,       \* which calls the environment makes
          SaveMax    \* bound on the delete_save list

ASSUME Keys \subseteq Nat /\ NIL \notin Keys /\ SaveMax \in Nat

Bits == {"ITEM", "LEFT", "RIGHT"}
Node == Keys \cup {NIL}

(* tree: the rb_root and the cached_items in it (in), with their links,   *)
(* dirty words and persistent/deletion flags.  saved: the caller's list    *)
(* of items taken by delete_save, each keeping its dirty word.             *)
VARIABLES tree, saved

vars == <<tree, saved>>

TypeOK ==
    /\ tree \in [root : Node, in : SUBSET Keys,
                 l : [Keys -> Node], r : [Keys -> Node], p : [Keys -> Node],
                 w : [Keys -> SUBSET Bits],
                 pers : [Keys -> BOOLEAN], del : [Keys -> BOOLEAN]]
    /\ saved \in Seq([key : Keys, w : SUBSET Bits, pers : BOOLEAN])

Init ==
    /\ tree = [root |-> NIL, in |-> {},
               l |-> [k \in Keys |-> NIL], r |-> [k \in Keys |-> NIL],
               p |-> [k \in Keys |-> NIL], w |-> [k \in Keys |-> {}],
               pers |-> [k \in Keys |-> FALSE], del |-> [k \in Keys |-> FALSE]]
    /\ saved = <<>>

(* node_dirty_bit() and compute_item_dirty(). *)
NodeDirtyBit(c, n, bit) == IF n # NIL /\ c.w[n] # {} THEN {bit} ELSE {}

ComputeItemDirty(c, n) ==
    (c.w[n] \cap {"ITEM"}) \cup NodeDirtyBit(c, c.l[n], "LEFT")
                           \cup NodeDirtyBit(c, c.r[n], "RIGHT")

(* scoutfs_item_rb_propagate(): recompute upwards until stop, or until a  *)
(* node's word does not change.                                            *)
RECURSIVE Propagate(_, _, _)
Propagate(c, n, stop) ==
    IF n = stop THEN c
    ELSE LET d == ComputeItemDirty(c, n) IN
         IF c.w[n] = d THEN c
         ELSE Propagate([c EXCEPT !.w[n] = d], c.p[n], stop)

(* scoutfs_item_rb_copy(). *)
Copy(c, n) == [c EXCEPT !.w[n] = ComputeItemDirty(c, n)]

UpdateDirtyParents(c, n) == Propagate(c, c.p[n], NIL)

\* Variant: setting ITEM_DIRTY without update_dirty_parents().
MarkItemDirtyNoParents(c, n) ==
    IF n \notin c.in \/ "ITEM" \in c.w[n] THEN c
    ELSE [c EXCEPT !.w[n] = @ \cup {"ITEM"}]

MarkItemDirty(c, n) ==
    IF n \notin c.in \/ "ITEM" \in c.w[n] THEN c
    ELSE UpdateDirtyParents([c EXCEPT !.w[n] = @ \cup {"ITEM"}], n)

ClearItemDirty(c, n) ==
    IF n \notin c.in \/ "ITEM" \notin c.w[n] THEN c
    ELSE UpdateDirtyParents([c EXCEPT !.w[n] = @ \ {"ITEM"}], n)

(* __rb_change_child(): make new the child of par in place of old. *)
ChangeChild(c, par, old, new) ==
    IF par = NIL THEN [c EXCEPT !.root = new]
    ELSE IF c.l[par] = old THEN [c EXCEPT !.l[par] = new]
    ELSE [c EXCEPT !.r[par] = new]

SetParent(c, n, par) == IF n = NIL THEN c ELSE [c EXCEPT !.p[n] = par]

RECURSIVE Leftmost(_, _)
Leftmost(c, n) == IF c.l[n] = NIL THEN n ELSE Leftmost(c, c.l[n])

(* rb_erase_augmented() with scoutfs_item_rb_cb, without the rebalance.   *)
(* The erased node leaves the tree with its word as it was.               *)
RbErase(c, n) ==
    LET par == c.p[n]
        L == c.l[n]
        R == c.r[n]
        c9 ==
          CASE L = NIL \/ R = NIL ->
                 LET child == IF L = NIL THEN R ELSE L
                 IN Propagate(SetParent(ChangeChild(c, par, n, child), child, par),
                              par, NIL)
            [] c.l[R] = NIL ->
                 LET c1 == Copy(c, R)
                     c2 == [SetParent(c1, L, R) EXCEPT !.l[R] = L, !.p[R] = par]
                 IN Propagate(ChangeChild(c2, par, n, R), R, NIL)
            [] OTHER ->
                 LET s == Leftmost(c, R)
                     sp == c.p[s]
                     child2 == c.r[s]
                     c1 == [c EXCEPT !.l[sp] = child2, !.r[s] = R, !.p[R] = s]
                     c2 == Propagate(Copy(c1, s), sp, s)
                     c3 == [SetParent(SetParent(c2, child2, sp), L, s)
                              EXCEPT !.l[s] = L, !.p[s] = par]
                 IN Propagate(ChangeChild(c3, par, n, s), s, NIL)
    IN [c9 EXCEPT !.in = @ \ {n}, !.l[n] = NIL, !.r[n] = NIL, !.p[n] = NIL]

(* unlink_item() and erase_item(): dirty accounting off, then the erase.  *)
EraseItem(c, n) == RbErase(ClearItemDirty(c, n), n)

(* The descent of insert_item(): every node passed gets the side bit when *)
(* the inserted item's word is non-zero.  Ends at the NIL slot or at the  *)
(* item with the same key.                                                 *)
RECURSIVE Descend(_, _, _, _, _)
Descend(c, n, par, k, ins) ==
    IF n = NIL \/ n = k THEN [c |-> c, par |-> par, at |-> n]
    ELSE LET side == IF k < n THEN "LEFT" ELSE "RIGHT"
             c1 == IF ins.w # {} THEN [c EXCEPT !.w[n] = @ \cup {side}] ELSE c
         IN Descend(c1, IF k < n THEN c.l[n] ELSE c.r[n], n, k, ins)

(* rb_link_node() and rb_insert_augmented(): the new node keeps its word. *)
Link(c, par, k, ins) ==
    LET c1 == IF par = NIL THEN [c EXCEPT !.root = k]
              ELSE IF k < par THEN [c EXCEPT !.l[par] = k]
              ELSE [c EXCEPT !.r[par] = k]
    IN [c1 EXCEPT !.in = @ \cup {k}, !.l[k] = NIL, !.r[k] = NIL, !.p[k] = par,
                  !.w[k] = ins.w, !.pers[k] = ins.pers, !.del[k] = FALSE]

(* insert_item(): [ok, c].  A deletion item with the key is erased and    *)
(* its persistence inherited (the goto restart); any other existing item  *)
(* gives -EEXIST to populating callers and to non-overwriting ones.       *)
InsertItem(c, k, ins, overwrite, populate) ==
    LET d == Descend(c, c.root, NIL, k, ins) IN
    IF d.at = NIL THEN [ok |-> TRUE, c |-> Link(d.c, d.par, k, ins)]
    ELSE IF populate \/ (~d.c.del[k] /\ ~overwrite) THEN [ok |-> FALSE, c |-> d.c]
    ELSE LET c1 == EraseItem(d.c, k)
             ins1 == [ins EXCEPT !.pers = @ \/ d.c.pers[k]]
             d2 == Descend(c1, c1.root, NIL, k, ins1)
         IN [ok |-> TRUE, c |-> Link(d2.c, d2.par, k, ins1)]

NewItem(pers) == [w |-> {}, pers |-> pers]

(* delete_item(). *)
DeleteItem(c, n) ==
    IF ~c.pers[n] THEN EraseItem(c, n)
    ELSE MarkItemDirty([ClearItemDirty(c, n) EXCEPT !.del[n] = TRUE], n)

(* find_item(): deletion items are not found. *)
Found(c, k) == k \in c.in /\ ~c.del[k]

(* first_dirty(). *)
RECURSIVE FirstDirty(_, _)
FirstDirty(c, n) ==
    IF n = NIL THEN NIL
    ELSE IF "LEFT" \in c.w[n] THEN FirstDirty(c, c.l[n])
    ELSE IF "ITEM" \in c.w[n] THEN n
    ELSE IF "RIGHT" \in c.w[n] THEN FirstDirty(c, c.r[n])
    ELSE NIL

(* The ascent of next_dirty(): the first parent reached from a left child. *)
RECURSIVE NextGreaterParent(_, _)
NextGreaterParent(c, n) ==
    IF c.p[n] # NIL /\ c.r[c.p[n]] = n THEN NextGreaterParent(c, c.p[n])
    ELSE c.p[n]

\* Variant: next_dirty() giving up at a clean greater parent.
NextDirtyStopAtParent(c, n) ==
    IF "RIGHT" \in c.w[n] THEN FirstDirty(c, c.r[n])
    ELSE LET a == NextGreaterParent(c, n) IN
         IF a # NIL /\ "ITEM" \in c.w[a] THEN a ELSE NIL

(* next_dirty(). *)
RECURSIVE NextDirty(_, _)
NextDirty(c, n) ==
    IF "RIGHT" \in c.w[n] THEN FirstDirty(c, c.r[n])
    ELSE LET a == NextGreaterParent(c, n) IN
         IF a = NIL THEN NIL
         ELSE IF "ITEM" \in c.w[a] THEN a
         ELSE NextDirty(c, a)

(* The loop of scoutfs_item_dirty_seg(): write, clear, mark persistent,   *)
(* find the next dirty item, then erase a written deletion item.           *)
RECURSIVE WriteFrom(_, _)
WriteFrom(c, n) ==
    IF n = NIL THEN c
    ELSE LET c1 == [ClearItemDirty(c, n) EXCEPT !.pers[n] = TRUE]
             nx == NextDirty(c1, n)
         IN WriteFrom(IF c1.del[n] THEN EraseItem(c1, n) ELSE c1, nx)

DirtySegOf(c) == WriteFrom(c, FirstDirty(c, c.root))

(* next_item(): the descent of walk_items() for key k, returning the item *)
(* with the key or else the last node passed on its left turns.           *)
RECURSIVE WalkNext(_, _, _, _)
WalkNext(c, n, k, next) ==
    IF n = NIL THEN next
    ELSE IF k < n THEN WalkNext(c, c.l[n], k, n)
    ELSE IF k > n THEN WalkNext(c, c.r[n], k, next)
    ELSE n

NextItem(c, k) == WalkNext(c, c.root, k, NIL)

\* Variant: rb_next() stepping to the right child instead of its leftmost.
RbNextRightChild(c, n) ==
    IF c.r[n] # NIL THEN c.r[n] ELSE NextGreaterParent(c, n)

(* rb_next(), as rb_next_item() uses it: the leftmost node of the right   *)
(* subtree, or else the first parent reached from a left child.            *)
RbNext(c, n) ==
    IF c.r[n] # NIL THEN Leftmost(c, c.r[n]) ELSE NextGreaterParent(c, n)

(* The loop of scoutfs_item_copy_keys(k, nr) from item n: stop when nr    *)
(* keys are copied, skip deletion items, step with rb_next_item().        *)
RECURSIVE CopyKeysFrom(_, _, _, _)
CopyKeysFrom(c, n, nr, acc) ==
    IF n = NIL \/ Len(acc) = nr THEN acc
    ELSE CopyKeysFrom(c, RbNext(c, n), nr, IF c.del[n] THEN acc ELSE Append(acc, n))

CopyKeys(c, k, nr) == CopyKeysFrom(c, NextItem(c, k), nr, <<>>)

\* Variant: dirty_item_within() taking only an item that is itself dirty.
DirtyItemWithinNoNext(c, from, end) ==
    LET i == NextItem(c, from) IN i # NIL /\ "ITEM" \in c.w[i] /\ i <= end

(* dirty_item_within(), the test of scoutfs_item_writeback() and of       *)
(* range_cached(dirty): the first item at or after from, or the next      *)
(* dirty item after it if it is clean, must exist and be at most end.     *)
DirtyItemWithin(c, from, end) ==
    LET i == NextItem(c, from)
        d == IF i # NIL /\ "ITEM" \notin c.w[i] THEN NextDirty(c, i) ELSE i
    IN d # NIL /\ d <= end

(* The restore loop of scoutfs_item_restore(): clear ITEM_DIRTY, erase a  *)
(* found existing item, insert, and mark dirty what was dirty when saved. *)
RECURSIVE RestoreItems(_, _)
RestoreItems(c, s) ==
    IF s = <<>> THEN c
    ELSE LET h == Head(s)
             c1 == IF Found(c, h.key) THEN EraseItem(c, h.key) ELSE c
             c2 == InsertItem(c1, h.key, [w |-> h.w \ {"ITEM"}, pers |-> h.pers],
                              FALSE, FALSE).c
         IN RestoreItems(IF "ITEM" \in h.w THEN MarkItemDirty(c2, h.key) ELSE c2,
                         Tail(s))

(* scoutfs_item_insert_batch() populating an item read from the segments. *)
Populate(k) ==
    /\ "populate" \in Ops /\ k \notin tree.in
    /\ tree' = InsertItem(tree, k, NewItem(TRUE), FALSE, TRUE).c
    /\ UNCHANGED saved

(* scoutfs_item_create(): insert a new item, then mark it dirty. *)
Create(k) ==
    LET ins == InsertItem(tree, k, NewItem(FALSE), FALSE, FALSE) IN
    /\ "create" \in Ops /\ ins.ok
    /\ tree' = MarkItemDirty(ins.c, k)
    /\ UNCHANGED saved

(* scoutfs_item_dirty() and the marking of scoutfs_item_update(). *)
Dirty(k) ==
    /\ "dirty" \in Ops /\ Found(tree, k)
    /\ tree' = MarkItemDirty(tree, k)
    /\ UNCHANGED saved

(* scoutfs_item_delete(). *)
Delete(k) ==
    /\ "delete" \in Ops /\ Found(tree, k)
    /\ tree' = DeleteItem(tree, k)
    /\ UNCHANGED saved

(* The shrinker and invalidation erasing a clean item. *)
Evict(k) ==
    /\ "evict" \in Ops /\ k \in tree.in /\ "ITEM" \notin tree.w[k]
    /\ tree' = EraseItem(tree, k)
    /\ UNCHANGED saved

(* scoutfs_item_delete_save(): unlink the item, keep its word with        *)
(* ITEM_DIRTY set again if it was dirty, and delete in its place a new    *)
(* item with its persistence.                                              *)
DeleteSave(k) ==
    LET c1 == EraseItem(tree, k)
        wk == IF "ITEM" \in tree.w[k] THEN c1.w[k] \cup {"ITEM"} ELSE c1.w[k]
        ins == InsertItem(c1, k, NewItem(tree.pers[k]), FALSE, FALSE)
    IN /\ "delete_save" \in Ops /\ Len(saved) < SaveMax /\ Found(tree, k)
       /\ tree' = DeleteItem(ins.c, k)
       /\ saved' = Append(saved, [key |-> k, w |-> wk, pers |-> tree.pers[k]])

Restore ==
    /\ "restore" \in Ops /\ saved # <<>>
    /\ tree' = RestoreItems(tree, saved)
    /\ saved' = <<>>

(* scoutfs_item_dirty_seg() under the lock. *)
DirtySeg ==
    /\ tree' = DirtySegOf(tree)
    /\ UNCHANGED saved

Next ==
    \/ \E k \in Keys : \/ Populate(k) \/ Create(k) \/ Dirty(k) \/ Delete(k)
                       \/ Evict(k) \/ DeleteSave(k)
    \/ Restore
    \/ DirtySeg

Spec == Init /\ [][Next]_vars

-----------------------------------------------------------------------------

(* Every node's LEFT_DIRTY and RIGHT_DIRTY say exactly whether that child *)
(* has a non-zero word: what the augment callbacks and the descent of     *)
(* insert_item() maintain across inserts, the splice cases of erase and   *)
(* the early stop of propagate.                                            *)
BitsConsistent ==
    \A n \in tree.in : tree.w[n] \ {"ITEM"} = ComputeItemDirty(tree, n) \ {"ITEM"}

(* No dirty subtree is hidden: a child whose word is non-zero always has  *)
(* its bit set in the parent, so first_dirty() and next_dirty() are never *)
(* kept from an item that must be written.  mark_item_dirty() and the     *)
(* erase splice cases must propagate every bit that turns on.             *)
BitsComplete ==
    \A n \in tree.in : ComputeItemDirty(tree, n) \ {"ITEM"} \subseteq tree.w[n]

(* dirty_seg() run now would write every dirty item: first_dirty() and    *)
(* next_dirty() following the child bits reach each item with ITEM_DIRTY, *)
(* so no dirty item is left behind to miss the transaction.               *)
DirtySegWritesAll ==
    LET c == DirtySegOf(tree) IN \A n \in c.in : "ITEM" \notin c.w[n]

(* With exact child bits, the first_dirty()/next_dirty() walk of         *)
(* dirty_seg() writes every dirty item, whatever the tree's shape and     *)
(* wherever the written deletion items it erases sit.                    *)
ExactBitsWriteAll == BitsConsistent => DirtySegWritesAll

(* writeback(s, e) syncs exactly when a dirty item lies in [s, e]: with   *)
(* exact child bits dirty_item_within() neither misses a dirty item in    *)
(* the range (which invalidate would then erase, losing the update) nor   *)
(* reports one that is not there.                                          *)
WritebackSeesDirty ==
    \A s, e \in Keys :
        DirtyItemWithin(tree, s, e) = \E n \in tree.in : "ITEM" \in tree.w[n] /\ s <= n /\ n <= e

(* With exact child bits, writeback's search finds a dirty item in every *)
(* range that holds one and in no other, whatever the tree's shape.       *)
ExactBitsFindWithin == BitsConsistent => WritebackSeesDirty

(* copy_keys(k, nr) returns the first nr non-deletion keys from k in key  *)
(* order: the in-order walk of rb_next() over the tree that insert's      *)
(* linking and erase's three splice cases leave behind skips and repeats  *)
(* no item.                                                                *)
CopyKeysInOrder ==
    \A k \in Keys, nr \in 1 .. 3 :
        LET L == SetToSortSeq({n \in tree.in : ~tree.del[n] /\ n >= k}, <)
        IN CopyKeys(tree, k, nr) = SubSeq(L, 1, IF Len(L) < nr THEN Len(L) ELSE nr)
====
