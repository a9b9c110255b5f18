----------------------------- MODULE ItemCache ------------------------------
(***************************************************************************)
(* The item cache of src/src/item.c.                                       *)
(*                                                                         *)
(* State (struct item_cache): the item rbtree `items` (key -> cached_item) *)
(* the range rbtree `ranges`, the clean-item LRU `lru` with its count      *)
(* `lru_nr`, and the dirty totals.  Every API call takes cac->lock, so     *)
(* each critical section is one atomic step.  A call that finds neither    *)
(* an item nor a covering range drops the lock, calls the segment reader   *)
(* (scoutfs_manifest_read_items) and retries: that reader is modelled by   *)
(* FillRead (reading `seg`, the persistent segment contents) and FillInsert *)
(* (scoutfs_item_insert_batch), two steps other threads can run between.  *)
(* With AtomicFill the two happen in one step (Fill).                      *)
(*                                                                         *)
(* The shrinker (item_lru_shrink) holds the lock for its whole loop; it is *)
(* modelled one loop iteration per step, with every other locked step      *)
(* disabled while it runs, so that its termination can be checked.         *)
(*                                                                         *)
(* Data abstraction: keys are naturals (key_inc/dec are +1/-1); a value is *)
(* a natural that is also its length (val_len), 0 being the empty value.   *)
(* The rbtree shape is not modelled: items are a function from keys, and   *)
(* the dirty-subtree bits appear only where the code reads them.           *)
(***************************************************************************)
EXTENDS Ranges, Sequences, SequencesExt

CONSTANTS
    Vals,          \* values a caller can write (naturals, a value is its length)
    Threads,       \* tasks calling the item API
    NONE,          \* absence: of a key in the segments, of a neighbour item
    Ops,           \* names of the calls made in this model: the API calls of the
                   \* threads, and "commit", "writeback", "invalidate" of the
                   \* transaction and lock layers
    BoundaryMin,   \* BOUNDARY_MIN of shrink_boundary()
    BoundaryMax,   \* BOUNDARY_MAX of shrink_boundary()
    NrToScan,      \* values of sc->nr_to_scan the shrinker is called with
    AtomicFill,    \* TRUE: no step runs between a fill's read and its insert
    SegInit,       \* the possible persistent contents at mount
    FreedItemReads,\* what insert_item() can read from an item it has freed
    SaveMax,       \* the most items a caller's delete_save list holds
    RecordCalls    \* whether ret names the call as well as its result

ASSUME Vals \subseteq Nat /\ 0 \notin Vals
ASSUME BoundaryMax >= 1 /\ BoundaryMin < BoundaryMax
ASSUME NrToScan \subseteq Nat \ {0}   \* {} : the shrinker is not called
ASSUME AtomicFill \in BOOLEAN
ASSUME SegInit \subseteq [Keys -> Vals \cup {NONE}]
ASSUME FreedItemReads \subseteq {"kept", "cleared"} /\ FreedItemReads # {}
ASSUME SaveMax \in Nat
ASSUME RecordCalls \in BOOLEAN

VARIABLES
    items,            \* cac->items: key -> [val, dirty, deletion, persistent]
    ranges,           \* cac->ranges
    lru,              \* cac->lru_list, head first
    lru_nr,           \* cac->lru_nr
    nr_dirty_items,   \* cac->nr_dirty_items
    dirty_val_bytes,  \* cac->dirty_val_bytes
    seg,              \* the items the segments hold (the reader's source)
    pc,               \* per thread: "idle", "read", "insert" or "retry"
    req,              \* per thread: the call being retried after a fill
    fill,             \* per thread: the range and items a fill has read
    ret,              \* per thread: the result of its last completed call
    shrink,           \* the shrinker's loop state
    saved,            \* per thread: its delete_save list of [key, rec]
    revoke            \* the lock layer giving up a cluster lock: writeback of its
                      \* range, the scoutfs_trans_sync() it awaits, invalidate

cacheVars == <<items, lru, lru_nr, nr_dirty_items, dirty_val_bytes>>
vars == <<items, ranges, lru, lru_nr, nr_dirty_items, dirty_val_bytes, seg,
          pc, req, fill, ret, shrink, saved, revoke>>

ItemRec == [val : Vals \cup {0}, dirty : BOOLEAN, deletion : BOOLEAN,
            persistent : BOOLEAN]

Res(kind, v) == [kind |-> kind, key |-> NONE, val |-> v]
KeyRes(k, v) == [kind |-> "key", key |-> k, val |-> v]
Call(op, k, v) == [op |-> op, key |-> k, val |-> v]
NoCall == Call("none", NONE, 0)

(* A call in progress: its arguments, and the key `pos` its read-through  *)
(* loop has reached (the key itself, except for next and prev).           *)
Req(op, k, v) == [op |-> op, key |-> k, val |-> v, pos |-> k]
NoReq == Req("none", NONE, 0)
NoFill == [rng |-> Rng(0, 0), batch |-> <<>>]

ValLen(v) == v

-----------------------------------------------------------------------------
(***************************************************************************)
(* The item tree, as a record c of the fields in cacheVars, so that a      *)
(* call's sequence of helper calls composes as operators do.              *)
(***************************************************************************)
Cache == [items |-> items, lru |-> lru, lru_nr |-> lru_nr,
          nr_dirty_items |-> nr_dirty_items, dirty_val_bytes |-> dirty_val_bytes]

(* c is bound once (\E over a singleton) so that TLC evaluates the helper *)
(* chain that computes it once, also when it evaluates ENABLED.            *)
SetCache(c) ==
    \E new \in {c} :
       /\ items' = new.items
       /\ lru' = new.lru
       /\ lru_nr' = new.lru_nr
       /\ nr_dirty_items' = new.nr_dirty_items
       /\ dirty_val_bytes' = new.dirty_val_bytes

\* Variant: find_item() returning deletion items too.
FoundAnyItem(c, k) == k \in DOMAIN c.items

\* find_item(): a cached item that is not a deletion item.
Found(c, k) == k \in DOMAIN c.items /\ ~c.items[k].deletion

DirtyKeys(c) == {k \in DOMAIN c.items : c.items[k].dirty}

NewItem(v, persistent) ==
    [val |-> v, dirty |-> FALSE, deletion |-> FALSE, persistent |-> persistent]

\* mark_item_dirty(): off the lru, counted, (parents' bits updated).
MarkDirty(c, k) ==
    IF c.items[k].dirty THEN c
    ELSE [c EXCEPT !.items[k].dirty = TRUE,
                   !.lru = Remove(@, k),
                   !.lru_nr = @ - 1,
                   !.nr_dirty_items = @ + 1,
                   !.dirty_val_bytes = @ + ValLen(c.items[k].val)]

\* clear_item_dirty(): onto the lru tail, uncounted.
ClearDirty(c, k) ==
    IF ~c.items[k].dirty THEN c
    ELSE [c EXCEPT !.items[k].dirty = FALSE,
                   !.lru = Append(@, k),
                   !.lru_nr = @ + 1,
                   !.nr_dirty_items = @ - 1,
                   !.dirty_val_bytes = @ - ValLen(c.items[k].val)]

(* item_referenced() tests the whole dirty word, subtree bits included: a *)
(* clean item moves to the lru tail only if no item below it in the tree  *)
(* is dirty.  The tree shape is not modelled, so when some other item is  *)
(* dirty either outcome is possible.                                       *)
Referenced(c, k) ==
    LET moved == [c EXCEPT !.lru = Append(Remove(@, k), k)]
    IN IF c.items[k].dirty THEN {c}
       ELSE IF DirtyKeys(c) = {} THEN {moved}
       ELSE {c, moved}

\* Variant: unlink_item() forgetting to uncount an item it takes off the lru.
EraseItemsKeepCount(c, S) ==
    LET D == S \cap DirtyKeys(c) IN
    [items |-> [j \in DOMAIN c.items \ S |-> c.items[j]],
     lru |-> SelectSeq(c.lru, LAMBDA j : j \notin S),
     lru_nr |-> c.lru_nr,
     nr_dirty_items |-> c.nr_dirty_items - Cardinality(D),
     dirty_val_bytes |-> c.dirty_val_bytes
                         - MapThenSumSet(LAMBDA j : ValLen(c.items[j].val), D)]

(* unlink_item() and erase_item() of each item of S: clear_item_dirty()  *)
(* uncounts a dirty item and puts it on the lru, then the item leaves the *)
(* tree and, being on the list, the lru.                                   *)
EraseItems(c, S) ==
    LET D == S \cap DirtyKeys(c) IN
    [items |-> [j \in DOMAIN c.items \ S |-> c.items[j]],
     lru |-> SelectSeq(c.lru, LAMBDA j : j \notin S),
     lru_nr |-> c.lru_nr - Cardinality((S \ D) \cap ToSet(c.lru)),
     nr_dirty_items |-> c.nr_dirty_items - Cardinality(D),
     dirty_val_bytes |-> c.dirty_val_bytes
                         - MapThenSumSet(LAMBDA j : ValLen(c.items[j].val), D)]

EraseItem(c, k) == EraseItems(c, {k})

\* rb_insert_augmented() of a clean item, then list_add_tail() to the lru.
LinkItem(c, k, rec) ==
    [c EXCEPT !.items = (k :> rec) @@ c.items,
              !.lru = Append(@, k),
              !.lru_nr = @ + 1]

(***************************************************************************)
(* insert_item() calls erase_item(), which kfree()s the replaced item,    *)
(* and then reads its persistent bit.  The freed memory is either still   *)
(* intact ("kept") or zeroed by the allocator ("cleared", init_on_free).  *)
(***************************************************************************)
FreedPersistent(old) ==
    {IF o = "kept" THEN old.persistent ELSE FALSE : o \in FreedItemReads}

\* Variant: insert_item() letting cache population replace deletion items.
InsertItemPopulateReplaces(c, k, rec, overwrite, populate) ==
    IF k \notin DOMAIN c.items THEN {[err |-> FALSE, c |-> LinkItem(c, k, rec)]}
    ELSE LET old == c.items[k] IN
         IF ~old.deletion /\ ~overwrite
         THEN {[err |-> TRUE, c |-> c]}
         ELSE {[err |-> FALSE,
                c |-> LinkItem(EraseItem(c, k), k,
                               [rec EXCEPT !.persistent = @ \/ p])] :
               p \in FreedPersistent(old)}

(***************************************************************************)
(* insert_item(), as the set of its possible outcomes [err, c] (err is    *)
(* -EEXIST).  Cache population never replaces; a logical insert replaces  *)
(* a deletion item, and with logical_overwrite any item; the replacement  *)
(* inherits the persistence read from the item it replaced.              *)
(***************************************************************************)
InsertItem(c, k, rec, overwrite, populate) ==
    IF k \notin DOMAIN c.items THEN {[err |-> FALSE, c |-> LinkItem(c, k, rec)]}
    ELSE LET old == c.items[k] IN
         IF populate \/ (~old.deletion /\ ~overwrite)
         THEN {[err |-> TRUE, c |-> c]}
         ELSE {[err |-> FALSE,
                c |-> LinkItem(EraseItem(c, k), k,
                               [rec EXCEPT !.persistent = @ \/ p])] :
               p \in FreedPersistent(old)}

\* Variant: delete_item() zeroing the value without clear_item_dirty() first.
DeleteItemNoClear(c, k) ==
    IF ~c.items[k].persistent THEN EraseItem(c, k)
    ELSE MarkDirty([c EXCEPT !.items[k].val = 0, !.items[k].deletion = TRUE], k)

(* delete_item(): a non-persistent item is freed; a persistent one becomes *)
(* a dirty deletion item with no value (uncounted with its old length     *)
(* first, recounted with zero).                                            *)
DeleteItem(c, k) ==
    IF ~c.items[k].persistent THEN EraseItem(c, k)
    ELSE MarkDirty([ClearDirty(c, k) EXCEPT !.items[k].val = 0,
                                            !.items[k].deletion = TRUE], k)

-----------------------------------------------------------------------------
(***************************************************************************)
(* The API calls.  A call runs when its thread is idle, or is retrying it  *)
(* after a fill.  It completes (Finish) with a result, or needs a fill     *)
(* (NeedFill): the lock is dropped and the reader is called.               *)
(***************************************************************************)
shrinking == shrink.phase # "off"

(* No item call runs while the lock layer is giving up a lock (revoke).   *)
NoRevoke == [phase |-> "none", rng |-> Rng(0, 0), inval |-> FALSE]

Unlocked == revoke.phase = "none"

AfterSync(rv) == IF rv.inval THEN [rv EXCEPT !.phase = "invalidate"] ELSE NoRevoke

IsCovered(k) == RangeOf(ranges, k) # {}

CanRun(t, r) ==
    /\ r.op \in Ops
    /\ ~shrinking /\ Unlocked
    /\ \/ pc[t] = "idle"
       \/ pc[t] = "retry" /\ Call(req[t].op, req[t].key, req[t].val) = Call(r.op, r.key, r.val)

\* The call r of thread t returns result, leaving the cache as c.
Complete(t, r, c, result) ==
    /\ SetCache(c)
    /\ ret' = [ret EXCEPT ![t] = [call |-> IF RecordCalls THEN Call(r.op, r.key, r.val)
                                                           ELSE NoCall,
                                   res |-> result]]
    /\ pc' = [pc EXCEPT ![t] = "idle"]
    /\ req' = [req EXCEPT ![t] = NoReq]
    /\ UNCHANGED <<ranges, seg, fill, shrink, revoke>>

Finish(t, r, c, result) == Complete(t, r, c, result) /\ UNCHANGED saved

NeedFill(t, r) ==
    /\ pc' = [pc EXCEPT ![t] = "read"]
    /\ req' = [req EXCEPT ![t] = r]
    /\ UNCHANGED <<items, ranges, lru, lru_nr, nr_dirty_items, dirty_val_bytes,
                   seg, fill, ret, shrink, saved, revoke>>

(* The miss path shared by lookup, dirty, update and delete: -ENOENT if a *)
(* range covers the key, else drop the lock to fill and retry.            *)
Missed(t, r) ==
    IF IsCovered(r.key) THEN Finish(t, r, Cache, Res("ENOENT", 0))
    ELSE NeedFill(t, r)

\* scoutfs_item_lookup(): the value is copied out (the buffer is big enough).
Lookup(t, k) ==
    LET r == Req("lookup", k, 0) IN
    /\ CanRun(t, r)
    /\ IF Found(Cache, k)
       THEN \E c2 \in Referenced(Cache, k) : Finish(t, r, c2, Res("val", items[k].val))
       ELSE Missed(t, r)

\* scoutfs_item_dirty()
Dirty(t, k) ==
    LET r == Req("dirty", k, 0) IN
    /\ CanRun(t, r)
    /\ IF Found(Cache, k) THEN Finish(t, r, MarkDirty(Cache, k), Res("OK", 0))
       ELSE Missed(t, r)

\* scoutfs_item_update(): the new value is swapped in between clear and mark.
Update(t, k, v) ==
    LET r == Req("update", k, v) IN
    /\ CanRun(t, r)
    /\ IF Found(Cache, k)
       THEN Finish(t, r, MarkDirty([ClearDirty(Cache, k) EXCEPT !.items[k].val = v], k),
                   Res("OK", 0))
       ELSE Missed(t, r)

\* scoutfs_item_delete()
Delete(t, k) ==
    LET r == Req("delete", k, 0) IN
    /\ CanRun(t, r)
    /\ IF Found(Cache, k) THEN Finish(t, r, DeleteItem(Cache, k), Res("OK", 0))
       ELSE Missed(t, r)

(* scoutfs_item_create(): needs a covering range, then a logical insert   *)
(* that fails on a live item and replaces a deletion item.                *)
Create(t, k, v) ==
    LET r == Req("create", k, v) IN
    /\ CanRun(t, r)
    /\ IF ~IsCovered(k) THEN NeedFill(t, r)
       ELSE \E ins \in InsertItem(Cache, k, NewItem(v, FALSE), FALSE, FALSE) :
               IF ins.err THEN Finish(t, r, Cache, Res("EEXIST", 0))
               ELSE Finish(t, r, MarkDirty(ins.c, k), Res("OK", 0))

(* scoutfs_item_create_force(): no read; a persistent item overwrites     *)
(* whatever is cached (the BUG_ON on insert failure cannot fire).         *)
CreateForce(t, k, v) ==
    LET r == Req("create_force", k, v) IN
    /\ "create_force" \in Ops /\ ~shrinking /\ Unlocked /\ pc[t] = "idle"
    /\ \E ins \in InsertItem(Cache, k, NewItem(v, TRUE), TRUE, FALSE) :
          Finish(t, r, MarkDirty(ins.c, k), Res("OK", 0))

(* scoutfs_item_delete_force(): a persistent empty item overwrites what   *)
(* is cached, is marked dirty, then deleted into a deletion item.          *)
DeleteForce(t, k) ==
    LET r == Req("delete_force", k, 0) IN
    /\ "delete_force" \in Ops /\ ~shrinking /\ Unlocked /\ pc[t] = "idle"
    /\ \E ins \in InsertItem(Cache, k, NewItem(0, TRUE), TRUE, FALSE) :
          Finish(t, r, DeleteItem(MarkDirty(ins.c, k), k), Res("OK", 0))

(* scoutfs_item_delete_dirty(): the caller guarantees the item is cached  *)
(* and dirty (it created or dirtied it in its transaction).  No result.   *)
DeleteDirty(t, k) ==
    /\ "delete_dirty" \in Ops /\ ~shrinking /\ Unlocked /\ pc[t] = "idle"
    /\ Found(Cache, k) /\ items[k].dirty
    /\ SetCache(DeleteItem(Cache, k))
    /\ UNCHANGED <<ranges, seg, pc, req, fill, ret, shrink, saved, revoke>>

(* scoutfs_item_update_dirty(): the caller guarantees a dirty item whose  *)
(* value is at least as long (else BUG_ON); the byte count moves by the   *)
(* difference.                                                             *)
UpdateDirty(t, k, v) ==
    /\ "update_dirty" \in Ops /\ ~shrinking /\ Unlocked /\ pc[t] = "idle"
    /\ Found(Cache, k) /\ items[k].dirty /\ ValLen(v) <= ValLen(items[k].val)
    /\ items' = [items EXCEPT ![k].val = v]
    /\ dirty_val_bytes' = dirty_val_bytes + ValLen(v) - ValLen(items[k].val)
    /\ UNCHANGED <<ranges, lru, lru_nr, nr_dirty_items, seg, pc, req, fill,
                   ret, shrink, saved, revoke>>

-----------------------------------------------------------------------------
(***************************************************************************)
(* Iteration.  scoutfs_item_next(key, last) holds the lock while it walks *)
(* from pos = key through cached ranges: in the range covering pos it     *)
(* looks for the first non-deletion item up to the lesser of the range's  *)
(* end and last (item_for_next); if there is none and the range ends      *)
(* before last it continues at range_end + 1.  An uncovered pos drops the *)
(* lock for a fill at pos and the loop resumes there.  The lock covers    *)
(* every key, so lock->end does not lower last.  prev is the mirror.      *)
(***************************************************************************)
\* The range covering k (ranges are disjoint, so there is at most one).
CoveringRange(k) == CHOOSE rng \in RangeOf(ranges, k) : TRUE

\* The non-deletion items with keys in lo .. hi.
LiveItems(lo, hi) == {j \in DOMAIN items : lo <= j /\ j <= hi /\ ~items[j].deletion}

\* Variant: scoutfs_item_next() stopping at an empty range that ends before last.
NextScanNoAdvance(pos, last) ==
    IF ~IsCovered(pos) THEN [kind |-> "miss", key |-> pos]
    ELSE LET rng == CoveringRange(pos)
             found == LiveItems(pos, IF rng.end < last THEN rng.end ELSE last)
         IN IF found # {} THEN [kind |-> "found", key |-> Min(found)]
            ELSE [kind |-> "enoent", key |-> pos]

\* The locked loop of scoutfs_item_next() from pos: an item found, -ENOENT,
\* or the uncovered key it must read.
RECURSIVE NextScan(_, _)
NextScan(pos, last) ==
    IF ~IsCovered(pos) THEN [kind |-> "miss", key |-> pos]
    ELSE LET rng == CoveringRange(pos)
             found == LiveItems(pos, IF rng.end < last THEN rng.end ELSE last)
         IN IF found # {} THEN [kind |-> "found", key |-> Min(found)]
            ELSE IF rng.end < last THEN NextScan(KeyInc(rng.end), last)
            ELSE [kind |-> "enoent", key |-> pos]

RECURSIVE PrevScan(_, _)
PrevScan(pos, first) ==
    IF ~IsCovered(pos) THEN [kind |-> "miss", key |-> pos]
    ELSE LET rng == CoveringRange(pos)
             found == LiveItems(IF rng.start > first THEN rng.start ELSE first, pos)
         IN IF found # {} THEN [kind |-> "found", key |-> Max(found)]
            ELSE IF rng.start > first THEN PrevScan(KeyDec(rng.start), first)
            ELSE [kind |-> "enoent", key |-> pos]

(* One locked pass of next or prev for call r from pos: return the found  *)
(* item (referenced, its value copied), -ENOENT, or fill at the miss.     *)
Iterate(t, r, scan) ==
    CASE scan.kind = "found" ->
            \E c2 \in Referenced(Cache, scan.key) :
               Finish(t, r, c2, KeyRes(scan.key, items[scan.key].val))
      [] scan.kind = "enoent" -> Finish(t, r, Cache, Res("ENOENT", 0))
      [] scan.kind = "miss" -> NeedFill(t, [r EXCEPT !.pos = scan.key])

\* Where the loop of thread t resumes: its saved pos on a retry.
ResumePos(t, k) == IF pc[t] = "retry" THEN req[t].pos ELSE k

\* scoutfs_item_next(); key > last returns -ENOENT before any search.
NextItem(t, k, last) ==
    LET r == Req("next", k, last) IN
    /\ CanRun(t, r)
    /\ IF k > last THEN Finish(t, r, Cache, Res("ENOENT", 0))
       ELSE Iterate(t, r, NextScan(ResumePos(t, k), last))

\* scoutfs_item_prev(); key < first returns -ENOENT before any search.
PrevItem(t, k, first) ==
    LET r == Req("prev", k, first) IN
    /\ CanRun(t, r)
    /\ IF k < first THEN Finish(t, r, Cache, Res("ENOENT", 0))
       ELSE Iterate(t, r, PrevScan(ResumePos(t, k), first))

-----------------------------------------------------------------------------
(***************************************************************************)
(* delete_save and restore.  The caller holds its transaction and its     *)
(* cluster locks from the first delete_save to the restore, so while any  *)
(* thread holds saved items no commit runs and the lock layer invalidates *)
(* nothing (the lock covers every key).                                    *)
(***************************************************************************)
Saving == \E t \in Threads : saved[t] # <<>>

(* scoutfs_item_delete_save(): the found item is unlinked (its dirty bit  *)
(* kept for restore) and appended to the list; a new empty item with its  *)
(* persistence is inserted in its place and deleted, which leaves a dirty *)
(* deletion item if the old item was persistent and nothing otherwise.    *)
DeleteSave(t, k) ==
    LET r == Req("delete_save", k, 0) IN
    /\ CanRun(t, r) /\ Len(saved[t]) < SaveMax
    /\ IF Found(Cache, k)
       THEN /\ Complete(t, r, DeleteItem(LinkItem(EraseItem(Cache, k), k,
                                                  NewItem(0, items[k].persistent)), k),
                        Res("OK", 0))
            /\ saved' = [saved EXCEPT ![t] = Append(@, [key |-> k, rec |-> items[k]])]
       ELSE Missed(t, r)

\* Variant: restore() not marking a saved dirty item dirty again.
RECURSIVE RestoreItemsNoRemark(_, _)
RestoreItemsNoRemark(c, s) ==
    IF s = <<>> THEN {c}
    ELSE LET k == Head(s).key
             c1 == IF Found(c, k) THEN EraseItem(c, k) ELSE c
         IN UNION {RestoreItemsNoRemark(ins.c, Tail(s)) :
                   ins \in InsertItem(c1, k, [Head(s).rec EXCEPT !.dirty = FALSE],
                                      FALSE, FALSE)}

\* Variant: restore() inserting the saved item with its dirty bit still set.
RECURSIVE RestoreItemsKeepDirty(_, _)
RestoreItemsKeepDirty(c, s) ==
    IF s = <<>> THEN {c}
    ELSE LET k == Head(s).key
             c1 == IF Found(c, k) THEN EraseItem(c, k) ELSE c
         IN UNION {RestoreItemsKeepDirty(IF Head(s).rec.dirty THEN MarkDirty(ins.c, k)
                                         ELSE ins.c, Tail(s)) :
                   ins \in InsertItem(c1, k, Head(s).rec, FALSE, FALSE)}

(* The second loop of scoutfs_item_restore(), each saved item in list     *)
(* order: any cached non-deletion item at its key is erased, the saved    *)
(* item is inserted clean (replacing a deletion item, whose persistence   *)
(* it takes), and marked dirty again if it was dirty; the set of outcomes. *)
RECURSIVE RestoreItems(_, _)
RestoreItems(c, s) ==
    IF s = <<>> THEN {c}
    ELSE LET k == Head(s).key
             c1 == IF Found(c, k) THEN EraseItem(c, k) ELSE c
         IN UNION {RestoreItems(IF Head(s).rec.dirty THEN MarkDirty(ins.c, k) ELSE ins.c,
                                Tail(s)) :
                   ins \in InsertItem(c1, k, [Head(s).rec EXCEPT !.dirty = FALSE],
                                      FALSE, FALSE)}

(* scoutfs_item_restore(): an empty list returns 0; a saved key that no   *)
(* cached range covers fails the whole call with -EINVAL (WARN_ON_ONCE),  *)
(* leaving the list with the caller.                                       *)
Restore(t) ==
    LET r == Req("restore", NONE, 0) IN
    /\ "restore" \in Ops /\ ~shrinking /\ Unlocked /\ pc[t] = "idle"
    /\ IF saved[t] = <<>> THEN Finish(t, r, Cache, Res("OK", 0))
       ELSE IF \E i \in DOMAIN saved[t] : ~IsCovered(saved[t][i].key)
       THEN Finish(t, r, Cache, Res("EINVAL", 0))
       ELSE /\ \E c2 \in RestoreItems(Cache, saved[t]) : Complete(t, r, c2, Res("OK", 0))
            /\ saved' = [saved EXCEPT ![t] = <<>>]

-----------------------------------------------------------------------------
(***************************************************************************)
(* The segment reader.  scoutfs_manifest_read_items(key, lock) reads the  *)
(* items of some range [s, e] around the key inside the lock's range (the *)
(* lock covers every key here) and hands them to insert_batch; it may     *)
(* also fail, and the call returns its error.                              *)
(***************************************************************************)
Snapshot(s, e) == [k \in {j \in s .. e : seg[j] # NONE} |-> seg[k]]

ReadRanges(k) == {r \in Intervals : k \in KeysOf(r)}

RECURSIVE BatchItems(_, _, _)
BatchItems(c, keys, batch) ==
    IF keys = <<>> THEN c
    ELSE BatchItems((CHOOSE ins \in InsertItem(c, Head(keys),
                                  NewItem(batch[Head(keys)], TRUE), FALSE, TRUE)
                        : TRUE).c,
                    Tail(keys), batch)

(* scoutfs_item_insert_batch(): the range first, then each read item as a *)
(* persistent clean item unless any item is cached at its key (dropped).  *)
InsertBatch(rng, batch) ==
    /\ ranges' = InsertRange(ranges, rng)
    /\ SetCache(BatchItems(Cache, SetToSortSeq(DOMAIN batch, <), batch))

FillRead(t) ==
    /\ ~AtomicFill /\ pc[t] = "read"
    /\ \E r \in ReadRanges(req[t].pos) :
          fill' = [fill EXCEPT ![t] = [rng |-> r, batch |-> Snapshot(r.start, r.end)]]
    /\ pc' = [pc EXCEPT ![t] = "insert"]
    /\ UNCHANGED <<items, ranges, lru, lru_nr, nr_dirty_items, dirty_val_bytes,
                   seg, req, ret, shrink, saved, revoke>>

FillInsert(t) ==
    /\ ~AtomicFill /\ pc[t] = "insert" /\ ~shrinking
    /\ InsertBatch(fill[t].rng, fill[t].batch)
    /\ pc' = [pc EXCEPT ![t] = "retry"]
    /\ fill' = [fill EXCEPT ![t] = NoFill]
    /\ UNCHANGED <<seg, req, ret, shrink, saved, revoke>>

Fill(t) ==
    /\ AtomicFill /\ pc[t] = "read" /\ ~shrinking
    /\ \E r \in ReadRanges(req[t].pos) : InsertBatch(r, Snapshot(r.start, r.end))
    /\ pc' = [pc EXCEPT ![t] = "retry"]
    /\ UNCHANGED <<seg, req, fill, ret, shrink, saved, revoke>>

ReadFail(t) ==
    /\ pc[t] = "read"
    /\ Finish(t, req[t], Cache, Res("EIO", 0))

-----------------------------------------------------------------------------
(***************************************************************************)
(* scoutfs_item_dirty_seg(), run by the transaction commit: every dirty    *)
(* item in key order is appended to the segment, made clean and           *)
(* persistent, and a deletion item is then erased.  The segment contents  *)
(* `seg` take the written items.                                           *)
(***************************************************************************)
\* Variant: dirty_seg() not marking the written items persistent.
RECURSIVE FlushItemsNoPersist(_, _)
FlushItemsNoPersist(c, keys) ==
    IF keys = <<>> THEN c
    ELSE LET k == Head(keys)
             c1 == ClearDirty(c, k)
         IN FlushItemsNoPersist(IF c1.items[k].deletion THEN EraseItem(c1, k) ELSE c1,
                                Tail(keys))

RECURSIVE FlushItems(_, _)
FlushItems(c, keys) ==
    IF keys = <<>> THEN c
    ELSE LET k == Head(keys)
             c1 == [ClearDirty(c, k) EXCEPT !.items[k].persistent = TRUE]
         IN FlushItems(IF c1.items[k].deletion THEN EraseItem(c1, k) ELSE c1,
                       Tail(keys))

\* Variant: dirty_seg() writing a deletion item as an empty value.
DirtySegNoDeletion ==
    LET D == DirtyKeys(Cache) IN
    /\ seg' = [k \in Keys |-> IF k \notin D THEN seg[k] ELSE items[k].val]
    /\ SetCache(FlushItems(Cache, SetToSortSeq(D, <)))

DirtySeg ==
    LET D == DirtyKeys(Cache) IN
    /\ seg' = [k \in Keys |-> IF k \notin D THEN seg[k]
                              ELSE IF items[k].deletion THEN NONE
                              ELSE items[k].val]
    /\ SetCache(FlushItems(Cache, SetToSortSeq(D, <)))

(* A transaction commit: the transaction writes its dirty items, and a   *)
(* revoke requested by writeback waits for it.                              *)
Commit ==
    /\ "commit" \in Ops /\ ~shrinking /\ ~Saving
    /\ nr_dirty_items # 0 \/ revoke.phase = "sync"
    /\ DirtySeg
    /\ revoke' = IF revoke.phase # "sync" THEN revoke ELSE AfterSync(revoke)
    /\ UNCHANGED <<ranges, pc, req, fill, ret, shrink, saved>>

(***************************************************************************)
(* The lock layer (outside src/) gives up a cluster lock over a range:    *)
(* once no caller holds it (no call in progress, no delete_save list), it *)
(* calls writeback over the range, waits for the sync it may start, and,  *)
(* when the lock is revoked rather than downgraded, invalidates the       *)
(* range.  No item call runs while it does so.                            *)
(***************************************************************************)
LockRelease(s, e, inval) ==
    /\ "writeback" \in Ops /\ (inval => "invalidate" \in Ops)
    /\ Unlocked /\ ~shrinking /\ ~Saving /\ \A t \in Threads : pc[t] = "idle"
    /\ revoke' = [phase |-> "writeback", rng |-> Rng(s, e), inval |-> inval]
    /\ UNCHANGED <<items, ranges, lru, lru_nr, nr_dirty_items, dirty_val_bytes,
                   seg, pc, req, fill, ret, shrink, saved>>

\* Variant: writeback() not looking at a dirty item at the range's end.
DirtyWithinShort(c, s, e) == \E k \in DirtyKeys(c) : s <= k /\ k < e

(* dirty_item_within(): a dirty item with a key in [s, e] (DirtyTree      *)
(* checks the augmented-tree search that finds it).                       *)
DirtyWithin(c, s, e) == \E k \in DirtyKeys(c) : s <= k /\ k <= e

(* scoutfs_item_writeback(s, e): under the lock, look for a dirty item in *)
(* [s, e]; if there is one, drop the lock and scoutfs_trans_sync(), which *)
(* waits for the next commit to write every dirty item.                   *)
Writeback ==
    /\ revoke.phase = "writeback" /\ ~shrinking
    /\ revoke' = IF nr_dirty_items # 0 /\ DirtyWithin(Cache, revoke.rng.start, revoke.rng.end)
                 THEN [revoke EXCEPT !.phase = "sync"]
                 ELSE AfterSync(revoke)
    /\ UNCHANGED <<items, ranges, lru, lru_nr, nr_dirty_items, dirty_val_bytes,
                   seg, pc, req, fill, ret, shrink, saved>>

\* Variant: invalidate erasing the items but leaving the range cached.
InvalidateKeepRange(s, e) ==
    /\ revoke.phase = "invalidate" /\ ~shrinking
    /\ SetCache(EraseItems(Cache, {k \in DOMAIN items : s <= k /\ k <= e}))
    /\ revoke' = NoRevoke
    /\ UNCHANGED <<ranges, seg, pc, req, fill, ret, shrink, saved>>

(* scoutfs_item_invalidate(s, e): erase every item in [s, e], dirty or    *)
(* not (a dirty one only WARNs), and remove the range.                    *)
Invalidate(s, e) ==
    /\ revoke.phase = "invalidate" /\ ~shrinking
    /\ SetCache(EraseItems(Cache, {k \in DOMAIN items : s <= k /\ k <= e}))
    /\ ranges' = RemoveRange(ranges, Rng(s, e))
    /\ revoke' = NoRevoke
    /\ UNCHANGED <<seg, pc, req, fill, ret, shrink, saved>>

-----------------------------------------------------------------------------
(***************************************************************************)
(* The shrinker.                                                           *)
(***************************************************************************)
Neighbour(c, k, right) ==
    LET S == {j \in DOMAIN c.items : IF right THEN j > k ELSE j < k}
    IN IF S = {} THEN NONE ELSE IF right THEN Min(S) ELSE Max(S)

(***************************************************************************)
(* shrink_boundary(): walk from item k towards `bound` (the range's end,  *)
(* or its start when walking left).  found is the last item that may be   *)
(* shrunk; next the item beyond it that remains in the range, NONE when   *)
(* the walk reached the range's edge.  The walk stops at a dirty          *)
(* neighbour, after BoundaryMin items once a boundary is found, and after *)
(* BoundaryMax items.  (Its test that key_inc(item) does not cross the    *)
(* neighbour always holds for keys with key_inc = +1, so every item is a  *)
(* usable boundary; ShrinkKeys checks the test over prefix keys.)          *)
(***************************************************************************)
RECURSIVE ShrinkBoundary(_, _, _, _, _)
ShrinkBoundary(c, k, i, bound, right) ==
    LET nxt == Neighbour(c, k, right) IN
    IF nxt = NONE \/ (IF right THEN nxt > bound ELSE nxt < bound)
    THEN [found |-> k, next |-> NONE]
    ELSE IF i >= BoundaryMin \/ c.items[nxt].dirty \/ i + 1 >= BoundaryMax
    THEN [found |-> k, next |-> nxt]
    ELSE ShrinkBoundary(c, nxt, i + 1, bound, right)

(* The two shrink_boundary() walks of shrink_around() from item k.      *)
ShrinkWalk(c, rng, k) ==
    LET L == ShrinkBoundary(c, k, 0, rng.start, FALSE)
        G == ShrinkBoundary(c, k, 0, rng.end, TRUE)
    IN [first |-> L.found, prev |-> L.next, last |-> G.found, next |-> G.next]

(* shrink_around()'s "can't split" return of 0: items remain on both     *)
(* sides and only k itself could go, leaving no spare item to turn into  *)
(* the second range.                                                      *)
CantSplit(w) == w.prev # NONE /\ w.next # NONE /\ w.first = w.last

\* Variant: shrink_around() ending the remaining range at first, not before it.
ShrinkAroundNoDec(c, R, rng, w) ==
    LET gone == {j \in DOMAIN c.items : w.first <= j /\ j <= w.last}
        R1 == R \ {rng}
        left == Rng(rng.start, w.first)
        right == Rng(KeyInc(w.last), rng.end)
    IN [nr |-> Cardinality(gone),
        c |-> EraseItems(c, gone),
        ranges |-> CASE w.prev # NONE /\ w.next # NONE ->
                          InsertRange(R1 \cup {left}, right)
                     [] w.prev # NONE -> R1 \cup {left}
                     [] w.next # NONE -> R1 \cup {right}
                     [] OTHER -> R1]

(***************************************************************************)
(* The rest of shrink_around(rng, w): erase the items [first, last] and   *)
(* cut them out of rng: shorten it on the side where items remain, split  *)
(* it (the right half goes through insert_range) when both sides remain,  *)
(* or erase it when neither does.  nr counts the erased items.            *)
(***************************************************************************)
ShrinkAround(c, R, rng, w) ==
    LET gone == {j \in DOMAIN c.items : w.first <= j /\ j <= w.last}
        R1 == R \ {rng}
        left == Rng(rng.start, KeyDec(w.first))
        right == Rng(KeyInc(w.last), rng.end)
    IN [nr |-> Cardinality(gone),
        c |-> EraseItems(c, gone),
        ranges |-> CASE w.prev # NONE /\ w.next # NONE ->
                          InsertRange(R1 \cup {left}, right)
                     [] w.prev # NONE -> R1 \cup {left}
                     [] w.next # NONE -> R1 \cup {right}
                     [] OTHER -> R1]

ShrinkStart(n) ==
    /\ ~shrinking
    /\ shrink' = [phase |-> "scan", nr |-> n, first_moved |-> NONE]
    /\ UNCHANGED <<items, ranges, lru, lru_nr, nr_dirty_items, dirty_val_bytes,
                   seg, pc, req, fill, ret, saved, revoke>>

(***************************************************************************)
(* One iteration of item_lru_shrink()'s loop on the lru head, one action  *)
(* per case: an item in no range is simply erased; otherwise               *)
(* shrink_around() it.  An item that could not be shrunk goes to the lru  *)
(* tail, and the loop breaks when the first such item comes round again.  *)
(***************************************************************************)
ShrinkHead == shrink.phase = "scan" /\ shrink.nr # 0 /\ lru # <<>>

HeadRange == CHOOSE r \in RangeOf(ranges, Head(lru)) : TRUE

HeadWalk == ShrinkWalk(Cache, HeadRange, Head(lru))

ShrinkUncovered ==
    /\ ShrinkHead /\ RangeOf(ranges, Head(lru)) = {}
    /\ SetCache(EraseItem(Cache, Head(lru)))
    /\ shrink' = [shrink EXCEPT !.nr = @ - 1]
    /\ UNCHANGED <<ranges, seg, pc, req, fill, ret, saved, revoke>>

ShrinkBreak ==
    /\ ShrinkHead /\ RangeOf(ranges, Head(lru)) # {}
    /\ CantSplit(HeadWalk) /\ shrink.first_moved = Head(lru)
    /\ shrink' = [shrink EXCEPT !.phase = "end"]
    /\ UNCHANGED <<items, ranges, lru, lru_nr, nr_dirty_items, dirty_val_bytes,
                   seg, pc, req, fill, ret, saved, revoke>>

\* Variants of the rotation: list_del_init() for list_move_tail(), and no
\* first_moved recorded.
ShrinkRotateDrop ==
    /\ ShrinkHead /\ RangeOf(ranges, Head(lru)) # {}
    /\ CantSplit(HeadWalk) /\ shrink.first_moved # Head(lru)
    /\ shrink' = [shrink EXCEPT !.first_moved = IF @ = NONE THEN Head(lru) ELSE @]
    /\ lru' = Tail(lru)
    /\ UNCHANGED <<items, ranges, lru_nr, nr_dirty_items, dirty_val_bytes,
                   seg, pc, req, fill, ret, saved, revoke>>

ShrinkRotateNoFirst ==
    /\ ShrinkHead /\ RangeOf(ranges, Head(lru)) # {}
    /\ CantSplit(HeadWalk) /\ shrink.first_moved # Head(lru)
    /\ lru' = Append(Tail(lru), Head(lru))
    /\ UNCHANGED <<items, ranges, lru_nr, nr_dirty_items, dirty_val_bytes,
                   seg, pc, req, fill, ret, shrink, saved, revoke>>

ShrinkRotate ==
    /\ ShrinkHead /\ RangeOf(ranges, Head(lru)) # {}
    /\ CantSplit(HeadWalk) /\ shrink.first_moved # Head(lru)
    /\ shrink' = [shrink EXCEPT !.first_moved = IF @ = NONE THEN Head(lru) ELSE @]
    /\ lru' = Append(Tail(lru), Head(lru))
    /\ UNCHANGED <<items, ranges, lru_nr, nr_dirty_items, dirty_val_bytes,
                   seg, pc, req, fill, ret, saved, revoke>>

ShrinkShrunk ==
    /\ ShrinkHead /\ RangeOf(ranges, Head(lru)) # {}
    /\ ~CantSplit(HeadWalk)
    /\ \E sa \in {ShrinkAround(Cache, ranges, HeadRange, HeadWalk)} :
          /\ SetCache(sa.c)
          /\ ranges' = sa.ranges
          /\ shrink' = [shrink EXCEPT !.nr = @ - Min({@, sa.nr})]
    /\ UNCHANGED <<seg, pc, req, fill, ret, saved, revoke>>

ShrinkScan == ShrinkUncovered \/ ShrinkBreak \/ ShrinkRotate \/ ShrinkShrunk

(* After the loop: with no items left every range is erased; the lock is  *)
(* dropped and lru_nr returned.                                           *)
ShrinkEnd ==
    /\ \/ shrink.phase = "end"
       \/ shrink.phase = "scan" /\ (shrink.nr = 0 \/ lru = <<>>)
    /\ ranges' = IF DOMAIN items = {} THEN {} ELSE ranges
    /\ shrink' = [phase |-> "off", nr |-> 0, first_moved |-> NONE]
    /\ UNCHANGED <<items, lru, lru_nr, nr_dirty_items, dirty_val_bytes,
                   seg, pc, req, fill, ret, saved, revoke>>

-----------------------------------------------------------------------------
(* scoutfs_item_setup(): an empty cache over whatever the segments hold. *)
Init ==
    /\ items = <<>>
    /\ ranges = {}
    /\ lru = <<>>
    /\ lru_nr = 0
    /\ nr_dirty_items = 0
    /\ dirty_val_bytes = 0
    /\ seg \in SegInit
    /\ pc = [t \in Threads |-> "idle"]
    /\ req = [t \in Threads |-> NoReq]
    /\ fill = [t \in Threads |-> NoFill]
    /\ ret = [t \in Threads |-> [call |-> NoCall, res |-> Res("none", 0)]]
    /\ saved = [t \in Threads |-> <<>>]
    /\ shrink = [phase |-> "off", nr |-> 0, first_moved |-> NONE]
    /\ revoke = NoRevoke

Next ==
    \/ \E t \in Threads :
          \/ \E k \in Keys :
                \/ Lookup(t, k) \/ Dirty(t, k) \/ Delete(t, k)
                \/ DeleteForce(t, k) \/ DeleteDirty(t, k) \/ DeleteSave(t, k)
                \/ \E j \in Keys : NextItem(t, k, j) \/ PrevItem(t, k, j)
                \/ \E v \in Vals : \/ Create(t, k, v) \/ CreateForce(t, k, v)
                                   \/ Update(t, k, v) \/ UpdateDirty(t, k, v)
          \/ Restore(t)
          \/ FillRead(t) \/ FillInsert(t) \/ Fill(t) \/ ReadFail(t)
    \/ Commit
    \/ \E r \in Intervals, inval \in BOOLEAN : LockRelease(r.start, r.end, inval)
    \/ Writeback
    \/ Invalidate(revoke.rng.start, revoke.rng.end)
    \/ \E n \in NrToScan : ShrinkStart(n)
    \/ ShrinkScan
    \/ ShrinkEnd

(* The shrinker runs with the spinlock held and interrupts off: once it   *)
(* has started, its loop keeps taking steps.                               *)
Spec == Init /\ [][Next]_vars /\ WF_vars(ShrinkScan \/ ShrinkEnd)

-----------------------------------------------------------------------------
TypeOK ==
    /\ DOMAIN items \subseteq Keys
    /\ \A k \in DOMAIN items : items[k] \in ItemRec
    /\ ranges \subseteq Intervals
    /\ lru \in Seq(Keys)
    /\ lru_nr \in Nat /\ nr_dirty_items \in Nat /\ dirty_val_bytes \in Nat
    /\ seg \in [Keys -> Vals \cup {NONE}]
    /\ pc \in [Threads -> {"idle", "read", "insert", "retry"}]
    /\ shrink.phase \in {"off", "scan", "end"}
    /\ revoke \in [phase : {"none", "writeback", "sync", "invalidate"},
                   rng : Intervals, inval : BOOLEAN]
    /\ saved \in [Threads -> Seq([key : Keys, rec : ItemRec])]

(* The dirty totals handed to the transaction (dirty_fits_single,          *)
(* has_dirty) are exactly the count and value bytes of the dirty items,   *)
(* whatever sequence of clears, marks, value swaps, deletions, overwrites *)
(* and flushes produced them.                                             *)
DirtyAccounting ==
    /\ nr_dirty_items = Cardinality(DirtyKeys(Cache))
    /\ dirty_val_bytes = MapThenSumSet(LAMBDA k : ValLen(items[k].val),
                                       DirtyKeys(Cache))

(* The lru holds every clean item exactly once and no dirty item (the     *)
(* shrinker BUG()s on a dirty head), and lru_nr, which the shrinker       *)
(* reports to the VM, is its length.                                       *)
LruTracksClean ==
    /\ IsInjective(lru)
    /\ ToSet(lru) = DOMAIN items \ DirtyKeys(Cache)
    /\ lru_nr = Len(lru)

(***************************************************************************)
(* The cache agrees with the segments: a clean item holds what the        *)
(* segments hold; only persistent items become deletion items, and those *)
(* stay dirty until written; an item not known to be persistent is absent *)
(* from the segments; and a key covered by a range with no cached item is *)
(* absent from the segments (a negative lookup there is correct).          *)
(***************************************************************************)
CacheCoherent ==
    /\ \A k \in DOMAIN items :
          /\ ~items[k].dirty => items[k].persistent /\ items[k].val = seg[k]
          /\ items[k].deletion => items[k].persistent /\ items[k].dirty
          /\ ~items[k].persistent => seg[k] = NONE
    /\ \A k \in Covered(ranges) \ DOMAIN items : seg[k] = NONE

(* What a caller sees: the cached item if there is one, else the segments. *)
LogicalKV ==
    [k \in Keys |-> IF k \in DOMAIN items
                    THEN IF items[k].deletion THEN NONE ELSE items[k].val
                    ELSE seg[k]]

\* The caller's saved list as key/value pairs.
SavedPairs == [t \in Threads |-> [i \in DOMAIN saved[t] |->
                                     <<saved[t][i].key, saved[t][i].rec.val>>]]

Store == INSTANCE ItemStore WITH kv <- LogicalKV, ret <- ret, saved <- SavedPairs

(* The item API behaves as one atomic key-value map: every call returns   *)
(* what ItemStore returns and changes the map as it does; fills, commits, *)
(* invalidation and shrinking never change what a caller can observe.    *)
ImplementsItemStore == Store!Spec

(* item_lru_shrink() returns: its loop cannot spin forever with the       *)
(* spinlock held, even when no lru item can be shrunk.                     *)
ShrinkTerminates == shrinking ~> ~shrinking

=============================================================================
