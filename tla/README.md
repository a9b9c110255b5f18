# TLA+ model of the scoutfs item cache

This directory holds TLA+ models of `src/src/item.c`, the scoutfs item cache. It also holds the TLC configurations that check those models. `PROJECT.json` lists the components, the runs, the mutants, the map from definitions to source lines, the findings and the hazards.

## The system

The item cache keeps a file system's key/value items in memory. Each item sits in front of the persistent segments. Its parts interact through one spinlock, `cac->lock`:

- **Items** (`struct cached_item`, `insert_item`, `delete_item`, `erase_item`): an rbtree keyed by item key. Each item carries a value, a dirty bit, a `deletion` bit (a tombstone that must be written) and a `persistent` bit (a version may exist in the segments). Clean items sit on an LRU list counted by `lru_nr`. Dirty items are counted by `nr_dirty_items` and `dirty_val_bytes`.
- **Cached ranges** (`insert_range`, `remove_range`, `check_range`): a second rbtree of disjoint key ranges. Inside these ranges the cache is authoritative. A key that is covered but has no item is known to be absent.
- **Point API** (`scoutfs_item_lookup`, `create`, `create_force`, `update`, `dirty`, `delete`, `delete_force`, `delete_dirty`, `update_dirty`): each call takes the lock. If the key is neither cached nor covered, the call drops the lock and calls the segment reader `scoutfs_manifest_read_items`. That reader is outside `src/`. The call then retries.
- **Fill** (`scoutfs_item_insert_batch`): the reader hands back a range and the items it read. insert_batch adds the range and populates the items that are not already cached.
- **Flush** (`scoutfs_item_dirty_seg`, `scoutfs_item_writeback`): the transaction writes the dirty items. Written items become clean and persistent, and written deletion items are erased. Writeback checks under the lock whether a range holds dirty items, then syncs the transaction after dropping the lock.
- **Invalidate** (`scoutfs_item_invalidate`): when the cluster lock is lost, invalidate erases every item in a range and the range's coverage. A dirty item is erased too, with only a WARN. The lock layer (outside `src/`) therefore calls writeback over the range first and waits for the sync it starts.
- **Iteration** (`scoutfs_item_next`, `scoutfs_item_prev`): scans the cached ranges from a key toward a limit. At an uncovered position the call drops the lock, reads through, and retries.
- **Save and restore** (`scoutfs_item_delete_save`, `scoutfs_item_restore`): delete_save unlinks an item onto the caller's list. restore links the listed items back.
- **Dirty subtree bits** (`update_dirty_parents`, the augmented callbacks, `first_dirty`, `next_dirty`): each item's dirty word also says whether its left or right subtree holds a dirty item. dirty_seg walks only the subtrees the bits mark.
- **Read-only queries** (`range_cached`, `copy_keys`, `copy_range_keys`, `has_dirty`, `dirty_fits_single`): answer from the ranges, the item tree or the counters under the lock, and change nothing.
- **Shrinker** (`item_lru_shrink`, `shrink_around`, `shrink_boundary`): walks the LRU head under the lock. For each item it erases a run of clean neighbours and shortens or splits the covering range so that the erased keys are no longer covered. It rotates items it cannot shrink, and stops at the first rotated item it meets again.

## Modules

| module | models |
|---|---|
| `Ranges` | The range operators: `InsertRange` (insert_range's merge-and-restart descent, RECURSIVE), `RemoveRange` (remove_range's split, trim and erase cases), `Covered`, `CompareRanges`, and the queries `RangeCached` and `CopyRangeKeys` with walk_ranges' next range. |
| `RangeStore` | A harness that applies arbitrary insertions and removals to a range set. It checks them against set union and set difference, and checks the two range queries against what the set covers. |
| `ItemStore` | The abstract specification: one atomic key-to-value map with the API's results (`ENOENT`, `EEXIST`, `EIO` ...). |
| `ItemCache` | The cache: items, ranges, lru, counters, per-thread read-through state, the shrinker's loop state, and the lock layer's revoke in progress. It refines `ItemStore`. |
| `DirtyTree` | The dirty words on an explicit binary search tree: insert_item's descent marking, `rb_erase_augmented`'s three splice cases with the copy and propagate callbacks, `first_dirty`, `next_dirty`, the dirty_seg loop, delete_save and restore. It also holds the tree searches `next_item` (walk_items), `dirty_item_within` (writeback and range_cached) and the `rb_next` walk of `copy_keys`. |
| `ShrinkKeys` | `shrink_boundary` and the range cut of `shrink_around` over byte-string keys, with `key_inc`/`key_dec` working in place on a key's own length. There an item key that is a prefix of the next item's key increments past it. The key comparison and arithmetic are outside `src/` and follow the spec. `MCRangeStore` instantiates it. |
| `MCRangeStore`, `MCItemCache`, `MCDirtyTree` | Constants for TLC: key sets, value sets, initial segment contents, symmetry. |

### Correspondence of DirtyTree to the code

`tree` holds the root, the linked items, the child and parent links, each item's dirty word `w` (`ITEM`, `LEFT`, `RIGHT`), its persistence, and its deletion flag. `saved` is the delete_save list. The tree is unbalanced: the red-black rotations are left out. Their augmented rotate callback only recomputes the two rotated words from their children, so it changes no word that the model's erase and insert leave wrong. Keys are inserted in every order, so every splice case and every descent is reached. Each action is one locked call: `Populate`/`Create`/`Dirty`/`Delete` (insert_item and mark_item_dirty), `Evict` (erase of a clean item), `DeleteSave`, `Restore`, and `DirtySeg` (the whole first_dirty/next_dirty loop, with the clearing and erasing it does).

### Correspondence of ItemCache to the code

- **State.**
  - `items` is a function from keys to records `[val, dirty, deletion, persistent]`.
  - `ranges` is a set of intervals.
  - `lru` is a sequence, head first.
  - `lru_nr`, `nr_dirty_items` and `dirty_val_bytes` are the cache's counters.
  - `seg` is what the segments hold.
  - `saved` is each caller's delete_save list.
  - The rbtree shape is abstracted here; `DirtyTree` models it. The dirty-subtree bits appear only in `item_referenced`, which tests the whole dirty word, so whether a clean item is moved to the lru tail is a free choice.
- **Locked steps.** Each locked section is one step. The helpers (`NewItem`, `MarkDirty`, `ClearDirty`, `EraseItems`, `LinkItem`, `InsertItem`, `DeleteItem`) take and return a record of the cache fields, so a call's helper sequence composes in the code's order.
- **Read-through calls.** A call that misses sets `pc[t]` to `"read"`. `FillRead` reads `seg` over a range around the key (the reader, modelled from the spec). `FillInsert` is `insert_batch`. The call then retries. `ReadFail` is the reader returning an error. With `AtomicFill = TRUE`, read and insert are one step (`Fill`).
- **Commit, and the lock layer's writeback and invalidate.**
  - `Commit` is the transaction write. It runs `dirty_seg`, copies the dirty items into `seg`, and completes a pending sync.
  - `revoke` is the lock layer giving up a cluster lock over a range. This part is modelled from the spec, because the lock layer is outside `src/`.
  - `LockRelease` starts a revoke once no call holds the lock: every thread is idle and no delete_save list is held. While a revoke runs, no item call runs.
  - `Writeback` is `scoutfs_item_writeback`'s check under the lock (`DirtyWithin`, dirty_item_within). If it finds a dirty item, the revoke waits in phase `"sync"` for the next commit.
  - `Invalidate` then runs the code's loop: it erases every item in the range, dirty or not, and removes the range. A downgrade (`inval = FALSE`) stops after the sync.
- **Iteration.** `NextScan`/`PrevScan` are one locked pass over the ranges. The pass returns an item, or -ENOENT, or sets `pc[t]` to `"read"` at the uncovered position, like a point call.
- **Save and restore.** `DeleteSave` and `Restore` model the whole calls. Restore checks every saved key with check_range first, then links the items back, dirty again.
- **Callers.** The constant `Ops` names the calls and environment steps a run enables, commit, writeback and invalidate included. With `SaveMax > 0` a non-empty saved list blocks `Commit` and the start of a revoke. That is how the model states restore's contract: the caller holds the transaction and its locks between save and restore. The shrinker is not blocked, because it takes no locks. `RecordCalls` makes `ret` record the call too. This lets the refinement check identify iteration and save calls, at the cost of more states.
- **Shrinker.** `ShrinkStart`, one `ShrinkScan` step per loop iteration (`ShrinkUncovered`, `ShrinkBreak`, `ShrinkRotate`, `ShrinkShrunk`), and `ShrinkEnd` (drop empty ranges, return the count). While the shrinker runs, no other locked step is enabled.
- **Use after free at item.c:518-520.** `insert_item` reads `item->persistent` after `erase_item` has freed the item. The read is undefined. The constant `FreedItemReads` gives the outcomes the build can produce: `"kept"` (the freed memory still holds the bit) and `"cleared"` (init_on_free zeroing).

## Runs

| run | cfg | checks | bounds |
|---|---|---|---|
| range_store | RangeStore.cfg | TypeOK, RangesDisjoint, RangeCachedExact, CopyRangeKeysComplete, ShrinkCutExact, InsertExact, RemoveSound | keys 0..4, every interval inserted or removed, 1 to 4 copy slots; for ShrinkCutExact, keys of 1 or 2 bytes 0..2, up to 4 items, boundary limits 1/3 |
| range_remove_exact | RangeStoreExact.cfg | RemoveExact (violation) | as above |
| item_coherent | ItemCacheCoherent.cfg | TypeOK, DirtyAccounting, LruTracksClean, CacheCoherent, ImplementsItemStore | 2 keys, values {1,2}, all point calls, commit, lock release with writeback and invalidate, shrinker nr 1 |
| item_interleave | ItemCacheInterleave.cfg | CacheCoherent, ImplementsItemStore | 2 threads (symmetric), lookup/next/create/delete, lock release |
| item_shrink | ItemCacheShrink.cfg | CacheCoherent, LruTracksClean | 4 keys, all in the segments, shrinker nr 1 or 2, split fills |
| shrink_terminates | ItemCacheShrinkEnds.cfg | ShrinkTerminates | 3 keys, shrinker nr 1 or 3 |
| fill_race | ItemCacheFillRace.cfg | CacheCoherent (violation) | lookup/delete, split fills |
| freed_read | ItemCacheFreedRead.cfg | ImplementsItemStore (violation) | create/delete, freed read may be cleared |
| item_iterate_save | ItemCacheIterSave.cfg | DirtyAccounting, LruTracksClean, CacheCoherent, ImplementsItemStore | 2 keys, next/prev, delete_save (list of up to 2), restore, writes, commit, writeback |
| restore_shrunk | ItemCacheRestoreShrunk.cfg | ImplementsItemStore (violation) | delete_save/restore with the shrinker between |
| tree_bits | DirtyTree.cfg | BitsComplete, ExactBitsWriteAll, ExactBitsFindWithin, CopyKeysInOrder | 4 keys, every tree call, save list of 1 |
| tree_restore | DirtyTreeRestore.cfg | DirtySegWritesAll (violation) | as above |

What the properties say:

- **RangesDisjoint, InsertExact, RemoveSound.** Ranges never overlap. An insertion covers exactly the union. A removal never leaves a removed key covered. Five keys let an insertion span two ranges and a removal split one range with keys on both sides.
- **RangeCachedExact, CopyRangeKeysComplete.** `range_cached(s, e)` is true exactly when some key of [s, e] is covered. The start/end pairs from `copy_range_keys(k, nr)` are cached ranges that leave no gap from k up to the last copied end. If fewer ranges than slots came back, they leave no gap above k at all. An odd `nr` and `nr = 1` are included.
- **DirtyAccounting, LruTracksClean.** The counters equal the dirty items. The lru holds each clean item once, and `lru_nr` is its length.
- **CacheCoherent.**
  - A clean item equals the segments.
  - A deletion item is persistent and dirty.
  - A non-persistent item is absent from the segments.
  - A covered key with no item is absent from the segments.
- **ImplementsItemStore.** Through `LogicalKV` (the cached item if there is one, else the segments), every ItemCache step is an `ItemStore` step or a stutter. Fills, commits, invalidation and shrinking never change what a caller observes.
- **ShrinkTerminates.** The shrink loop always returns.
- **ShrinkCutExact.** This is checked over every sorted tree of up to four byte-string items, every range of such keys, every start item and every set of dirty neighbours. After `shrink_around`, every remaining item of the range is still covered and no freed item is. Keys such as `<<1>> < <<1, 0>> < <<2>>` make the in-place `key_inc` of `<<1>>` skip `<<1, 0>>`, so the crossing test at item.c:2161 is what keeps the range honest. Without the test the property fails. The property does not depend on the range store's state, so it is evaluated once, in the initial state.
- **ImplementsItemStore with the lock layer.** Invalidate erases dirty items, so the refinement check also shows the lock layer's order is enough: an update is never lost. This holds only if writeback's search finds every dirty item in the range. A writeback that misses the range's last key is caught.
- **BitsComplete.** Every subtree that holds a dirty item is marked in its parent's word. A missing bit hides dirty items from dirty_seg. The property covers propagate's early stop during erase.
- **ExactBitsWriteAll.** Whenever the bits mark exactly the dirty subtrees, the first_dirty/next_dirty walk writes every dirty item. This is the walk's correctness on its own; tree_restore shows a reachable state where the bits are not exact.
- **ExactBitsFindWithin.** Whenever the bits are exact, `dirty_item_within(s, e)` reports a dirty item exactly when one lies in [s, e]. Writeback decides its sync, and so whether invalidate may lose an update, from this answer.
- **CopyKeysInOrder.** `copy_keys(k, nr)` returns the first nr non-deletion keys from k, in order. This checks that the `rb_next` walk over the tree left by inserts and by erase's splice cases skips and repeats no item.

Why the bounds are enough:

- Four tree keys are the fewest that reach erase case 3 (the successor is deeper than the right child) with a child to move up. They also give next_dirty a climb of two parents.
- Two keys give a fill range that covers a neighbour, a commit of one key during a read of two, and create over delete.
- Four keys are the fewest that let `shrink_around` split a range, keeping items on both sides of the erased run.
- `BoundaryMin`/`BoundaryMax` are scaled from 32/300 to 1/2 so that both limits of `shrink_boundary` are reached.
- Values of two lengths make value swaps visible in `dirty_val_bytes`.
- In the interleaving run, `next` stands for both iterators (prev is its mirror and runs in item_iterate_save), and update's miss path is lookup's. Keeping the run within TLC's time needed both cuts.
- With one value, the interleaving run still distinguishes present from absent, which is what the races change.

## Fairness

- **Weak fairness of the shrinker's loop steps.** `item_lru_shrink` runs with the spinlock held and interrupts off, so once it has started nothing else runs until it returns.
- **No fairness for API callers, fills, commits or the lock layer.** The code makes no promise that a caller proceeds. A revoke's progress is not checked: each of its phases has a single step, and assuming that step fair would make its completion follow from the assumption alone.

## Findings

1. **range_remove_exact.** `remove_range` erases a whole range when the removal shares one endpoint with it and ends inside it (item.c:775). Spec §4.2 says only the overlap is removed. On its own this loses only cache coverage. It also breaks restore: an invalidation that shares an end with a wider cached range leaves a cached item outside every range. delete_save still removes that item, and restore's check_range (item.c:1711) then returns -EINVAL, so the saved item is lost.
2. **fill_race.** The sequence is: a reader reads the segments; a commit writes a deletion item and erases it; `insert_batch` then repopulates the old value (item.c:1391). The deleted item reappears, against the comment on insert_batch that newer items win.
3. **freed_read.** When the freed item reads as zero at item.c:519, a create over a deletion item is not persistent. A later delete writes no deletion item, and the old segment item comes back.
4. **restore_shrunk.** restore's comment says the caller's locks keep the cached ranges between save and restore. The shrinker takes no locks and frees every range left without items (item.c:2349). After delete_save of a non-persistent item, the shrinker frees the range, restore returns -EINVAL (item.c:1707), and the item is never put back.
5. **tree_restore.** restore clears only `ITEM_DIRTY` of a saved item (item.c:1720), so the item keeps the LEFT/RIGHT bits it had when delete_save unlinked it. It is linked back as a leaf with those stale bits. first_dirty then follows a stale bit to a NULL child, and dirty_seg writes nothing. Four steps reproduce it: populate 1, create 2 (dirty, right of 1), delete_save 1, restore. Item 2 then stays dirty after every dirty_seg. The trace performs no red-black rotation, so it holds for the real tree too. The same stale bit misleads writeback. `dirty_item_within(1, 2)` starts at clean item 1, whose RIGHT bit sends `next_dirty` into a NULL child, so no sync starts. An invalidate of [1, 2] then erases dirty item 2.

Each property of a passing run has a mutant in `PROJECT.json`: a plausible bug in one mapped definition, which TLC shows the property catches.

## Not modelled

- Red-black rebalancing. Its augmented rotate callback only recomputes words from children.
- `lookup_exact` and the value copy. A value's length is its only content here. Reading `lookup_exact` (item.c:864) against `copy_item_val` (item.c:159) shows a problem: a value longer than the caller's buffer is copied truncated, and `iov_len` is returned. So `lookup_exact` returns 0 for that size mismatch, although its comment promises -EIO. The model has no run for it.
- `has_dirty` and `dirty_fits_single`. They read the counters that DirtyAccounting checks, and `scoutfs_seg_fits_single` is outside `src/`.
- `destroy`, the `-ENOMEM` paths, and the `-EINVAL` lock-coverage checks. The coverage checks are advisory, and the model's lock covers every key.
- Keys with shared prefixes in `ItemCache`, where keys are naturals and the crossing test always holds. `ShrinkKeys` checks the shrinker's walk and cut over prefix keys on their own. That check is as good as the spec's account of `key_inc`/`key_dec`, which are outside `src/`.
- `scoutfs_item_invalidate`'s `-ENOMEM` return (item.c:2052) comes before anything is erased. What the lock layer does with it is outside `src/`. The model has no other node that writes the segments, so items kept under a dropped lock could not go stale in it.
- A commit between delete_save and restore. The restore comment asks only for the caller's locks. That the caller also holds its transaction is the `Saving` guard on `Commit`. Without that guard, the following sequence leaves a clean item that the segments no longer hold, which CacheCoherent rejects: delete_save of a clean persistent item, a commit that writes its deletion item, then restore.
- Iteration together with invalidation or the shrinker. Both break restore (findings 1 and 4), so the iterate/save run leaves them out.
